-------------------------- MODULE StreamReaderProofs --------------------------
(***************************************************************************)
(* Theorems about StreamReader, for any number of slots from five on, any  *)
(* length of a slot and any places and moves of the clip.  The last ones,  *)
(* on where the slots lie in the file, are about MCSpec, which remembers   *)
(* whether the clip was moved or its start has cut a slot.                 *)
(***************************************************************************)
EXTENDS MCStreamReader, FiniteSetTheorems, TLAPS

InHand == IF hand = NoSlot THEN {} ELSE {hand}
HandLen == IF hand = NoSlot THEN 0 ELSE 1

\* The audio thread holds a slot from the queue to its end of the cycle.
RingTypes ==
  /\ hand \in Slots \cup {NoSlot} /\ toFill \in Nat /\ isSeek \in BOOLEAN
  /\ audioPc \in {"idle", "dequeue", "judge", "release"}
  /\ hand # NoSlot <=> audioPc \in {"judge", "release"}

\* How the song and the sync status keep the audio thread and a seek apart: it
\* reads a ring that is in sync only, and is between two cycles from the moment
\* it has asked for the song's seek to the one the owner has heard of its end.
KeptApart ==
  /\ audioPc \in {"dequeue", "judge"} => status = "inSync"
  /\ phase \in {"seeking", "partial"} => status = "seeking"
  /\ isSeek => seek = "due" /\ phase # "none"
  /\ seek # "none" => songSeeks /\ ~locateRequested
  /\ songSeeks /\ ~locateRequested => audioPc = "idle"
  /\ locateRequested => songSeeks

\* The slots by name: each is in a queue or in hand.
Members == Queued(rt) \cup Queued(free) \cup InHand = Slots

\* And by number, so that none is in two places.
Ring ==
  /\ rt \in Seq(Slots) /\ free \in Seq(Slots)
  /\ Len(rt) + Len(free) + HandLen = SlotCount
  /\ Members

\* A fill has the free slots it needs; one of the audio thread's that comes
\* back later only adds to them.
Supplied ==
  /\ phase = "partial" => Len(free) >= SlotCount - 1
  /\ phase = "filling" => toFill >= 1 /\ toFill <= Len(free)

IInv == RingTypes /\ KeptApart /\ Ring /\ Supplied

-----------------------------------------------------------------------------
(* Queues.                                                                 *)

\* A queue loses its head.
LEMMA TakenFrom ==
  ASSUME NEW q \in Seq(Slots), q # <<>>
  PROVE  /\ Head(q) \in Slots /\ Tail(q) \in Seq(Slots) /\ Len(q) >= 1
         /\ Len(Tail(q)) = Len(q) - 1
         /\ Queued(q) = Queued(Tail(q)) \cup {Head(q)}
<1>1. /\ Head(q) \in Slots /\ Tail(q) \in Seq(Slots) /\ Len(q) >= 1
      /\ Len(Tail(q)) = Len(q) - 1
  OBVIOUS
<1>2. \A i \in DOMAIN Tail(q) : i + 1 \in DOMAIN q /\ Tail(q)[i] = q[i + 1]
  OBVIOUS
<1>3. \A i \in DOMAIN q : i = 1 \/ (i - 1 \in DOMAIN Tail(q) /\ q[i] = Tail(q)[i - 1])
  OBVIOUS
<1>4. 1 \in DOMAIN q /\ q[1] = Head(q)
  OBVIOUS
<1>5. Queued(q) \subseteq Queued(Tail(q)) \cup {Head(q)}
  <2>1. ASSUME NEW i \in DOMAIN q PROVE q[i] \in Queued(Tail(q)) \cup {Head(q)}
    <3>1. CASE i = 1
      BY <1>4, <3>1
    <3>2. CASE i - 1 \in DOMAIN Tail(q) /\ q[i] = Tail(q)[i - 1]
      BY <3>2 DEF Queued
    <3>3. QED
      BY <1>3, <3>1, <3>2
  <2>2. QED
    BY <2>1 DEF Queued
<1>6. Queued(Tail(q)) \cup {Head(q)} \subseteq Queued(q)
  BY <1>2, <1>4 DEF Queued
<1>7. QED
  BY <1>1, <1>5, <1>6

\* A queue gets one slot more.
LEMMA PutInto ==
  ASSUME NEW q \in Seq(Slots), NEW s \in Slots
  PROVE  /\ Append(q, s) \in Seq(Slots) /\ Len(Append(q, s)) = Len(q) + 1
         /\ Queued(Append(q, s)) = Queued(q) \cup {s}
<1>1. Append(q, s) \in Seq(Slots) /\ Len(Append(q, s)) = Len(q) + 1
  OBVIOUS
<1>2. \A i \in DOMAIN Append(q, s) :
        IF i = Len(q) + 1 THEN Append(q, s)[i] = s
                          ELSE i \in DOMAIN q /\ Append(q, s)[i] = q[i]
  OBVIOUS
<1>3. \A i \in DOMAIN q : i \in DOMAIN Append(q, s) /\ Append(q, s)[i] = q[i]
  OBVIOUS
<1>4. Len(q) + 1 \in DOMAIN Append(q, s) /\ Append(q, s)[Len(q) + 1] = s
  OBVIOUS
<1>5. Queued(Append(q, s)) \subseteq Queued(q) \cup {s}
  BY <1>2 DEF Queued
<1>6. Queued(q) \cup {s} \subseteq Queued(Append(q, s))
  BY <1>3, <1>4 DEF Queued
<1>7. QED
  BY <1>1, <1>5, <1>6

\* Two queues become one.
LEMMA Joined ==
  ASSUME NEW p \in Seq(Slots), NEW q \in Seq(Slots)
  PROVE  /\ p \o q \in Seq(Slots) /\ Len(p \o q) = Len(p) + Len(q)
         /\ Queued(p \o q) = Queued(p) \cup Queued(q)
<1>1. p \o q \in Seq(Slots) /\ Len(p \o q) = Len(p) + Len(q)
  OBVIOUS
<1>2. \A i \in DOMAIN (p \o q) :
        \/ i \in DOMAIN p /\ (p \o q)[i] = p[i]
        \/ i - Len(p) \in DOMAIN q /\ (p \o q)[i] = q[i - Len(p)]
  OBVIOUS
<1>3. \A i \in DOMAIN p : i \in DOMAIN (p \o q) /\ (p \o q)[i] = p[i]
  OBVIOUS
<1>4. \A i \in DOMAIN q : i + Len(p) \in DOMAIN (p \o q) /\ (p \o q)[i + Len(p)] = q[i]
  OBVIOUS
<1>5. Queued(p \o q) \subseteq Queued(p) \cup Queued(q)
  BY <1>2 DEF Queued
<1>6. Queued(p) \cup Queued(q) \subseteq Queued(p \o q)
  BY <1>3, <1>4 DEF Queued
<1>7. QED
  BY <1>1, <1>5, <1>6

\* A ring that was just made.
LEMMA MadeRing ==
  /\ <<>> \in Seq(Slots) /\ Places \in Seq(Slots)
  /\ Len(<<>>) = 0 /\ Len(Places) = SlotCount
  /\ Queued(<<>>) = {} /\ Queued(Places) = Slots
<1> USE ReaderAssumption DEF Places, Slots
<1>1. Places \in [1 .. SlotCount -> Slots]
  OBVIOUS
<1>2. Places \in Seq(Slots) /\ Len(Places) = SlotCount
  BY <1>1
<1>3. Queued(Places) = Slots
  BY <1>2 DEF Queued
<1>4. <<>> \in Seq(Slots) /\ Len(<<>>) = 0 /\ Queued(<<>>) = {}
  BY DEF Queued
<1>5. QED
  BY <1>2, <1>3, <1>4

-----------------------------------------------------------------------------
(* The steps.                                                              *)

\* What keeps the audio thread and the seek apart does so in every step.
LEMMA KeptApartStep ==
  ASSUME RingTypes, KeptApart, [Next]_vars
  PROVE  KeptApart'
<1> USE DEF KeptApart, ringVars, audioVars, songVars, stepVars
<1>1. CASE Gui
  BY <1>1 DEF Gui, StartTransport, StopTransport, Locate, SeekFinished, MoveClip, MuteClip
<1>2. CASE AudioThread
  BY <1>2 DEF RingTypes, AudioThread, InitiateSeek, StopRolling, CycleWithoutClip,
              CycleWithClip, CycleStarts, Reads, Dequeue, Underrun, Read, SkipSlot,
              FallOutOfSync, ReleaseOutOfSync, EndCycle
<1>3. CASE TakeSeek \/ MakeStep
  BY <1>3 DEF RingTypes, TakeSeek, MakeStep
<1>4. CASE Worker
  BY <1>4 DEF RingTypes, Worker, StepIsStale, BeginSeekStep, BeginResync, BeginRefill,
              SeekOutOfWindow, SeekInWindow, FillAborted, FillPartial, FillSlot,
              FillLastSlot, EndStep, GoesOn, StartFilling, Seeked
<1>5. CASE UNCHANGED vars
  BY <1>5 DEF vars
<1>6. QED
  BY <1>1, <1>2, <1>3, <1>4, <1>5 DEF Next

\* A slot goes from the free ones into the queue.
LEMMA QueueSlotKeepsRing ==
  ASSUME RingTypes, Ring, free # <<>>, QueueSlot(Head(free)), hand' = hand
  PROVE  Ring' /\ Len(free') = Len(free) - 1
<1>1. /\ Head(free) \in Slots /\ Tail(free) \in Seq(Slots) /\ Len(free) >= 1
      /\ Len(Tail(free)) = Len(free) - 1
      /\ Queued(free) = Queued(Tail(free)) \cup {Head(free)}
  BY TakenFrom DEF Ring
<1>2. /\ Append(rt, Head(free)) \in Seq(Slots)
      /\ Len(Append(rt, Head(free))) = Len(rt) + 1
      /\ Queued(Append(rt, Head(free))) = Queued(rt) \cup {Head(free)}
  BY <1>1, PutInto DEF Ring
<1>3. free' = Tail(free) /\ rt' = Append(rt, Head(free))
  BY DEF QueueSlot
<1>4. HandLen' = HandLen /\ InHand' = InHand /\ HandLen \in Int
  BY DEF HandLen, InHand
<1>5. Len(rt') + Len(free') + HandLen' = SlotCount
  BY <1>1, <1>2, <1>3, <1>4 DEF Ring
<1>6. Members'
  BY <1>1, <1>2, <1>3, <1>4 DEF Ring, Members, Slots
<1>7. QED
  BY <1>1, <1>2, <1>3, <1>5, <1>6 DEF Ring, Slots

\* The slot in hand becomes a free one.
LEMMA ReleaseKeepsRing ==
  ASSUME RingTypes, Ring, audioPc \in {"judge", "release"}, Release, rt' = rt,
         hand' = NoSlot
  PROVE  Ring' /\ Len(free') = Len(free) + 1
<1>1. hand \in Slots /\ hand # NoSlot
  BY DEF RingTypes, Slots, NoSlot
<1>2. /\ Append(free, hand) \in Seq(Slots)
      /\ Len(Append(free, hand)) = Len(free) + 1
      /\ Queued(Append(free, hand)) = Queued(free) \cup {hand}
  BY <1>1, PutInto DEF Ring
<1>3. free' = Append(free, hand)
  BY DEF Release
<1>4. HandLen = 1 /\ HandLen' = 0 /\ InHand = {hand} /\ InHand' = {}
  BY <1>1 DEF HandLen, InHand
<1>5. Len(rt') + Len(free') + HandLen' = SlotCount
  BY <1>2, <1>3, <1>4 DEF Ring
<1>6. Members'
  BY <1>2, <1>3, <1>4 DEF Ring, Members, Slots
<1>7. QED
  BY <1>2, <1>3, <1>5, <1>6 DEF Ring, Slots

\* The queue is emptied into the free slots.
LEMMA DrainKeepsRing ==
  ASSUME Ring, Drain, hand' = hand
  PROVE  Ring' /\ Len(free') >= SlotCount - 1
<1>1. /\ free \o rt \in Seq(Slots) /\ Len(free \o rt) = Len(free) + Len(rt)
      /\ Queued(free \o rt) = Queued(free) \cup Queued(rt)
  BY Joined DEF Ring
<1>2. free' = free \o rt /\ rt' = <<>>
  BY DEF Drain
<1>3. HandLen' = HandLen /\ InHand' = InHand /\ HandLen \in {0, 1}
  BY DEF HandLen, InHand
<1>4. <<>> \in Seq(Slots) /\ Len(<<>>) = 0 /\ Queued(<<>>) = {}
  BY MadeRing
<1>5. Len(rt') + Len(free') + HandLen' = SlotCount /\ Len(free') >= SlotCount - 1
  BY <1>1, <1>2, <1>3, <1>4 DEF Ring
<1>6. Members'
  BY <1>1, <1>2, <1>3, <1>4 DEF Ring, Members, Slots
<1>7. QED
  BY <1>1, <1>2, <1>4, <1>5, <1>6 DEF Ring, Slots

\* A seek at another rate makes the ring anew; the audio thread, between two
\* cycles, holds none of the old slots.
LEMMA NewRingIsRing ==
  ASSUME NewRing, hand = NoSlot, hand' = hand
  PROVE  Ring'
<1>1. rt' = <<>> /\ free' = Places
  BY DEF NewRing
<1>2. HandLen' = 0 /\ InHand' = {}
  BY DEF HandLen, InHand
<1>3. QED
  BY <1>1, <1>2, MadeRing, ReaderAssumption DEF Ring, Members, Slots

\* The audio thread takes a slot from the queue.
LEMMA DequeueKeepsRing ==
  ASSUME RingTypes, Ring, Dequeue
  PROVE  Ring' /\ hand' \in Slots \ {NoSlot}
<1>1. /\ Head(rt) \in Slots /\ Tail(rt) \in Seq(Slots) /\ Len(rt) >= 1
      /\ Len(Tail(rt)) = Len(rt) - 1
      /\ Queued(rt) = Queued(Tail(rt)) \cup {Head(rt)}
  BY TakenFrom DEF Ring, Dequeue
<1>2. hand' = Head(rt) /\ rt' = Tail(rt) /\ free' = free /\ hand' # NoSlot
  BY <1>1 DEF Dequeue, Slots, NoSlot
<1>3. HandLen = 0 /\ InHand = {} /\ HandLen' = 1 /\ InHand' = {hand'}
  BY <1>2 DEF HandLen, InHand, RingTypes, Dequeue
<1>4. Len(rt') + Len(free') + HandLen' = SlotCount
  BY <1>1, <1>2, <1>3 DEF Ring
<1>5. Members'
  BY <1>1, <1>2, <1>3 DEF Ring, Members, Slots
<1>6. QED
  BY <1>1, <1>2, <1>4, <1>5 DEF Ring, Slots

\* A step of the audio thread moves one slot at most, and takes no free one.
LEMMA AudioThreadStep ==
  ASSUME RingTypes, Ring, Supplied, AudioThread
  PROVE  RingTypes' /\ Ring' /\ Supplied'
<1> USE DEF audioVars, songVars, stepVars, ringVars
<1>0. Len(free) \in Nat /\ Len(rt) \in Nat
  BY DEF Ring
<1>1. CASE Dequeue
  <2>1. Ring' /\ hand' \in Slots \ {NoSlot}
    BY <1>1, DequeueKeepsRing
  <2>2. QED
    BY <1>1, <2>1 DEF Dequeue, RingTypes, Supplied, Slots
<1>2. CASE Read \/ SkipSlot \/ ReleaseOutOfSync
  <2>1. /\ audioPc \in {"judge", "release"} /\ Release /\ rt' = rt /\ hand' = NoSlot
        /\ audioPc' \in {"idle", "dequeue"} /\ UNCHANGED <<phase, toFill, isSeek>>
    BY <1>2 DEF Read, SkipSlot, ReleaseOutOfSync, EndCycle
  <2>2. Ring' /\ Len(free') = Len(free) + 1
    BY <2>1, ReleaseKeepsRing
  <2>3. QED
    BY <1>0, <2>1, <2>2, ReaderAssumption DEF RingTypes, Supplied, Slots
<1>3. CASE InitiateSeek \/ StopRolling \/ CycleWithoutClip \/ CycleWithClip \/ Underrun
           \/ FallOutOfSync
  <2>1. /\ UNCHANGED <<rt, free, hand, phase, toFill, isSeek>>
        /\ audioPc' \in {"idle", "dequeue", "judge", "release"}
        /\ (audioPc' \in {"judge", "release"}) <=> (audioPc \in {"judge", "release"})
    BY <1>3 DEF InitiateSeek, StopRolling, CycleWithoutClip, CycleWithClip, CycleStarts,
                Underrun, FallOutOfSync, EndCycle, RingTypes
  <2>2. HandLen' = HandLen /\ InHand' = InHand
    BY <2>1 DEF HandLen, InHand
  <2>3. QED
    BY <2>1, <2>2 DEF RingTypes, Ring, Members, Supplied, Slots, Queued
<1>4. QED
  BY <1>1, <1>2, <1>3 DEF AudioThread

\* A step of the worker that ends leaves nothing to fill.
LEMMA EndStepStep ==
  ASSUME RingTypes, Ring', EndStep, UNCHANGED <<audioPc, hand>>
  PROVE  RingTypes' /\ Ring' /\ Supplied'
  BY DEF RingTypes, EndStep, Supplied, Slots

\* A step that touches no slot leaves the ring as it is.
LEMMA RingUntouched ==
  ASSUME Ring, UNCHANGED <<rt, free, hand>>
  PROVE  Ring'
<1>1. HandLen' = HandLen /\ InHand' = InHand
  BY DEF HandLen, InHand
<1>2. QED
  BY <1>1 DEF Ring, Members, Slots, Queued

\* A step of the worker only fills what is free.
LEMMA WorkerStep ==
  ASSUME RingTypes, KeptApart, Ring, Supplied, Worker
  PROVE  RingTypes' /\ Ring' /\ Supplied'
<1> USE DEF audioVars, songVars, stepVars, ringVars
<1>0. Len(free) \in Nat /\ Len(rt) \in Nat
  BY DEF Ring
<1>1. CASE StepIsStale \/ SeekOutOfWindow \/ FillAborted
  <2>1. UNCHANGED <<rt, free, hand, audioPc>> /\ EndStep
    BY <1>1 DEF StepIsStale, SeekOutOfWindow, FillAborted
  <2>2. QED
    BY <2>1, RingUntouched, EndStepStep
<1>2. CASE BeginSeekStep
  <2>1. hand = NoSlot
    BY <1>2 DEF BeginSeekStep, KeptApart, RingTypes
  <2>2. Ring'
    <3>1. CASE SameRing
      BY <1>2, <3>1, RingUntouched DEF BeginSeekStep, SameRing
    <3>2. CASE NewRing
      BY <1>2, <2>1, <3>2, NewRingIsRing DEF BeginSeekStep
    <3>3. QED
      BY <1>2, <3>1, <3>2 DEF BeginSeekStep
  <2>3. QED
    BY <1>2, <2>2 DEF BeginSeekStep, GoesOn, RingTypes, Supplied, Slots
<1>3. CASE BeginResync
  <2>1. Ring'
    BY <1>3, RingUntouched DEF BeginResync
  <2>2. QED
    BY <1>3, <2>1 DEF BeginResync, RingTypes, Supplied, Slots
<1>4. CASE BeginRefill
  <2>1. Ring' /\ UNCHANGED <<rt, free, hand, audioPc>>
    BY <1>4, RingUntouched DEF BeginRefill
  <2>2. CASE free = <<>>
    BY <1>4, <2>1, <2>2, EndStepStep DEF BeginRefill
  <2>3. CASE free # <<>>
    <3>1. Len(free) >= 1
      BY <2>3 DEF Ring
    <3>2. QED
      BY <1>0, <1>4, <2>1, <2>3, <3>1
      DEF BeginRefill, StartFilling, GoesOn, RingTypes, Supplied, Slots
  <2>4. QED
    BY <2>2, <2>3
<1>5. CASE SeekInWindow
  <2>1. Ring' /\ Len(free') >= SlotCount - 1
    BY <1>5, DrainKeepsRing DEF SeekInWindow
  <2>2. SlotsToFillAtSeek \in Nat /\ SlotsToFillAtSeek >= 1
        /\ SlotsToFillAtSeek <= SlotCount - 1
    BY ReaderAssumption DEF SlotsToFillAtSeek
  <2>3. Len(free') \in Nat /\ SlotCount \in Nat
    BY <2>1, ReaderAssumption DEF Ring
  <2>4. UNCHANGED <<hand, audioPc, isSeek>>
    BY <1>5 DEF SeekInWindow, Seeked, StartFilling, GoesOn
  <2>5. \/ phase' = "filling" /\ toFill' = SlotsToFillAtSeek
        \/ phase' = "partial" /\ toFill' = toFill
    BY <1>5 DEF SeekInWindow, Seeked, StartFilling
  <2>6. QED
    BY <2>1, <2>2, <2>3, <2>4, <2>5 DEF RingTypes, Supplied, Slots
<1>6. CASE FillPartial
  <2>1. Ring' /\ Len(free') = Len(free) - 1
    BY <1>6, QueueSlotKeepsRing DEF FillPartial
  <2>2. SlotsToFillAtSeek \in Nat /\ SlotsToFillAtSeek >= 1
        /\ SlotsToFillAtSeek <= SlotCount - 2
    BY ReaderAssumption DEF SlotsToFillAtSeek
  <2>3. Len(free) >= SlotCount - 1 /\ SlotCount \in Nat
    BY <1>6, ReaderAssumption DEF FillPartial, Supplied
  <2>4. UNCHANGED <<hand, audioPc, isSeek>> /\ phase' = "filling"
        /\ toFill' = SlotsToFillAtSeek
    BY <1>6 DEF FillPartial, Seeked, StartFilling, GoesOn
  <2>5. QED
    BY <1>0, <2>1, <2>2, <2>3, <2>4 DEF RingTypes, Supplied, Slots
<1>7. CASE FillSlot
  <2>1. Ring' /\ Len(free') = Len(free) - 1
    BY <1>7, QueueSlotKeepsRing DEF FillSlot
  <2>2. QED
    BY <1>0, <1>7, <2>1 DEF FillSlot, GoesOn, RingTypes, Supplied, Slots
<1>8. CASE FillLastSlot
  <2>1. Ring' /\ Len(free') = Len(free) - 1 /\ Len(free') \in Nat
    BY <1>0, <1>8, QueueSlotKeepsRing DEF FillLastSlot, Ring
  <2>2. UNCHANGED <<hand, audioPc>>
    BY <1>8 DEF FillLastSlot
  <2>3. CASE RefillsAfterSeek /\ free' # <<>>
    <3>1. Len(free') >= 1
      BY <2>1, <2>3 DEF Ring
    <3>2. phase' = "filling" /\ toFill' = Len(free') /\ UNCHANGED isSeek
      BY <1>8, <2>3 DEF FillLastSlot, StartFilling, GoesOn
    <3>3. QED
      BY <2>1, <2>2, <3>1, <3>2 DEF RingTypes, Supplied, Slots
  <2>4. CASE EndStep
    BY <2>1, <2>2, <2>4, EndStepStep
  <2>5. QED
    BY <1>8, <2>3, <2>4 DEF FillLastSlot
<1>9. QED
  BY <1>1, <1>2, <1>3, <1>4, <1>5, <1>6, <1>7, <1>8 DEF Worker

-----------------------------------------------------------------------------
(* The theorems.                                                           *)

\* prepare_ring_buffers() leaves a ring, with nothing under way.
LEMMA InvInit == Init => IInv
<1> SUFFICES ASSUME Init PROVE IInv
  OBVIOUS
<1>1. Ring
  BY MadeRing, ReaderAssumption DEF Init, Ring, HandLen, InHand, Members, NoSlot
<1>2. RingTypes /\ KeptApart /\ Supplied
  BY DEF Init, RingTypes, KeptApart, Supplied, NoSlot
<1>3. QED
  BY <1>1, <1>2 DEF IInv

\* Every step keeps it in order.
LEMMA InvStep == IInv /\ [Next]_vars => IInv'
<1> SUFFICES ASSUME IInv, [Next]_vars PROVE IInv'
  OBVIOUS
<1>1. KeptApart'
  BY KeptApartStep DEF IInv
<1>2. CASE AudioThread
  BY <1>1, <1>2, AudioThreadStep DEF IInv
<1>3. CASE Worker
  BY <1>1, <1>3, WorkerStep DEF IInv
<1>4. CASE Gui \/ TakeSeek \/ MakeStep \/ UNCHANGED vars
  <2>1. /\ UNCHANGED <<rt, free, hand, audioPc, toFill>>
        /\ isSeek' \in BOOLEAN /\ (phase' = phase \/ phase' = "made")
    BY <1>4 DEF Gui, StartTransport, StopTransport, Locate, SeekFinished, MoveClip, MuteClip,
                TakeSeek, MakeStep, vars, ringVars, audioVars, songVars, stepVars, IInv,
                RingTypes
  <2>2. Ring'
    BY <2>1, RingUntouched DEF IInv
  <2>3. QED
    BY <1>1, <2>1, <2>2 DEF IInv, RingTypes, Supplied, Slots
<1>5. QED
  BY <1>2, <1>3, <1>4 DEF Next

\* The inductive invariant holds throughout.
LEMMA InvHolds == Spec => []IInv
  BY InvInit, InvStep, PTL DEF Spec

\* The assertions of ringbuffer_read() and dequeue_from_rt_queue() hold: the
\* audio thread has left the queue before a seek empties it.
THEOREM AudioNeverInSeek == Spec => []AudioOutWhileSeeking
<1>1. IInv => AudioOutWhileSeeking
  BY DEF IInv, KeptApart, AudioOutWhileSeeking
<1>2. QED
  BY <1>1, InvHolds, PTL

\* FILL_DEQUEUE_FAILURE is never met, whatever the audio thread still holds
\* when a fill begins.
THEOREM FillsAreSupplied == Spec => []NoFillFailure
<1>1. IInv => NoFillFailure
  <2> SUFFICES ASSUME IInv, phase \in {"partial", "filling"} PROVE free # <<>>
    BY DEF NoFillFailure
  <2>1. Len(free) >= 1
    BY ReaderAssumption DEF IInv, Supplied, RingTypes, Ring
  <2>2. QED
    BY <2>1
<1>2. QED
  BY <1>1, InvHolds, PTL

\* By number and by name, no slot is lost or doubled.
LEMMA RingKeepsSlots == IInv => SlotsKept
<1> SUFFICES ASSUME IInv PROVE SlotsKept
  OBVIOUS
<1> DEFINE held == IF hand = NoSlot THEN <<>> ELSE <<hand>>
<1>1. held \in Seq(Slots) /\ Len(held) = HandLen /\ Queued(held) = InHand
  <2>1. CASE hand = NoSlot
    BY <2>1, MadeRing DEF HandLen, InHand
  <2>2. CASE hand # NoSlot
    <3>1. hand \in Slots
      BY <2>2 DEF IInv, RingTypes
    <3>2. held = Append(<<>>, hand)
      BY <2>2
    <3>3. QED
      <4>1. /\ Append(<<>>, hand) \in Seq(Slots)
            /\ Len(Append(<<>>, hand)) = Len(<<>>) + 1
            /\ Queued(Append(<<>>, hand)) = Queued(<<>>) \cup {hand}
        BY <3>1, MadeRing, PutInto
      <4>2. Len(held) = 1 /\ Queued(held) = {hand}
        BY <3>2, <4>1, MadeRing
      <4>3. QED
        BY <2>2, <3>2, <4>1, <4>2 DEF HandLen, InHand
  <2>3. QED
    BY <2>1, <2>2
<1>2. /\ rt \o free \in Seq(Slots) /\ Len(rt \o free) = Len(rt) + Len(free)
      /\ Queued(rt \o free) = Queued(rt) \cup Queued(free)
  BY Joined DEF IInv, Ring
<1>3. /\ Len((rt \o free) \o held) = Len(rt \o free) + Len(held)
      /\ Queued((rt \o free) \o held) = Queued(rt \o free) \cup Queued(held)
  BY <1>1, <1>2, Joined
<1>4. Len((rt \o free) \o held) = SlotCount /\ Queued((rt \o free) \o held) = Slots
  BY <1>1, <1>2, <1>3 DEF IInv, Ring, Members
<1>5. QED
  BY <1>4 DEF SlotsKept

\* No slot is lost or doubled, for any number of them.
THEOREM SlotsNeverLost == Spec => []SlotsKept
  BY RingKeepsSlots, InvHolds, PTL

-----------------------------------------------------------------------------
(* The types that the ring's invariant does not give.                      *)

Flags ==
  /\ {active, rolling, stopRequested, locateRequested} \subseteq BOOLEAN
  /\ {songSeeks, resume, refilling, stale} \subseteq BOOLEAN

States ==
  /\ status \in Statuses
  /\ seek \in {"none", "requested", "due", "answered"}
  /\ phase \in {"none", "made", "seeking", "partial", "filling"}

\* A cycle under way ends before the song's last location.
Positions ==
  /\ audioPc # "idle" => transport + SlotLength <= MaxLocation
  /\ window \in Windows
  /\ transport \in 0..MaxLocation /\ seekLocation \in 0..MaxLocation
  /\ target \in 0..MaxLocation
  /\ wanted \in Int /\ next \in Int /\ available \in Nat

Contents == fileLocation \in [Slots -> Int] /\ last \in Slots /\ fill \in 0..100

OtherTypes == Flags /\ States /\ Positions /\ Contents

\* Flags stay flags.
LEMMA FlagsStep ==
  ASSUME Flags, RingTypes, Next
  PROVE  Flags'
<1> USE DEF Flags, ringVars, audioVars, songVars, stepVars, EndStep, StartFilling, GoesOn, Seeked, EndCycle, CycleStarts
<1>1. ASSUME StartTransport PROVE Flags'
  BY <1>1 DEF StartTransport
<1>2. ASSUME StopTransport PROVE Flags'
  BY <1>2 DEF StopTransport
<1>3. ASSUME Locate PROVE Flags'
  BY <1>3 DEF Locate
<1>4. ASSUME SeekFinished PROVE Flags'
  BY <1>4 DEF SeekFinished
<1>5. ASSUME MoveClip PROVE Flags'
  BY <1>5 DEF MoveClip
<1>6. ASSUME MuteClip PROVE Flags'
  BY <1>6 DEF MuteClip
<1>7. ASSUME InitiateSeek PROVE Flags'
  BY <1>7 DEF InitiateSeek
<1>8. ASSUME StopRolling PROVE Flags'
  BY <1>8 DEF StopRolling
<1>9. ASSUME CycleWithoutClip PROVE Flags'
  BY <1>9 DEF CycleWithoutClip
<1>10. ASSUME CycleWithClip PROVE Flags'
  BY <1>10 DEF CycleWithClip
<1>11. ASSUME Dequeue PROVE Flags'
  BY <1>11 DEF Dequeue
<1>12. ASSUME Underrun PROVE Flags'
  BY <1>12 DEF Underrun
<1>13. ASSUME Read PROVE Flags'
  BY <1>13 DEF Read
<1>14. ASSUME SkipSlot PROVE Flags'
  BY <1>14 DEF SkipSlot
<1>15. ASSUME FallOutOfSync PROVE Flags'
  BY <1>15 DEF FallOutOfSync
<1>16. ASSUME ReleaseOutOfSync PROVE Flags'
  BY <1>16 DEF ReleaseOutOfSync
<1>17. ASSUME TakeSeek PROVE Flags'
  BY <1>17 DEF TakeSeek
<1>18. ASSUME MakeStep PROVE Flags'
  BY <1>18 DEF MakeStep
<1>19. ASSUME StepIsStale PROVE Flags'
  BY <1>19 DEF StepIsStale
<1>20. ASSUME BeginSeekStep PROVE Flags'
  BY <1>20 DEF BeginSeekStep
<1>21. ASSUME BeginResync PROVE Flags'
  BY <1>21 DEF BeginResync
<1>22. ASSUME BeginRefill PROVE Flags'
  BY <1>22 DEF BeginRefill
<1>23. ASSUME SeekOutOfWindow PROVE Flags'
  BY <1>23 DEF SeekOutOfWindow
<1>24. ASSUME SeekInWindow PROVE Flags'
  BY <1>24 DEF SeekInWindow
<1>25. ASSUME FillAborted PROVE Flags'
  BY <1>25 DEF FillAborted
<1>26. ASSUME FillPartial PROVE Flags'
  BY <1>26 DEF FillPartial
<1>27. ASSUME FillSlot PROVE Flags'
  BY <1>27 DEF FillSlot
<1>28. ASSUME FillLastSlot PROVE Flags'
  BY <1>28 DEF FillLastSlot
<1> HIDE DEF Flags
<1>29. QED
  BY <1>1, <1>2, <1>3, <1>4, <1>5, <1>6, <1>7, <1>8, <1>9, <1>10, <1>11, <1>12, <1>13, <1>14, <1>15, <1>16, <1>17, <1>18, <1>19, <1>20, <1>21, <1>22, <1>23, <1>24, <1>25, <1>26, <1>27, <1>28 DEF Next, Gui, AudioThread, Worker

\* The sync status, the seek and the step have a state each.
LEMMA StatesStep ==
  ASSUME States, Next
  PROVE  States'
<1> USE DEF States, Statuses, ringVars, audioVars, songVars, stepVars, EndStep, StartFilling, GoesOn, Seeked, EndCycle, CycleStarts
<1>1. ASSUME StartTransport PROVE States'
  BY <1>1 DEF StartTransport
<1>2. ASSUME StopTransport PROVE States'
  BY <1>2 DEF StopTransport
<1>3. ASSUME Locate PROVE States'
  BY <1>3 DEF Locate
<1>4. ASSUME SeekFinished PROVE States'
  BY <1>4 DEF SeekFinished
<1>5. ASSUME MoveClip PROVE States'
  BY <1>5 DEF MoveClip
<1>6. ASSUME MuteClip PROVE States'
  BY <1>6 DEF MuteClip
<1>7. ASSUME InitiateSeek PROVE States'
  BY <1>7 DEF InitiateSeek
<1>8. ASSUME StopRolling PROVE States'
  BY <1>8 DEF StopRolling
<1>9. ASSUME CycleWithoutClip PROVE States'
  BY <1>9 DEF CycleWithoutClip
<1>10. ASSUME CycleWithClip PROVE States'
  BY <1>10 DEF CycleWithClip
<1>11. ASSUME Dequeue PROVE States'
  BY <1>11 DEF Dequeue
<1>12. ASSUME Underrun PROVE States'
  BY <1>12 DEF Underrun
<1>13. ASSUME Read PROVE States'
  BY <1>13 DEF Read
<1>14. ASSUME SkipSlot PROVE States'
  BY <1>14 DEF SkipSlot
<1>15. ASSUME FallOutOfSync PROVE States'
  BY <1>15 DEF FallOutOfSync
<1>16. ASSUME ReleaseOutOfSync PROVE States'
  BY <1>16 DEF ReleaseOutOfSync
<1>17. ASSUME TakeSeek PROVE States'
  BY <1>17 DEF TakeSeek
<1>18. ASSUME MakeStep PROVE States'
  BY <1>18 DEF MakeStep
<1>19. ASSUME StepIsStale PROVE States'
  BY <1>19 DEF StepIsStale
<1>20. ASSUME BeginSeekStep PROVE States'
  BY <1>20 DEF BeginSeekStep
<1>21. ASSUME BeginResync PROVE States'
  BY <1>21 DEF BeginResync
<1>22. ASSUME BeginRefill PROVE States'
  BY <1>22 DEF BeginRefill
<1>23. ASSUME SeekOutOfWindow PROVE States'
  BY <1>23 DEF SeekOutOfWindow
<1>24. ASSUME SeekInWindow PROVE States'
  BY <1>24 DEF SeekInWindow
<1>25. ASSUME FillAborted PROVE States'
  BY <1>25 DEF FillAborted
<1>26. ASSUME FillPartial PROVE States'
  BY <1>26 DEF FillPartial
<1>27. ASSUME FillSlot PROVE States'
  BY <1>27 DEF FillSlot
<1>28. ASSUME FillLastSlot PROVE States'
  BY <1>28 DEF FillLastSlot
<1> HIDE DEF States
<1>29. QED
  BY <1>1, <1>2, <1>3, <1>4, <1>5, <1>6, <1>7, <1>8, <1>9, <1>10, <1>11, <1>12, <1>13, <1>14, <1>15, <1>16, <1>17, <1>18, <1>19, <1>20, <1>21, <1>22, <1>23, <1>24, <1>25, <1>26, <1>27, <1>28 DEF Next, Gui, AudioThread, Worker

\* Positions stay in the song, file locations stay numbers.
LEMMA PositionsStep ==
  ASSUME Positions, Contents, KeptApart, rt \in Seq(Slots), Next
  PROVE  Positions'
<1>a. /\ window.start \in Nat /\ SlotLength \in Nat \ {0} /\ SourceStart \in Nat
      /\ MaxLocation \in Nat /\ Locations \subseteq 0..MaxLocation
  BY ReaderAssumption DEF Positions
<1>b. SeekStart \in Int /\ SeekFileLocation \in Int /\ Modulus \in Int
  BY <1>a DEF SeekStart, SeekFileLocation, Modulus, Positions
<1>c. fileLocation[last] \in Int /\ AfterPartial \in Int /\ Len(rt) \in Nat
  BY <1>a DEF Contents, AfterPartial, Positions
<1> USE DEF Positions, ringVars, audioVars, songVars, stepVars, EndStep, StartFilling, GoesOn, Seeked, EndCycle, CycleStarts
<1>1. ASSUME CycleWithClip PROVE Positions'
  BY <1>a, <1>b, <1>c, <1>1 DEF CycleWithClip
<1>2. ASSUME CycleWithoutClip PROVE Positions'
  BY <1>a, <1>b, <1>c, <1>2 DEF CycleWithoutClip
<1>3. ASSUME Locate PROVE Positions'
  BY <1>a, <1>b, <1>c, <1>3 DEF Locate
<1>4. ASSUME SeekInWindow PROVE Positions'
  BY <1>a, <1>b, <1>c, <1>4 DEF SeekInWindow
<1>5. ASSUME FillPartial PROVE Positions'
  BY <1>a, <1>b, <1>c, <1>5 DEF FillPartial
<1>6. ASSUME BeginRefill PROVE Positions'
  BY <1>a, <1>b, <1>c, <1>6 DEF BeginRefill
<1>7. ASSUME FillSlot PROVE Positions'
  BY <1>a, <1>b, <1>c, <1>7 DEF FillSlot
<1>8. ASSUME FillLastSlot PROVE Positions'
  BY <1>a, <1>b, <1>c, <1>8 DEF FillLastSlot
<1>9. ASSUME Read PROVE Positions'
  BY <1>a, <1>b, <1>c, <1>9 DEF Read
<1>10. ASSUME Underrun PROVE Positions'
  BY <1>a, <1>b, <1>c, <1>10 DEF Underrun
<1>11. ASSUME ReleaseOutOfSync PROVE Positions'
  BY <1>a, <1>b, <1>c, <1>11 DEF ReleaseOutOfSync
<1>12. ASSUME MakeStep PROVE Positions'
  BY <1>a, <1>b, <1>c, <1>12 DEF MakeStep
<1>13. ASSUME StartTransport PROVE Positions'
  BY <1>13 DEF StartTransport
<1>14. ASSUME StopTransport PROVE Positions'
  BY <1>14 DEF StopTransport
<1>15. ASSUME SeekFinished PROVE Positions'
  BY <1>15 DEF SeekFinished
<1>16. ASSUME MoveClip PROVE Positions'
  BY <1>16 DEF MoveClip
<1>17. ASSUME MuteClip PROVE Positions'
  BY <1>17 DEF MuteClip
<1>18. ASSUME InitiateSeek PROVE Positions'
  BY <1>18 DEF InitiateSeek
<1>19. ASSUME StopRolling PROVE Positions'
  BY <1>19 DEF StopRolling
<1>20. ASSUME Dequeue PROVE Positions'
  BY <1>20 DEF Dequeue
<1>21. ASSUME SkipSlot PROVE Positions'
  BY <1>21 DEF SkipSlot
<1>22. ASSUME FallOutOfSync PROVE Positions'
  BY <1>22 DEF FallOutOfSync
<1>23. ASSUME TakeSeek PROVE Positions'
  BY <1>23 DEF TakeSeek, KeptApart
<1>24. ASSUME StepIsStale PROVE Positions'
  BY <1>a, <1>24 DEF StepIsStale
<1>25. ASSUME BeginSeekStep PROVE Positions'
  BY <1>25 DEF BeginSeekStep
<1>26. ASSUME BeginResync PROVE Positions'
  BY <1>26 DEF BeginResync
<1>27. ASSUME SeekOutOfWindow PROVE Positions'
  BY <1>a, <1>27 DEF SeekOutOfWindow
<1>28. ASSUME FillAborted PROVE Positions'
  BY <1>a, <1>28 DEF FillAborted
<1> HIDE DEF Positions
<1>29. QED
  BY <1>1, <1>2, <1>3, <1>4, <1>5, <1>6, <1>7, <1>8, <1>9, <1>10, <1>11, <1>12, <1>13, <1>14, <1>15, <1>16, <1>17, <1>18, <1>19, <1>20, <1>21, <1>22, <1>23, <1>24, <1>25, <1>26, <1>27, <1>28 DEF Next, Gui, AudioThread, Worker

\* A part of a number, in percent.
LEMMA PercentageOf ==
  ASSUME NEW m \in Nat \ {0}, NEW n \in 0..m
  PROVE  (n * 100) \div m \in 0..100
  OBVIOUS

\* The fill is a percentage.
LEMMA FillIsPercentage ==
  ASSUME Ring, RingTypes
  PROVE  FillOf(free) \in 0..100
<1>1. Len(free) \in 0..SlotCount /\ SlotCount \in Nat \ {0}
  BY ReaderAssumption DEF Ring, RingTypes, HandLen
<1>2. (Len(free) * 100) \div SlotCount \in 0..100
  BY <1>1, PercentageOf
<1> DEFINE used == (Len(free) * 100) \div SlotCount
<1>3. FillOf(free) = 100 - used \/ FillOf(free) = 100
  BY Zenon DEF FillOf
<1> HIDE DEF used
<1>4. used \in 0..100
  BY <1>2, Zenon DEF used
<1>5. QED
  BY <1>3, <1>4, SMT

\* The slots hold pieces of the file, and the last queued slot is one of them.
LEMMA ContentsStep ==
  ASSUME Contents, Positions, Ring, RingTypes, Next
  PROVE  Contents'
<1>a. FillOf(free) \in 0..100
  BY FillIsPercentage
<1>b. /\ window.start \in Nat /\ SlotLength \in Nat \ {0} /\ SourceStart \in Nat
      /\ SlotCount \in Slots
  BY ReaderAssumption DEF Positions, Slots
<1>c. SeekFileLocation \in Int /\ AfterPartial \in Int
  BY <1>b DEF SeekStart, SeekFileLocation, AfterPartial, Positions
<1>d. free # <<>> => Head(free) \in Slots
  BY DEF Ring
<1> USE DEF Contents, ringVars, audioVars, songVars, stepVars, EndStep, StartFilling, GoesOn, Seeked, QueueSlot, EndCycle
<1>1. ASSUME StepIsStale PROVE Contents'
  BY <1>a, <1>b, <1>c, <1>d, <1>1 DEF StepIsStale
<1>2. ASSUME BeginSeekStep PROVE Contents'
  BY <1>a, <1>b, <1>2 DEF BeginSeekStep, SameRing, NewRing
<1>3. ASSUME BeginResync PROVE Contents'
  BY <1>a, <1>b, <1>c, <1>d, <1>3 DEF BeginResync
<1>4. ASSUME BeginRefill PROVE Contents'
  BY <1>a, <1>b, <1>c, <1>d, <1>4 DEF BeginRefill
<1>5. ASSUME MakeStep PROVE Contents'
  BY <1>a, <1>b, <1>c, <1>d, <1>5 DEF MakeStep
<1>6. ASSUME SeekInWindow PROVE Contents'
  BY <1>a, <1>b, <1>c, <1>d, <1>6 DEF SeekInWindow
<1>7. ASSUME FillPartial PROVE Contents'
  BY <1>c, <1>d, <1>7 DEF FillPartial, Positions
<1>8. ASSUME FillSlot PROVE Contents'
  BY <1>d, <1>8 DEF FillSlot, Positions
<1>9. ASSUME FillLastSlot PROVE Contents'
  BY <1>d, <1>9 DEF FillLastSlot, Positions
<1>10. ASSUME StartTransport PROVE Contents'
  BY <1>10 DEF StartTransport
<1>11. ASSUME StopTransport PROVE Contents'
  BY <1>11 DEF StopTransport
<1>12. ASSUME Locate PROVE Contents'
  BY <1>12 DEF Locate
<1>13. ASSUME SeekFinished PROVE Contents'
  BY <1>13 DEF SeekFinished
<1>14. ASSUME MoveClip PROVE Contents'
  BY <1>14 DEF MoveClip
<1>15. ASSUME MuteClip PROVE Contents'
  BY <1>15 DEF MuteClip
<1>16. ASSUME InitiateSeek PROVE Contents'
  BY <1>16 DEF InitiateSeek
<1>17. ASSUME StopRolling PROVE Contents'
  BY <1>17 DEF StopRolling
<1>18. ASSUME CycleWithoutClip PROVE Contents'
  BY <1>18 DEF CycleWithoutClip
<1>19. ASSUME CycleWithClip PROVE Contents'
  BY <1>19 DEF CycleWithClip
<1>20. ASSUME Dequeue PROVE Contents'
  BY <1>20 DEF Dequeue
<1>21. ASSUME Underrun PROVE Contents'
  BY <1>21 DEF Underrun
<1>22. ASSUME Read PROVE Contents'
  BY <1>22 DEF Read
<1>23. ASSUME SkipSlot PROVE Contents'
  BY <1>23 DEF SkipSlot
<1>24. ASSUME FallOutOfSync PROVE Contents'
  BY <1>24 DEF FallOutOfSync
<1>25. ASSUME ReleaseOutOfSync PROVE Contents'
  BY <1>25 DEF ReleaseOutOfSync
<1>26. ASSUME TakeSeek PROVE Contents'
  BY <1>26 DEF TakeSeek
<1>27. ASSUME SeekOutOfWindow PROVE Contents'
  BY <1>27 DEF SeekOutOfWindow
<1>28. ASSUME FillAborted PROVE Contents'
  BY <1>28 DEF FillAborted
<1> HIDE DEF Contents
<1>29. QED
  BY <1>1, <1>2, <1>3, <1>4, <1>5, <1>6, <1>7, <1>8, <1>9, <1>10, <1>11, <1>12, <1>13, <1>14, <1>15, <1>16, <1>17, <1>18, <1>19, <1>20, <1>21, <1>22, <1>23, <1>24, <1>25, <1>26, <1>27, <1>28 DEF Next, Gui, AudioThread, Worker

LEMMA OtherTypesInit == Init => OtherTypes
<1> SUFFICES ASSUME Init PROVE OtherTypes
  OBVIOUS
<1>1. SlotCount \in Slots /\ 0 \in 0..MaxLocation
  BY ReaderAssumption DEF Slots
<1>2. Flags
  BY DEF Init, Flags
<1>3. States
  BY DEF Init, States, Statuses
<1>4. Positions
  BY <1>1 DEF Init, Positions
<1>5. Contents
  BY <1>1 DEF Init, Contents
<1>6. QED
  BY <1>2, <1>3, <1>4, <1>5 DEF OtherTypes

LEMMA OtherTypesStep == IInv /\ OtherTypes /\ [Next]_vars => OtherTypes'
<1> SUFFICES ASSUME IInv, OtherTypes, [Next]_vars PROVE OtherTypes'
  OBVIOUS
<1>1. CASE Next
  BY <1>1, FlagsStep, StatesStep, PositionsStep, ContentsStep DEF IInv, OtherTypes, Ring
<1>2. CASE UNCHANGED vars
  BY <1>2 DEF vars, ringVars, audioVars, songVars, stepVars, OtherTypes, Flags, States,
     Positions, Contents
<1>3. QED
  BY <1>1, <1>2

\* Every variable keeps its type, also the fill, a percentage of the ring, and
\* the transport, which a seek never takes out of the song.
THEOREM TypesHold == Spec => []TypeOK
<1>1. IInv /\ OtherTypes => TypeOK
  BY DEF IInv, Ring, RingTypes, OtherTypes, Flags, States, Positions, Contents, TypeOK
<1>2. QED
  BY <1>1, InvHolds, OtherTypesInit, OtherTypesStep, PTL DEF Spec

-----------------------------------------------------------------------------
(* Locations that are whole slots apart.                                   *)

WholeSlots(a, b) == (a - b) % SlotLength = 0

\* The remainder is zero where the slot's length divides.
LEMMA WholeSlotsIs ==
  ASSUME NEW a \in Int, NEW b \in Int
  PROVE  WholeSlots(a, b) <=> \E k \in Int : a - b = k * SlotLength
<1>0. a - b \in Int /\ SlotLength \in Nat \ {0}
  BY ReaderAssumption
<1>1. ASSUME WholeSlots(a, b) PROVE \E k \in Int : a - b = k * SlotLength
  <2>1. /\ (a - b) \div SlotLength \in Int
        /\ a - b = ((a - b) \div SlotLength) * SlotLength + ((a - b) % SlotLength)
    BY <1>0
  <2>2. a - b = ((a - b) \div SlotLength) * SlotLength
    BY <1>0, <1>1, <2>1 DEF WholeSlots
  <2>3. QED
    BY <2>1, <2>2
<1>2. ASSUME NEW k \in Int, a - b = k * SlotLength PROVE WholeSlots(a, b)
  BY <1>0, <1>2 DEF WholeSlots
<1>3. QED
  BY <1>1, <1>2

\* To be whole slots apart is an equivalence.
LEMMA WholeSlotsBack ==
  ASSUME NEW a \in Int, NEW b \in Int
  PROVE  /\ WholeSlots(a, a)
         /\ WholeSlots(a, b) => WholeSlots(b, a)
<1>0. SlotLength \in Nat \ {0}
  BY ReaderAssumption
<1>1. WholeSlots(a, a)
  <2>1. a - a = 0 * SlotLength
    BY <1>0
  <2>2. QED
    BY <2>1, WholeSlotsIs
<1>2. ASSUME WholeSlots(a, b) PROVE WholeSlots(b, a)
  <2>1. PICK k \in Int : a - b = k * SlotLength
    BY <1>2, WholeSlotsIs
  <2>2. b - a = (-k) * SlotLength /\ -k \in Int
    BY <1>0, <2>1
  <2>3. QED
    BY <2>2, WholeSlotsIs
<1>3. QED
  BY <1>1, <1>2

LEMMA WholeSlotsOn ==
  ASSUME NEW a \in Int, NEW b \in Int, NEW c \in Int, WholeSlots(a, b), WholeSlots(b, c)
  PROVE  WholeSlots(a, c)
<1>1. PICK k \in Int : a - b = k * SlotLength
  BY WholeSlotsIs
<1>2. PICK j \in Int : b - c = j * SlotLength
  BY WholeSlotsIs
<1>3. a - c = (k + j) * SlotLength /\ k + j \in Int
  BY <1>1, <1>2, ReaderAssumption
<1>4. QED
  BY <1>3, WholeSlotsIs

\* So is the next slot from this one.
LEMMA WholeSlotsNext ==
  ASSUME NEW a \in Int
  PROVE  a + SlotLength \in Int /\ WholeSlots(a + SlotLength, a) /\ WholeSlots(a, a + SlotLength)
<1>1. (a + SlotLength) - a = 1 * SlotLength /\ a + SlotLength \in Int
  BY ReaderAssumption
<1>2. WholeSlots(a + SlotLength, a)
  BY <1>1, WholeSlotsIs
<1>3. QED
  BY <1>1, <1>2, WholeSlotsBack

\* And two places that have gone the same way.
LEMMA WholeSlotsShifted ==
  ASSUME NEW a \in Int, NEW b \in Int, NEW c \in Int, WholeSlots(a, b)
  PROVE  WholeSlots(a + c, b + c)
<1>1. (a + c) - (b + c) = a - b
  OBVIOUS
<1>2. QED
  BY <1>1, Zenon DEF WholeSlots

\* What is left of a distance beyond whole slots.
LEMMA WithoutRest ==
  ASSUME NEW a \in Int, NEW b \in Int
  PROVE  /\ (a - b) % SlotLength \in Int
         /\ WholeSlots(a - ((a - b) % SlotLength), b)
<1>0. a - b \in Int /\ SlotLength \in Nat \ {0}
  BY ReaderAssumption
<1>1. /\ (a - b) \div SlotLength \in Int /\ (a - b) % SlotLength \in Int
      /\ a - b = ((a - b) \div SlotLength) * SlotLength + ((a - b) % SlotLength)
  BY <1>0
<1>2. PICK r \in Int : r = (a - b) % SlotLength
  BY <1>1
<1>3. (a - r) - b = ((a - b) \div SlotLength) * SlotLength /\ a - r \in Int
  BY <1>0, <1>1, <1>2
<1>4. WholeSlots(a - r, b)
  BY <1>1, <1>3, WholeSlotsIs
<1>5. QED
  BY <1>2, <1>4, Zenon

-----------------------------------------------------------------------------
(* Where the song's seek leaves the song and the worker.                   *)

\* From the song's seek to its end the song is where it was located to, and so
\* is the target of the step that answers, or follows it.  A step from before
\* the seek is told to stop, unless it has begun a seek of its own since.
SeekPlaces ==
  /\ seek \in {"due", "answered"} => transport = seekLocation
  /\ stale => seek = "due" /\ ~isSeek
  /\ phase = "made" /\ ~isSeek /\ ~stale => seek # "due"
  /\ phase # "none" /\ (isSeek \/ seek = "answered") => target = seekLocation

LEMMA SeekPlacesInit == Init => SeekPlaces
  BY DEF Init, SeekPlaces

LEMMA SeekPlacesStep ==
  ASSUME IInv, OtherTypes, SeekPlaces, [Next]_vars
  PROVE  SeekPlaces'
<1> USE DEF SeekPlaces, ringVars, audioVars, songVars, stepVars
<1>a. /\ seek # "none" => songSeeks /\ ~locateRequested
      /\ songSeeks /\ ~locateRequested => audioPc = "idle"
      /\ isSeek => seek = "due" /\ phase # "none"
      /\ audioPc = "idle" => hand = NoSlot
      /\ isSeek \in BOOLEAN /\ stale \in BOOLEAN
      /\ seek \in {"none", "requested", "due", "answered"}
  BY DEF IInv, KeptApart, RingTypes, OtherTypes, Flags, States, Slots, NoSlot
<1>1. CASE Gui
  BY <1>1, <1>a DEF Gui, StartTransport, StopTransport, Locate, SeekFinished, MoveClip,
              MuteClip
<1>2. CASE InitiateSeek \/ StopRolling \/ CycleWithoutClip \/ CycleWithClip
  BY <1>2, <1>a DEF InitiateSeek, StopRolling, CycleWithoutClip, CycleWithClip, CycleStarts
<1>3. CASE Dequeue \/ SkipSlot \/ FallOutOfSync
  BY <1>3 DEF Dequeue, SkipSlot, FallOutOfSync
<1>4. CASE Underrun \/ Read \/ ReleaseOutOfSync
  BY <1>4, <1>a DEF Underrun, Read, ReleaseOutOfSync, EndCycle
<1>5. CASE TakeSeek \/ MakeStep
  <2>1. CASE TakeSeek
    <3>1. stale' <=> phase # "none"
      BY <2>1 DEF TakeSeek
    <3>2. /\ seek = "requested" /\ seek' = "due" /\ transport' = seekLocation
          /\ UNCHANGED <<seekLocation, phase, isSeek, target>>
      BY <2>1 DEF TakeSeek
    <3>3. ~isSeek
      BY <1>a, <3>2
    <3>4. QED
      BY <3>1, <3>2, <3>3
  <2>2. CASE MakeStep
    <3>1. isSeek' <=> seek = "due"
      BY <2>2 DEF MakeStep
    <3>2. /\ target' = IF seek = "due" THEN seekLocation ELSE transport
          /\ phase' = "made" /\ stale' = FALSE
          /\ UNCHANGED <<transport, seekLocation, seek>>
      BY <2>2 DEF MakeStep
    <3>3. QED
      BY <3>1, <3>2
  <2>3. QED
    BY <1>5, <2>1, <2>2
<1>6. CASE StepIsStale \/ SeekOutOfWindow \/ FillAborted
  <2>1. EndStep /\ UNCHANGED <<transport, seekLocation>>
    BY <1>6 DEF StepIsStale, SeekOutOfWindow, FillAborted
  <2>2. phase' = "none" /\ ~isSeek' /\ ~stale'
    BY <2>1 DEF EndStep
  <2>3. seek' \in {"due", "answered"} => seek \in {"due", "answered"}
    BY <1>a, <2>1 DEF EndStep
  <2>4. QED
    BY <2>1, <2>2, <2>3
<1>7. CASE BeginSeekStep \/ BeginResync
  BY <1>7, <1>a DEF BeginSeekStep, BeginResync, GoesOn
<1>8. CASE BeginRefill
  BY <1>8, <1>a DEF BeginRefill, EndStep, StartFilling, GoesOn
<1>9. CASE SeekInWindow \/ FillPartial \/ FillSlot
  BY <1>9, <1>a DEF SeekInWindow, FillPartial, FillSlot, Seeked, StartFilling, GoesOn
<1>10. CASE FillLastSlot
  BY <1>10, <1>a DEF FillLastSlot, EndStep, StartFilling, GoesOn
<1>11. CASE UNCHANGED vars
  BY <1>11 DEF vars
<1>12. QED
  BY <1>1, <1>2, <1>3, <1>4, <1>5, <1>6, <1>7, <1>8, <1>9, <1>10, <1>11
  DEF Next, AudioThread, Worker

-----------------------------------------------------------------------------
(* The slots on the grid of the audio thread's cycles.                     *)

\* What the audio thread asks for next, once the song reaches the clip: its
\* cycles ask for the places whole slots from here.
Here == transport - window.start + SourceStart
OnGrid(f) == WholeSlots(f, Here)

\* What the stream holds, or the step under way makes it hold, is what the
\* audio thread will read: no song's seek is about to change the place.
Believed == seek # "due" \/ isSeek

TargetOnGrid == phase # "none" /\ Believed => WholeSlots(transport, target)
FillsOnGrid ==
  /\ phase = "partial" /\ Believed => rt = <<>>
  /\ phase \in {"partial", "filling"} /\ Believed => OnGrid(next)
SlotsOnGrid ==
  (status = "inSync" /\ seek # "due") \/ (phase = "filling" /\ Believed) =>
    OnGrid(fileLocation[last]) /\ \A i \in DOMAIN rt : OnGrid(fileLocation[rt[i]])

Gridded == TargetOnGrid /\ FillsOnGrid /\ SlotsOnGrid

\* Locations are numbers.
LocationTypes ==
  /\ SlotLength \in Nat \ {0} /\ SourceStart \in Nat /\ window.start \in Nat
  /\ transport \in Nat /\ target \in Nat /\ seekLocation \in Nat /\ next \in Int
  /\ fileLocation \in [Slots -> Int] /\ last \in Slots
  /\ rt \in Seq(Slots) /\ free \in Seq(Slots)
  /\ Here \in Int

LEMMA LocationsTyped == IInv /\ OtherTypes => LocationTypes
<1> SUFFICES ASSUME IInv, OtherTypes PROVE LocationTypes
  OBVIOUS
<1>1. window \in [start: Nat, end: Nat]
  BY ReaderAssumption DEF OtherTypes, Positions
<1>2. QED
  BY <1>1, ReaderAssumption DEF IInv, Ring, OtherTypes, Positions, Contents, LocationTypes,
     Here

\* A slot joins a queue of slots on the grid.
LEMMA QueueOnGrid ==
  ASSUME LocationTypes, NEW s \in Slots, NEW f \in Int, WholeSlots(f, Here),
         \A i \in DOMAIN rt : OnGrid(fileLocation[rt[i]]),
         rt' = Append(rt, s), fileLocation' \in [Slots -> Int], fileLocation'[s] = f,
         \A z \in Slots : fileLocation'[z] = fileLocation[z] \/ OnGrid(fileLocation'[z])
  PROVE  \A i \in DOMAIN rt' : WholeSlots(fileLocation'[rt'[i]], Here)
<1> SUFFICES ASSUME NEW i \in DOMAIN rt'
             PROVE  WholeSlots(fileLocation'[rt'[i]], Here)
  OBVIOUS
<1>1. IF i = Len(rt) + 1 THEN rt'[i] = s
      ELSE i \in DOMAIN rt /\ rt'[i] = rt[i] /\ rt[i] \in Slots
  BY DEF LocationTypes
<1>2. CASE i = Len(rt) + 1
  BY <1>1, <1>2
<1>3. CASE i # Len(rt) + 1
  <2>1. i \in DOMAIN rt /\ rt'[i] = rt[i] /\ rt[i] \in Slots
    BY <1>1, <1>3
  <2>2. WholeSlots(fileLocation[rt[i]], Here)
    BY <2>1 DEF OnGrid
  <2>3. QED
    BY <2>1, <2>2 DEF OnGrid
<1>4. QED
  BY <1>2, <1>3

\* The song rolls on by one slot: the grid stays where it is.
LEMMA GridRollsOn ==
  ASSUME LocationTypes, transport' = transport + SlotLength, window' = window
  PROVE  \A f \in Int : WholeSlots(f, Here) => WholeSlots(f, Here')
<1>1. Here' = Here + SlotLength /\ Here' \in Int
  BY DEF Here, LocationTypes
<1>2. ASSUME NEW f \in Int, WholeSlots(f, Here) PROVE WholeSlots(f, Here')
  <2>1. Here \in Int /\ WholeSlots(Here, Here')
    BY <1>1, WholeSlotsNext DEF LocationTypes
  <2>2. QED
    BY <1>1, <1>2, <2>1, WholeSlotsOn
<1>3. QED
  BY <1>2

\* Where a seek starts to read the file is on the grid of its target, also for
\* a clip that starts within a slot of it.
LEMMA SeekStartsOnGrid ==
  ASSUME LocationTypes, WholeSlots(transport, target)
  PROVE  /\ SeekFileLocation \in Int /\ Modulus \in Int
         /\ OnGrid(SeekFileLocation - Modulus)
<1> DEFINE there == target - window.start + SourceStart
<1>1. SeekStart \in Int /\ SeekFileLocation \in Int /\ there \in Int
      /\ SeekFileLocation - there = SeekStart - target
  BY DEF LocationTypes, SeekStart, SeekFileLocation
<1>2. SeekStart - target = SeekFileLocation - there /\ SeekStart - target \in Int
  BY <1>1 DEF LocationTypes
<1>3. Modulus = (SeekFileLocation - there) % SlotLength
  BY <1>2 DEF Modulus
<1> HIDE DEF there
<1>4. Modulus \in Int /\ WholeSlots(SeekFileLocation - Modulus, there)
  BY <1>1, <1>3, WithoutRest
<1>5. Here = transport + (SourceStart - window.start)
      /\ there = target + (SourceStart - window.start) /\ SourceStart - window.start \in Int
  BY DEF LocationTypes, Here, there
<1>6. WholeSlots(there, Here)
  <2>0. target \in Int /\ transport \in Int
    BY DEF LocationTypes
  <2>1. WholeSlots(target, transport)
    BY <2>0, WholeSlotsBack
  <2>2. PICK c \in Int : c = SourceStart - window.start
    BY <1>5
  <2>3. WholeSlots(target + c, transport + c)
    BY <2>0, <2>1, WholeSlotsShifted
  <2>4. QED
    BY <1>5, <2>2, <2>3
<1>7. SeekFileLocation - Modulus \in Int
  BY <1>1, <1>4
<1>8. QED
  BY <1>1, <1>4, <1>6, <1>7, WholeSlotsOn DEF LocationTypes, OnGrid

\* The slot after one on the grid is on the grid.
LEMMA NextOnGrid ==
  ASSUME LocationTypes, NEW f \in Int, OnGrid(f)
  PROVE  f + SlotLength \in Int /\ OnGrid(f + SlotLength)
<1>1. f + SlotLength \in Int /\ WholeSlots(f + SlotLength, f)
  BY WholeSlotsNext
<1>2. QED
  BY <1>1, WholeSlotsOn DEF LocationTypes, OnGrid

\* The audio thread and the GUI: slots are taken, the song rolls on or is
\* located elsewhere.
LEMMA GriddedOutside ==
  ASSUME IInv, LocationTypes, SeekPlaces, Gridded, window' = window,
         Gui \/ AudioThread \/ TakeSeek
  PROVE  Gridded'
<1> USE DEF ringVars, audioVars, songVars, stepVars
<1>a. /\ seek # "none" => songSeeks /\ ~locateRequested
      /\ songSeeks /\ ~locateRequested => audioPc = "idle"
      /\ isSeek => seek = "due" /\ phase # "none"
  BY DEF IInv, KeptApart
<1>1. CASE UNCHANGED <<rt, fileLocation, last, status, transport, phase, isSeek, target,
                       next>> /\ (seek' = "due" <=> seek = "due")
  BY <1>1 DEF Gridded, TargetOnGrid, FillsOnGrid, SlotsOnGrid, Believed, OnGrid, Here
<1>2. CASE CycleWithoutClip \/ Underrun \/ Read \/ ReleaseOutOfSync
  <2>1. /\ UNCHANGED <<rt, fileLocation, last, status, seek, phase, isSeek, target, next>>
        /\ transport' = transport + SlotLength
    BY <1>2 DEF CycleWithoutClip, Underrun, Read, ReleaseOutOfSync, EndCycle
  <2>2. \A f \in Int : WholeSlots(f, Here) => WholeSlots(f, Here')
    BY <2>1, GridRollsOn
  <2>3. TargetOnGrid'
    <3>1. WholeSlots(transport, target) => WholeSlots(transport', target)
      <4>1. transport \in Int /\ target \in Int
        BY DEF LocationTypes
      <4>2. transport' \in Int /\ WholeSlots(transport', transport)
        BY <2>1, <4>1, WholeSlotsNext
      <4>3. QED
        BY <4>1, <4>2, WholeSlotsOn
    <3>2. QED
      BY <2>1, <3>1 DEF Gridded, TargetOnGrid, Believed
  <2>4. FillsOnGrid'
    BY <2>1, <2>2 DEF Gridded, FillsOnGrid, Believed, OnGrid, LocationTypes
  <2>5. SlotsOnGrid'
    <3>1. \A i \in DOMAIN rt : fileLocation[rt[i]] \in Int
      BY DEF LocationTypes
    <3>2. fileLocation[last] \in Int
      BY DEF LocationTypes
    <3>3. QED
      BY <2>1, <2>2, <3>1, <3>2 DEF Gridded, SlotsOnGrid, Believed, OnGrid
  <2>6. QED
    BY <2>3, <2>4, <2>5 DEF Gridded
<1>3. CASE Dequeue
  <2>1. /\ UNCHANGED <<fileLocation, last, status, transport, seek, phase, isSeek, target,
                       next>>
        /\ rt # <<>> /\ rt' = Tail(rt)
    BY <1>3 DEF Dequeue
  <2>2. \A i \in DOMAIN rt' : i + 1 \in DOMAIN rt /\ rt'[i] = rt[i + 1]
    BY <2>1 DEF LocationTypes
  <2>3. status = "inSync"
    BY <1>3 DEF Dequeue, IInv, KeptApart
  <2>4. phase \notin {"partial"}
    BY <2>3 DEF IInv, KeptApart
  <2>5. QED
    BY <2>1, <2>2, <2>4 DEF Gridded, TargetOnGrid, FillsOnGrid, SlotsOnGrid, Believed,
       OnGrid, Here
<1>4. CASE FallOutOfSync
  BY <1>4 DEF FallOutOfSync, Gridded, TargetOnGrid, FillsOnGrid, SlotsOnGrid, Believed,
     OnGrid, Here
<1>5. CASE TakeSeek
  <2>1. ~isSeek
    BY <1>5, <1>a DEF TakeSeek
  <2>2. ~Believed' /\ seek' = "due"
    BY <1>5, <2>1 DEF TakeSeek, Believed
  <2>3. QED
    BY <2>2 DEF Gridded, TargetOnGrid, FillsOnGrid, SlotsOnGrid
<1>6. CASE Gui \/ InitiateSeek \/ StopRolling \/ CycleWithClip \/ SkipSlot
  BY <1>1, <1>6, <1>a DEF Gui, StartTransport, StopTransport, Locate, SeekFinished, MoveClip,
     MuteClip, InitiateSeek, StopRolling, CycleWithClip, SkipSlot
<1>7. QED
  BY <1>2, <1>3, <1>4, <1>5, <1>6 DEF AudioThread

\* A step that ends leaves the slots where they are; the song's seek, once
\* answered, has left them on the grid.
LEMMA GriddedAtEnd ==
  ASSUME Gridded, EndStep, UNCHANGED <<rt, fileLocation, last, window, transport>>,
         status' = "inSync" => status = "inSync" /\ (isSeek => phase = "filling")
  PROVE  Gridded'
<1>1. phase' = "none" /\ isSeek' = FALSE /\ seek' = IF isSeek THEN "answered" ELSE seek
  BY DEF EndStep
<1>2. Here' = Here
  BY DEF Here
<1>3. SlotsOnGrid'
  <2> SUFFICES ASSUME status' = "inSync", seek' # "due" PROVE
        OnGrid(fileLocation[last]) /\ \A i \in DOMAIN rt : OnGrid(fileLocation[rt[i]])
    BY <1>1, <1>2 DEF SlotsOnGrid, OnGrid
  <2>1. \/ status = "inSync" /\ seek # "due"
        \/ phase = "filling" /\ Believed
    BY <1>1 DEF Believed
  <2>2. QED
    BY <2>1 DEF Gridded, SlotsOnGrid
<1>4. QED
  BY <1>1, <1>3 DEF Gridded, TargetOnGrid, FillsOnGrid

\* The worker's steps up to the seek or the fill itself.
LEMMA GriddedBegins ==
  ASSUME IInv, LocationTypes, SeekPlaces, Gridded, window' = window,
         \/ MakeStep \/ StepIsStale \/ BeginSeekStep \/ BeginResync \/ BeginRefill
         \/ SeekOutOfWindow \/ FillAborted
  PROVE  Gridded'
<1> USE DEF ringVars, audioVars, songVars, stepVars
<1>1. CASE MakeStep
  <2>1. isSeek' <=> seek = "due"
    BY <1>1 DEF MakeStep
  <2>2. /\ UNCHANGED <<rt, fileLocation, last, status, transport, seek, seekLocation>>
        /\ phase = "none" /\ phase' = "made"
        /\ target' = IF seek = "due" THEN seekLocation ELSE transport
    BY <1>1 DEF MakeStep
  <2>3. target' = transport
    BY <2>2 DEF SeekPlaces
  <2>4. TargetOnGrid'
    <3>1. WholeSlots(transport, transport)
      BY WholeSlotsBack DEF LocationTypes
    <3>2. QED
      BY <2>2, <2>3, <3>1 DEF TargetOnGrid
  <2>5. QED
    BY <2>2, <2>4 DEF Gridded, FillsOnGrid, SlotsOnGrid, OnGrid, Here
<1>2. CASE StepIsStale \/ FillAborted
  <2>1. /\ EndStep /\ UNCHANGED <<rt, fileLocation, last, status, transport>>
        /\ ~isSeek
    BY <1>2 DEF StepIsStale, FillAborted, SeekPlaces
  <2>2. QED
    BY <2>1, GriddedAtEnd
<1>3. CASE SeekOutOfWindow
  BY <1>3, GriddedAtEnd DEF SeekOutOfWindow
<1>4. CASE BeginSeekStep \/ BeginResync
  <2>1. /\ UNCHANGED <<transport, seek, isSeek, target>>
        /\ phase # "none" /\ phase' = "seeking" /\ status' = "seeking"
    BY <1>4 DEF BeginSeekStep, BeginResync, GoesOn
  <2>2. QED
    BY <2>1 DEF Gridded, TargetOnGrid, FillsOnGrid, SlotsOnGrid, Believed
<1>5. CASE BeginRefill
  <2>1. /\ UNCHANGED <<rt, fileLocation, last, status, transport>>
        /\ phase = "made" /\ ~isSeek /\ ~stale /\ status = "inSync"
    BY <1>5 DEF BeginRefill
  <2>2. CASE free = <<>>
    BY <1>5, <2>1, <2>2, GriddedAtEnd DEF BeginRefill
  <2>3. CASE free # <<>>
    <3>1. /\ phase' = "filling" /\ next' = fileLocation[last] + SlotLength
          /\ UNCHANGED <<isSeek, target, seek>>
      BY <1>5, <2>3 DEF BeginRefill, StartFilling, GoesOn
    <3>2. /\ OnGrid(fileLocation[last]) /\ fileLocation[last] \in Int
          /\ \A i \in DOMAIN rt : OnGrid(fileLocation[rt[i]])
      BY <2>1 DEF SeekPlaces, Gridded, SlotsOnGrid, LocationTypes
    <3>3. OnGrid(fileLocation[last] + SlotLength)
      BY <3>2, NextOnGrid
    <3>4. QED
      BY <2>1, <3>1, <3>2, <3>3
      DEF Gridded, TargetOnGrid, FillsOnGrid, SlotsOnGrid, Believed, OnGrid, Here
  <2>4. QED
    BY <2>2, <2>3
<1>6. QED
  BY <1>1, <1>2, <1>3, <1>4, <1>5

\* The worker's seek and its fills.
LEMMA GriddedFills ==
  ASSUME IInv, LocationTypes, Gridded, window' = window,
         SeekInWindow \/ FillPartial \/ FillSlot \/ FillLastSlot
  PROVE  Gridded'
<1> USE DEF ringVars, audioVars, songVars, stepVars
<1>a. Here' = Here /\ transport' = transport
  BY DEF SeekInWindow, FillPartial, FillSlot, FillLastSlot, Here
<1>1. CASE SeekInWindow
  <2>1. /\ UNCHANGED <<last, seek, isSeek, target>> /\ rt' = <<>>
        /\ phase # "none" /\ status' # "inSync"
    BY <1>1 DEF SeekInWindow, Drain, Seeked, StartFilling, GoesOn, IInv, KeptApart
  <2>2. TargetOnGrid'
    BY <1>a, <2>1 DEF Gridded, TargetOnGrid, Believed
  <2>3. SUFFICES ASSUME Believed PROVE FillsOnGrid' /\ SlotsOnGrid'
    BY <2>1, <2>2 DEF Gridded, FillsOnGrid, SlotsOnGrid, Believed
  <2>4. /\ SeekFileLocation \in Int /\ Modulus \in Int
        /\ OnGrid(SeekFileLocation - Modulus)
    BY <2>1, <2>3, SeekStartsOnGrid DEF Gridded, TargetOnGrid
  <2>5. CASE Modulus = 0
    <3>1. /\ phase' = "filling" /\ next' = SeekFileLocation
          /\ fileLocation'[last] = SeekFileLocation
      BY <1>1, <2>5 DEF SeekInWindow, Seeked, StartFilling, LocationTypes
    <3>2. OnGrid(SeekFileLocation)
      BY <2>4, <2>5
    <3>3. QED
      BY <1>a, <2>1, <3>1, <3>2 DEF FillsOnGrid, SlotsOnGrid, OnGrid
  <2>6. CASE Modulus # 0
    <3>1. phase' = "partial" /\ next' = SeekFileLocation - Modulus
      BY <1>1, <2>6 DEF SeekInWindow
    <3>2. QED
      BY <1>a, <2>1, <2>4, <3>1 DEF FillsOnGrid, SlotsOnGrid, OnGrid
  <2>7. QED
    BY <2>5, <2>6
<1>b. /\ next \in Int /\ next + SlotLength \in Int /\ (free # <<>> => Head(free) \in Slots)
      /\ OnGrid(next) => OnGrid(next + SlotLength)
  BY NextOnGrid DEF LocationTypes
<1>2. CASE FillPartial
  <2>1. /\ UNCHANGED <<last, seek, isSeek, target>> /\ phase = "partial"
        /\ phase' = "filling" /\ next' = next + SlotLength /\ status' = "seeked"
        /\ rt' = Append(rt, Head(free)) /\ Head(free) \in Slots
        /\ fileLocation' = [fileLocation EXCEPT ![Head(free)] = next,
                                                ![last] = next + SlotLength]
    BY <1>2, <1>b DEF FillPartial, QueueSlot, AfterPartial, Seeked, StartFilling, GoesOn
  <2>2. TargetOnGrid'
    BY <1>a, <2>1 DEF Gridded, TargetOnGrid, Believed
  <2>3. SUFFICES ASSUME Believed PROVE FillsOnGrid' /\ SlotsOnGrid'
    BY <2>1, <2>2 DEF Gridded, FillsOnGrid, SlotsOnGrid, Believed
  <2>4. OnGrid(next) /\ OnGrid(next + SlotLength) /\ rt = <<>>
    BY <1>b, <2>1, <2>3 DEF Gridded, FillsOnGrid
  <2>5. /\ fileLocation'[last] = next + SlotLength
        /\ fileLocation'[Head(free)] \in {next, next + SlotLength}
    BY <2>1 DEF LocationTypes
  <2>6. \A i \in DOMAIN rt' : rt'[i] = Head(free)
    BY <2>1, <2>4
  <2>7. QED
    BY <1>a, <2>1, <2>4, <2>5, <2>6 DEF FillsOnGrid, SlotsOnGrid, OnGrid
<1>3. CASE FillSlot \/ FillLastSlot
  <2>1. /\ rt' = Append(rt, Head(free)) /\ Head(free) \in Slots
        /\ fileLocation' = [fileLocation EXCEPT ![Head(free)] = next]
        /\ phase = "filling"
    BY <1>3, <1>b DEF FillSlot, FillLastSlot, QueueSlot
  <2>2. /\ fileLocation' \in [Slots -> Int] /\ fileLocation'[Head(free)] = next
        /\ \A z \in Slots : z # Head(free) => fileLocation'[z] = fileLocation[z]
    BY <1>b, <2>1 DEF LocationTypes
  <2>3. ASSUME Believed
        PROVE  /\ OnGrid(next) /\ OnGrid(next + SlotLength)
               /\ OnGrid(fileLocation'[last])
               /\ \A i \in DOMAIN rt' : OnGrid(fileLocation'[rt'[i]])
    <3>1. /\ OnGrid(next) /\ OnGrid(next + SlotLength) /\ OnGrid(fileLocation[last])
          /\ \A i \in DOMAIN rt : OnGrid(fileLocation[rt[i]])
      BY <1>b, <2>1, <2>3 DEF Gridded, FillsOnGrid, SlotsOnGrid
    <3>2. OnGrid(fileLocation'[last])
      BY <2>2, <3>1 DEF LocationTypes
    <3>3. \A i \in DOMAIN rt' : OnGrid(fileLocation'[rt'[i]])
      BY <1>b, <2>1, <2>2, <3>1, QueueOnGrid DEF OnGrid
    <3>4. QED
      BY <3>1, <3>2, <3>3
  <2>4. CASE FillSlot
    <3>1. /\ UNCHANGED <<last, seek, isSeek, target, status, phase>>
          /\ next' = next + SlotLength
      BY <2>4 DEF FillSlot, GoesOn
    <3>2. status = "inSync" /\ seek # "due" => Believed
      BY DEF Believed
    <3>3. QED
      BY <1>a, <2>1, <2>3, <3>1, <3>2 DEF Gridded, TargetOnGrid, FillsOnGrid, SlotsOnGrid, Believed, OnGrid
  <2>5. CASE FillLastSlot
    <3>1. last' = Head(free) /\ fileLocation'[last'] = next
      BY <2>2, <2>5 DEF FillLastSlot
    <3>2. CASE EndStep
      <4>1. /\ phase' = "none" /\ isSeek' = FALSE
            /\ seek' = IF isSeek THEN "answered" ELSE seek
        BY <3>2 DEF EndStep
      <4>2. seek' # "due" => Believed
        BY <4>1 DEF Believed
      <4>3. QED
        BY <1>a, <2>3, <3>1, <4>1, <4>2
        DEF Gridded, TargetOnGrid, FillsOnGrid, SlotsOnGrid, OnGrid
    <3>3. CASE StartFilling(next + SlotLength, Len(free'))
      <4>1. /\ phase' = "filling" /\ next' = next + SlotLength
            /\ UNCHANGED <<isSeek, target, seek>>
        BY <3>3 DEF StartFilling, GoesOn
      <4>2. seek # "due" => Believed
        BY DEF Believed
      <4>3. QED
        BY <1>a, <2>1, <2>3, <3>1, <4>1, <4>2
        DEF Gridded, TargetOnGrid, FillsOnGrid, SlotsOnGrid, Believed, OnGrid
    <3>4. QED
      BY <2>5, <3>2, <3>3 DEF FillLastSlot
  <2>6. QED
    BY <1>3, <2>4, <2>5
<1>4. QED
  BY <1>1, <1>2, <1>3

LEMMA GriddedInit == Init => Gridded
  BY DEF Init, Gridded, TargetOnGrid, FillsOnGrid, SlotsOnGrid

\* As long as the clip stays, every step keeps the slots on the grid.
LEMMA GriddedStep ==
  ASSUME IInv, OtherTypes, SeekPlaces, Gridded, [Next]_vars, window' = window
  PROVE  Gridded'
<1>1. LocationTypes
  BY LocationsTyped
<1>2. CASE Gui \/ AudioThread \/ TakeSeek
  BY <1>1, <1>2, GriddedOutside
<1>3. CASE MakeStep \/ Worker
  BY <1>1, <1>3, GriddedBegins, GriddedFills DEF Worker
<1>4. CASE UNCHANGED vars
  BY <1>4 DEF vars, ringVars, audioVars, songVars, stepVars, Gridded, TargetOnGrid, FillsOnGrid,
     SlotsOnGrid, Believed, OnGrid, Here
<1>5. QED
  BY <1>2, <1>3, <1>4 DEF Next

\* What holds of a stream whatever happens, also where it is remembered.
ReaderInv == IInv /\ OtherTypes /\ SeekPlaces

LEMMA RememberedStep == [MCNext]_<<vars, past>> => [Next]_vars
  BY DEF MCNext

LEMMA ReaderInvHolds == MCSpec => []ReaderInv
<1>1. MCInit => ReaderInv
  BY InvInit, OtherTypesInit, SeekPlacesInit DEF MCInit, ReaderInv
<1>2. ReaderInv /\ [MCNext]_<<vars, past>> => ReaderInv'
  BY InvStep, OtherTypesStep, SeekPlacesStep, RememberedStep DEF ReaderInv
<1>3. QED
  BY <1>1, <1>2, PTL DEF MCSpec

\* Wherever the clip starts and the song is located to, from whatever the
\* audio thread has read or missed: as long as the clip stays where it is, its
\* slots are of the places the audio thread's cycles ask for.
THEOREM SlotsStayAligned == MCSpec => []AlignedUnlessMoved
<1> DEFINE Inv == past # "moved" => Gridded
<1>1. MCInit => Inv
  BY GriddedInit DEF MCInit
<1>2. ReaderInv /\ Inv /\ [MCNext]_<<vars, past>> => Inv'
  <2> SUFFICES ASSUME ReaderInv, Inv, [MCNext]_<<vars, past>>, past' # "moved"
               PROVE  Gridded'
    OBVIOUS
  <2>1. [Next]_vars
    BY RememberedStep
  <2>2. past # "moved" /\ window' = window
    BY DEF MCNext, vars
  <2>3. QED
    BY <2>1, <2>2, GriddedStep DEF ReaderInv
<1>3. ReaderInv /\ Inv => AlignedUnlessMoved
  <2> SUFFICES ASSUME ReaderInv, Inv, past # "moved", status = "inSync", seek # "due",
                      NEW i \in DOMAIN rt
               PROVE  (fileLocation[rt[i]] - SourceStart + window.start - transport)
                        % SlotLength = 0
    BY DEF AlignedUnlessMoved, Aligned
  <2>1. OnGrid(fileLocation[rt[i]])
    BY DEF Gridded, SlotsOnGrid
  <2>2. LocationTypes
    BY LocationsTyped DEF ReaderInv
  <2>3. fileLocation[rt[i]] - Here
          = fileLocation[rt[i]] - SourceStart + window.start - transport
    BY <2>2 DEF LocationTypes, Here
  <2>4. QED
    BY <2>1, <2>3, Zenon DEF OnGrid, WholeSlots
<1>4. QED
  <2> HIDE DEF Inv
  <2>1. QED
    BY <1>1, <1>2, <1>3, ReaderInvHolds, PTL DEF MCSpec

-----------------------------------------------------------------------------
(* The slots in turn.                                                      *)

\* A slot the worker takes from the free ones is none that is queued: there are
\* as many slots as places for them, and each is somewhere.
LEMMA QueuesApart ==
  ASSUME IInv, NEW i \in DOMAIN rt, NEW j \in DOMAIN free
  PROVE  rt[i] # free[j]
<1> DEFINE held == IF hand = NoSlot THEN <<>> ELSE <<hand>>
           all == (rt \o free) \o held
<1>0. held \in Seq(Slots)
  <2>1. CASE hand = NoSlot
    BY <2>1, MadeRing
  <2>2. CASE hand # NoSlot
    <3>1. hand \in Slots
      BY <2>2 DEF IInv, RingTypes
    <3>2. held = Append(<<>>, hand)
      BY <2>2
    <3>3. QED
      BY <3>1, <3>2, MadeRing, PutInto
  <2>3. QED
    BY <2>1, <2>2
<1>1. rt \in Seq(Slots) /\ free \in Seq(Slots) /\ held \in Seq(Slots)
  BY <1>0 DEF IInv, Ring
<1>2. all \in Seq(Slots) /\ Len(all) = SlotCount /\ Queued(all) = Slots
  <2>1. all \in Seq(Slots)
    BY <1>1
  <2>2. QED
    BY <2>1, RingKeepsSlots DEF SlotsKept
<1>3. /\ i \in DOMAIN all /\ Len(rt) + j \in DOMAIN all /\ i # Len(rt) + j
      /\ all[i] = rt[i] /\ all[Len(rt) + j] = free[j]
  BY <1>1
<1> HIDE DEF all
<1>4. DOMAIN all = Slots /\ all \in [Slots -> Slots]
  BY <1>2, ReaderAssumption DEF Slots
<1>5. all \in Surjection(Slots, Slots)
  BY <1>2, <1>4 DEF Surjection, Queued
<1>6. IsFiniteSet(Slots)
  BY FS_Interval, ReaderAssumption DEF Slots
<1>7. all \in Injection(Slots, Slots)
  BY <1>5, <1>6, FS_Surjection
<1>8. QED
  BY <1>3, <1>4, <1>7 DEF Injection, IsInjective

\* Each queued slot is of the place after the one before it.
QueueInTurn ==
  \A i \in 1 .. Len(rt) - 1 :
    fileLocation[rt[i + 1]] = fileLocation[rt[i]] + SlotLength

\* A fill goes on where the queue ends.
FillInTurn ==
  phase = "filling" /\ rt # <<>> => next = fileLocation[rt[Len(rt)]] + SlotLength

\* Between two fills the queue ends at the last slot queued, and the audio
\* thread only takes from its other end.
EndsAtLast ==
  status = "inSync" /\ phase \in {"none", "made"} /\ seek # "due" /\ rt # <<>> =>
    rt[Len(rt)] = last

InTurn == QueueInTurn /\ FillInTurn /\ EndsAtLast

\* A queue of slots in turn gets the next.
LEMMA QueuedInTurn ==
  ASSUME IInv, LocationTypes, InTurn, phase = "filling", free # <<>>,
         QueueSlot(Head(free)), fileLocation' = [fileLocation EXCEPT ![Head(free)] = next]
  PROVE  /\ QueueInTurn'
         /\ rt' # <<>> /\ rt'[Len(rt')] = Head(free)
         /\ fileLocation'[rt'[Len(rt')]] = next
         /\ fileLocation'[rt'[1]] = IF rt = <<>> THEN next ELSE fileLocation[rt[1]]
<1>1. /\ Head(free) \in Slots /\ 1 \in DOMAIN free /\ free[1] = Head(free)
      /\ rt \in Seq(Slots) /\ rt' = Append(rt, Head(free))
  BY DEF LocationTypes, QueueSlot
<1>2. /\ Len(rt') = Len(rt) + 1 /\ rt'[Len(rt')] = Head(free) /\ Len(rt) \in Nat
      /\ \A i \in 1..Len(rt) : rt'[i] = rt[i] /\ rt[i] \in Slots
  BY <1>1
<1>3. fileLocation'[Head(free)] = next
  BY <1>1 DEF LocationTypes
<1>4. \A i \in 1..Len(rt) : rt[i] # Head(free)
  BY <1>1, QueuesApart
<1>5. \A i \in 1..Len(rt) : fileLocation'[rt'[i]] = fileLocation[rt[i]]
  BY <1>2, <1>4 DEF LocationTypes
<1>6. ASSUME NEW i \in 1 .. Len(rt') - 1
      PROVE  fileLocation'[rt'[i + 1]] = fileLocation'[rt'[i]] + SlotLength
  <2>1. CASE i = Len(rt)
    <3>1. rt # <<>>
      BY <1>1, <2>1
    <3>2. next = fileLocation[rt[Len(rt)]] + SlotLength
      BY <3>1 DEF InTurn, FillInTurn
    <3>3. QED
      BY <1>2, <1>3, <1>5, <2>1, <3>2
  <2>2. CASE i # Len(rt)
    <3>1. i \in 1 .. Len(rt) - 1 /\ i \in 1..Len(rt) /\ i + 1 \in 1..Len(rt)
      BY <1>2, <2>2
    <3>2. QED
      BY <1>5, <3>1 DEF InTurn, QueueInTurn
  <2>3. QED
    BY <2>1, <2>2
<1>7. fileLocation'[rt'[1]] = IF rt = <<>> THEN next ELSE fileLocation[rt[1]]
  <2>1. CASE rt = <<>>
    BY <1>1, <1>2, <1>3, <2>1
  <2>2. CASE rt # <<>>
    <3>1. 1 \in 1..Len(rt)
      BY <1>1, <2>2
    <3>2. QED
      BY <1>5, <2>2, <3>1
  <2>3. QED
    BY <2>1, <2>2
<1>8. rt' # <<>>
  BY <1>1
<1>9. QED
  BY <1>2, <1>3, <1>6, <1>7, <1>8 DEF QueueInTurn

\* Outside the worker slots are only taken from the queue's head.
LEMMA InTurnOutside ==
  ASSUME IInv, LocationTypes, InTurn, Gui \/ AudioThread \/ TakeSeek
  PROVE  InTurn'
<1> USE DEF ringVars, audioVars, songVars, stepVars
<1>1. CASE Dequeue
  <2>1. /\ UNCHANGED <<fileLocation, last, status, phase, seek, next>>
        /\ rt # <<>> /\ rt' = Tail(rt)
    BY <1>1 DEF Dequeue
  <2>2. /\ Len(rt') = Len(rt) - 1 /\ Len(rt) \in Nat
        /\ \A i \in 1 .. Len(rt') : rt'[i] = rt[i + 1]
    BY <2>1 DEF LocationTypes
  <2>3. QueueInTurn'
    <3>1. ASSUME NEW i \in 1 .. Len(rt') - 1
          PROVE  fileLocation[rt'[i + 1]] = fileLocation[rt'[i]] + SlotLength
      <4>1. rt'[i] = rt[i + 1] /\ rt'[i + 1] = rt[(i + 1) + 1]
        BY <2>2
      <4>2. i + 1 \in 1 .. Len(rt) - 1
        BY <2>2
      <4>3. QED
        BY <4>1, <4>2 DEF InTurn, QueueInTurn
    <3>2. QED
      BY <2>1, <3>1 DEF QueueInTurn
  <2>4. rt' # <<>> => rt'[Len(rt')] = rt[Len(rt)]
    BY <2>1, <2>2 DEF LocationTypes
  <2>5. QED
    BY <2>1, <2>3, <2>4 DEF InTurn, FillInTurn, EndsAtLast
<1>2. CASE FallOutOfSync
  BY <1>2 DEF FallOutOfSync, InTurn, QueueInTurn, FillInTurn, EndsAtLast
<1>3. CASE TakeSeek
  BY <1>3 DEF TakeSeek, InTurn, QueueInTurn, FillInTurn, EndsAtLast
<1>4. CASE Gui \/ InitiateSeek \/ StopRolling \/ CycleWithoutClip \/ CycleWithClip
           \/ Underrun \/ Read \/ SkipSlot \/ ReleaseOutOfSync
  <2>1. /\ UNCHANGED <<rt, fileLocation, last, status, phase, next>>
        /\ seek' # "due" => seek # "due"
    BY <1>4 DEF Gui, StartTransport, StopTransport, Locate, SeekFinished, MoveClip, MuteClip,
       InitiateSeek, StopRolling, CycleWithoutClip, CycleWithClip, Underrun, Read, SkipSlot,
       ReleaseOutOfSync, IInv, KeptApart
  <2>2. QED
    BY <2>1 DEF InTurn, QueueInTurn, FillInTurn, EndsAtLast
<1>5. QED
  BY <1>1, <1>2, <1>3, <1>4 DEF AudioThread

\* The worker appends what is next, or begins with an empty queue, unless the
\* clip's start has cut a slot.
LEMMA InTurnWorker ==
  ASSUME IInv, LocationTypes, SeekPlaces, InTurn, MakeStep \/ Worker,
         phase # "partial", phase' # "partial"
  PROVE  InTurn'
<1> USE DEF ringVars, audioVars, songVars, stepVars
<1>1. CASE MakeStep
  BY <1>1 DEF MakeStep, InTurn, QueueInTurn, FillInTurn, EndsAtLast
<1>2. CASE StepIsStale \/ FillAborted
  <2>1. /\ UNCHANGED <<rt, fileLocation>> /\ phase' = "none" /\ seek' = "due"
    BY <1>2 DEF StepIsStale, FillAborted, EndStep, SeekPlaces
  <2>2. QED
    BY <2>1 DEF InTurn, QueueInTurn, FillInTurn, EndsAtLast
<1>3. CASE SeekOutOfWindow
  BY <1>3 DEF SeekOutOfWindow, EndStep, InTurn, QueueInTurn, FillInTurn, EndsAtLast
<1>4. CASE BeginSeekStep \/ BeginResync
  <2>1. /\ rt' = <<>> \/ UNCHANGED <<rt, fileLocation>>
        /\ phase' = "seeking" /\ status' = "seeking"
    BY <1>4 DEF BeginSeekStep, BeginResync, SameRing, NewRing
  <2>2. QED
    BY <2>1 DEF InTurn, QueueInTurn, FillInTurn, EndsAtLast
<1>5. CASE BeginRefill
  <2>1. /\ UNCHANGED <<rt, fileLocation, last, status>>
        /\ rt # <<>> => rt[Len(rt)] = last
    BY <1>5 DEF BeginRefill, SeekPlaces, InTurn, EndsAtLast
  <2>2. \/ phase' = "none"
        \/ phase' = "filling" /\ next' = fileLocation[last] + SlotLength
    BY <1>5 DEF BeginRefill, StartFilling, EndStep
  <2>3. QED
    BY <2>1, <2>2 DEF InTurn, QueueInTurn, FillInTurn, EndsAtLast
<1>6. CASE SeekInWindow
  <2>1. rt' = <<>>
    BY <1>6 DEF SeekInWindow, Drain
  <2>2. QED
    BY <2>1 DEF InTurn, QueueInTurn, FillInTurn, EndsAtLast
<1>7. CASE FillSlot \/ FillLastSlot
  <2>1. /\ QueueInTurn' /\ rt' # <<>> /\ rt'[Len(rt')] = Head(free)
        /\ fileLocation'[rt'[Len(rt')]] = next
    BY <1>7, QueuedInTurn DEF FillSlot, FillLastSlot
  <2>2. CASE FillSlot
    BY <2>1, <2>2 DEF FillSlot, InTurn, FillInTurn, EndsAtLast
  <2>3. CASE FillLastSlot
    <3>1. last' = Head(free)
      BY <2>3 DEF FillLastSlot
    <3>2. phase' = "filling" => next' = next + SlotLength
      BY <2>3 DEF FillLastSlot, StartFilling, EndStep
    <3>3. QED
      BY <2>1, <3>1, <3>2 DEF InTurn, FillInTurn, EndsAtLast
  <2>4. QED
    BY <1>7, <2>2, <2>3
<1>8. QED
  BY <1>1, <1>2, <1>3, <1>4, <1>5, <1>6, <1>7 DEF Worker, FillPartial

LEMMA InTurnInit == Init => InTurn
  BY DEF Init, InTurn, QueueInTurn, FillInTurn, EndsAtLast

LEMMA InTurnStep ==
  ASSUME IInv, OtherTypes, SeekPlaces, InTurn, [Next]_vars,
         phase # "partial", phase' # "partial"
  PROVE  InTurn'
<1>1. LocationTypes
  BY LocationsTyped
<1>2. CASE UNCHANGED vars
  BY <1>2 DEF vars, ringVars, songVars, stepVars, InTurn, QueueInTurn, FillInTurn, EndsAtLast
<1>3. QED
  BY <1>1, <1>2, InTurnOutside, InTurnWorker DEF Next

\* A clip that was never moved, and started with a slot at every seek.
LEMMA StraightStep ==
  ASSUME [MCNext]_<<vars, past>>, past' = "straight"
  PROVE  past = "straight" /\ window' = window /\ (phase # "partial" => phase' # "partial")
  BY DEF MCNext, vars, stepVars

\* As long as it is straight, the queued slots follow each other in the file,
\* across refills, seeks and refills cut off by a seek, and a refill goes on
\* where the queue ends.
THEOREM SlotsStayInTurn == MCSpec => []ContiguousOnGrid
<1> DEFINE Inv == past = "straight" => phase # "partial" /\ InTurn
<1>1. MCInit => Inv
  BY InTurnInit DEF MCInit, Init
<1>2. ReaderInv /\ Inv /\ [MCNext]_<<vars, past>> => Inv'
  BY StraightStep, InTurnStep, RememberedStep DEF ReaderInv
<1>3. ReaderInv /\ Inv => ContiguousOnGrid
  BY DEF InTurn, QueueInTurn, EndsAtLast, ContiguousOnGrid, Contiguous
<1>4. QED
  <2> HIDE DEF Inv
  <2>1. QED
    BY <1>1, <1>2, <1>3, ReaderInvHolds, PTL DEF MCSpec

-----------------------------------------------------------------------------
(* The right slot first after a seek.                                      *)

\* The place of the file that the audio thread asks for first, when the song
\* goes on from where it was located to.
FirstPlace ==
  (IF seekLocation < window.start THEN window.start ELSE seekLocation)
    - window.start + SourceStart

\* From there the clip, if it is still to come, starts with a slot.
StartsWithSlot == seekLocation < window.start => WholeSlots(window.start, seekLocation)

\* The song waits for its seek, or is about to hear of its end.
Answering == isSeek \/ seek = "answered"

FillsFirst ==
  phase = "filling" /\ Answering =>
    /\ StartsWithSlot
    /\ rt = <<>> => next = FirstPlace
    /\ rt # <<>> => fileLocation[rt[1]] = FirstPlace

FirstReady ==
  status = "inSync" /\ seek = "answered" =>
    StartsWithSlot /\ rt # <<>> /\ fileLocation[rt[1]] = FirstPlace

Ready == FillsFirst /\ FirstReady

\* The audio thread reads nothing before it has heard of the seek's end.
LEMMA ReadyOutside ==
  ASSUME IInv, SeekPlaces, Ready, Gui \/ AudioThread \/ TakeSeek, window' = window
  PROVE  Ready'
<1> USE DEF ringVars, audioVars, songVars, stepVars
<1>a. /\ seek # "none" => songSeeks /\ ~locateRequested
      /\ songSeeks /\ ~locateRequested => audioPc = "idle"
      /\ isSeek => seek = "due" /\ phase # "none"
  BY DEF IInv, KeptApart
<1>1. CASE Answering' /\ Answering
  <2>1. seek # "none"
    BY <1>1, <1>a DEF Answering
  <2>2. UNCHANGED <<rt, fileLocation, status, phase, next, seekLocation, seek, isSeek>>
    BY <1>1, <1>a, <2>1 DEF Gui, StartTransport, StopTransport, Locate, SeekFinished, MoveClip,
       MuteClip, AudioThread, InitiateSeek, StopRolling, CycleWithoutClip, CycleWithClip,
       CycleStarts, Underrun, Read, SkipSlot, ReleaseOutOfSync, Dequeue, FallOutOfSync,
       TakeSeek, Answering
  <2>3. QED
    BY <2>2 DEF Ready, FillsFirst, FirstReady, Answering, StartsWithSlot, FirstPlace
<1>2. CASE ~Answering
  <2>1. ~Answering'
    BY <1>2 DEF Gui, StartTransport, StopTransport, Locate, SeekFinished, MoveClip,
       MuteClip, AudioThread, InitiateSeek, StopRolling, CycleWithoutClip, CycleWithClip,
       Underrun, Read, SkipSlot, ReleaseOutOfSync, Dequeue, FallOutOfSync,
       TakeSeek, Answering
  <2>2. QED
    BY <2>1 DEF Ready, FillsFirst, FirstReady, Answering
<1>3. QED
  BY <1>1, <1>2 DEF Ready, FillsFirst, FirstReady, Answering

\* The worker's steps up to the seek or the fill itself.
LEMMA ReadyBegins ==
  ASSUME IInv, SeekPlaces, Ready, window' = window,
         \/ MakeStep \/ StepIsStale \/ BeginSeekStep \/ BeginResync \/ BeginRefill
         \/ SeekOutOfWindow \/ FillAborted
  PROVE  Ready'
<1> USE DEF ringVars, audioVars, songVars, stepVars, StartsWithSlot, FirstPlace
<1>1. CASE MakeStep
  BY <1>1 DEF MakeStep, Ready, FillsFirst, FirstReady, Answering
<1>2. CASE StepIsStale \/ FillAborted
  <2>1. phase' = "none" /\ seek' = "due"
    BY <1>2 DEF StepIsStale, FillAborted, EndStep, SeekPlaces
  <2>2. QED
    BY <2>1 DEF Ready, FillsFirst, FirstReady
<1>3. CASE SeekOutOfWindow
  BY <1>3 DEF SeekOutOfWindow, EndStep, Ready, FillsFirst, FirstReady
<1>4. CASE BeginSeekStep \/ BeginResync
  BY <1>4 DEF BeginSeekStep, BeginResync, Ready, FillsFirst, FirstReady
<1>5. CASE BeginRefill
  <2>1. /\ UNCHANGED <<rt, fileLocation, status, seekLocation, seek>>
        /\ status = "inSync" /\ ~isSeek
    BY <1>5 DEF BeginRefill, StartFilling, GoesOn, EndStep
  <2>2. ~isSeek' \/ phase' = "none"
    BY <1>5, <2>1 DEF BeginRefill, StartFilling, GoesOn, EndStep
  <2>3. QED
    BY <2>1, <2>2 DEF Ready, FillsFirst, FirstReady, Answering
<1>6. QED
  BY <1>1, <1>2, <1>3, <1>4, <1>5

\* The seek begins at the right place, and a fill appends to what it left.
LEMMA ReadyFills ==
  ASSUME IInv, LocationTypes, SeekPlaces, InTurn, Ready, window' = window,
         SeekInWindow \/ FillSlot \/ FillLastSlot, phase' # "partial"
  PROVE  Ready'
<1> USE DEF ringVars, audioVars, songVars, stepVars
<1>a. StartsWithSlot' = StartsWithSlot /\ FirstPlace' = FirstPlace
  BY DEF SeekInWindow, FillSlot, FillLastSlot, StartsWithSlot, FirstPlace
<1>1. CASE SeekInWindow
  <2>1. /\ rt' = <<>> /\ UNCHANGED <<isSeek, seek>> /\ phase = "seeking"
        /\ Modulus = 0 /\ next' = SeekFileLocation /\ status' = "seeked"
    BY <1>1 DEF SeekInWindow, Drain, Seeked, StartFilling, GoesOn
  <2>2. SUFFICES ASSUME Answering PROVE StartsWithSlot /\ SeekFileLocation = FirstPlace
    BY <1>a, <2>1 DEF Ready, FillsFirst, FirstReady, Answering
  <2>3. target = seekLocation
    BY <2>1, <2>2 DEF SeekPlaces, Answering
  <2>4. SeekFileLocation = FirstPlace
    BY <2>3 DEF SeekFileLocation, SeekStart, FirstPlace
  <2>5. StartsWithSlot
    BY <2>1, <2>3 DEF Modulus, SeekStart, StartsWithSlot, WholeSlots
  <2>6. QED
    BY <2>4, <2>5
<1>2. CASE FillSlot \/ FillLastSlot
  <2>1. /\ rt' # <<>>
        /\ fileLocation'[rt'[1]] = IF rt = <<>> THEN next ELSE fileLocation[rt[1]]
    BY <1>2, QueuedInTurn DEF FillSlot, FillLastSlot
  <2>2. Answering' => Answering
    BY <1>2 DEF FillSlot, FillLastSlot, EndStep, StartFilling, GoesOn, Answering
  <2>3. Answering => StartsWithSlot /\ fileLocation'[rt'[1]] = FirstPlace
    BY <1>2, <2>1 DEF FillSlot, FillLastSlot, Ready, FillsFirst
  <2>4. QED
    BY <1>a, <2>1, <2>2, <2>3 DEF Ready, FillsFirst, FirstReady, Answering
<1>3. QED
  BY <1>1, <1>2

LEMMA ReadyInit == Init => Ready
  BY DEF Init, Ready, FillsFirst, FirstReady

LEMMA ReadyStep ==
  ASSUME IInv, OtherTypes, SeekPlaces, InTurn, Ready, [Next]_vars, window' = window,
         phase # "partial", phase' # "partial"
  PROVE  Ready'
<1>1. LocationTypes
  BY LocationsTyped
<1>2. CASE UNCHANGED vars
  BY <1>2 DEF vars, ringVars, songVars, stepVars, Ready, FillsFirst, FirstReady, Answering,
     StartsWithSlot, FirstPlace
<1>3. CASE MakeStep \/ Worker
  BY <1>1, <1>3, ReadyBegins, ReadyFills DEF Worker, FillPartial
<1>4. QED
  BY <1>2, <1>3, ReadyOutside DEF Next

\* As long as it is straight, the first slot is the one the audio thread will
\* ask for when the song goes on, also if the stream has come back into sync,
\* or was refilled, between the seek and its end.
THEOREM SeekedSlotsAreReady == MCSpec => []SeekedSlotsReadyOnGrid
<1> DEFINE Inv == past = "straight" => phase # "partial" /\ InTurn /\ Ready
<1>1. MCInit => Inv
  BY InTurnInit, ReadyInit DEF MCInit, Init
<1>2. ReaderInv /\ Inv /\ [MCNext]_<<vars, past>> => Inv'
  BY StraightStep, InTurnStep, ReadyStep, RememberedStep DEF ReaderInv
<1>3. ReaderInv /\ Inv => SeekedSlotsReadyOnGrid
  <2> SUFFICES ASSUME ReaderInv, Ready, seek = "answered", status = "inSync"
               PROVE  fileLocation[Head(rt)] - SourceStart + window.start =
                        IF seekLocation >= window.start THEN seekLocation
                        ELSE window.start - ((window.start - seekLocation) % SlotLength)
    BY DEF SeekedSlotsReadyOnGrid, SeekedSlotsReady
  <2>1. LocationTypes
    BY LocationsTyped DEF ReaderInv
  <2>2. Head(rt) = rt[1] /\ fileLocation[rt[1]] = FirstPlace /\ StartsWithSlot
    BY <2>1 DEF Ready, FirstReady, LocationTypes
  <2>3. CASE seekLocation >= window.start
    BY <2>1, <2>2, <2>3 DEF FirstPlace, LocationTypes
  <2>4. CASE ~(seekLocation >= window.start)
    <3>1. seekLocation < window.start
      BY <2>1, <2>4 DEF LocationTypes
    <3>2. (window.start - seekLocation) % SlotLength = 0
      BY <2>2, <3>1 DEF StartsWithSlot, WholeSlots
    <3>3. FirstPlace - SourceStart + window.start = window.start
      BY <2>1, <3>1 DEF FirstPlace, LocationTypes
    <3>4. QED
      BY <2>1, <2>2, <2>4, <3>2, <3>3 DEF LocationTypes
  <2>5. QED
    BY <2>3, <2>4
<1>4. QED
  <2> HIDE DEF Inv
  <2>1. QED
    BY <1>1, <1>2, <1>3, ReaderInvHolds, PTL DEF MCSpec
=============================================================================
