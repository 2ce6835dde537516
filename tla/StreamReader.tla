----------------------------- MODULE StreamReader -----------------------------
(***************************************************************************)
(* TBufferedAudioStreamReader (src/src/core/): a clip's audio on its way   *)
(* from the file to the audio thread, through a ring of slots.  Two queues *)
(* hold the slots: the worker of the disk scheduler takes free ones, fills *)
(* them with consecutive pieces of the file and queues them for the audio  *)
(* thread, which reads one per cycle and gives it back.  Every queue has   *)
(* one producer and one consumer, except while the worker seeks: then it   *)
(* empties the audio thread's queue itself.                                *)
(*                                                                         *)
(* The song (TSheet) around it: the audio thread moves its transport by a  *)
(* slot per cycle; a locate waits until the audio thread has seen it.      *)
(* Locations are in units of which a slot has SlotLength; a clip may start *)
(* at any of them.                                                         *)
(***************************************************************************)
EXTENDS Integers, Sequences, FiniteSets

CONSTANTS SlotCount,      \* m_slotcount
          SlotLength,     \* m_bufferSlotDuration
          LookAhead,      \* m_aboutOneToFourSecondsTime
          Windows,        \* the places [start, end] the clip is moved to
          SourceStart,    \* m_sourceStartLocation
          Locations,      \* where the transport is located to
          MaxLocation,    \* bound: the transport rolls no further
          RatesChange,    \* whether a seek may come with another rate
          ClipMoves,      \* whether the clip is moved
          ClipMutes       \* and muted and unmuted

ASSUME ReaderAssumption ==
  /\ SlotCount \in Nat /\ SlotCount >= 5     \* prepare_ring_buffers()
  /\ SlotLength \in Nat \ {0}
  /\ LookAhead \in Nat /\ SourceStart \in Nat /\ MaxLocation \in Nat
  /\ Windows \subseteq [start: Nat, end: Nat] /\ Windows # {}
  /\ Locations \subseteq 0..MaxLocation /\ Locations # {}
  /\ RatesChange \in BOOLEAN /\ ClipMoves \in BOOLEAN /\ ClipMutes \in BOOLEAN

VARIABLES
  \* The ring.
  rt, free,         \* m_rtBufferSlotsQueue, m_freeBufferSlotsQueue
  fileLocation,     \* of each slot
  last,             \* m_lastQueuedRTBufferSlot
  status,           \* m_bufferstatus: the sync status
  fill,             \* and the fill status, as it was last computed
  \* The clip.
  window,           \* its place: m_location, m_streamStart and m_streamEnd
  active,           \* m_active
  \* The audio thread.
  audioPc,          \* "idle", "dequeue", "judge" or "release"
  hand,             \* the slot it has taken, or NoSlot
  wanted, available,  \* fileLocation and availableSlots of ringbuffer_read()
  \* The song.
  rolling, stopRequested, locateRequested, songSeeks, resume,
  transport, seekLocation,
  \* The scheduler and its worker.
  seek,             \* "none", "requested" (TIOGroup), "due" (StreamWork::seek),
                    \* "answered" (the stream's seek step is done)
  phase,            \* of the step: "none", "made", "seeking", "partial", "filling"
  isSeek,           \* StepInfo::seek
  refilling,        \* the seek step's second process_realtime_buffers() runs
  target,           \* seekLocation or transportLocation of the StepInfo
  stale,            \* the stream's generation is not m_stepGeneration
  next, toFill      \* slotFileLocation and slotsToFill

ringVars == <<rt, free, fileLocation, last, status, fill>>
audioVars == <<audioPc, hand, wanted, available>>
songVars == <<rolling, stopRequested, locateRequested, songSeeks, resume, seekLocation>>
stepVars == <<phase, isSeek, refilling, target, next, toFill>>
vars == <<ringVars, window, active, audioVars, songVars, transport, seek, stepVars, stale>>

Slots == 1..SlotCount
NoSlot == 0
Places == [i \in 1..SlotCount |-> i]
Queued(q) == {q[i] : i \in DOMAIN q}

\* Left out: a ring about to be deleted is made anew within one step of the
\* model, a queue that has room for every slot has no enqueue failure, and a
\* dequeue failure is what NoFillFailure rules out.
Statuses == {"outOfSync", "inSync", "seeking", "seeked", "outOfWindow"}

TypeOK ==
  /\ rt \in Seq(Slots) /\ free \in Seq(Slots)
  /\ fileLocation \in [Slots -> Int] /\ last \in Slots
  /\ status \in Statuses /\ fill \in 0..100
  /\ window \in Windows /\ active \in BOOLEAN
  /\ audioPc \in {"idle", "dequeue", "judge", "release"}
  /\ hand \in Slots \cup {NoSlot} /\ wanted \in Int /\ available \in Nat
  /\ rolling \in BOOLEAN /\ stopRequested \in BOOLEAN
  /\ locateRequested \in BOOLEAN /\ songSeeks \in BOOLEAN /\ resume \in BOOLEAN
  /\ transport \in 0..MaxLocation /\ seekLocation \in 0..MaxLocation
  /\ seek \in {"none", "requested", "due", "answered"}
  /\ phase \in {"none", "made", "seeking", "partial", "filling"}
  /\ isSeek \in BOOLEAN /\ refilling \in BOOLEAN /\ stale \in BOOLEAN
  /\ target \in 0..MaxLocation /\ next \in Int /\ toFill \in Nat

-----------------------------------------------------------------------------
(* The GUI thread.                                                         *)

StartTransport ==
  /\ ~rolling /\ rolling' = TRUE
  /\ UNCHANGED <<ringVars, window, active, audioVars, stopRequested, locateRequested,
                 songSeeks, resume, seekLocation, transport, seek, stepVars, stale>>

StopTransport ==
  /\ rolling /\ ~stopRequested /\ stopRequested' = TRUE
  /\ UNCHANGED <<ringVars, window, active, audioVars, rolling, locateRequested,
                 songSeeks, resume, seekLocation, transport, seek, stepVars, stale>>

\* initiate_seek_start(): a song that seeks already ignores it.
Locate ==
  /\ ~songSeeks
  /\ \E l \in Locations : l # transport /\ seekLocation' = l
  /\ songSeeks' = TRUE /\ locateRequested' = TRUE
  /\ UNCHANGED <<ringVars, window, active, audioVars, rolling, stopRequested,
                 resume, transport, seek, stepVars, stale>>

\* The slot seek_finished(): the seekFinished of the group has arrived.
SeekFinished ==
  /\ seek = "answered" /\ seek' = "none"
  /\ songSeeks' = FALSE
  /\ rolling' = (rolling \/ resume) /\ resume' = FALSE
  /\ UNCHANGED <<ringVars, window, active, audioVars, stopRequested, locateRequested,
                 seekLocation, transport, stepVars, stale>>

MoveClip ==
  /\ ClipMoves /\ \E w \in Windows : w # window /\ window' = w
  /\ UNCHANGED <<ringVars, active, audioVars, songVars, transport, seek, stepVars, stale>>

MuteClip ==
  /\ ClipMutes /\ active' = ~active
  /\ UNCHANGED <<ringVars, window, audioVars, songVars, transport, seek, stepVars, stale>>

-----------------------------------------------------------------------------
(* The audio thread: TSheet::process(), one cycle after another.           *)

\* rt_inititate_seek(): nothing of the song is processed from here on.
InitiateSeek ==
  /\ audioPc = "idle" /\ locateRequested
  /\ resume' = (resume \/ rolling)
  /\ rolling' = FALSE /\ locateRequested' = FALSE
  /\ seek' = "requested"
  /\ UNCHANGED <<ringVars, window, active, audioVars, stopRequested, songSeeks,
                 seekLocation, transport, stepVars, stale>>

StopRolling ==
  /\ audioPc = "idle" /\ ~locateRequested /\ ~songSeeks /\ rolling /\ stopRequested
  /\ rolling' = FALSE /\ stopRequested' = FALSE
  /\ UNCHANGED <<ringVars, window, active, audioVars, locateRequested, songSeeks,
                 resume, seekLocation, transport, seek, stepVars, stale>>

\* Mutant: the cycle looks at the rolling state only.
CycleStarts_WhileSeeking ==
  /\ audioPc = "idle" /\ ~locateRequested /\ rolling /\ ~stopRequested
  /\ transport + SlotLength <= MaxLocation

CycleStarts ==
  /\ audioPc = "idle" /\ ~locateRequested /\ ~songSeeks /\ rolling /\ ~stopRequested
  /\ transport + SlotLength <= MaxLocation

\* TAudioClip::process() and ringbuffer_read() reach the ring's queue.
Reads == /\ active
         /\ transport < window.end /\ transport + SlotLength > window.start
         /\ status = "inSync"

CycleWithoutClip ==
  /\ CycleStarts /\ ~Reads
  /\ transport' = transport + SlotLength
  /\ UNCHANGED <<ringVars, window, active, audioVars, songVars, seek, stepVars, stale>>

CycleWithClip ==
  /\ CycleStarts /\ Reads
  /\ wanted' = transport - window.start + SourceStart
  /\ available' = Len(rt)
  /\ audioPc' = "dequeue"
  /\ UNCHANGED <<ringVars, window, active, hand, songVars, transport, seek, stepVars, stale>>

\* The cycle ends: the transport moves on.
EndCycle ==
  /\ audioPc' = "idle" /\ hand' = NoSlot /\ wanted' = 0 /\ available' = 0
  /\ transport' = transport + SlotLength

Dequeue ==
  /\ audioPc = "dequeue" /\ rt # <<>>
  /\ hand' = Head(rt) /\ rt' = Tail(rt)
  /\ audioPc' = "judge"
  /\ UNCHANGED <<free, fileLocation, last, status, fill, window, active, wanted,
                 available, songVars, transport, seek, stepVars, stale>>

Underrun ==
  /\ audioPc = "dequeue" /\ rt = <<>>
  /\ EndCycle
  /\ UNCHANGED <<ringVars, window, active, songVars, seek, stepVars, stale>>

Passed == fileLocation[hand] < wanted
OutOfRange == \/ wanted < fileLocation[hand]
              \/ wanted > fileLocation[hand] + available * SlotLength

\* The wanted slot, or one it has passed: back to the free ones.
Release == free' = Append(free, hand)

Read ==
  /\ audioPc = "judge" /\ fileLocation[hand] = wanted
  /\ Release
  /\ EndCycle
  /\ UNCHANGED <<rt, fileLocation, last, status, fill, window, active, songVars,
                 seek, stepVars, stale>>

\* Mutant: a slot that was passed is not given back.
SkipSlot_Lost ==
  /\ audioPc = "judge" /\ Passed /\ ~OutOfRange
  /\ free' = free
  /\ audioPc' = "dequeue" /\ hand' = NoSlot
  /\ UNCHANGED <<rt, fileLocation, last, status, fill, window, active, wanted,
                 available, songVars, transport, seek, stepVars, stale>>

SkipSlot ==
  /\ audioPc = "judge" /\ Passed /\ ~OutOfRange
  /\ Release
  /\ audioPc' = "dequeue" /\ hand' = NoSlot
  /\ UNCHANGED <<rt, fileLocation, last, status, fill, window, active, wanted,
                 available, songVars, transport, seek, stepVars, stale>>

\* The status first, then the slot.
FallOutOfSync ==
  /\ audioPc = "judge" /\ OutOfRange
  /\ status' = "outOfSync"
  /\ audioPc' = "release"
  /\ UNCHANGED <<rt, free, fileLocation, last, fill, window, active, hand, wanted,
                 available, songVars, transport, seek, stepVars, stale>>

ReleaseOutOfSync ==
  /\ audioPc = "release"
  /\ Release
  /\ EndCycle
  /\ UNCHANGED <<rt, fileLocation, last, status, fill, window, active, songVars,
                 seek, stepVars, stale>>

-----------------------------------------------------------------------------
(* The scheduler thread, as this stream sees it.                           *)

FillOf(q) == IF active THEN 100 - (Len(q) * 100) \div SlotCount ELSE 100
IdleStartThreshold == 80

InWindow(l) == ~(l + LookAhead < window.start \/ l > window.end)

\* start_steps() takes the group's request: the song's transport is at the
\* new location, and a step that is out is stale from now on.
TakeSeek ==
  /\ seek = "requested" /\ seek' = "due"
  /\ transport' = seekLocation
  /\ stale' = (phase # "none")
  /\ UNCHANGED <<ringVars, window, active, audioVars, songVars, stepVars>>

\* disk_state()
NeedsWork ==
  IF status = "outOfWindow" THEN InWindow(transport)
  ELSE status # "inSync" \/ FillOf(free) <= IdleStartThreshold

MakeStep ==
  /\ phase = "none" /\ (seek = "due" \/ NeedsWork)
  /\ phase' = "made"
  /\ isSeek' = (seek = "due")
  /\ target' = IF seek = "due" THEN seekLocation ELSE transport
  /\ fill' = FillOf(free)
  /\ stale' = FALSE
  /\ UNCHANGED <<rt, free, fileLocation, last, status, window, active, audioVars,
                 songVars, transport, seek, refilling, next, toFill>>

-----------------------------------------------------------------------------
(* The worker: TBufferedAudioStream::step().                               *)

EndStep ==
  /\ phase' = "none" /\ isSeek' = FALSE /\ refilling' = FALSE
  /\ target' = 0 /\ next' = 0 /\ toFill' = 0 /\ stale' = FALSE
  /\ seek' = IF isSeek THEN "answered" ELSE seek

GoesOn == UNCHANGED <<isSeek, target, stale, seek>>

\* process_realtime_buffers() up to its loop: n slots from file location f.
StartFilling(f, n) ==
  /\ phase' = "filling" /\ next' = f /\ toFill' = n
  /\ GoesOn

\* A refill from before a seek.
StepIsStale ==
  /\ phase = "made" /\ ~isSeek /\ stale
  /\ fill' = FillOf(free)
  /\ EndStep
  /\ UNCHANGED <<rt, free, fileLocation, last, status, window, active, audioVars,
                 songVars, transport>>

\* Mutant: only the free slots are deleted and made anew.
NewRing_KeepsQueue ==
  /\ rt' = rt /\ free' = Places
  /\ fileLocation' = [s \in Slots |-> 0] /\ last' = SlotCount

\* At another rate the seek step makes the ring anew.
NewRing ==
  /\ rt' = <<>> /\ free' = Places
  /\ fileLocation' = [s \in Slots |-> 0] /\ last' = SlotCount
SameRing == UNCHANGED <<rt, free, fileLocation, last>>

BeginSeekStep ==
  /\ phase = "made" /\ isSeek
  /\ SameRing \/ (RatesChange /\ NewRing)
  /\ status' = "seeking" /\ fill' = FillOf(free)
  /\ phase' = "seeking"
  /\ GoesOn
  /\ UNCHANGED <<window, active, audioVars, songVars, transport, refilling, next, toFill>>

\* Its own seek, to get back in sync, has a generation of its own: a song's
\* seek that comes between the look at stale() and next_generation() does
\* not make it stale.
BeginResync ==
  /\ phase = "made" /\ ~isSeek /\ status # "inSync"
  /\ status' = "seeking" /\ fill' = FillOf(free)
  /\ phase' = "seeking" /\ stale' = FALSE
  /\ UNCHANGED <<isSeek, target, seek>>
  /\ UNCHANGED <<rt, free, fileLocation, last, window, active, audioVars, songVars,
                 transport, refilling, next, toFill>>

BeginRefill ==
  /\ phase = "made" /\ ~isSeek /\ ~stale /\ status = "inSync"
  /\ fill' = FillOf(free)
  /\ IF free = <<>> THEN EndStep
     ELSE /\ StartFilling(fileLocation[last] + SlotLength, Len(free))
          /\ UNCHANGED refilling
  /\ UNCHANGED <<rt, free, fileLocation, last, status, window, active, audioVars,
                 songVars, transport>>

\* rb_seek_to_transport_location(): where it starts, and how far into a slot
\* the clip starts.
SeekStart == IF target < window.start THEN window.start ELSE target
Modulus == (SeekStart - target) % SlotLength
\* Mutant: before the clip, the file is read from before its start.
SeekFileLocation_NotClamped == target - window.start + SourceStart

SeekFileLocation == SeekStart - window.start + SourceStart

\* Mutant: the whole ring is filled.
SlotsToFillAtSeek_All == SlotCount

\* The seek has emptied the queue: the first slot to fill, and how many.
SlotsToFillAtSeek == (7 * SlotCount) \div 10
Seeked(f) ==
  /\ status' = "seeked"
  /\ StartFilling(f, SlotsToFillAtSeek)

SeekOutOfWindow ==
  /\ phase = "seeking" /\ ~InWindow(target)
  /\ status' = "outOfWindow"
  /\ EndStep
  /\ UNCHANGED <<rt, free, fileLocation, last, fill, window, active, audioVars,
                 songVars, transport>>

\* Mutant: the seek leaves in the queue what it holds.
Drain_Kept == rt' = rt /\ free' = free

\* Every slot of the audio thread's queue goes to the free ones.
Drain == /\ rt' = <<>> /\ free' = free \o rt

SeekInWindow ==
  /\ phase = "seeking" /\ InWindow(target)
  /\ Drain
  /\ IF Modulus = 0
       THEN /\ fileLocation' = [fileLocation EXCEPT ![last] = SeekFileLocation]
            /\ Seeked(SeekFileLocation)
       ELSE /\ phase' = "partial" /\ next' = SeekFileLocation - Modulus
            /\ GoesOn /\ UNCHANGED <<fileLocation, status, toFill>>
  /\ UNCHANGED <<last, fill, window, active, audioVars, songVars, transport, refilling>>

FillAborted ==
  /\ phase \in {"partial", "filling"} /\ stale
  /\ EndStep
  /\ UNCHANGED <<ringVars, window, active, audioVars, songVars, transport>>

\* A free slot gets the file from location next on, and is queued.
QueueSlot(s) == /\ free' = Tail(free) /\ rt' = Append(rt, s)

\* Mutant: the slot after the clip's first frame is a whole slot further.
AfterPartial_Whole == SourceStart + SlotLength

\* The location of the last slot is set also when that is the slot itself.
AfterPartial == next + SlotLength
FillPartial ==
  /\ phase = "partial" /\ ~stale /\ free # <<>>
  /\ QueueSlot(Head(free))
  /\ fileLocation' = [fileLocation EXCEPT ![Head(free)] = next, ![last] = AfterPartial]
  /\ Seeked(AfterPartial)
  /\ UNCHANGED <<last, fill, window, active, audioVars, songVars, transport, refilling>>

FillSlot ==
  /\ phase = "filling" /\ ~stale /\ free # <<>> /\ toFill > 1
  /\ QueueSlot(Head(free))
  /\ fileLocation' = [fileLocation EXCEPT ![Head(free)] = next]
  /\ next' = next + SlotLength /\ toFill' = toFill - 1
  /\ GoesOn
  /\ UNCHANGED <<last, status, fill, window, active, audioVars, songVars, transport,
                 phase, refilling>>

\* The seek step refills once more, by the fill of before the seek.
RefillsAfterSeek == isSeek /\ ~refilling /\ fill <= IdleStartThreshold

FillLastSlot ==
  /\ phase = "filling" /\ ~stale /\ free # <<>> /\ toFill = 1
  /\ QueueSlot(Head(free))
  /\ fileLocation' = [fileLocation EXCEPT ![Head(free)] = next]
  /\ last' = Head(free)
  /\ status' = "inSync"
  /\ IF RefillsAfterSeek /\ free' # <<>>
       THEN /\ StartFilling(next + SlotLength, Len(free'))
            /\ refilling' = TRUE
       ELSE EndStep
  /\ UNCHANGED <<fill, window, active, audioVars, songVars, transport>>

-----------------------------------------------------------------------------
(* init() and prepare_ring_buffers(), as the scheduler took the stream.    *)
Init ==
  /\ rt = <<>> /\ free = Places
  /\ fileLocation = [s \in Slots |-> 0] /\ last = SlotCount
  /\ status = "outOfSync" /\ fill = 0
  /\ window \in Windows /\ active = TRUE
  /\ audioPc = "idle" /\ hand = NoSlot /\ wanted = 0 /\ available = 0
  /\ rolling = FALSE /\ stopRequested = FALSE /\ locateRequested = FALSE
  /\ songSeeks = FALSE /\ resume = FALSE
  /\ transport = 0 /\ seekLocation = 0 /\ seek = "none"
  /\ phase = "none" /\ isSeek = FALSE /\ refilling = FALSE /\ target = 0
  /\ stale = FALSE /\ next = 0 /\ toFill = 0

Gui == StartTransport \/ StopTransport \/ Locate \/ SeekFinished \/ MoveClip \/ MuteClip
AudioThread == \/ InitiateSeek \/ StopRolling \/ CycleWithoutClip \/ CycleWithClip
               \/ Dequeue \/ Underrun \/ Read \/ SkipSlot \/ FallOutOfSync
               \/ ReleaseOutOfSync
Worker == \/ StepIsStale \/ BeginSeekStep \/ BeginResync \/ BeginRefill
          \/ SeekOutOfWindow \/ SeekInWindow \/ FillAborted
          \/ FillPartial \/ FillSlot \/ FillLastSlot
Next == Gui \/ AudioThread \/ TakeSeek \/ MakeStep \/ Worker

Spec == Init /\ [][Next]_vars

-----------------------------------------------------------------------------
(* Properties.                                                             *)

\* No slot is lost or doubled: each is in one of the queues or in the audio
\* thread's hand, whatever the worker empties or makes anew meanwhile.
SlotsKept ==
  LET slots == rt \o free \o (IF hand = NoSlot THEN <<>> ELSE <<hand>>)
  IN Len(slots) = SlotCount /\ Queued(slots) = Slots

\* The audio thread is out of the ring while the worker seeks in it: what the
\* assertions of ringbuffer_read() and dequeue_from_rt_queue() say.
AudioOutWhileSeeking == audioPc \in {"dequeue", "judge"} => status # "seeking"

\* A fill finds as many free slots as it set out to fill, also when the audio
\* thread gives one back late: FILL_DEQUEUE_FAILURE is never met.
NoFillFailure == phase \in {"partial", "filling"} /\ ~stale => free # <<>>

\* The queued slots follow each other in the file, across refills, seeks and
\* refills cut off by a seek, and a refill goes on where the queue ends.
Contiguous ==
  /\ \A i \in 1 .. Len(rt) - 1 :
       fileLocation[rt[i + 1]] = fileLocation[rt[i]] + SlotLength
  /\ status = "inSync" /\ phase = "none" /\ seek # "due" /\ rt # <<>>
       => rt[Len(rt)] = last

\* While a clip stays where it is, the slots lie on the grid of the audio
\* thread's cycles, wherever the clip starts and the song was located to: a
\* slot off the grid matches no cycle and would never be read.
Aligned ==
  status = "inSync" /\ seek # "due" =>
    \A i \in DOMAIN rt :
      (fileLocation[rt[i]] - SourceStart + window.start - transport) % SlotLength = 0

\* After a seek the first queued slot is the one the audio thread will ask for
\* when the song, from there on, reaches the clip.
SeekedSlotsReady ==
  seek = "answered" /\ phase = "none" /\ status = "inSync" =>
    fileLocation[Head(rt)] - SourceStart + window.start =
      IF seekLocation >= window.start THEN seekLocation
      ELSE window.start - ((window.start - seekLocation) % SlotLength)

=============================================================================
