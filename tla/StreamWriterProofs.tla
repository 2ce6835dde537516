-------------------------- MODULE StreamWriterProofs --------------------------
(***************************************************************************)
(* Theorems about StreamWriter, for any ring, cycle, latency and take: the *)
(* bound MaxCycles is any number.                                          *)
(***************************************************************************)
EXTENDS StreamWriter, WellFoundedInduction, TLAPS

InHand == IF hand = 0 THEN 0 ELSE 1

\* The types of what the song keeps and of what was posted to the GUI thread.
SongTypes ==
  /\ rolling \in BOOLEAN /\ stopRequested \in BOOLEAN /\ seeking \in BOOLEAN
  /\ songRecords \in BOOLEAN /\ stoppedPosted \in BOOLEAN
  /\ finishedPosted \in BOOLEAN

\* The types, with the length of the take as an integer and no bound on the free
\* slots: that they stay in their ranges follows from the accounts below.
Types ==
  /\ rt \in Seq(1 .. MaxCycles) /\ free \in Nat
  /\ toDrop \in 0 .. Compensation /\ file \in Seq(Nat) /\ failed \in BOOLEAN
  /\ isRecording \in BOOLEAN /\ fileFinished \in BOOLEAN
  /\ phase \in {"none", "made", "draining", "writing", "drained"}
  /\ hand \in 0 .. MaxCycles /\ cycles \in 0 .. MaxCycles
  /\ audioPc \in {"idle", "capture"} /\ captured \in Seq(Nat) /\ length \in Int
  /\ status \in {"recording", "finishing", "none"}
  /\ writer \in {"registered", "leaving", "gone"}
  /\ SongTypes
  /\ audioPc = "capture" => cycles # 0
  /\ hand # 0 <=> phase = "writing"

\* What the threads know of each other's part of the end.
EndOfTake ==
  /\ isRecording <=> status = "recording"
  /\ status = "none" <=> writer = "gone"
  /\ fileFinished => phase \in {"none", "made"} /\ status # "recording"
  /\ finishedPosted => fileFinished /\ status = "finishing" /\ writer = "registered"
  /\ writer # "registered" => fileFinished /\ ~finishedPosted
  /\ audioPc = "capture" => writer # "gone"

\* The frames that came in are dropped, in the file, in the worker's hand or
\* in the ring, and none is in the file before all are dropped that have to.
FramesAccounted ==
  /\ toDrop > 0 => file = <<>>
  /\ ~failed => Len(captured) = (Compensation - toDrop) + Len(file)
                                + Frames * (Len(rt) + InHand)

\* The length that the time line shows.
LengthIsVisible ==
  /\ length >= 0
  /\ writer # "gone" => length = Visible(Len(captured))

IInv == Types /\ SlotsKept /\ EndOfTake /\ FramesAccounted /\ LengthIsVisible

-----------------------------------------------------------------------------
(* The operators.                                                          *)

\* The frames of a cycle are numbers, as many as a cycle has.
LEMMA FramesOfType ==
  ASSUME NEW c \in Nat \ {0}
  PROVE  /\ FramesOf(c) \in Seq(Nat)
         /\ Len(FramesOf(c)) = Frames
         /\ FramesOf(c) \in [1 .. Frames -> Nat]
<1> USE WriterAssumption
<1>1. (c - 1) * Frames \in Nat
  OBVIOUS
<1>2. \A i \in 1 .. Frames : (c - 1) * Frames + i \in Nat
  BY <1>1
<1>3. FramesOf(c) \in [1 .. Frames -> Nat]
  BY <1>2 DEF FramesOf
<1>4. FramesOf(c) \in Seq(Nat) /\ Len(FramesOf(c)) = Frames
  BY <1>3
<1>5. QED
  BY <1>3, <1>4

\* What a slot drops is what is left to drop, one slot at most.
LEMMA FramesToDropRange ==
  ASSUME Types
  PROVE  /\ FramesToDrop \in 0 .. Frames
         /\ toDrop - FramesToDrop \in 0 .. Compensation
         /\ FramesToDrop < Frames => toDrop = FramesToDrop
  BY WriterAssumption DEF Types, FramesToDrop

\* The part of a slot that goes to the file.
LEMMA WrittenType ==
  ASSUME Types, phase = "writing"
  PROVE  /\ SubSeq(FramesOf(hand), FramesToDrop + 1, Frames) \in Seq(Nat)
         /\ Len(SubSeq(FramesOf(hand), FramesToDrop + 1, Frames)) = Frames - FramesToDrop
<1> USE WriterAssumption
<1>1. hand \in Nat \ {0}
  BY DEF Types
<1>2. FramesOf(hand) \in Seq(Nat) /\ Len(FramesOf(hand)) = Frames
  BY <1>1, FramesOfType
<1>3. FramesToDrop \in 0 .. Frames
  BY FramesToDropRange
<1>4. QED
  BY <1>2, <1>3

-----------------------------------------------------------------------------
(* The types are kept.                                                     *)

\* The flags of the song stay flags.
LEMMA SongTypesStep ==
  ASSUME SongTypes, [Next]_vars
  PROVE  SongTypes'
<1> USE DEF SongTypes, songVars, fileVars
<1>1. CASE Gui
  BY <1>1 DEF Gui, StopTransport, StartTransport, HearStopped, SeekFinished,
              FinishWriteSource, WriterRemoved
<1>2. CASE AudioThread
  BY <1>2 DEF AudioThread, StopRolling, InitiateSeek, CycleStarts, Capture, CaptureLost
<1>3. CASE MakeStep \/ Worker
  BY <1>3 DEF MakeStep, Worker, BeginStep, TakeSlot, WriteSlot, DrainEnds, GoOnRecording,
              FinishFile
<1>4. CASE UNCHANGED vars
  BY <1>4 DEF vars
<1>5. QED
  BY <1>1, <1>2, <1>3, <1>4 DEF Next

\* A step keeps the types; what it changes in the song is above.
LEMMA TypesStep ==
  ASSUME Types, [Next]_vars
  PROVE  Types'
<1> USE WriterAssumption DEF Types, ringVars, fileVars, stepVars, audioVars, clipVars, songVars
<1>0. SongTypes'
  BY SongTypesStep
<1>1. CASE Gui
  <2>1. CASE WriterRemoved
    BY <2>1, <1>0 DEF WriterRemoved
  <2>2. CASE StopTransport
    BY <2>2, <1>0 DEF StopTransport
  <2>3. CASE StartTransport
    BY <2>3, <1>0 DEF StartTransport
  <2>4. CASE HearStopped
    BY <2>4, <1>0 DEF HearStopped, FinishRecording
  <2>5. CASE SeekFinished
    BY <2>5, <1>0 DEF SeekFinished, FinishRecording
  <2>6. CASE FinishWriteSource
    BY <2>6, <1>0 DEF FinishWriteSource
  <2>7. QED
    BY <1>1, <2>1, <2>2, <2>3, <2>4, <2>5, <2>6 DEF Gui
<1>2. CASE AudioThread
  <2>1. CASE Capture
    <3>1. cycles \in 1 .. MaxCycles /\ cycles \in Nat \ {0}
      BY <2>1 DEF Capture
    <3>2. captured \o FramesOf(cycles) \in Seq(Nat)
      BY <3>1, FramesOfType
    <3>3. Append(rt, cycles) \in Seq(1 .. MaxCycles)
      BY <3>1
    <3>4. length' \in Int
      BY <2>1, <3>2 DEF Capture, Grown, Visible
    <3>5. QED
      BY <1>0, <2>1, <3>2, <3>3, <3>4 DEF Capture
  <2>2. CASE StopRolling
    BY <2>2, <1>0 DEF StopRolling
  <2>3. CASE InitiateSeek
    BY <2>3, <1>0 DEF InitiateSeek
  <2>4. CASE CycleStarts
    BY <2>4, <1>0 DEF CycleStarts
  <2>5. CASE CaptureLost
    BY <2>5, <1>0 DEF CaptureLost
  <2>6. QED
    BY <1>2, <2>1, <2>2, <2>3, <2>4, <2>5 DEF AudioThread
<1>3. CASE MakeStep
  BY <1>3, <1>0 DEF MakeStep
<1>4. CASE Worker
  <2>1. CASE TakeSlot
    <3>1. Head(rt) \in 1 .. MaxCycles /\ Tail(rt) \in Seq(1 .. MaxCycles)
      BY <2>1 DEF TakeSlot
    <3>2. QED
      BY <1>0, <2>1, <3>1 DEF TakeSlot
  <2>2. CASE WriteSlot
    <3>1. SubSeq(FramesOf(hand), FramesToDrop + 1, Frames) \in Seq(Nat)
      BY <2>2, WrittenType DEF WriteSlot
    <3>2. file' \in Seq(Nat)
      BY <2>2, <3>1 DEF WriteSlot
    <3>3. toDrop' \in 0 .. Compensation
      BY <2>2, FramesToDropRange DEF WriteSlot
    <3>4. failed' \in BOOLEAN
      BY <2>2 DEF WriteSlot
    <3>5. QED
      BY <1>0, <2>2, <3>2, <3>3, <3>4 DEF WriteSlot, GiveBack
  <2>3. CASE BeginStep
    BY <2>3, <1>0 DEF BeginStep
  <2>4. CASE DrainEnds
    BY <2>4, <1>0 DEF DrainEnds
  <2>5. CASE GoOnRecording
    BY <2>5, <1>0 DEF GoOnRecording
  <2>6. CASE FinishFile
    BY <2>6, <1>0 DEF FinishFile
  <2>7. QED
    BY <1>4, <2>1, <2>2, <2>3, <2>4, <2>5, <2>6 DEF Worker
<1>5. CASE UNCHANGED vars
  BY <1>5, <1>0 DEF vars
<1>6. QED
  BY <1>1, <1>2, <1>3, <1>4, <1>5 DEF Next

\* No slot of the ring is lost by a step.
LEMMA SlotsStep ==
  ASSUME Types, SlotsKept, [Next]_vars
  PROVE  SlotsKept'
<1> USE WriterAssumption DEF Types, SlotsKept, ringVars, fileVars, stepVars, audioVars,
                             clipVars, songVars
<1>1. CASE Capture
  BY <1>1 DEF Capture
<1>2. CASE TakeSlot
  <2>1. Len(Tail(rt)) = Len(rt) - 1 /\ Head(rt) # 0
    BY <1>2 DEF TakeSlot
  <2>2. QED
    BY <1>2, <2>1 DEF TakeSlot
<1>3. CASE WriteSlot
  BY <1>3 DEF WriteSlot, GiveBack
<1>4. CASE UNCHANGED <<rt, free, hand>>
  BY <1>4
<1>5. QED
  BY <1>1, <1>2, <1>3, <1>4
  DEF Next, Gui, AudioThread, Worker, vars, StopTransport, StartTransport, HearStopped,
      SeekFinished, FinishWriteSource, WriterRemoved, StopRolling, InitiateSeek,
      CycleStarts, CaptureLost, MakeStep, BeginStep, DrainEnds, GoOnRecording, FinishFile

-----------------------------------------------------------------------------
(* The end of the take.                                                    *)

\* Whoever makes the step, the threads' knowledge of the end stays right.
LEMMA EndOfTakeStep ==
  ASSUME Types, EndOfTake, [Next]_vars
  PROVE  EndOfTake'
<1> USE DEF EndOfTake, ringVars, fileVars, stepVars, audioVars, clipVars, songVars
<1>1. CASE Gui
  BY <1>1 DEF Types, Gui, GuiFree, StopTransport, StartTransport, HearStopped, SeekFinished,
              FinishWriteSource, WriterRemoved, FinishRecording
<1>2. CASE AudioThread
  BY <1>2 DEF AudioThread, StopRolling, InitiateSeek, CycleStarts, Capture, CaptureLost
<1>3. CASE MakeStep
  BY <1>3 DEF MakeStep
<1>4. CASE Worker
  <2>1. CASE BeginStep
    BY <2>1 DEF Types, BeginStep
  <2>2. CASE TakeSlot
    BY <2>2 DEF Types, TakeSlot
  <2>3. CASE WriteSlot
    BY <2>3 DEF Types, WriteSlot
  <2>4. CASE DrainEnds
    BY <2>4 DEF Types, DrainEnds
  <2>5. CASE GoOnRecording
    BY <2>5 DEF Types, GoOnRecording
  <2>6. CASE FinishFile
    BY <2>6 DEF Types, FinishFile
  <2>7. QED
    BY <1>4, <2>1, <2>2, <2>3, <2>4, <2>5, <2>6 DEF Worker
<1>5. CASE UNCHANGED vars
  BY <1>5 DEF vars
<1>6. QED
  BY <1>1, <1>2, <1>3, <1>4, <1>5 DEF Next

-----------------------------------------------------------------------------
(* The frames.                                                             *)

\* One slot more is one cycle of frames more.
LEMMA OneSlotMore ==
  ASSUME NEW n \in Nat
  PROVE  Frames * (n + 1) = Frames * n + Frames
  BY WriterAssumption

\* Cycles put one behind the other.
LEMMA FramesOfBoth ==
  ASSUME NEW a \in Seq(Nat), NEW b \in Seq(Nat)
  PROVE  Len(a \o b) = Len(a) + Len(b)
  OBVIOUS

\* A step accounts for the frames it moves.
LEMMA FramesStep ==
  ASSUME Types, FramesAccounted, [Next]_vars
  PROVE  FramesAccounted'
<1> USE WriterAssumption DEF FramesAccounted, ringVars, fileVars, stepVars,
                             audioVars, clipVars, songVars
<1>1. CASE Capture
  <2>1. cycles \in Nat \ {0}
    BY <1>1 DEF Capture, Types
  <2>2. Len(captured') = Len(captured) + Frames
    <3>1. FramesOf(cycles) \in Seq(Nat) /\ Len(FramesOf(cycles)) = Frames
      BY <2>1, FramesOfType
    <3>2. captured' = captured \o FramesOf(cycles) /\ captured \in Seq(Nat)
      BY <1>1 DEF Capture, Types
    <3>3. QED
      BY <3>1, <3>2, FramesOfBoth
  <2>3. Len(rt') = Len(rt) + 1 /\ Len(rt) \in Nat
    BY <1>1 DEF Capture, Types
  <2>4. InHand \in Nat /\ InHand' = InHand
    BY <1>1 DEF Capture, Types, InHand
  <2>5. Frames * (Len(rt') + InHand') = Frames * (Len(rt) + InHand) + Frames
    <3>1. Frames * ((Len(rt) + InHand) + 1) = Frames * (Len(rt) + InHand) + Frames
      BY <2>3, <2>4, OneSlotMore
    <3>2. Len(rt') + InHand' = (Len(rt) + InHand) + 1
      BY <2>3, <2>4
    <3>3. QED
      BY <3>1, <3>2
  <2>6. Frames * (Len(rt) + InHand) \in Int
    BY <2>3, <2>4
  <2>7. UNCHANGED <<toDrop, file, failed>>
    BY <1>1 DEF Capture
  <2>8. Len(captured) \in Nat /\ Len(file) \in Nat /\ toDrop \in Int
    BY DEF Types
  <2>9. toDrop' > 0 => file' = <<>>
    BY <2>7
  <2>10. ASSUME ~failed
         PROVE  Len(captured') = (Compensation - toDrop') + Len(file')
                                 + Frames * (Len(rt') + InHand')
    <3>1. Len(captured) = (Compensation - toDrop) + Len(file) + Frames * (Len(rt) + InHand)
      BY <2>10
    <3>2. Len(captured') = (Compensation - toDrop) + Len(file)
                           + (Frames * (Len(rt) + InHand) + Frames)
      BY <2>2, <2>6, <2>8, <3>1
    <3>3. QED
      BY <2>5, <2>7, <3>2
  <2>11. QED
    BY <2>7, <2>9, <2>10
<1>2. CASE TakeSlot
  <2>1. Len(rt') = Len(rt) - 1 /\ InHand = 0 /\ InHand' = 1 /\ Len(rt) \in Nat
    BY <1>2 DEF TakeSlot, Types, InHand
  <2>2. Len(rt') + InHand' = Len(rt) + InHand
    BY <2>1
  <2>3. QED
    BY <1>2, <2>2 DEF TakeSlot
<1>3. CASE WriteSlot
  <2>1. /\ toDrop' = toDrop - FramesToDrop
        /\ FramesToDrop \in 0 .. Frames
        /\ FramesToDrop < Frames => toDrop' = 0
    BY <1>3, FramesToDropRange DEF WriteSlot, Types
  <2>2. /\ SubSeq(FramesOf(hand), FramesToDrop + 1, Frames) \in Seq(Nat)
        /\ Len(SubSeq(FramesOf(hand), FramesToDrop + 1, Frames)) = Frames - FramesToDrop
    BY <1>3, WrittenType DEF WriteSlot
  <2>3. toDrop' > 0 => file' = <<>>
    <3>1. SUFFICES ASSUME toDrop' > 0 PROVE file' = <<>>
      OBVIOUS
    <3>2. FramesToDrop = Frames /\ file = <<>>
      BY <2>1, <3>1 DEF Types
    <3>3. SubSeq(FramesOf(hand), FramesToDrop + 1, Frames) = <<>>
      BY <2>2, <3>2
    <3>4. QED
      BY <1>3, <3>2, <3>3 DEF WriteSlot
  <2>4. ASSUME ~failed'
        PROVE  Len(captured') = (Compensation - toDrop') + Len(file')
                                + Frames * (Len(rt') + InHand')
    <3>1. ~failed
      BY <1>3, <2>4 DEF WriteSlot
    <3>2. Len(file') = Len(file) + (Frames - FramesToDrop)
      BY <1>3, <2>2, <2>4 DEF WriteSlot, Types
    <3>3. InHand = 1 /\ InHand' = 0 /\ rt' = rt /\ captured' = captured /\ Len(rt) \in Nat
      BY <1>3 DEF WriteSlot, Types, InHand
    <3>4. Frames * (Len(rt) + 1) = Frames * Len(rt) + Frames
      BY <3>3, OneSlotMore
    <3>5. Len(captured) = (Compensation - toDrop) + Len(file) + (Frames * Len(rt) + Frames)
      BY <3>1, <3>3, <3>4
    <3>6. Frames * Len(rt) \in Int /\ Len(file) \in Int /\ toDrop \in Int
      BY <3>3 DEF Types
    <3>7. Frames * (Len(rt') + InHand') = Frames * Len(rt)
      BY <3>3
    <3>8. QED
      BY <2>1, <3>2, <3>3, <3>5, <3>6, <3>7
  <2>5. QED
    BY <2>3, <2>4
<1>4. CASE UNCHANGED <<rt, hand, toDrop, file, failed, captured>>
  BY <1>4 DEF InHand
<1>5. QED
  BY <1>1, <1>2, <1>3, <1>4
  DEF Next, Gui, AudioThread, Worker, vars, StopTransport, StartTransport, HearStopped,
      SeekFinished, FinishWriteSource, WriterRemoved, StopRolling, InitiateSeek,
      CycleStarts, CaptureLost, MakeStep, BeginStep, DrainEnds, GoOnRecording, FinishFile

\* As long as the writer is there, a step keeps the length with the frames.
LEMMA LengthStep ==
  ASSUME Types, Types', EndOfTake, LengthIsVisible, [Next]_vars
  PROVE  LengthIsVisible'
<1> USE WriterAssumption DEF LengthIsVisible, ringVars, fileVars, stepVars, audioVars,
                             clipVars, songVars
<1>1. CASE Capture
  <2>1. writer # "gone" /\ writer' = writer
    BY <1>1 DEF Capture, EndOfTake
  <2>2. length' = Visible(Len(captured'))
    <3>1. length' = length + Visible(Len(captured')) - Visible(Len(captured))
      BY <1>1 DEF Capture, Grown
    <3>2. length = Visible(Len(captured))
      BY <2>1
    <3>3. Visible(Len(captured)) \in Int /\ Visible(Len(captured')) \in Int
      BY DEF Visible, Types
    <3>4. QED
      BY <3>1, <3>2, <3>3
  <2>3. QED
    BY <2>2 DEF Visible, Types
<1>2. CASE WriterRemoved
  BY <1>2 DEF WriterRemoved, Types
<1>3. CASE FinishWriteSource
  BY <1>3 DEF FinishWriteSource, GuiFree, EndOfTake, Types
<1>4. CASE UNCHANGED <<length, captured, writer>>
  BY <1>4
<1>5. QED
  BY <1>1, <1>2, <1>3, <1>4
  DEF Next, Gui, AudioThread, Worker, vars, StopTransport, StartTransport, HearStopped,
      SeekFinished, StopRolling, InitiateSeek, CycleStarts, CaptureLost, MakeStep,
      BeginStep, TakeSlot, WriteSlot, DrainEnds, GoOnRecording, FinishFile, FinishRecording

-----------------------------------------------------------------------------
(* The theorems.                                                           *)

\* A take that begins is in order.
LEMMA InvInit == Init => IInv
<1> SUFFICES ASSUME Init PROVE IInv
  OBVIOUS
<1> USE WriterAssumption DEF Init
<1>1. SongTypes
  BY DEF SongTypes
<1>2. Types
  <2>1. <<>> \in Seq(1 .. MaxCycles) /\ <<>> \in Seq(Nat)
    OBVIOUS
  <2>2. rt \in Seq(1 .. MaxCycles) /\ file \in Seq(Nat) /\ captured \in Seq(Nat)
    BY <2>1
  <2>3. /\ free \in Nat /\ toDrop \in 0 .. Compensation /\ length \in Int
        /\ hand \in 0 .. MaxCycles /\ cycles \in 0 .. MaxCycles
    OBVIOUS
  <2>4. QED
    BY <1>1, <2>2, <2>3 DEF Types
<1>3. SlotsKept
  BY DEF SlotsKept
<1>4. EndOfTake
  BY DEF EndOfTake
<1>5. FramesAccounted
  <2>1. Frames * (0 + 0) = 0
    OBVIOUS
  <2>2. QED
    BY <2>1 DEF FramesAccounted, InHand
<1>6. LengthIsVisible
  BY DEF LengthIsVisible, Visible
<1>7. QED
  BY <1>2, <1>3, <1>4, <1>5, <1>6 DEF IInv

\* Every step keeps it in order.
LEMMA InvStep == IInv /\ [Next]_vars => IInv'
<1> SUFFICES ASSUME IInv, [Next]_vars PROVE IInv'
  OBVIOUS
<1>1. Types'
  BY TypesStep DEF IInv
<1>2. SlotsKept' /\ EndOfTake' /\ FramesAccounted'
  BY SlotsStep, EndOfTakeStep, FramesStep DEF IInv
<1>3. LengthIsVisible'
  BY <1>1, LengthStep DEF IInv
<1>4. QED
  BY <1>1, <1>2, <1>3 DEF IInv

\* The inductive invariant holds throughout.
LEMMA InvHolds == Spec => []IInv
  BY InvInit, InvStep, PTL DEF Spec

\* Every variable keeps its type; the ring never has more free slots than it
\* was made with, and the take is never shorter than nothing.
THEOREM TypesHold == Spec => []TypeOK
<1>1. IInv => TypeOK
  <2> SUFFICES ASSUME IInv PROVE TypeOK
    OBVIOUS
  <2>1. free \in 0 .. SlotCount
    BY WriterAssumption DEF IInv, Types, SlotsKept
  <2>2. length \in Nat
    BY DEF IInv, Types, LengthIsVisible
  <2>3. Types /\ SongTypes
    BY DEF IInv, Types
  <2>4. QED
    BY <2>1, <2>2, <2>3 DEF Types, SongTypes, TypeOK
<1>2. QED
  BY <1>1, InvHolds, PTL

\* ringbuffer_write() and process_realtime_buffers() never lose a slot between
\* them, whatever the ring's size and whichever writes fail.
THEOREM SlotsNeverLost == Spec => []SlotsKept
<1>1. IInv => SlotsKept
  BY DEF IInv
<1>2. QED
  BY <1>1, InvHolds, PTL

\* The length that the audio thread gives the take is that of the file, for
\* every latency, size of a cycle and pattern of lost cycles.
THEOREM LengthMatchesFile == Spec => []LengthIsFile
<1>1. IInv => LengthIsFile
  <2> SUFFICES ASSUME IInv, ~failed, writer = "registered", rt = <<>>, hand = 0
               PROVE  length = Len(file)
    BY DEF LengthIsFile
  <2>1. Len(rt) = 0 /\ InHand = 0 /\ Frames * (0 + 0) = 0
    BY WriterAssumption DEF InHand
  <2>2. Len(captured) = (Compensation - toDrop) + Len(file)
    <3>1. Len(captured) = (Compensation - toDrop) + Len(file) + Frames * (0 + 0)
      BY <2>1 DEF IInv, FramesAccounted
    <3>2. QED
      BY <2>1, <3>1, WriterAssumption DEF IInv, Types
  <2>3. length = Visible(Len(captured))
    BY DEF IInv, LengthIsVisible
  <2>4. toDrop > 0 => Len(file) = 0
    BY DEF IInv, FramesAccounted
  <2>5. QED
    BY <2>2, <2>3, <2>4, WriterAssumption DEF IInv, Types, Visible
<1>2. QED
  BY <1>1, InvHolds, PTL

\* finish_write_source() runs for a take that waits for it, with its writer
\* still there.
THEOREM EndToldOnce == Spec => []ToldOnce
<1>1. IInv => ToldOnce
  BY DEF IInv, EndOfTake, ToldOnce
<1>2. QED
  BY <1>1, InvHolds, PTL

\* No step touches a file that is finished, however late it was started.
THEOREM FinishedFileLeftAlone == Spec => ClosedForGood
<1>1. IInv /\ [Next]_vars =>
        [fileFinished => UNCHANGED <<file, toDrop, failed>>
                         /\ (finishedPosted' => finishedPosted)]_vars
  <2> SUFFICES ASSUME IInv, Next, fileFinished
               PROVE  UNCHANGED <<file, toDrop, failed>> /\ (finishedPosted' => finishedPosted)
    OBVIOUS
  <2>1. phase \in {"none", "made"}
    BY DEF IInv, EndOfTake
  <2>2. CASE FinishWriteSource
    BY <2>2 DEF FinishWriteSource
  <2>3. CASE UNCHANGED fileVars
    BY <2>3 DEF fileVars
  <2>4. ~(TakeSlot \/ WriteSlot \/ DrainEnds \/ GoOnRecording \/ FinishFile)
    BY <2>1 DEF TakeSlot, WriteSlot, DrainEnds, GoOnRecording, FinishFile
  <2>5. UNCHANGED fileVars \/ FinishWriteSource
    BY <2>4 DEF Next, Gui, AudioThread, Worker, StopTransport, StartTransport, HearStopped,
                SeekFinished, WriterRemoved, StopRolling, InitiateSeek, CycleStarts, Capture,
                CaptureLost, MakeStep, BeginStep
  <2>6. QED
    BY <2>2, <2>3, <2>5
<1>2. QED
  BY <1>1, InvHolds, PTL DEF Spec, ClosedForGood

-----------------------------------------------------------------------------
(* Flattened sequences.  The recursive function that FlattenSeq chooses is    *)
(* unique: two such functions would differ first at some place.               *)

\* The flattening of a sequence is one that grows by one of its elements at a time.
LEMMA FlattenSeqIs ==
  ASSUME NEW S, NEW s \in Seq(S), s # <<>>,
         NEW f, f = [i \in 1 .. Len(s) |-> IF i = 1 THEN s[i] ELSE f[i - 1] \o s[i]]
  PROVE  FlattenSeq(s) = f[Len(s)]
<1> DEFINE G(g) == g = [i \in 1 .. Len(s) |-> IF i = 1 THEN s[i] ELSE g[i - 1] \o s[i]]
<1>1. Len(s) \in Nat /\ Len(s) # 0
  OBVIOUS
<1>2. FlattenSeq(s) = (CHOOSE g : G(g))[Len(s)]
  BY <1>1 DEF FlattenSeq
<1>3. G(f)
  OBVIOUS
<1>4. PICK g : g = (CHOOSE h : G(h)) /\ G(g) /\ FlattenSeq(s) = g[Len(s)]
  <2> HIDE DEF G
  <2>1. G(CHOOSE h : G(h))
    BY <1>3
  <2>2. QED
    BY <1>2, <2>1
<1>5. \A i \in 1 .. Len(s) : g[i] = IF i = 1 THEN s[i] ELSE g[i - 1] \o s[i]
  BY <1>4
<1>6. \A i \in 1 .. Len(s) : f[i] = IF i = 1 THEN s[i] ELSE f[i - 1] \o s[i]
  OBVIOUS
<1> HIDE DEF G
<1>7. \A i \in 1 .. Len(s) : g[i] = f[i]
  <2> DEFINE D == {i \in 1 .. Len(s) : g[i] # f[i]}
             R == OpToRel(<, Nat)
  <2>1. SUFFICES ASSUME D # {} PROVE FALSE
    OBVIOUS
  <2>0. IsWellFoundedOn(R, Nat)
    BY NatLessThanWellFounded
  <2>2. D \subseteq Nat
    BY <1>1
  <2>3. \A k, m \in Nat : k < m => <<k, m>> \in R
    BY DEF OpToRel
  <2> HIDE DEF R
  <2>4. PICK m \in D : \A k \in D : ~ (<<k, m>> \in R)
    BY <2>0, <2>1, <2>2, WFMin
  <2>5. m \in 1 .. Len(s) /\ g[m] # f[m]
    OBVIOUS
  <2>6. m # 1
    BY <1>1, <1>5, <1>6, <2>5
  <2>7. m - 1 \in 1 .. Len(s) /\ m - 1 \in Nat /\ m - 1 < m
    BY <1>1, <2>5, <2>6
  <2>8. g[m - 1] = f[m - 1]
    <3>1. <<m - 1, m>> \in R
      BY <2>3, <2>7
    <3>2. m - 1 \notin D
      BY <2>4, <3>1
    <3>3. QED
      BY <2>7, <3>2
  <2>9. QED
    BY <1>5, <1>6, <2>5, <2>6, <2>8
<1>8. g[Len(s)] = f[Len(s)]
  <2>1. Len(s) \in 1 .. Len(s)
    BY <1>1
  <2>2. QED
    BY <1>7, <2>1, Zenon
<1>9. QED
  BY <1>4, <1>8, Zenon

\* A number is whole cycles and a part of one, in one way.
LEMMA WholeCycles ==
  ASSUME NEW k \in Nat, NEW j \in 0 .. Frames - 1
  PROVE  (k * Frames + j) \div Frames = k /\ (k * Frames + j) % Frames = j
<1>1. Frames \in Nat \ {0} /\ k * Frames + j \in Nat
  BY WriterAssumption
<1>2. k * Frames + j = k * Frames + j /\ 0 <= j /\ j < Frames
  BY <1>1
<1>3. QED
  BY <1>1, <1>2

LEMMA CycleOf ==
  ASSUME NEW i \in Nat
  PROVE  /\ i \div Frames \in Nat /\ i % Frames \in 0 .. Frames - 1
         /\ i = (i \div Frames) * Frames + (i % Frames)
  BY WriterAssumption

\* Fewer frames than those of n cycles are of less than n cycles.
LEMMA CycleBound ==
  ASSUME NEW n \in Nat, NEW i \in Nat, i < n * Frames
  PROVE  i \div Frames < n
<1>1. Frames \in Nat \ {0}
  BY WriterAssumption
<1>2. PICK k \in Nat : k = i \div Frames /\ k * Frames <= i
  <2>1. /\ i \div Frames \in Nat /\ i % Frames \in 0 .. Frames - 1
        /\ i = (i \div Frames) * Frames + (i % Frames)
    BY CycleOf
  <2>2. PICK k \in Nat, r \in Nat : k = i \div Frames /\ r = i % Frames
    BY <1>1, <2>1
  <2>3. i = k * Frames + r
    BY <2>1, <2>2
  <2>4. k * Frames <= i
    BY <1>1, <2>3
  <2>5. QED
    BY <2>2, <2>4
<1>3. k * Frames < n * Frames
  BY <1>1, <1>2
<1>4. ASSUME k >= n PROVE FALSE
  <2>1. PICK d \in Nat : k = n + d
    BY <1>4
  <2>2. k * Frames = n * Frames + d * Frames /\ d * Frames >= 0 /\ n * Frames \in Nat
    BY <1>1, <2>1
  <2>3. QED
    BY <1>1, <1>3, <2>2
<1>5. QED
  BY <1>2, <1>4

\* The m-th frame of the cycles cs.
Frame(cs, m) == FramesOf(cs[(m - 1) \div Frames + 1])[((m - 1) % Frames) + 1]

LEMMA FrameAt ==
  ASSUME NEW cs, NEW k \in Nat \ {0}, NEW j \in 1 .. Frames
  PROVE  Frame(cs, (k - 1) * Frames + j) = FramesOf(cs[k])[j]
<1>1. k - 1 \in Nat /\ j - 1 \in 0 .. Frames - 1 /\ Frames \in Nat \ {0}
  BY WriterAssumption
<1>2. ((k - 1) * Frames + (j - 1)) \div Frames = k - 1
      /\ ((k - 1) * Frames + (j - 1)) % Frames = j - 1
  BY <1>1, WholeCycles
<1>3. ((k - 1) * Frames + j) - 1 = (k - 1) * Frames + (j - 1)
  BY <1>1
<1>4. (k - 1) + 1 = k /\ (j - 1) + 1 = j
  BY <1>1
<1>5. QED
  BY <1>2, <1>3, <1>4 DEF Frame

\* Sequences of numbers: one by its elements, two put one behind the other.
LEMMA SameSequence ==
  ASSUME NEW a \in Seq(Nat), NEW b \in Seq(Nat), Len(a) = Len(b),
         \A m \in 1 .. Len(a) : a[m] = b[m]
  PROVE  a = b
  OBVIOUS

LEMMA BothSequences ==
  ASSUME NEW a \in Seq(Nat), NEW b \in Seq(Nat)
  PROVE  /\ a \o b \in Seq(Nat) /\ Len(a \o b) = Len(a) + Len(b)
         /\ \A m \in 1 .. Len(a) : (a \o b)[m] = a[m]
         /\ \A m \in 1 .. Len(b) : (a \o b)[Len(a) + m] = b[m]
  OBVIOUS

\* The frames of the first cycle are its frames; those of one cycle more, the
\* frames of the ones before with its frames behind.
LEMMA OneCycleMore ==
  ASSUME NEW cs \in Seq(Nat \ {0}), NEW i \in 1 .. Len(cs), NEW a, NEW b,
         a = [m \in 1 .. (i - 1) * Frames |-> Frame(cs, m)], a \in Seq(Nat),
         b = [m \in 1 .. i * Frames |-> Frame(cs, m)], b \in Seq(Nat)
  PROVE  b = a \o FramesOf(cs[i])
<1>0. /\ Frames \in Nat \ {0} /\ i - 1 \in Nat /\ cs[i] \in Nat \ {0} /\ i \in Nat \ {0}
  BY WriterAssumption
<1>1. i * Frames = (i - 1) * Frames + Frames /\ (i - 1) * Frames \in Nat
  BY <1>0
<1>2. PICK p \in Nat : p = (i - 1) * Frames /\ i * Frames = p + Frames
  BY <1>1
<1>3. FramesOf(cs[i]) \in Seq(Nat) /\ Len(FramesOf(cs[i])) = Frames
  BY <1>0, FramesOfType
<1>4. PICK c \in Seq(Nat) : c = FramesOf(cs[i])
  BY <1>3
<1>5. Len(a) = p /\ Len(b) = p + Frames /\ Len(c) = Frames
  BY <1>0, <1>2, <1>3, <1>4
<1>6. /\ a \o c \in Seq(Nat) /\ Len(a \o c) = p + Frames
      /\ \A m \in 1 .. p : (a \o c)[m] = a[m]
      /\ \A m \in 1 .. Frames : (a \o c)[p + m] = c[m]
  <2>1. /\ a \o c \in Seq(Nat) /\ Len(a \o c) = Len(a) + Len(c)
        /\ \A m \in 1 .. Len(a) : (a \o c)[m] = a[m]
        /\ \A m \in 1 .. Len(c) : (a \o c)[Len(a) + m] = c[m]
    BY BothSequences
  <2>2. QED
    BY <1>5, <2>1, Zenon
<1>7. ASSUME NEW m \in 1 .. p + Frames PROVE b[m] = (a \o c)[m]
  <2>1. b[m] = Frame(cs, m)
    BY <1>2
  <2>2. CASE m <= p
    <3>1. m \in 1 .. p
      BY <1>0, <2>2
    <3>2. a[m] = Frame(cs, m)
      BY <1>2, <3>1
    <3>3. QED
      BY <1>6, <2>1, <3>1, <3>2
  <2>3. CASE m > p
    <3>1. PICK j \in 1 .. Frames : m = p + j
      <4>1. m - p \in 1 .. Frames /\ m = p + (m - p)
        BY <1>0, <2>3
      <4>2. QED
        BY <4>1
    <3>2. Frame(cs, (i - 1) * Frames + j) = FramesOf(cs[i])[j]
      BY <1>0, FrameAt
    <3>3. QED
      BY <1>2, <1>4, <1>6, <2>1, <3>1, <3>2
  <2>4. m <= p \/ m > p
    BY <1>0
  <2>5. QED
    BY <2>2, <2>3, <2>4
<1>8. b = a \o c
  BY <1>5, <1>6, <1>7, SameSequence
<1>9. QED
  BY <1>4, <1>8

\* A frame of the first n cycles is a number.
LEMMA FrameType ==
  ASSUME NEW cs \in Seq(Nat \ {0}), NEW i \in 1 .. Len(cs), NEW m \in 1 .. i * Frames
  PROVE  Frame(cs, m) \in Nat
<1>0. Frames \in Nat \ {0} /\ i \in Nat /\ i * Frames \in Nat
  BY WriterAssumption
<1>1. m - 1 \in Nat /\ m - 1 < i * Frames
  BY <1>0
<1>2. /\ (m - 1) \div Frames \in Nat /\ (m - 1) % Frames \in 0 .. Frames - 1
      /\ (m - 1) \div Frames < i
  BY <1>0, <1>1, CycleOf, CycleBound
<1>3. PICK c \in 1 .. Len(cs), j \in 1 .. Frames :
        c = (m - 1) \div Frames + 1 /\ j = ((m - 1) % Frames) + 1
  BY <1>0, <1>2
<1>4. FramesOf(cs[c]) \in [1 .. Frames -> Nat]
  <2>1. cs[c] \in Nat \ {0}
    OBVIOUS
  <2>2. QED
    BY <2>1, FramesOfType
<1>5. QED
  BY <1>3, <1>4 DEF Frame

\* The frames of all the cycles cs, by number.
LEMMA AllFramesAre ==
  ASSUME NEW cs \in Seq(Nat \ {0})
  PROVE  /\ AllFramesOf(cs) \in Seq(Nat)
         /\ Len(AllFramesOf(cs)) = Len(cs) * Frames
         /\ \A m \in 1 .. Len(cs) * Frames : AllFramesOf(cs)[m] = Frame(cs, m)
<1>0. /\ Frames \in Nat \ {0} /\ Len(cs) \in Nat /\ DOMAIN cs = 1 .. Len(cs)
      /\ \A i \in 1 .. Len(cs) : cs[i] \in Nat \ {0} /\ i * Frames \in Nat
  BY WriterAssumption
<1>1. PICK s : s = [i \in DOMAIN cs |-> FramesOf(cs[i])]
  OBVIOUS
<1>2. /\ s \in Seq(Seq(Nat)) /\ Len(s) = Len(cs)
      /\ \A i \in 1 .. Len(cs) : s[i] = FramesOf(cs[i])
  <2>1. \A i \in 1 .. Len(cs) : FramesOf(cs[i]) \in Seq(Nat)
    BY <1>0, FramesOfType
  <2>2. s \in [1 .. Len(cs) -> Seq(Nat)]
    BY <1>0, <1>1, <2>1
  <2>3. QED
    BY <1>0, <1>1, <2>2
<1>3. AllFramesOf(cs) = FlattenSeq(s)
  BY <1>1 DEF AllFramesOf
<1>4. CASE cs = <<>>
  <2>1. s = <<>> /\ Len(s) = 0
    BY <1>2, <1>4
  <2>2. FlattenSeq(s) = <<>>
    BY <2>1, Zenon DEF FlattenSeq
  <2>3. Len(cs) * Frames = 0
    BY <1>0, <1>4
  <2>4. QED
    BY <1>3, <2>2, <2>3
<1>5. CASE cs # <<>>
  <2>0. Len(cs) \in 1 .. Len(cs) /\ s # <<>>
    BY <1>0, <1>2, <1>5
  <2>1. PICK f : f = [i \in 1 .. Len(s) |-> [m \in 1 .. i * Frames |-> Frame(cs, m)]]
    OBVIOUS
  <2>2. \A i \in 1 .. Len(cs) : f[i] = [m \in 1 .. i * Frames |-> Frame(cs, m)]
    BY <1>2, <2>1
  <2>3. \A i \in 1 .. Len(cs) : f[i] \in Seq(Nat) /\ Len(f[i]) = i * Frames
    <3>1. TAKE i \in 1 .. Len(cs)
    <3>2. \A m \in 1 .. i * Frames : Frame(cs, m) \in Nat
      BY FrameType
    <3>3. PICK n \in Nat : n = i * Frames
      BY <1>0
    <3>4. f[i] \in [1 .. n -> Nat]
      BY <2>2, <3>2, <3>3
    <3>5. \A g \in [1 .. n -> Nat] : g \in Seq(Nat) /\ Len(g) = n
      OBVIOUS
    <3>6. QED
      BY <3>3, <3>4, <3>5
  <2>4. f = [i \in 1 .. Len(s) |-> IF i = 1 THEN s[i] ELSE f[i - 1] \o s[i]]
    <3>1. ASSUME NEW i \in 1 .. Len(cs)
          PROVE  f[i] = IF i = 1 THEN s[i] ELSE f[i - 1] \o s[i]
      <4>1. CASE i = 1
        <5>1. i * Frames = Frames /\ (i - 1) * Frames = 0
          BY <1>0, <4>1
        <5>2. <<>> = [m \in 1 .. (i - 1) * Frames |-> Frame(cs, m)] /\ <<>> \in Seq(Nat)
          BY <5>1
        <5>3. f[i] = <<>> \o FramesOf(cs[i])
          BY <2>2, <2>3, <5>2, OneCycleMore
        <5>4. FramesOf(cs[i]) \in Seq(Nat)
          BY <1>0, FramesOfType
        <5>5. \A t \in Seq(Nat) : <<>> \o t = t
          OBVIOUS
        <5>6. QED
          BY <1>2, <4>1, <5>3, <5>4, <5>5
      <4>2. CASE i # 1
        <5>1. i - 1 \in 1 .. Len(cs)
          BY <1>0, <4>2
        <5>2. f[i] = f[i - 1] \o FramesOf(cs[i])
          BY <2>2, <2>3, <5>1, OneCycleMore
        <5>3. QED
          BY <1>2, <4>2, <5>2
      <4>3. QED
        BY <4>1, <4>2
    <3>2. QED
      BY <1>2, <2>1, <3>1
  <2>5. FlattenSeq(s) = f[Len(s)]
    BY <1>2, <2>0, <2>4, FlattenSeqIs
  <2>6. AllFramesOf(cs) = f[Len(cs)]
    BY <1>2, <1>3, <2>5
  <2>7. /\ f[Len(cs)] \in Seq(Nat) /\ Len(f[Len(cs)]) = Len(cs) * Frames
        /\ f[Len(cs)] = [m \in 1 .. Len(cs) * Frames |-> Frame(cs, m)]
    BY <2>0, <2>2, <2>3
  <2>8. ASSUME NEW m \in 1 .. Len(cs) * Frames PROVE AllFramesOf(cs)[m] = Frame(cs, m)
    BY <2>6, <2>7
  <2>9. QED
    BY <2>6, <2>7, <2>8
<1>6. QED
  BY <1>4, <1>5

-----------------------------------------------------------------------------
(* The file is the capture.                                                *)

\* How many of the captured frames are dropped or in the file.
Gone == Compensation - toDrop + Len(file)

\* The file holds what was captured, from the first frame on that is not
\* dropped.
WrittenInOrder ==
  /\ file # <<>> => Compensation + Len(file) <= Len(captured)
  /\ \A i \in 1 .. Len(file) : file[i] = captured[Compensation + i]

\* The cycles that wait for the file hold what comes then, one after another:
\* first the one in the worker's hand, then the queued ones.
PendingInOrder ==
  ~failed =>
    /\ hand # 0 => \A j \in 1 .. Frames : captured[Gone + j] = FramesOf(hand)[j]
    /\ \A k \in 1 .. Len(rt), j \in 1 .. Frames :
         captured[Gone + (InHand + k - 1) * Frames + j] = FramesOf(rt[k])[j]

InOrder == WrittenInOrder /\ PendingInOrder

LEMMA InOrderInit == Init => InOrder
  BY DEF Init, InOrder, WrittenInOrder, PendingInOrder

\* A frame of a cycle is one of all the cycles' frames.
LEMMA WithinCycles ==
  ASSUME NEW n \in Nat, NEW k \in Nat, k < n, NEW j \in 1 .. Frames
  PROVE  k * Frames + j \in 1 .. n * Frames /\ n * Frames \in Nat /\ k * Frames \in Nat
<1>1. Frames \in Nat \ {0}
  BY WriterAssumption
<1>2. PICK d \in Nat : n = k + 1 + d
  <2>1. n - k - 1 \in Nat /\ n = k + 1 + (n - k - 1)
    OBVIOUS
  <2>2. QED
    BY <2>1
<1>3. n * Frames = k * Frames + Frames + d * Frames
  BY <1>1, <1>2
<1>4. d * Frames \in Nat /\ k * Frames \in Nat
  BY <1>1
<1>5. QED
  BY <1>1, <1>3, <1>4

\* The captured frames are those that are gone and those that wait.
LEMMA CapturedFrames ==
  ASSUME Types, FramesAccounted, ~failed
  PROVE  /\ Gone \in Nat /\ InHand \in {0, 1} /\ Len(rt) \in Nat
         /\ (InHand + Len(rt)) * Frames \in Nat
         /\ Len(captured) = Gone + (InHand + Len(rt)) * Frames
<1>1. /\ Frames \in Nat \ {0} /\ InHand \in {0, 1} /\ Len(rt) \in Nat /\ Len(file) \in Nat
      /\ toDrop \in 0 .. Compensation /\ Compensation \in Nat
  BY WriterAssumption DEF Types, InHand
<1>2. Frames * (Len(rt) + InHand) = (InHand + Len(rt)) * Frames
      /\ (InHand + Len(rt)) * Frames \in Nat
  BY <1>1
<1>3. Len(captured) = Gone + Frames * (Len(rt) + InHand)
  BY <1>1 DEF FramesAccounted, Gone
<1>4. QED
  BY <1>1, <1>2, <1>3 DEF Gone

\* A cycle that is captured waits behind the others.
LEMMA InOrderCapture ==
  ASSUME Types, FramesAccounted, InOrder, Capture
  PROVE  InOrder'
<1>1. /\ cycles \in Nat \ {0} /\ captured \in Seq(Nat) /\ rt \in Seq(1 .. MaxCycles)
      /\ file \in Seq(Nat) /\ Compensation \in Nat /\ Frames \in Nat \ {0}
  BY WriterAssumption DEF Types, Capture
<1>2. PICK e \in Seq(Nat) : e = FramesOf(cycles) /\ Len(e) = Frames
  BY <1>1, FramesOfType
<1>3. /\ captured' = captured \o e /\ rt' = Append(rt, cycles)
      /\ UNCHANGED <<file, failed, toDrop, hand>>
  BY <1>2 DEF Capture, fileVars, stepVars
<1>4. /\ Len(captured') = Len(captured) + Len(e)
      /\ \A m \in 1 .. Len(captured) : captured'[m] = captured[m]
      /\ \A m \in 1 .. Len(e) : captured'[Len(captured) + m] = e[m]
  BY <1>1, <1>3, BothSequences
<1>5. WrittenInOrder'
  <2>1. ASSUME NEW i \in 1 .. Len(file) PROVE file[i] = captured'[Compensation + i]
    <3>1. Compensation + i \in 1 .. Len(captured)
      BY <1>1 DEF InOrder, WrittenInOrder
    <3>2. QED
      BY <1>4, <3>1 DEF InOrder, WrittenInOrder
  <2>2. QED
    BY <1>1, <1>2, <1>3, <1>4, <2>1 DEF InOrder, WrittenInOrder
<1>6. ASSUME ~failed PROVE PendingInOrder'
  <2>1. /\ Gone \in Nat /\ InHand \in {0, 1} /\ Len(rt) \in Nat
        /\ (InHand + Len(rt)) * Frames \in Nat
        /\ Len(captured) = Gone + (InHand + Len(rt)) * Frames
    BY <1>6, CapturedFrames
  <2>2. Gone' = Gone /\ InHand' = InHand
    BY <1>3 DEF Gone, InHand
  <2>3. ASSUME NEW k \in Nat, k < InHand + Len(rt), NEW j \in 1 .. Frames
        PROVE  captured'[Gone + k * Frames + j] = captured[Gone + k * Frames + j]
    <3>1. k * Frames + j \in 1 .. (InHand + Len(rt)) * Frames /\ k * Frames \in Nat
      BY <2>1, <2>3, WithinCycles
    <3>2. Gone + k * Frames + j \in 1 .. Len(captured)
      BY <2>1, <3>1
    <3>3. QED
      BY <1>4, <3>2
  <2>4. ASSUME hand # 0, NEW j \in 1 .. Frames
        PROVE  captured'[Gone + j] = FramesOf(hand)[j]
    <3>1. InHand = 1 /\ 0 * Frames = 0 /\ Gone + 0 * Frames + j = Gone + j
      BY <1>1, <2>1, <2>4 DEF InHand
    <3>2. captured'[Gone + 0 * Frames + j] = captured[Gone + 0 * Frames + j]
      BY <2>1, <2>3, <3>1
    <3>3. captured[Gone + j] = FramesOf(hand)[j]
      BY <1>6, <2>4 DEF InOrder, PendingInOrder
    <3>4. QED
      BY <3>1, <3>2, <3>3
  <2>5. ASSUME NEW k \in 1 .. Len(rt'), NEW j \in 1 .. Frames
        PROVE  captured'[Gone + (InHand + k - 1) * Frames + j] = FramesOf(rt'[k])[j]
    <3>1. CASE k \in 1 .. Len(rt)
      <4>1. rt'[k] = rt[k]
        BY <1>1, <1>3, <3>1
      <4>2. PICK n \in Nat : n = InHand + k - 1 /\ n < InHand + Len(rt)
        <5>1. InHand + k - 1 \in Nat /\ InHand + k - 1 < InHand + Len(rt)
          BY <2>1, <3>1
        <5>2. QED
          BY <5>1
      <4>3. captured'[Gone + n * Frames + j] = captured[Gone + n * Frames + j]
        BY <2>3, <4>2
      <4>4. captured[Gone + (InHand + k - 1) * Frames + j] = FramesOf(rt[k])[j]
        BY <1>6, <3>1 DEF InOrder, PendingInOrder
      <4>5. QED
        BY <4>1, <4>2, <4>3, <4>4
    <3>2. CASE k = Len(rt) + 1
      <4>1. rt'[k] = cycles
        BY <1>1, <1>3, <3>2
      <4>2. PICK n \in Nat : n = InHand + k - 1 /\ n = InHand + Len(rt)
        BY <2>1, <3>2
      <4>3. Gone + n * Frames + j = Len(captured) + j
        BY <2>1, <4>2
      <4>4. captured'[Len(captured) + j] = e[j]
        BY <1>2, <1>4
      <4>5. QED
        BY <1>2, <4>1, <4>2, <4>3, <4>4
    <3>3. Len(rt') = Len(rt) + 1
      BY <1>1, <1>3
    <3>4. k \in 1 .. Len(rt) \/ k = Len(rt) + 1
      BY <2>1, <3>3
    <3>5. QED
      BY <3>1, <3>2, <3>4
  <2>6. QED
    BY <1>3, <2>2, <2>4, <2>5 DEF PendingInOrder
<1>7. QED
  BY <1>3, <1>5, <1>6 DEF InOrder, PendingInOrder

\* The worker takes the cycle that waits longest.
LEMMA InOrderTake ==
  ASSUME Types, InOrder, TakeSlot
  PROVE  InOrder'
<1>1. /\ rt # <<>> /\ rt \in Seq(1 .. MaxCycles) /\ hand = 0 /\ hand' = rt[1] /\ hand' # 0
      /\ rt' = Tail(rt) /\ UNCHANGED <<file, failed, toDrop, captured>>
      /\ Frames \in Nat \ {0}
  BY WriterAssumption DEF TakeSlot, Types, fileVars, audioVars
<1>2. /\ Len(rt') = Len(rt) - 1 /\ Len(rt) \in Nat \ {0}
      /\ \A k \in 1 .. Len(rt') : rt'[k] = rt[k + 1]
  BY <1>1
<1>3. Gone' = Gone /\ InHand = 0 /\ InHand' = 1
  BY <1>1 DEF Gone, InHand
<1>4. ASSUME ~failed PROVE PendingInOrder'
  <2>1. \A k \in 1 .. Len(rt), j \in 1 .. Frames :
          captured[Gone + (InHand + k - 1) * Frames + j] = FramesOf(rt[k])[j]
    BY <1>4 DEF InOrder, PendingInOrder
  <2>2. ASSUME NEW j \in 1 .. Frames PROVE captured[Gone + j] = FramesOf(rt[1])[j]
    <3>1. captured[Gone + (InHand + 1 - 1) * Frames + j] = FramesOf(rt[1])[j]
      BY <1>2, <2>1
    <3>2. InHand + 1 - 1 = 0 /\ 0 * Frames = 0
      BY <1>1, <1>3
    <3>3. Gone \in Int
      BY WriterAssumption DEF Gone, Types
    <3>4. Gone + 0 * Frames + j = Gone + j
      BY <1>1, <3>3
    <3>5. QED
      BY <3>1, <3>2, <3>4
  <2>3. ASSUME NEW k \in 1 .. Len(rt'), NEW j \in 1 .. Frames
        PROVE  captured[Gone + (1 + k - 1) * Frames + j] = FramesOf(rt'[k])[j]
    <3>1. k + 1 \in 1 .. Len(rt) /\ InHand + (k + 1) - 1 = 1 + k - 1
      BY <1>2, <1>3
    <3>2. captured[Gone + (InHand + (k + 1) - 1) * Frames + j] = FramesOf(rt[k + 1])[j]
      BY <2>1, <3>1
    <3>3. QED
      BY <1>2, <3>1, <3>2
  <2>4. QED
    BY <1>1, <1>3, <2>2, <2>3 DEF PendingInOrder
<1>5. WrittenInOrder'
  BY <1>1 DEF InOrder, WrittenInOrder
<1>6. QED
  BY <1>1, <1>4, <1>5 DEF InOrder, PendingInOrder

\* The worker writes what is left of the cycle in its hand, or fails to.
LEMMA InOrderWrite ==
  ASSUME Types, FramesAccounted, InOrder, WriteSlot
  PROVE  InOrder'
<1>1. /\ phase = "writing" /\ hand \in Nat \ {0} /\ hand' = 0
      /\ toDrop' = toDrop - FramesToDrop /\ UNCHANGED <<rt, captured>>
      /\ failed => failed'
      /\ file' = IF failed' THEN file
                 ELSE file \o SubSeq(FramesOf(hand), FramesToDrop + 1, Frames)
  <2>1. phase = "writing" /\ hand' = 0 /\ toDrop' = toDrop - FramesToDrop
        /\ UNCHANGED <<rt, captured>>
    BY DEF WriteSlot, audioVars
  <2>2. hand \in Nat \ {0}
    <3>1. hand # 0 /\ hand \in 0 .. MaxCycles
      BY <2>1 DEF Types
    <3>2. QED
      BY <3>1
  <2>3. failed => failed'
    <3>1. failed' = failed \/ failed' = TRUE
      BY DEF WriteSlot
    <3>2. QED
      BY <3>1
  <2>4. file' = IF failed' THEN file
                ELSE file \o SubSeq(FramesOf(hand), FramesToDrop + 1, Frames)
    BY DEF WriteSlot
  <2>5. QED
    BY <2>1, <2>2, <2>3, <2>4
<1>2. /\ FramesToDrop \in 0 .. Frames /\ toDrop \in 0 .. Compensation
      /\ FramesToDrop < Frames => toDrop = FramesToDrop
      /\ toDrop > 0 => file = <<>>
  BY FramesToDropRange DEF FramesAccounted, Types
<1>3. /\ Frames \in Nat \ {0} /\ Compensation \in Nat /\ file \in Seq(Nat) /\ Len(file) \in Nat
      /\ captured \in Seq(Nat)
  BY WriterAssumption DEF Types
<1>4. CASE failed'
  BY <1>1, <1>4 DEF InOrder, WrittenInOrder, PendingInOrder
<1>5. CASE ~failed'
  <2>0. ~failed
    BY <1>1, <1>5
  <2>1. PICK e : e = SubSeq(FramesOf(hand), FramesToDrop + 1, Frames)
    OBVIOUS
  <2>2. /\ e \in Seq(Nat) /\ Len(e) = Frames - FramesToDrop
        /\ \A m \in 1 .. Frames - FramesToDrop : e[m] = FramesOf(hand)[FramesToDrop + m]
    <3>1. FramesOf(hand) \in Seq(Nat) /\ Len(FramesOf(hand)) = Frames
      BY <1>1, FramesOfType
    <3>2. QED
      BY <1>2, <1>3, <2>1, <3>1
  <2>3. file' = file \o e
    BY <1>1, <1>5, <2>1
  <2>4. /\ Len(file') = Len(file) + Len(e)
        /\ \A m \in 1 .. Len(file) : file'[m] = file[m]
        /\ \A m \in 1 .. Len(e) : file'[Len(file) + m] = e[m]
    BY <1>3, <2>2, <2>3, BothSequences
  <2>5. /\ Gone \in Nat /\ InHand = 1 /\ InHand' = 0 /\ Len(rt) \in Nat
        /\ (InHand + Len(rt)) * Frames \in Nat
        /\ Len(captured) = Gone + (InHand + Len(rt)) * Frames
    BY <1>1, <2>0, CapturedFrames DEF InHand
  <2>6. Gone' = Gone + Frames
    <3>1. Len(file') = Len(file) + (Frames - FramesToDrop)
      BY <2>2, <2>4
    <3>2. Gone' = Compensation - toDrop' + Len(file')
      BY DEF Gone
    <3>3. /\ FramesToDrop \in Int /\ toDrop \in Int
          /\ toDrop' = toDrop - FramesToDrop
      BY <1>1, <1>2, <1>3
    <3>4. QED
      BY <1>3, <3>1, <3>2, <3>3 DEF Gone
  <2>7. (InHand + Len(rt)) * Frames = Frames + Len(rt) * Frames /\ Len(rt) * Frames \in Nat
    BY <1>3, <2>5
  <2>8. Gone = Compensation - toDrop + Len(file)
    BY DEF Gone
  <2>9. WrittenInOrder'
    <3>1. ASSUME file' # <<>> PROVE Compensation + Len(file') <= Len(captured)
      <4>1. CASE FramesToDrop < Frames
        BY <1>2, <1>3, <2>2, <2>4, <2>5, <2>7, <2>8, <4>1
      <4>2. CASE FramesToDrop = Frames
        <5>1. Len(e) = 0
          BY <1>3, <2>2, <4>2
        <5>2. file # <<>> /\ Len(file') = Len(file)
          BY <1>3, <2>2, <2>3, <2>4, <3>1, <5>1
        <5>3. QED
          BY <5>2 DEF InOrder, WrittenInOrder
      <4>3. QED
        BY <1>2, <1>3, <4>1, <4>2
    <3>2. ASSUME NEW i \in 1 .. Len(file') PROVE file'[i] = captured[Compensation + i]
      <4>1. CASE i \in 1 .. Len(file)
        BY <2>4, <4>1 DEF InOrder, WrittenInOrder
      <4>2. CASE i \notin 1 .. Len(file)
        <5>1. PICK m \in 1 .. Frames - FramesToDrop : i = Len(file) + m
          <6>1. i - Len(file) \in 1 .. Frames - FramesToDrop /\ i = Len(file) + (i - Len(file))
            BY <1>2, <1>3, <2>2, <2>4, <4>2
          <6>2. QED
            BY <6>1
        <5>2. toDrop = FramesToDrop /\ FramesToDrop + m \in 1 .. Frames
          BY <1>2, <1>3
        <5>3. captured[Gone + (FramesToDrop + m)] = FramesOf(hand)[FramesToDrop + m]
          BY <1>1, <2>0, <5>2 DEF InOrder, PendingInOrder
        <5>4. Gone + (FramesToDrop + m) = Compensation + i
          BY <1>2, <1>3, <2>8, <5>1, <5>2
        <5>5. file'[i] = FramesOf(hand)[FramesToDrop + m]
          BY <2>2, <2>4, <5>1
        <5>6. QED
          BY <5>3, <5>4, <5>5
      <4>3. QED
        BY <4>1, <4>2
    <3>3. QED
      BY <1>1, <3>1, <3>2 DEF WrittenInOrder
  <2>10. ASSUME NEW k \in 1 .. Len(rt), NEW j \in 1 .. Frames
         PROVE  captured[Gone' + (0 + k - 1) * Frames + j] = FramesOf(rt[k])[j]
    <3>1. captured[Gone + (InHand + k - 1) * Frames + j] = FramesOf(rt[k])[j]
      BY <2>0 DEF InOrder, PendingInOrder
    <3>2. (InHand + k - 1) * Frames = Frames + (0 + k - 1) * Frames
          /\ (0 + k - 1) * Frames \in Int
      BY <1>3, <2>5
    <3>3. Gone' + (0 + k - 1) * Frames + j = Gone + (InHand + k - 1) * Frames + j
      BY <1>3, <2>5, <2>6, <3>2
    <3>4. QED
      BY <3>1, <3>3
  <2>11. PendingInOrder'
    BY <1>1, <2>5, <2>10 DEF PendingInOrder
  <2>12. QED
    BY <2>9, <2>11 DEF InOrder
<1>6. QED
  BY <1>4, <1>5

\* The other steps leave the frames where they are.
LEMMA InOrderStep == IInv /\ InOrder /\ [Next]_vars => InOrder'
<1> SUFFICES ASSUME IInv, InOrder, [Next]_vars PROVE InOrder'
  OBVIOUS
<1>1. CASE Capture \/ TakeSlot \/ WriteSlot
  BY <1>1, InOrderCapture, InOrderTake, InOrderWrite DEF IInv
<1>2. CASE UNCHANGED <<rt, hand, toDrop, file, failed, captured>>
  BY <1>2 DEF InOrder, WrittenInOrder, PendingInOrder, Gone, InHand
<1>3. QED
  BY <1>1, <1>2
  DEF Next, Gui, AudioThread, Worker, vars, StopTransport, StartTransport, HearStopped,
      SeekFinished, FinishWriteSource, WriterRemoved, StopRolling, InitiateSeek,
      CycleStarts, CaptureLost, MakeStep, BeginStep, DrainEnds, GoOnRecording, FinishFile,
      ringVars, fileVars, stepVars, audioVars, clipVars, songVars

\* A part of a sequence of numbers, by its elements.
LEMMA PartOf ==
  ASSUME NEW s \in Seq(Nat), NEW a \in Nat
  PROVE  LET part == SubSeq(s, a + 1, Len(s))
         IN /\ part \in Seq(Nat)
            /\ Len(part) = IF a < Len(s) THEN Len(s) - a ELSE 0
            /\ \A i \in 1 .. Len(part) : part[i] = s[a + i]
<1>1. CASE a < Len(s)
  BY <1>1
<1>2. CASE ~(a < Len(s))
  <2>1. a + 1 > Len(s)
    BY <1>2
  <2>2. SubSeq(s, a + 1, Len(s)) = <<>>
    BY <2>1
  <2>3. QED
    BY <1>2, <2>2
<1>3. QED
  BY <1>1, <1>2

\* What waits for the file are the last of the captured frames.
LEMMA PendingAre ==
  ASSUME Types, FramesAccounted, InOrder, ~failed
  PROVE  LET pending == (IF hand = 0 THEN <<>> ELSE FramesOf(hand)) \o AllFramesOf(rt)
         IN /\ pending \in Seq(Nat) /\ Len(captured) = Gone + Len(pending)
            /\ \A m \in 1 .. Len(pending) : pending[m] = captured[Gone + m]
<1>1. /\ Gone \in Nat /\ InHand \in {0, 1} /\ Len(rt) \in Nat /\ Frames \in Nat \ {0}
      /\ (InHand + Len(rt)) * Frames \in Nat
      /\ Len(captured) = Gone + (InHand + Len(rt)) * Frames
  BY WriterAssumption, CapturedFrames
<1>2. /\ AllFramesOf(rt) \in Seq(Nat) /\ Len(AllFramesOf(rt)) = Len(rt) * Frames
      /\ \A m \in 1 .. Len(rt) * Frames : AllFramesOf(rt)[m] = Frame(rt, m)
  <2>1. rt \in Seq(Nat \ {0})
    <3>1. rt \in Seq(1 .. MaxCycles)
      BY DEF Types
    <3>2. \A i \in 1 .. Len(rt) : rt[i] \in 1 .. MaxCycles
      <4>1. \A q \in Seq(1 .. MaxCycles) : \A i \in 1 .. Len(q) : q[i] \in 1 .. MaxCycles
        BY WriterAssumption
      <4>2. QED
        BY <3>1, <4>1, Zenon
    <3>3. \A i \in 1 .. Len(rt) : rt[i] \in Nat \ {0}
      BY <3>2
    <3>4. QED
      BY <3>1, <3>3
  <2>2. QED
    BY <2>1, AllFramesAre
<1>3. \A k \in 1 .. Len(rt), j \in 1 .. Frames :
        captured[Gone + (InHand + k - 1) * Frames + j] = FramesOf(rt[k])[j]
  BY DEF InOrder, PendingInOrder
<1>4. ASSUME NEW m \in 1 .. Len(rt) * Frames
      PROVE  AllFramesOf(rt)[m] = captured[Gone + InHand * Frames + m]
  <2>1. m - 1 \in Nat /\ m - 1 < Len(rt) * Frames /\ m = (m - 1) + 1
    <3>1. Len(rt) * Frames \in Nat
      BY <1>1
    <3>2. QED
      BY <3>1
  <2>2. /\ (m - 1) \div Frames \in Nat /\ (m - 1) % Frames \in 0 .. Frames - 1
        /\ m - 1 = ((m - 1) \div Frames) * Frames + ((m - 1) % Frames)
        /\ (m - 1) \div Frames < Len(rt)
    <3>1. (m - 1) \div Frames < Len(rt)
      BY <1>1, <2>1, CycleBound
    <3>2. /\ (m - 1) \div Frames \in Nat /\ (m - 1) % Frames \in 0 .. Frames - 1
          /\ m - 1 = ((m - 1) \div Frames) * Frames + ((m - 1) % Frames)
      BY ONLY <2>1, CycleOf
    <3>3. QED
      BY <3>1, <3>2
  <2>3. PICK k \in 1 .. Len(rt), j \in 1 .. Frames :
          /\ k = (m - 1) \div Frames + 1 /\ j = ((m - 1) % Frames) + 1
          /\ (m - 1) \div Frames = k - 1 /\ (m - 1) % Frames = j - 1
    <3>1. \A d, e \in Int : d \in Nat /\ d < Len(rt) /\ e \in 0 .. Frames - 1 =>
            /\ d + 1 \in 1 .. Len(rt) /\ e + 1 \in 1 .. Frames
            /\ d = (d + 1) - 1 /\ e = (e + 1) - 1
      BY <1>1
    <3>2. PICK d, e : d = (m - 1) \div Frames /\ e = (m - 1) % Frames
      OBVIOUS
    <3>3. /\ d + 1 \in 1 .. Len(rt) /\ e + 1 \in 1 .. Frames
          /\ d = (d + 1) - 1 /\ e = (e + 1) - 1
      BY <1>1, <2>2, <3>1, <3>2
    <3>4. QED
      BY <3>2, <3>3
  <2>4. m = (k - 1) * Frames + j
    BY <1>1, <2>1, <2>2, <2>3
  <2>5. Frame(rt, m) = FramesOf(rt[k])[j]
    BY <2>3 DEF Frame
  <2>6. (InHand + k - 1) * Frames = InHand * Frames + (k - 1) * Frames
        /\ InHand * Frames \in Nat /\ (k - 1) * Frames \in Nat
    BY <1>1
  <2>7. Gone + (InHand + k - 1) * Frames + j = Gone + InHand * Frames + m
    BY <1>1, <2>4, <2>6
  <2>8. QED
    BY <1>2, <1>3, <2>5, <2>7
<1>5. CASE hand = 0
  <2>1. InHand = 0 /\ 0 * Frames = 0 /\ (0 + Len(rt)) * Frames = Len(rt) * Frames
    BY <1>1, <1>5 DEF InHand
  <2>2. <<>> \o AllFramesOf(rt) = AllFramesOf(rt)
    BY <1>2
  <2>3. ASSUME NEW m \in 1 .. Len(rt) * Frames PROVE AllFramesOf(rt)[m] = captured[Gone + m]
    <3>1. AllFramesOf(rt)[m] = captured[Gone + 0 + m]
      BY <1>4, <2>1
    <3>2. Gone + 0 + m = Gone + m
      BY <1>1
    <3>3. QED
      BY <3>1, <3>2
  <2>4. QED
    BY <1>1, <1>2, <1>5, <2>1, <2>2, <2>3
<1>6. CASE hand # 0
  <2>1. InHand = 1 /\ 1 * Frames = Frames
        /\ (1 + Len(rt)) * Frames = Frames + Len(rt) * Frames /\ Len(rt) * Frames \in Nat
    BY <1>1, <1>6 DEF InHand
  <2>2. PICK h : h = FramesOf(hand) /\ h \in Seq(Nat) /\ Len(h) = Frames
    <3>1. hand \in Nat \ {0}
      BY <1>6 DEF Types
    <3>2. QED
      BY <3>1, FramesOfType
  <2>3. PICK r : r = AllFramesOf(rt) /\ r \in Seq(Nat)
    BY <1>2
  <2>4. /\ h \o r \in Seq(Nat) /\ Len(h \o r) = Len(h) + Len(r)
        /\ \A m \in 1 .. Len(h) : (h \o r)[m] = h[m]
        /\ \A m \in 1 .. Len(r) : (h \o r)[Len(h) + m] = r[m]
    BY <2>2, <2>3, BothSequences
  <2>5. Len(h \o r) = Frames + Len(rt) * Frames
    BY <1>2, <2>2, <2>3, <2>4
  <2>6. ASSUME NEW m \in 1 .. Len(h \o r) PROVE (h \o r)[m] = captured[Gone + m]
    <3>1. CASE m <= Frames
      <4>1. m \in 1 .. Frames
        BY <1>1, <3>1
      <4>2. captured[Gone + m] = FramesOf(hand)[m]
        BY <1>6, <4>1 DEF InOrder, PendingInOrder
      <4>3. QED
        BY <2>2, <2>4, <4>1, <4>2
    <3>2. CASE m > Frames
      <4>1. PICK n \in 1 .. Len(rt) * Frames : m = Frames + n
        <5>1. m - Frames \in 1 .. Len(rt) * Frames /\ m = Frames + (m - Frames)
          BY <1>1, <2>1, <2>5, <3>2
        <5>2. QED
          BY <5>1
      <4>2. (h \o r)[m] = AllFramesOf(rt)[n]
        BY <1>2, <2>2, <2>3, <2>4, <4>1
      <4>3. Gone + InHand * Frames + n = Gone + m
        BY <1>1, <2>1, <4>1
      <4>4. QED
        BY <1>4, <4>2, <4>3
    <3>3. QED
      BY <1>1, <2>1, <2>5, <3>1, <3>2
  <2>7. Len(captured) = Gone + Len(h \o r)
    BY <1>1, <2>1, <2>5
  <2>8. QED
    BY <1>6, <2>2, <2>3, <2>4, <2>6, <2>7
<1>7. QED
  BY <1>5, <1>6

LEMMA InOrderIsCapture ==
  ASSUME Types, FramesAccounted, InOrder
  PROVE  FileIsCapture
<1>1. PICK wanted : wanted = SubSeq(captured, Compensation + 1, Len(captured))
  OBVIOUS
<1>2. /\ captured \in Seq(Nat) /\ Compensation \in Nat /\ file \in Seq(Nat)
      /\ toDrop \in 0 .. Compensation /\ Len(file) \in Nat /\ Len(captured) \in Nat
  BY WriterAssumption DEF Types
<1>3. /\ wanted \in Seq(Nat)
      /\ Len(wanted) = IF Compensation < Len(captured) THEN Len(captured) - Compensation ELSE 0
      /\ \A i \in 1 .. Len(wanted) : wanted[i] = captured[Compensation + i]
  BY <1>1, <1>2, PartOf
<1>4. Len(file) <= Len(wanted) /\ \A i \in 1 .. Len(file) : file[i] = wanted[i]
  <2>1. CASE file = <<>>
    BY <1>2, <1>3, <2>1
  <2>2. CASE file # <<>>
    <3>1. Compensation + Len(file) <= Len(captured) /\ Len(file) > 0
      BY <1>2, <2>2 DEF InOrder, WrittenInOrder
    <3>2. Len(file) <= Len(wanted)
      BY <1>2, <1>3, <3>1
    <3>3. QED
      BY <1>2, <1>3, <3>2 DEF InOrder, WrittenInOrder
  <2>3. QED
    BY <2>1, <2>2
<1>5. IsPrefix(file, wanted)
  <2>1. SubSeq(file, 1, Len(file)) = SubSeq(wanted, 1, Len(file))
    <3>1. SubSeq(file, 1, Len(file)) = file
      BY <1>2
    <3>2. PICK b : b = SubSeq(wanted, 1, Len(file))
      OBVIOUS
    <3>3. b \in Seq(Nat) /\ Len(b) = Len(file) /\ \A i \in 1 .. Len(file) : b[i] = wanted[i]
      BY <1>2, <1>3, <1>4, <3>2
    <3>4. file = b
      BY <1>2, <1>4, <3>3, SameSequence
    <3>5. QED
      BY <3>1, <3>2, <3>4
  <2>2. QED
    BY <1>4, <2>1 DEF IsPrefix
<1>6. ASSUME ~failed,
             NEW pending, pending = (IF hand = 0 THEN <<>> ELSE FramesOf(hand)) \o AllFramesOf(rt)
      PROVE  file \o SubSeq(pending, toDrop + 1, Len(pending)) = wanted
  <2>1. /\ pending \in Seq(Nat) /\ Len(captured) = Gone + Len(pending)
        /\ \A m \in 1 .. Len(pending) : pending[m] = captured[Gone + m]
    BY <1>6, PendingAre
  <2>2. Gone = Compensation - toDrop + Len(file)
    BY DEF Gone
  <2>3. PICK rest : rest = SubSeq(pending, toDrop + 1, Len(pending))
    OBVIOUS
  <2>4. /\ rest \in Seq(Nat)
        /\ Len(rest) = IF toDrop < Len(pending) THEN Len(pending) - toDrop ELSE 0
        /\ \A m \in 1 .. Len(rest) : rest[m] = pending[toDrop + m]
    <3>1. toDrop \in Nat
      BY <1>2
    <3>2. QED
      BY <2>1, <2>3, <3>1, PartOf
  <2>5. /\ file \o rest \in Seq(Nat) /\ Len(file \o rest) = Len(file) + Len(rest)
        /\ \A m \in 1 .. Len(file) : (file \o rest)[m] = file[m]
        /\ \A m \in 1 .. Len(rest) : (file \o rest)[Len(file) + m] = rest[m]
    BY <1>2, <2>4, BothSequences
  <2>6. toDrop > 0 => Len(file) = 0
    BY <1>2 DEF FramesAccounted
  <2>7. Len(file \o rest) = Len(wanted)
    <3>1. Len(pending) \in Nat
      BY <2>1
    <3>2. Len(captured) = Compensation - toDrop + Len(file) + Len(pending)
      BY <2>1, <2>2
    <3>3. CASE toDrop < Len(pending)
      BY <1>2, <1>3, <2>4, <2>5, <2>6, <3>1, <3>2, <3>3
    <3>4. CASE ~(toDrop < Len(pending))
      BY <1>2, <1>3, <2>4, <2>5, <2>6, <3>1, <3>2, <3>4
    <3>5. QED
      BY <3>3, <3>4
  <2>8. ASSUME NEW i \in 1 .. Len(file \o rest) PROVE (file \o rest)[i] = wanted[i]
    <3>1. CASE i <= Len(file)
      BY <1>2, <1>4, <2>5, <3>1
    <3>2. CASE i > Len(file)
      <4>1. PICK m \in 1 .. Len(rest) : i = Len(file) + m
        <5>1. i - Len(file) \in 1 .. Len(rest) /\ i = Len(file) + (i - Len(file))
          BY <1>2, <2>4, <2>5, <3>2
        <5>2. QED
          BY <5>1
      <4>2. toDrop + m \in 1 .. Len(pending) /\ Gone + (toDrop + m) = Compensation + i
        BY <1>2, <2>1, <2>2, <2>4, <4>1
      <4>3. rest[m] = captured[Compensation + i]
        BY <2>1, <2>4, <4>2
      <4>4. QED
        BY <1>3, <2>5, <2>7, <4>1, <4>3
    <3>3. QED
      BY <1>2, <3>1, <3>2
  <2>9. file \o rest = wanted
    BY <1>3, <2>5, <2>7, <2>8, SameSequence
  <2>10. QED
    BY <2>3, <2>9
<1>7. QED
  BY <1>1, <1>5, <1>6 DEF FileIsCapture

\* The file and what waits for it are the frames that were captured, each once
\* and in order, without those that the latency compensation drops: for every
\* latency, size of a cycle and of the ring and wherever the cycles are cut,
\* lost or the file fails.
THEOREM FileIsTheCapture == Spec => []FileIsCapture
<1>1. IInv /\ InOrder => FileIsCapture
  BY InOrderIsCapture DEF IInv
<1>2. QED
  BY <1>1, InvHolds, InOrderInit, InOrderStep, PTL DEF Spec
=============================================================================
