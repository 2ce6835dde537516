----------------------------- MODULE StreamWriter -----------------------------
(***************************************************************************)
(* TBufferedAudioStreamWriter (src/src/core/): a take on its way to its    *)
(* file, from the song's cycles on the audio thread to the end of the      *)
(* recording.  The audio thread puts each cycle into a free slot, a step   *)
(* of the disk scheduler writes the queued slots and, when the recording   *)
(* is over, closes the file; the GUI thread then takes the writer out.     *)
(*                                                                         *)
(* The end has three actors: the song's transport stops in the audio       *)
(* thread, the GUI thread hears of it (or of a finished seek, which splits *)
(* the take) and clears m_isRecording, which the worker looks at after it  *)
(* has emptied the queue.                                                  *)
(*                                                                         *)
(* A frame is its number among the frames that came in while the take was  *)
(* recorded; frames lost with a full ring have numbers, too.               *)
(***************************************************************************)
EXTENDS Integers, Sequences, SequencesExt

CONSTANTS SlotCount,    \* m_slotcount
          Frames,       \* frames of a cycle, and of a slot
          Compensation, \* m_captureCompensation: the frames to drop
          MaxCycles,    \* bound: the cycles that reach the take
          WritesFail,   \* whether the file may fail
          PlaysOn       \* whether the song may roll again before the GUI thread
                        \* has heard that it stopped

ASSUME WriterAssumption ==
  /\ SlotCount \in Nat /\ SlotCount >= 5     \* prepare_ring_buffers()
  /\ Frames \in Nat \ {0} /\ Compensation \in Nat /\ MaxCycles \in Nat
  /\ WritesFail \in BOOLEAN /\ PlaysOn \in BOOLEAN

VARIABLES
  rt, free,       \* the cycles queued, the number of free slots
  toDrop,         \* m_framesToDrop
  file,           \* the frames written: m_writtenFrames of them
  failed,         \* TAudioWriter::m_failed
  isRecording, fileFinished,   \* m_isRecording, m_fileFinished
  phase, hand,    \* of the step: "none", "made", "draining", "writing", "drained";
                  \* the cycle it writes
  cycles,         \* the cycles so far
  audioPc,        \* "idle" or "capture"
  captured,       \* the frames queued: m_capturedFrames of them
  length,         \* m_length
  status,         \* m_recordingStatus: "recording", "finishing", "none"
  writer,         \* m_writer: "registered", "leaving" (the GUI thread waits in
                  \* remove_stream()), "gone"
  rolling, stopRequested, seeking, songRecords,   \* the song
  stoppedPosted, finishedPosted  \* transportStopped, fileFinished wait for the GUI

ringVars == <<rt, free>>
fileVars == <<toDrop, file, failed, fileFinished, finishedPosted>>
stepVars == <<phase, hand>>
audioVars == <<cycles, audioPc, captured, length>>
clipVars == <<status, isRecording, writer>>
songVars == <<rolling, stopRequested, seeking, songRecords, stoppedPosted>>
vars == <<ringVars, fileVars, stepVars, audioVars, clipVars, songVars>>

FramesOf(c) == [i \in 1 .. Frames |-> (c - 1) * Frames + i]
AllFramesOf(cs) == FlattenSeq([i \in DOMAIN cs |-> FramesOf(cs[i])])
Visible(n) == IF n > Compensation THEN n - Compensation ELSE 0

TypeOK ==
  /\ rt \in Seq(1 .. MaxCycles) /\ free \in 0 .. SlotCount
  /\ toDrop \in 0 .. Compensation /\ file \in Seq(Nat) /\ failed \in BOOLEAN
  /\ isRecording \in BOOLEAN /\ fileFinished \in BOOLEAN
  /\ phase \in {"none", "made", "draining", "writing", "drained"}
  /\ hand \in 0 .. MaxCycles /\ cycles \in 0 .. MaxCycles
  /\ audioPc \in {"idle", "capture"} /\ captured \in Seq(Nat) /\ length \in Nat
  /\ status \in {"recording", "finishing", "none"} /\ writer \in {"registered", "leaving", "gone"}
  /\ rolling \in BOOLEAN /\ stopRequested \in BOOLEAN /\ seeking \in BOOLEAN
  /\ songRecords \in BOOLEAN /\ stoppedPosted \in BOOLEAN /\ finishedPosted \in BOOLEAN

-----------------------------------------------------------------------------
(* The GUI thread: the transport.                                          *)

\* It does not wait in remove_stream().
GuiFree == writer # "leaving"

StopTransport ==
  /\ GuiFree /\ rolling /\ ~stopRequested
  /\ stopRequested' = TRUE /\ songRecords' = FALSE
  /\ UNCHANGED <<ringVars, fileVars, stepVars, audioVars, clipVars, rolling, seeking,
                 stoppedPosted>>

StartTransport ==
  /\ GuiFree /\ ~rolling /\ ~songRecords /\ (PlaysOn \/ ~stoppedPosted)
  /\ rolling' = TRUE
  /\ UNCHANGED <<ringVars, fileVars, stepVars, audioVars, clipVars, stopRequested,
                 seeking, songRecords, stoppedPosted>>

FinishRecording ==
  /\ status' = "finishing" /\ isRecording' = FALSE /\ UNCHANGED writer

\* The take's slot of transportStopped, connected while it is recorded.
HearStopped ==
  /\ GuiFree /\ stoppedPosted /\ stoppedPosted' = FALSE
  /\ IF status = "recording" THEN FinishRecording ELSE UNCHANGED clipVars
  /\ UNCHANGED <<ringVars, fileVars, stepVars, audioVars, rolling, stopRequested,
                 seeking, songRecords>>

\* seek_finished(): split_takes(), then the song rolls again.
SeekFinished ==
  /\ GuiFree /\ seeking /\ seeking' = FALSE /\ rolling' = TRUE
  /\ IF songRecords /\ status = "recording" THEN FinishRecording ELSE UNCHANGED clipVars
  /\ UNCHANGED <<ringVars, fileVars, stepVars, audioVars, stopRequested, songRecords,
                 stoppedPosted>>

\* finish_write_source() up to the removal of the writer.
FinishWriteSource ==
  /\ GuiFree /\ finishedPosted /\ finishedPosted' = FALSE
  /\ writer' = "leaving"
  /\ UNCHANGED <<ringVars, toDrop, file, failed, fileFinished, stepVars, audioVars,
                 status, isRecording, songVars>>

\* remove_stream() returns when no step of the writer runs.  Assumed: a cycle
\* that recorded as the GUI thread ended the take is over by now, an event and
\* a disk step later; nothing in the code waits for it.
WriterRemoved ==
  /\ writer = "leaving" /\ phase = "none" /\ audioPc = "idle"
  /\ writer' = "gone" /\ status' = "none"
  /\ length' = IF file = <<>> THEN length ELSE Len(file)   \* no file to read
  /\ UNCHANGED <<ringVars, fileVars, stepVars, cycles, audioPc, captured, isRecording,
                 songVars>>

-----------------------------------------------------------------------------
(* The audio thread: TSheet::process() and, for the take, process_capture().*)

StopRolling ==
  /\ audioPc = "idle" /\ rolling /\ ~seeking /\ stopRequested
  /\ rolling' = FALSE /\ stopRequested' = FALSE /\ stoppedPosted' = TRUE
  /\ UNCHANGED <<ringVars, fileVars, stepVars, audioVars, clipVars, seeking, songRecords>>

\* rt_inititate_seek() of a song that rolls.
InitiateSeek ==
  /\ audioPc = "idle" /\ rolling /\ ~seeking
  /\ rolling' = FALSE /\ seeking' = TRUE
  /\ UNCHANGED <<ringVars, fileVars, stepVars, audioVars, clipVars, stopRequested,
                 songRecords, stoppedPosted>>

CycleStarts ==
  /\ audioPc = "idle" /\ rolling /\ ~seeking /\ ~stopRequested
  /\ status = "recording" /\ cycles < MaxCycles
  /\ cycles' = cycles + 1 /\ audioPc' = "capture"
  /\ UNCHANGED <<ringVars, fileVars, stepVars, captured, length, clipVars, songVars>>

\* Mutant: the take grows by its first frames, too.
Grown_Uncompensated(n) == n

\* How far n captured frames make the take visible.
Grown(n) == Visible(n)

\* ringbuffer_write() found a free slot; a slot in the audio thread's hand is
\* in nobody's reach.
Capture ==
  /\ audioPc = "capture" /\ free > 0
  /\ free' = free - 1 /\ rt' = Append(rt, cycles)
  /\ captured' = captured \o FramesOf(cycles)
  /\ length' = length + Grown(Len(captured')) - Grown(Len(captured))
  /\ audioPc' = "idle"
  /\ UNCHANGED <<fileVars, stepVars, cycles, clipVars, songVars>>

\* The ring is full: the cycle is lost.
CaptureLost ==
  /\ audioPc = "capture" /\ free = 0
  /\ audioPc' = "idle"
  /\ UNCHANGED <<ringVars, fileVars, stepVars, cycles, captured, length, clipVars,
                 songVars>>

-----------------------------------------------------------------------------
(* The worker: a step of the writer.                                       *)

\* disk_state()
HasWork == rt # <<>> \/ (~isRecording /\ ~fileFinished)

MakeStep ==
  /\ phase = "none" /\ writer = "registered" /\ HasWork
  /\ phase' = "made"
  /\ UNCHANGED <<ringVars, fileVars, hand, audioVars, clipVars, songVars>>

\* Mutant: the step of a finished writer goes on.
BeginStep_Finished ==
  /\ phase = "made" /\ phase' = "draining"
  /\ UNCHANGED <<ringVars, fileVars, hand, audioVars, clipVars, songVars>>

\* process_realtime_buffers(): a file that is finished is not written.
BeginStep ==
  /\ phase = "made"
  /\ phase' = IF fileFinished THEN "none" ELSE "draining"
  /\ UNCHANGED <<ringVars, fileVars, hand, audioVars, clipVars, songVars>>

TakeSlot ==
  /\ phase = "draining" /\ rt # <<>>
  /\ hand' = Head(rt) /\ rt' = Tail(rt)
  /\ phase' = "writing"
  /\ UNCHANGED <<free, fileVars, audioVars, clipVars, songVars>>

\* Mutant: whole slots are dropped only.
FramesToDrop_WholeSlots == IF toDrop >= Frames THEN Frames ELSE 0

\* TRecordingLatency::frames_to_drop()
FramesToDrop == IF toDrop > Frames THEN Frames ELSE toDrop

\* Mutant: the slot of a failed write is not given back.
GiveBack_NotFailed == free' = IF failed' THEN free ELSE free + 1

GiveBack == free' = free + 1

\* rb_file_write() and the slot's return.  Once a write has failed, every
\* later one does, and nothing of it counts as written.
WriteSlot ==
  /\ phase = "writing"
  /\ toDrop' = toDrop - FramesToDrop
  /\ failed' \in {failed} \cup (IF WritesFail /\ FramesToDrop < Frames THEN {TRUE} ELSE {})
  /\ file' = IF failed' THEN file
             ELSE file \o SubSeq(FramesOf(hand), FramesToDrop + 1, Frames)
  /\ GiveBack
  /\ hand' = 0 /\ phase' = "draining"
  /\ UNCHANGED <<rt, fileFinished, finishedPosted, audioVars, clipVars, songVars>>

DrainEnds ==
  /\ phase = "draining" /\ rt = <<>>
  /\ phase' = "drained"
  /\ UNCHANGED <<ringVars, fileVars, hand, audioVars, clipVars, songVars>>

GoOnRecording ==
  /\ phase = "drained" /\ isRecording
  /\ phase' = "none"
  /\ UNCHANGED <<ringVars, fileVars, hand, audioVars, clipVars, songVars>>

\* Mutant: the file is closed, its end is not told.
FinishFile_Silent ==
  /\ phase = "drained" /\ ~isRecording
  /\ fileFinished' = TRUE /\ finishedPosted' = FALSE
  /\ phase' = "none"
  /\ UNCHANGED <<ringVars, toDrop, file, failed, hand, audioVars, clipVars, songVars>>

FinishFile ==
  /\ phase = "drained" /\ ~isRecording
  /\ fileFinished' = TRUE /\ finishedPosted' = TRUE
  /\ phase' = "none"
  /\ UNCHANGED <<ringVars, toDrop, file, failed, hand, audioVars, clipVars, songVars>>

-----------------------------------------------------------------------------
(* init_recording(), and the song rolls with it.                           *)
Init ==
  /\ rt = <<>> /\ free = SlotCount
  /\ toDrop = Compensation /\ file = <<>> /\ failed = FALSE
  /\ isRecording = TRUE /\ fileFinished = FALSE
  /\ phase = "none" /\ hand = 0
  /\ cycles = 0 /\ audioPc = "idle" /\ captured = <<>> /\ length = 0
  /\ status = "recording" /\ writer = "registered"
  /\ rolling = TRUE /\ stopRequested = FALSE /\ seeking = FALSE /\ songRecords = TRUE
  /\ stoppedPosted = FALSE /\ finishedPosted = FALSE

Gui == StopTransport \/ StartTransport \/ HearStopped \/ SeekFinished
       \/ FinishWriteSource \/ WriterRemoved
AudioThread == StopRolling \/ InitiateSeek \/ CycleStarts \/ Capture \/ CaptureLost
Worker == BeginStep \/ TakeSlot \/ WriteSlot \/ DrainEnds \/ GoOnRecording \/ FinishFile
Next == Gui \/ AudioThread \/ MakeStep \/ Worker

Spec == Init /\ [][Next]_vars

\* The GUI thread hears what was posted to it, a cycle that has begun ends,
\* the scheduler gives the writer its steps and takes it out, each step runs.
Fairness ==
  /\ WF_vars(HearStopped) /\ WF_vars(FinishWriteSource) /\ WF_vars(WriterRemoved)
  /\ WF_vars(Capture \/ CaptureLost) /\ WF_vars(MakeStep) /\ WF_vars(Worker)

FairSpec == Spec /\ Fairness

-----------------------------------------------------------------------------
(* Properties.                                                             *)

\* A slot is free, queued or in the worker's hand, also after failed writes:
\* a ring that loses slots would lose more cycles with each.
SlotsKept == free + Len(rt) + (IF hand = 0 THEN 0 ELSE 1) = SlotCount

\* The file holds the frames that were queued, each once and in their order,
\* without the first ones that the latency compensation drops; what is not in
\* it yet is in the ring.  A file that failed holds the beginning of them.
FileIsCapture ==
  LET pending == (IF hand = 0 THEN <<>> ELSE FramesOf(hand)) \o AllFramesOf(rt)
      wanted == SubSeq(captured, Compensation + 1, Len(captured))
  IN /\ IsPrefix(file, wanted)
     /\ ~failed => file \o SubSeq(pending, toDrop + 1, Len(pending)) = wanted

\* The take on the time line, which the audio thread lengthens, is as long as
\* what the worker makes of it, however the cycles were lost and dropped.
LengthIsFile ==
  ~failed /\ writer = "registered" /\ rt = <<>> /\ hand = 0 =>
    length = Len(file)

\* The end of the file is told once, and to a take that waits for it:
\* finish_write_source() uses m_writer, which its first call clears.
ToldOnce == finishedPosted => status = "finishing" /\ writer = "registered"

\* A finished file is left alone: nothing is dropped, written or reported
\* twice, also when a step is made after it.
ClosedForGood ==
  [][fileFinished => UNCHANGED <<file, toDrop, failed>> /\ (finishedPosted' => finishedPosted)]_vars

\* Every take that was stopped, or split by a seek, ends: its writer goes,
\* although cycles are lost, writes fail and the song seeks or rolls meanwhile.
TakeEnds ==
  (stoppedPosted /\ status = "recording") \/ status = "finishing" ~> writer = "gone"

=============================================================================
