------------------------------ MODULE Recording ------------------------------
(* The recording session of a song: its takes, the undo step it leaves, and *)
(* what becomes of the takes and their files when that step is dropped.     *)
(*                                                                          *)
(* TSheet starts and splits takes and pushes a TRecordingCommand when the   *)
(* last take is written.  The undo stack deletes the command when a new     *)
(* edit drops it undone; its destructor queues the takes to                 *)
(* TResourcesManager::discard_takes(), which takes them out of the project. *)
(* TProject::save() deletes their files.  Everything is in the GUI thread;  *)
(* the end of a take (fileFinished), the stop of the transport and the      *)
(* discards are queued calls, which may run in any order with the user's    *)
(* commands.                                                                *)
EXTENDS Naturals, FiniteSets, SequencesExt

CONSTANTS
  Takes,      \* the takes of all sessions
  MaxEdits    \* a bound: the user's own edits

ASSUME RecordingAssumption == MaxEdits \in Nat

VARIABLES
  status,        \* TAudioClip::m_recordingStatus of every take
  listed,        \* TAudioClipManager::m_clips, the clips in the tracks
  known,         \* takes with their data in TResourcesManager::m_clips, m_sources
  sessionSteps,  \* TSheet::m_sessionSteps
  sessionTakes,  \* TSheet::m_sessionTakes
  stack,         \* the commands of the sheet's QUndoStack, the undone ones too
  index,         \* QUndoStack::index(): the commands up to it are applied
  discards,      \* the queued calls of discard_takes(), by their takes
  doomed,        \* TResourcesManager::m_discardedFiles, by take
  files,         \* the takes whose audio is on the disk
  saved,         \* the takes the project file on the disk names
  open,          \* the project is open
  edits          \* counts the user's edits

sessionVars == <<sessionSteps, sessionTakes>>
stackVars == <<stack, index>>
diskVars == <<doomed, files, saved>>
vars == <<status, listed, known, sessionVars, stackVars, discards, diskVars,
          open, edits>>

\* A take's own clip, and one copy of it the user may make.
Clips == Takes \X {"take", "copy"}
TakeOf(c) == c[1]
Own(t) == <<t, "take">>
ClipsOf(S) == {Own(t) : t \in S}

Steps == [add : SUBSET Clips, remove : SUBSET Clips]
Commands == [steps : Seq(Steps), takes : SUBSET Takes]

TypeOK ==
  /\ status \in [Takes -> {"none", "recording", "finishing", "written"}]
  /\ listed \subseteq Clips
  /\ known \subseteq Takes
  /\ sessionSteps \in Seq(Steps)
  /\ sessionTakes \subseteq Takes
  /\ stack \in Seq(Commands)
  /\ index \in 0..Len(stack)
  /\ discards \subseteq SUBSET Takes
  /\ doomed \subseteq Takes
  /\ files \subseteq Takes
  /\ saved \subseteq Takes
  /\ open \in BOOLEAN
  /\ edits \in 0..MaxEdits

\* m_recordingClips: the takes that are not yet written to their end.
RecordingClips == {t \in Takes : status[t] \in {"recording", "finishing"}}

-----------------------------------------------------------------------------
(* create_command_mutate_clips(): a step, done and undone.  A clip that is  *)
(* there already is not added, one that is gone not removed.                *)

Done(step, clips) == (clips \ step.remove) \cup step.add
Undone(step, clips) == (clips \ step.add) \cup step.remove

AllDone(steps, clips) ==
  FoldLeft(LAMBDA acc, step : Done(step, acc), clips, steps)

\* Mutant: undone in the order they were done.
AllUndone_Forwards(steps, clips) ==
  FoldLeft(LAMBDA acc, step : Undone(step, acc), clips, steps)

AllUndone(steps, clips) ==
  FoldRight(LAMBDA step, acc : Undone(step, acc), steps, clips)

Adding(S) == [add |-> ClipsOf(S), remove |-> {}]
Removing(S) == [add |-> {}, remove |-> ClipsOf(S)]

-----------------------------------------------------------------------------
(* The undo stack.                                                          *)

\* The sessions among some commands that are deleted undone: each queues the
\* discard of its takes.
Dropped(commands) ==
  {cmd.takes : cmd \in {c \in Range(commands) : c.takes # {}}}

\* QUndoStack::push(): the undone commands go.
Push(cmd) ==
  /\ stack' = Append(SubSeq(stack, 1, index), cmd)
  /\ index' = index + 1
  /\ discards' = discards \cup Dropped(SubSeq(stack, index + 1, Len(stack)))

Undo ==
  /\ open /\ index > 0
  /\ listed' = AllUndone(stack[index].steps, listed)
  /\ index' = index - 1
  /\ UNCHANGED <<status, known, sessionVars, stack, discards, diskVars, open, edits>>

Redo ==
  /\ open /\ index < Len(stack)
  /\ listed' = AllDone(stack[index + 1].steps, listed)
  /\ index' = index + 1
  /\ UNCHANGED <<status, known, sessionVars, stack, discards, diskVars, open, edits>>

-----------------------------------------------------------------------------
(* The files: discard_takes() and save().                                   *)

InUse(t) == \E c \in listed : TakeOf(c) = t

\* delete_takes(): out of the project now, the files at the next save.
DeleteTakes(S) ==
  /\ known' = known \ S
  /\ doomed' = doomed \cup (S \cap known)

\* The takes of `S` no clip in a track uses.
Discardable(S) == {t \in S \cap known : ~InUse(t)}

\* The queued call; the setting, or the user, decides on the files.  While
\* the question is open the user can do nothing else.
DiscardTakes(S) ==
  /\ open /\ S \in discards
  /\ discards' = discards \ {S}
  /\ \/ DeleteTakes(Discardable(S))
     \/ UNCHANGED <<known, doomed>>
  /\ UNCHANGED <<status, listed, sessionVars, stackVars, files, saved, open, edits>>

\* The takes the project file would name: those the resources have, and those
\* the tracks' clips are of.
Named(takes, clips) == takes \cup {TakeOf(c) : c \in clips}

\* The project file is written, then the files of `gone` are deleted; a file
\* that cannot be deleted is tried again at the next save.  When the project
\* file cannot be written, nothing is deleted.
SaveFiles(takes, clips, gone) ==
  \/ \E deleted \in SUBSET gone :
       /\ saved' = Named(takes, clips)
       /\ files' = files \ deleted
       /\ doomed' = gone \ deleted
  \/ doomed' = gone /\ UNCHANGED <<files, saved>>

Save ==
  /\ open
  /\ SaveFiles(known, listed, doomed)
  /\ UNCHANGED <<status, listed, known, sessionVars, stackVars, discards, open, edits>>

-----------------------------------------------------------------------------
(* The session.                                                             *)

\* start_takes(): one for each armed track, in its track at once.
StartTakes(S, st) ==
  /\ status' = [t \in Takes |-> IF t \in S THEN "recording" ELSE st[t]]
  /\ known' = known \cup S
  /\ files' = files \cup S
  /\ IF S = {} THEN UNCHANGED <<listed, sessionVars>>
     ELSE /\ listed' = Done(Adding(S), listed)
          /\ sessionSteps' = Append(sessionSteps, Adding(S))
          /\ sessionTakes' = sessionTakes \cup S

Fresh == {t \in Takes : status[t] = "none"}

\* The transport starts with tracks armed.  It may do so before the last
\* session is written, or the GUI has heard of its stop: then the takes join
\* that session.
PrepareRecording(S) ==
  /\ open
  /\ S # {} /\ S \subseteq Fresh
  /\ StartTakes(S, status)
  /\ UNCHANGED <<stackVars, discards, doomed, saved, open, edits>>

\* finish_recording() of every take that records.
Finishing == [t \in Takes |-> IF status[t] = "recording" THEN "finishing" ELSE status[t]]

\* A seek during the recording; S is empty when no track is armed any more.
SplitTakes(S) ==
  /\ open
  /\ S \subseteq Fresh
  /\ StartTakes(S, Finishing)
  /\ UNCHANGED <<stackVars, discards, doomed, saved, open, edits>>

TransportStopped ==
  /\ open
  /\ \E t \in Takes : status[t] = "recording"
  /\ status' = Finishing
  /\ UNCHANGED <<listed, known, sessionVars, stackVars, discards, diskVars, open, edits>>

\* Mutant: the session's takes are not cleared.
PushRecordingSession_KeepsTakes(steps, takes) ==
  /\ IF takes = {} THEN UNCHANGED <<stackVars, discards>>
     ELSE Push([steps |-> steps, takes |-> takes])
  /\ sessionSteps' = <<>>
  /\ sessionTakes' = takes

\* push_recording_session(): the steps and takes of the whole session as one
\* command, whose first redo does nothing; none when every take was empty.
PushRecordingSession(steps, takes) ==
  /\ IF takes = {} THEN UNCHANGED <<stackVars, discards>>
     ELSE Push([steps |-> steps, takes |-> takes])
  /\ sessionSteps' = <<>>
  /\ sessionTakes' = {}

\* drop_empty_take(): a take without frames leaves the session and the project.
DropEmptyTake(t) ==
  /\ listed' = Done(Removing({t}), listed)
  /\ known' = known \ {t}

\* Mutant: an empty take is dropped and that is all.
ClipFinished_EmptyReturns(t, empty) ==
  /\ open
  /\ status[t] = "finishing"
  /\ status' = [status EXCEPT ![t] = "written"]
  /\ IF empty
     THEN /\ DropEmptyTake(t)
          /\ sessionSteps' = Append(sessionSteps, Removing({t}))
          /\ sessionTakes' = sessionTakes \ {t}
          /\ doomed' = doomed \cup ({t} \cap known)
          /\ UNCHANGED <<stackVars, discards, files, saved>>
     ELSE /\ IF RecordingClips = {t}
             THEN /\ PushRecordingSession(sessionSteps, sessionTakes)
                  /\ SaveFiles(known, listed, doomed)
             ELSE UNCHANGED <<sessionVars, stackVars, discards, diskVars>>
          /\ UNCHANGED <<listed, known>>
  /\ UNCHANGED <<open, edits>>

\* The worker closed the take's file: finish_write_source() and
\* clip_finished_recording().  The last take of the session has it pushed and
\* the project saved.
ClipFinished(t, empty) ==
  LET steps == IF empty THEN Append(sessionSteps, Removing({t})) ELSE sessionSteps
      takes == IF empty THEN sessionTakes \ {t} ELSE sessionTakes
      gone == IF empty THEN doomed \cup ({t} \cap known) ELSE doomed
  IN
  /\ open
  /\ status[t] = "finishing"
  /\ status' = [status EXCEPT ![t] = "written"]
  /\ IF empty THEN DropEmptyTake(t) ELSE UNCHANGED <<listed, known>>
  /\ IF RecordingClips = {t}
     THEN PushRecordingSession(steps, takes) /\ SaveFiles(known', listed', gone)
     ELSE /\ sessionSteps' = steps
          /\ sessionTakes' = takes
          /\ doomed' = gone
          /\ UNCHANGED <<stackVars, discards, files, saved>>
  /\ UNCHANGED <<open, edits>>

\* Edit > Discard Last Recording: the last command, when it is a session; it
\* is undone and the stack deletes it.
DiscardLastRecording ==
  /\ open
  /\ RecordingClips = {}
  /\ index > 0 /\ index = Len(stack) /\ stack[index].takes # {}
  /\ listed' = AllUndone(stack[index].steps, listed)
  /\ stack' = Front(stack)
  /\ index' = index - 1
  /\ discards' = discards \cup {stack[index].takes}
  /\ UNCHANGED <<status, known, sessionVars, diskVars, open, edits>>

\* The user's own commands: a take's clip removed, copied, or an edit of
\* something else.
UserSteps ==
  {[add |-> {}, remove |-> {c}] : c \in listed}
  \cup {[add |-> {<<t, "copy">>}, remove |-> {}] : t \in {u \in Takes : Own(u) \in listed}}
  \cup {[add |-> {}, remove |-> {}]}

Edit(step) ==
  /\ open
  /\ edits < MaxEdits
  /\ edits' = edits + 1
  /\ listed' = Done(step, listed)
  /\ Push([steps |-> <<step>>, takes |-> {}])
  /\ UNCHANGED <<status, known, sessionVars, diskVars, open>>

\* The project closes: the undone sessions are discarded before it is saved,
\* which the user may decline; their commands and the queued calls do nothing
\* any more.
Close ==
  LET undone == UNION Dropped(SubSeq(stack, index + 1, Len(stack)))
  IN
  /\ open
  /\ \A t \in Takes : status[t] # "recording"
  /\ open' = FALSE
  /\ discards' = {}
  /\ \E S \in {Discardable(undone), {}} :
       /\ known' = known \ S
       /\ \/ SaveFiles(known', listed, doomed \cup S)
          \/ doomed' = doomed \cup S /\ UNCHANGED <<files, saved>>
  /\ UNCHANGED <<status, listed, sessionVars, stackVars, edits>>

-----------------------------------------------------------------------------
Init ==
  /\ status = [t \in Takes |-> "none"]
  /\ listed = {} /\ known = {}
  /\ sessionSteps = <<>> /\ sessionTakes = {}
  /\ stack = <<>> /\ index = 0
  /\ discards = {}
  /\ doomed = {} /\ files = {} /\ saved = {}
  /\ open = TRUE
  /\ edits = 0

Next ==
  \/ \E S \in SUBSET Takes :
       PrepareRecording(S) \/ SplitTakes(S) \/ DiscardTakes(S)
  \/ TransportStopped
  \/ \E t \in Takes, empty \in BOOLEAN : ClipFinished(t, empty)
  \/ Undo \/ Redo \/ DiscardLastRecording
  \/ \E step \in UserSteps : Edit(step)
  \/ Save \/ Close

\* The worker ends every file (StreamWriter!TakeEnds), and the GUI thread's
\* event loop runs what is queued.
Fairness ==
  /\ \A t \in Takes : WF_vars(\E empty \in BOOLEAN : ClipFinished(t, empty))
  /\ \A S \in SUBSET Takes : WF_vars(DiscardTakes(S))

Spec == Init /\ [][Next]_vars
FairSpec == Spec /\ Fairness

-----------------------------------------------------------------------------
(* What the session promises.                                               *)

Holding(t) == {i \in DOMAIN stack : t \in stack[i].takes}
Queued(t) == {S \in discards : t \in S}

\* A take is the session's, one command's or one queued discard's, never of
\* two: pushed, dropped and discarded once.  A session with takes is still
\* being written, so the last take's end cannot be missed.
OneOwner ==
  /\ \A t \in Takes :
       /\ Cardinality(Holding(t)) + Cardinality(Queued(t)) <= 1
       /\ t \in sessionTakes => Holding(t) = {} /\ Queued(t) = {}
  /\ sessionTakes # {} => RecordingClips # {}

\* A take in its track can be undone: its session runs, or was pushed and is
\* applied.
Undoable(t) ==
  Own(t) \in listed => t \in sessionTakes \/ \E i \in Holding(t) : i <= index

\* Once the user records no more, the session leaves nothing behind: its
\* takes are pushed or dropped, and what was queued is discarded.
SessionEnds ==
  <>[](\A t \in Takes : status[t] # "recording")
    => <>[](~open \/ (RecordingClips = {} /\ sessionTakes = {} /\ sessionSteps = <<>>))
=============================================================================
