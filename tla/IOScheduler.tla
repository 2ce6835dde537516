----------------------------- MODULE IOScheduler -----------------------------
(***************************************************************************)
(* TIOScheduler (src/src/ioscheduler/TIOScheduler.h): the disk threads of  *)
(* the application.  Four kinds of threads act:                            *)
(*   - the owner (GUI) thread adds and removes groups and streams, changes *)
(*     the rate and the resampler, asks for seeks, destroys the scheduler; *)
(*   - the audio thread ticks;                                             *)
(*   - the scheduler thread takes requests and reports and starts steps;   *)
(*   - the workers of the pool run one step of a stream or a task each.    *)
(* They hand work over in four places, each its own variable here: the     *)
(* wake, the requests (streamAt, groupAt, taskAt, removalAt), the pool and *)
(* the reports.                                                            *)
(***************************************************************************)
EXTENDS IOPlan

CONSTANTS Streams,      \* TIOStream objects
          Groups,       \* TIOGroup objects, one per song (sheet)
          Tasks,        \* TIOIdleTask objects
          GroupOf,      \* the group of each stream; NoGroup for a writer
          NoGroup,
          Nobody,       \* no stream and no group
          Threads,      \* m_pool.maxThreadCount()
          Weight,       \* TIOIdleTask::weight() of each task
          IdleLimits,   \* values of the idle limits
          DiskStates,   \* what disk_state() may answer: [needsWork, fill]
          Rates,        \* output rates (a buffer size goes with each)
          Resamplers    \* resampler choices

ASSUME ConstantAssumption ==
  /\ IsFiniteSet(Streams) /\ IsFiniteSet(Groups) /\ IsFiniteSet(Tasks)
  /\ Streams \cap Tasks = {} /\ Streams \cap Groups = {}
  /\ Nobody \notin Streams \cup Groups
  /\ NoGroup \notin Groups
  /\ GroupOf \in [Streams -> Groups \cup {NoGroup}]
  /\ Threads \in Nat /\ Threads >= 2
  /\ Weight \in [Tasks -> Nat]
  /\ IdleLimits \subseteq Nat /\ IdleLimits # {}
  /\ DiskStates \subseteq [needsWork: BOOLEAN, countsForFill: BOOLEAN, fill: 0..100]
  /\ Rates # {} /\ Resamplers # {}

VARIABLES
  \* The owner's requests: where each object is.
  groupAt,          \* "owner", "adding" (m_groupsToAdd) or "scheduler" (m_groups)
  streamAt,         \* the same of a stream: m_streamsToAdd, m_streams
  taskAt,           \* the same of a task; "retired" once it is handed back
  removing,         \* the stream or group a remove call waits for, or Nobody
  removalAt,        \* its Removal: "none", "requests" (m_removals),
                    \* "work" (StreamWork::removal) or "done"
  stopRequested,    \* m_stopRequested
  \* Atomics.
  wake,             \* m_wake holds a count
  ticked,           \* m_ticks has moved on since the scheduler loaded it
  outputRate, resampler, resamplerChanged,
  \* Atomics of each TIOGroup.
  seekRequested, mSeeking, playing, recording, idleLimit,
  \* The owner's view of a group's seek.
  seekAsked,        \* it asked for a seek and has not heard that it finished
  seekFinished,     \* the signal seekFinished is in the owner's event queue
  \* The scheduler thread.
  pc,               \* "wait", "requests", "reports", "settings", "start", "stopped"
  settings,         \* outputRate and resampler as start_steps() loaded them
  idleRunning,      \* TIOPlanner::m_idleRunning
  running, runningIdle,
  seeking, seeksLeft,                          \* GroupWork
  seek, inFlight, resamplerPending, rate, stepped,   \* StreamWork; stepped:
                    \* stepTick is the tick start_steps() loaded
  readsWith,        \* the resampler each stream was last given
  taskInFlight,     \* TaskWork::inFlight
  \* The workers.
  pool,             \* the steps that run
  reports           \* m_reports

ownerVars == <<groupAt, streamAt, taskAt, removing, removalAt, stopRequested>>
settingVars == <<outputRate, resampler, resamplerChanged>>
groupVars == <<seekRequested, mSeeking, playing, recording, idleLimit>>
seekVars == <<seekAsked, seekFinished>>
plannerVars == <<settings, idleRunning>>
runVars == <<running, runningIdle, pool, reports>>
seekWorkVars == <<seeking, seeksLeft, seek>>
workVars == <<inFlight, resamplerPending, rate, stepped, readsWith, taskInFlight>>

vars == <<ownerVars, wake, ticked, settingVars, groupVars, seekVars, pc,
          plannerVars, runVars, seekWorkVars, workVars>>

Settings == [rate: Rates, resampler: Resamplers]

\* A step on the pool and its report: of a stream (seek and settings are its
\* StepInfo) or of an idle task; over: the task has nothing left to do.
Step == [of: Streams \cup Tasks, seek: BOOLEAN, idle: BOOLEAN, over: BOOLEAN,
         settings: Settings]

Places == {"owner", "adding", "scheduler"}

TypeOK ==
  /\ groupAt \in [Groups -> Places]
  /\ streamAt \in [Streams -> Places]
  /\ taskAt \in [Tasks -> Places \cup {"retired"}]
  /\ removing \in Streams \cup Groups \cup {Nobody}
  /\ removalAt \in {"none", "requests", "work", "done"}
  /\ stopRequested \in BOOLEAN /\ wake \in BOOLEAN /\ ticked \in BOOLEAN
  /\ outputRate \in Rates /\ resampler \in Resamplers
  /\ resamplerChanged \in BOOLEAN
  /\ seekRequested \in [Groups -> BOOLEAN] /\ mSeeking \in [Groups -> BOOLEAN]
  /\ playing \in [Groups -> BOOLEAN] /\ recording \in [Groups -> BOOLEAN]
  /\ idleLimit \in [Groups -> IdleLimits]
  /\ seekAsked \in [Groups -> BOOLEAN] /\ seekFinished \in [Groups -> BOOLEAN]
  /\ pc \in {"wait", "requests", "reports", "settings", "start", "stopped"}
  /\ settings \in Settings /\ idleRunning \in BOOLEAN
  /\ running \in Nat /\ runningIdle \in Nat
  /\ seeking \in [Groups -> BOOLEAN] /\ seeksLeft \in [Groups -> Nat]
  /\ seek \in [Streams -> BOOLEAN] /\ inFlight \in [Streams -> BOOLEAN]
  /\ resamplerPending \in [Streams -> BOOLEAN] /\ stepped \in [Streams -> BOOLEAN]
  /\ rate \in [Streams -> Rates] /\ readsWith \in [Streams -> Resamplers]
  /\ taskInFlight \in [Tasks -> BOOLEAN]
  /\ pool \subseteq Step /\ reports \subseteq Step

Registered == {s \in Streams : streamAt[s] = "scheduler"}
RegisteredGroups == {g \in Groups : groupAt[g] = "scheduler"}
RegisteredTasks == {t \in Tasks : taskAt[t] = "scheduler"}
StreamsOf(g) == {s \in Registered : GroupOf[s] = g}

-----------------------------------------------------------------------------
(* The owner thread.  It waits in a remove call, and does nothing else     *)
(* meanwhile; after the destructor set m_stopRequested it adds nothing.    *)

OwnerFree == removing = Nobody /\ ~stopRequested

AddGroup(g) ==
  /\ OwnerFree /\ groupAt[g] = "owner"
  /\ groupAt' = [groupAt EXCEPT ![g] = "adding"]
  \* A new TIOGroup: its atomics are those of its construction.
  /\ seekRequested' = [seekRequested EXCEPT ![g] = FALSE]
  /\ mSeeking' = [mSeeking EXCEPT ![g] = FALSE]
  /\ playing' = [playing EXCEPT ![g] = FALSE]
  /\ recording' = [recording EXCEPT ![g] = FALSE]
  /\ seekAsked' = [seekAsked EXCEPT ![g] = FALSE]
  /\ seekFinished' = [seekFinished EXCEPT ![g] = FALSE]
  /\ \E l \in IdleLimits : idleLimit' = [idleLimit EXCEPT ![g] = l]
  /\ wake' = TRUE
  /\ UNCHANGED <<streamAt, taskAt, removing, removalAt, stopRequested, ticked,
                 settingVars, pc, plannerVars, runVars, seekWorkVars, workVars>>

\* A group is removed after its streams.
RemoveGroup(g) ==
  /\ OwnerFree /\ groupAt[g] # "owner"
  /\ \A s \in Streams : GroupOf[s] = g => streamAt[s] = "owner"
  /\ removing' = g
  /\ removalAt' = "requests"
  /\ wake' = TRUE
  /\ UNCHANGED <<groupAt, streamAt, taskAt, stopRequested, ticked, settingVars,
                 groupVars, seekVars, pc, plannerVars, runVars, seekWorkVars,
                 workVars>>

\* The stream reads at the rate and with the resampler of this moment.
AddStream(s) ==
  /\ OwnerFree /\ streamAt[s] = "owner"
  /\ GroupOf[s] # NoGroup => groupAt[GroupOf[s]] # "owner"
  /\ streamAt' = [streamAt EXCEPT ![s] = "adding"]
  /\ rate' = [rate EXCEPT ![s] = outputRate]
  /\ readsWith' = [readsWith EXCEPT ![s] = resampler]
  /\ wake' = TRUE
  /\ UNCHANGED <<groupAt, taskAt, removing, removalAt, stopRequested, ticked,
                 settingVars, groupVars, seekVars, pc, plannerVars, runVars,
                 seekWorkVars, inFlight, resamplerPending, stepped, taskInFlight>>

\* Also of a stream that was not added because it has no channels.
RemoveStream(s) ==
  /\ OwnerFree
  /\ removing' = s
  /\ removalAt' = "requests"
  /\ wake' = TRUE
  /\ UNCHANGED <<groupAt, streamAt, taskAt, stopRequested, ticked, settingVars,
                 groupVars, seekVars, pc, plannerVars, runVars, seekWorkVars,
                 workVars>>

\* The condition variable: the remove call returns once its Removal is done.
RemoveReturns ==
  /\ removalAt = "done"
  /\ removing' = Nobody
  /\ removalAt' = "none"
  /\ UNCHANGED <<groupAt, streamAt, taskAt, stopRequested, wake, ticked,
                 settingVars, groupVars, seekVars, pc, plannerVars, runVars,
                 seekWorkVars, workVars>>

AddIdleTask(t) ==
  /\ ~stopRequested /\ taskAt[t] = "owner"
  /\ taskAt' = [taskAt EXCEPT ![t] = "adding"]
  /\ wake' = TRUE
  /\ UNCHANGED <<groupAt, streamAt, removing, removalAt, stopRequested, ticked,
                 settingVars, groupVars, seekVars, pc, plannerVars, runVars,
                 seekWorkVars, workVars>>

\* A setting is only set to another value: where the code stores the one that
\* is there once more, the streams are given what they have.
SetOutputRate(r) ==
  /\ OwnerFree /\ outputRate # r
  /\ outputRate' = r
  /\ UNCHANGED <<ownerVars, wake, ticked, resampler, resamplerChanged,
                 groupVars, seekVars, pc, plannerVars, runVars, seekWorkVars,
                 workVars>>

\* The value is stored before the flag; a scheduler thread between the two
\* does what it does before both, so they are one step here.
SetResampler(q) ==
  /\ OwnerFree /\ resampler # q
  /\ resampler' = q
  /\ resamplerChanged' = TRUE
  /\ UNCHANGED <<ownerVars, wake, ticked, outputRate, groupVars, seekVars, pc,
                 plannerVars, runVars, seekWorkVars, workVars>>

\* A song starts or stops to play or to record: its atomics only.
SetPlaying(g) ==
  /\ groupAt[g] # "owner"
  /\ playing' = [playing EXCEPT ![g] = ~playing[g]]
  /\ UNCHANGED <<ownerVars, wake, ticked, settingVars, seekRequested, mSeeking,
                 recording, idleLimit, seekVars, pc, plannerVars, runVars,
                 seekWorkVars, workVars>>

SetRecording(g) ==
  /\ groupAt[g] # "owner"
  /\ recording' = [recording EXCEPT ![g] = ~recording[g]]
  /\ UNCHANGED <<ownerVars, wake, ticked, settingVars, seekRequested, mSeeking,
                 playing, idleLimit, seekVars, pc, plannerVars, runVars,
                 seekWorkVars, workVars>>

\* TIOGroup::request_seek(), by the audio thread or the owner, one at a time:
\* the next is asked for only after seekFinished of the last.  It does not
\* wake the scheduler thread, the next tick does.
RequestSeek(g) ==
  /\ groupAt[g] # "owner" /\ removing # g
  /\ ~seekAsked[g]
  /\ seekAsked' = [seekAsked EXCEPT ![g] = TRUE]
  /\ mSeeking' = [mSeeking EXCEPT ![g] = TRUE]
  /\ seekRequested' = [seekRequested EXCEPT ![g] = TRUE]
  /\ UNCHANGED <<ownerVars, wake, ticked, settingVars, playing, recording,
                 idleLimit, seekFinished, pc, plannerVars, runVars,
                 seekWorkVars, workVars>>

\* The owner's event loop runs the slot of the signal seekFinished.
HearSeekFinished(g) ==
  /\ OwnerFree /\ seekFinished[g]
  /\ seekFinished' = [seekFinished EXCEPT ![g] = FALSE]
  /\ seekAsked' = [seekAsked EXCEPT ![g] = FALSE]
  /\ UNCHANGED <<ownerVars, wake, ticked, settingVars, groupVars, pc,
                 plannerVars, runVars, seekWorkVars, workVars>>

\* The audio thread's tick, every cycle.
Tick ==
  /\ ~stopRequested
  /\ ticked' = TRUE
  /\ wake' = TRUE
  /\ UNCHANGED <<ownerVars, settingVars, groupVars, seekVars, pc, plannerVars,
                 runVars, seekWorkVars, workVars>>

\* Mutant: the destructor sets its flag and joins without waking the thread.
StopRequest_NoWake ==
  /\ OwnerFree
  /\ \A g \in Groups : groupAt[g] = "owner"
  /\ \A s \in Streams : streamAt[s] = "owner"
  /\ stopRequested' = TRUE
  /\ UNCHANGED <<groupAt, streamAt, taskAt, removing, removalAt, wake, ticked,
                 settingVars, groupVars, seekVars, pc, plannerVars, runVars,
                 seekWorkVars, workVars>>

\* The destructor, first half: no new work.  Streams and groups were removed.
StopRequest ==
  /\ OwnerFree
  /\ \A g \in Groups : groupAt[g] = "owner"
  /\ \A s \in Streams : streamAt[s] = "owner"
  /\ stopRequested' = TRUE
  /\ wake' = TRUE
  /\ UNCHANGED <<groupAt, streamAt, taskAt, removing, removalAt, ticked,
                 settingVars, groupVars, seekVars, pc, plannerVars, runVars,
                 seekWorkVars, workVars>>

\* Its second half: the scheduler thread has ended and the steps that ran are
\* done; the tasks that are left go back to their owners, the reports nobody
\* took go with the scheduler.
HandBackTasks ==
  /\ pc = "stopped" /\ pool = {}
  /\ \E t \in Tasks : taskAt[t] \in {"adding", "scheduler"}
  /\ taskAt' = [t \in Tasks |->
       IF taskAt[t] \in {"adding", "scheduler"} THEN "retired" ELSE taskAt[t]]
  /\ taskInFlight' = [t \in Tasks |-> FALSE]
  /\ reports' = {} /\ running' = 0 /\ runningIdle' = 0
  /\ UNCHANGED <<groupAt, streamAt, removing, removalAt, stopRequested, wake,
                 ticked, settingVars, groupVars, seekVars, pc, plannerVars, pool,
                 seekWorkVars, inFlight, resamplerPending, rate, stepped,
                 readsWith>>

-----------------------------------------------------------------------------
(* The scheduler thread: run() and dispatch(), one action for each part    *)
(* between two places where other threads can come between.                *)

Drain ==
  /\ pc = "wait" /\ wake
  /\ wake' = FALSE
  /\ pc' = IF stopRequested THEN "stopped" ELSE "requests"
  /\ UNCHANGED <<ownerVars, ticked, settingVars, groupVars, seekVars,
                 plannerVars, runVars, seekWorkVars, workVars>>

\* The streams of `out` have no seek to come any more; their songs wait for
\* fewer.
SeeksDone(out) ==
  /\ seek' = [s \in Streams |-> seek[s] /\ s \notin out]
  /\ seeksLeft' = [g \in Groups |->
       seeksLeft[g] - Cardinality({s \in out : GroupOf[s] = g})]

\* Mutant: m_seeking of the TIOGroup stays set.
FinishSeeks_KeepsFlag(isSeeking, left) ==
  LET done == {g \in RegisteredGroups : isSeeking[g] /\ left[g] <= 0} IN
  /\ seeking' = [g \in Groups |-> isSeeking[g] /\ g \notin done]
  /\ mSeeking' = mSeeking
  /\ seekFinished' = [g \in Groups |-> seekFinished[g] \/ g \in done]

\* Mutant: a song without streams is not done at once.
FinishSeeks_NeedsStreams(isSeeking, left) ==
  LET done == {g \in RegisteredGroups :
                 isSeeking[g] /\ left[g] <= 0 /\ StreamsOf(g) # {}} IN
  /\ seeking' = [g \in Groups |-> isSeeking[g] /\ g \notin done]
  /\ mSeeking' = [g \in Groups |-> mSeeking[g] /\ g \notin done]
  /\ seekFinished' = [g \in Groups |-> seekFinished[g] \/ g \in done]

\* finish_seeks(): a song whose streams have all seeked tells the owner.
FinishSeeks(isSeeking, left) ==
  LET done == {g \in RegisteredGroups : isSeeking[g] /\ left[g] <= 0} IN
  /\ seeking' = [g \in Groups |-> isSeeking[g] /\ g \notin done]
  /\ mSeeking' = [g \in Groups |-> mSeeking[g] /\ g \notin done]
  /\ seekFinished' = [g \in Groups |-> seekFinished[g] \/ g \in done]

\* Mutant: the stream goes although its step runs.
RemovedAtOnce_InFlight ==
  {s \in Streams : removalAt = "requests" /\ removing = s /\ streamAt[s] # "owner"}

\* Mutant: only the streams of m_streams are looked through, before the added
\* ones are there.
RemovedAtOnce_NotAdded ==
  {s \in Registered : removalAt = "requests" /\ removing = s /\ ~inFlight[s]}

\* The stream that a removal among the requests names and that can go at
\* once: it is registered (or about to be) and runs no step.
RemovedAtOnce ==
  {s \in Streams : /\ removalAt = "requests" /\ removing = s
                   /\ streamAt[s] # "owner" /\ ~inFlight[s]}

\* Mutant: a retired stream counts down although it has no seek to come.
SeeksOf_All(out) == out

\* Mutant: a retired stream does not count down.
SeeksOf_None(out) == {}

\* Of the streams that go, those whose seek is still to come.
SeeksOf(out) == {s \in out : seek[s]}

\* take_requests(): what was added is registered, what was removed goes, a
\* stream whose step runs once that step has reported.
TakeRequests ==
  /\ pc = "requests"
  /\ pc' = "reports"
  /\ groupAt' = [g \in Groups |->
       IF removalAt = "requests" /\ removing = g THEN "owner"
       ELSE IF groupAt[g] = "adding" THEN "scheduler" ELSE groupAt[g]]
  /\ streamAt' = [s \in Streams |->
       IF s \in RemovedAtOnce THEN "owner"
       ELSE IF streamAt[s] = "adding" THEN "scheduler" ELSE streamAt[s]]
  /\ taskAt' = [t \in Tasks |->
       IF taskAt[t] = "adding" THEN "scheduler" ELSE taskAt[t]]
  /\ removalAt' = IF removalAt # "requests" THEN removalAt
                  ELSE IF removing \in {s \in Registered : inFlight[s]}
                       THEN "work" ELSE "done"
  /\ SeeksDone(SeeksOf(RemovedAtOnce))
  /\ seeking' = [g \in Groups |->
       seeking[g] /\ ~(removalAt = "requests" /\ removing = g)]
  /\ stepped' = [s \in Streams |-> stepped[s] /\ s \notin RemovedAtOnce]
  /\ UNCHANGED <<removing, stopRequested, wake, ticked, settingVars, groupVars,
                 seekVars, plannerVars, runVars, inFlight, resamplerPending,
                 rate, readsWith, taskInFlight>>

\* The streams and tasks that reported, and what they reported.
Reported == {r.of : r \in reports}
SeekReports == {r \in reports : r.seek}
ReportedSeeks == {r.of : r \in SeekReports}
ReportedOver == {r.of : r \in {q \in reports : q.over}}

\* Mutant: a removal that waits for a step is forgotten.
RemovedAfterStep_Forgotten == {}

\* The stream whose removal waited for the step that now has reported.
RemovedAfterStep ==
  {s \in Streams : removalAt = "work" /\ removing = s /\ s \in Reported}

\* take_reports(): the threads of the steps are free; a seek is done; a new
\* resampler that waited is applied; a task that is over and a stream whose
\* removal waited go.
TakeReports ==
  /\ pc = "reports"
  /\ pc' = "settings"
  /\ reports' = {}
  /\ running' = running - Cardinality(reports)
  /\ runningIdle' = runningIdle - Cardinality({r \in reports : r.idle})
  /\ taskInFlight' = [t \in Tasks |-> taskInFlight[t] /\ t \notin Reported]
  /\ taskAt' = [t \in Tasks |->
       IF t \in ReportedOver THEN "retired" ELSE taskAt[t]]
  /\ inFlight' = [s \in Streams |-> inFlight[s] /\ s \notin Reported]
  /\ rate' = [s \in Streams |->
       IF s \in ReportedSeeks
       THEN (CHOOSE r \in SeekReports : r.of = s).settings.rate ELSE rate[s]]
  /\ readsWith' = [s \in Streams |->
       IF resamplerPending[s] /\ s \in Reported THEN resampler ELSE readsWith[s]]
  /\ resamplerPending' = [s \in Streams |-> resamplerPending[s] /\ s \notin Reported]
  /\ stepped' = [s \in Streams |-> stepped[s] /\ s \notin RemovedAfterStep]
  /\ SeeksDone(ReportedSeeks \cup SeeksOf(RemovedAfterStep))
  /\ IF reports = {} THEN UNCHANGED <<seeking, mSeeking, seekFinished>>
                      ELSE FinishSeeks(seeking, seeksLeft')
  /\ streamAt' = [s \in Streams |->
       IF s \in RemovedAfterStep THEN "owner" ELSE streamAt[s]]
  /\ removalAt' = IF RemovedAfterStep # {} THEN "done" ELSE removalAt
  /\ UNCHANGED <<groupAt, removing, stopRequested, wake, ticked, settingVars,
                 seekRequested, playing, recording, idleLimit, seekAsked,
                 plannerVars, pool>>

\* start_steps() loads the rate, the resampler and the tick first.
LoadSettings ==
  /\ pc = "settings"
  /\ pc' = "start"
  /\ settings' = [rate |-> outputRate, resampler |-> resampler]
  /\ stepped' = [s \in Streams |-> stepped[s] /\ ~ticked]
  /\ ticked' = FALSE
  /\ UNCHANGED <<ownerVars, wake, settingVars, groupVars, seekVars, idleRunning,
                 runVars, seekWorkVars, inFlight, resamplerPending, rate,
                 readsWith, taskInFlight>>

\* Mutant: a stream gets it also while its step runs.
ApplyResampler_AlsoRunning ==
  /\ resamplerChanged' = FALSE
  /\ readsWith' = [s \in Streams |->
       IF resamplerChanged /\ s \in Registered THEN settings.resampler ELSE readsWith[s]]
  /\ resamplerPending' = resamplerPending

\* A new resampler: every stream gets it, one whose step runs after the step.
ApplyResampler ==
  /\ resamplerChanged' = FALSE
  /\ readsWith' = [s \in Streams |->
       IF resamplerChanged /\ s \in Registered /\ ~inFlight[s]
       THEN settings.resampler ELSE readsWith[s]]
  /\ resamplerPending' = [s \in Streams |->
       \/ resamplerPending[s]
       \/ resamplerChanged /\ s \in Registered /\ inFlight[s]]

\* The songs whose seek was requested: every stream of theirs has to seek.
SeekTaken == {g \in RegisteredGroups : seekRequested[g]}
SeekToCome(s) == seek[s] \/ (s \in Registered /\ GroupOf[s] \in SeekTaken)

TakeSeekRequests ==
  /\ seekRequested' = [g \in Groups |-> seekRequested[g] /\ g \notin SeekTaken]
  /\ seek' = [s \in Streams |-> SeekToCome(s)]
  /\ seeksLeft' = [g \in Groups |->
       IF g \in SeekTaken THEN Cardinality(StreamsOf(g)) ELSE seeksLeft[g]]
  /\ FinishSeeks([g \in Groups |-> seeking[g] \/ g \in SeekTaken], seeksLeft')

\* What the planner is told of a stream that waits; `disk` is what its
\* disk_state() answers.  One refill step a tick.
Playing(s) == GroupOf[s] # NoGroup /\ playing[GroupOf[s]]
StateOf(s, disk) ==
  IF SeekToCome(s)
  THEN [needsWork |-> FALSE, countsForFill |-> FALSE, fill |-> 100,
        seekPending |-> TRUE, playing |-> Playing(s)]
  ELSE [needsWork |-> disk.needsWork /\ ~stepped[s],
        countsForFill |-> disk.countsForFill /\ GroupOf[s] # NoGroup,
        fill |-> disk.fill, seekPending |-> FALSE, playing |-> Playing(s)]

WaitingStreams == {s \in Registered : ~inFlight[s]}
WaitingTasks == {t \in RegisteredTasks : ~taskInFlight[t]}
HeaviestRunning ==
  Max({-1} \cup {Weight[t] : t \in RegisteredTasks \ WaitingTasks})

\* Mutant: the idle steps that run are not counted.
IdleBudget_Each(limit) == Min({Max({limit, 1}), Threads - 1})

\* Idle work never takes the last thread.
IdleBudget(limit) == Min({Max({limit, 1}), Threads - 1}) - runningIdle

StepOf(w, isSeek, idle) ==
  [of |-> w, seek |-> isSeek, idle |-> idle, over |-> FALSE, settings |-> settings]

\* start_stream_step() and start_task_step() for each of the plan p.
StartSteps(p) ==
  LET started == p.streams \cup p.idleSeeks IN
  /\ pool' = pool \cup {StepOf(s, SeekToCome(s), FALSE) : s \in p.streams}
                  \cup {StepOf(s, TRUE, TRUE) : s \in p.idleSeeks}
                  \cup {StepOf(t, FALSE, TRUE) : t \in p.idleTasks}
  /\ running' = running + Cardinality(p.streams) + Cardinality(p.idleSeeks)
                        + Cardinality(p.idleTasks)
  /\ runningIdle' = runningIdle + Cardinality(p.idleSeeks) + Cardinality(p.idleTasks)
  /\ inFlight' = [s \in Streams |-> inFlight[s] \/ s \in started]
  /\ stepped' = [s \in Streams |-> stepped[s] \/ (s \in started /\ ~SeekToCome(s))]
  /\ taskInFlight' = [t \in Tasks |-> taskInFlight[t] \/ t \in p.idleTasks]

\* The rest of start_steps(): the resampler, the seeks asked for, the plan.
\* With songs the idle limit is the lowest of theirs.
Start ==
  /\ pc = "start"
  /\ pc' = "wait"
  /\ ApplyResampler
  /\ TakeSeekRequests
  /\ \E disk \in [WaitingStreams -> DiskStates], anyLimit \in IdleLimits :
       LET states == [s \in WaitingStreams |-> StateOf(s, disk[s])]
           weights == [t \in WaitingTasks |-> Weight[t]]
           limit == IF RegisteredGroups = {} THEN anyLimit
                    ELSE Min({idleLimit[g] : g \in RegisteredGroups})
       IN \E p \in Plans(states, weights) :
            /\ PlanFor(states, \E g \in RegisteredGroups : seeking'[g] /\ playing[g],
                       weights, HeaviestRunning,
                       \A g \in RegisteredGroups : ~recording[g],
                       Threads - running, IdleBudget(limit), idleRunning, p)
            /\ StartSteps(p)
            /\ idleRunning' = p.idleRunning
  /\ UNCHANGED <<ownerVars, wake, ticked, outputRate, resampler, playing,
                 recording, idleLimit, seekAsked, settings, reports, rate>>

-----------------------------------------------------------------------------
(* The workers.  A step ends: its report, then the wake.  A seek step of a *)
(* stream whose rate changed also takes the resampler of the step.         *)

StepDone(r) ==
  /\ pool' = pool \ {r}
  /\ \E over \in (IF r.of \in Tasks THEN BOOLEAN ELSE {FALSE}) :
       reports' = reports \cup {[r EXCEPT !.over = over]}
  /\ readsWith' = [s \in Streams |->
       IF s = r.of /\ r.seek /\ rate[s] # r.settings.rate
       THEN r.settings.resampler ELSE readsWith[s]]
  /\ wake' = TRUE
  /\ UNCHANGED <<ownerVars, ticked, settingVars, groupVars, seekVars, pc,
                 plannerVars, running, runningIdle, seekWorkVars, inFlight,
                 resamplerPending, rate, stepped, taskInFlight>>

WorkerStep(w) == \E r \in pool : r.of = w /\ StepDone(r)

-----------------------------------------------------------------------------
Init ==
  /\ groupAt = [g \in Groups |-> "owner"]
  /\ streamAt = [s \in Streams |-> "owner"]
  /\ taskAt = [t \in Tasks |-> "owner"]
  /\ removing = Nobody /\ removalAt = "none" /\ stopRequested = FALSE
  /\ wake = FALSE /\ ticked = FALSE
  /\ outputRate \in Rates /\ resampler \in Resamplers
  /\ resamplerChanged = FALSE
  /\ seekRequested = [g \in Groups |-> FALSE]
  /\ mSeeking = [g \in Groups |-> FALSE]
  /\ playing = [g \in Groups |-> FALSE]
  /\ recording = [g \in Groups |-> FALSE]
  /\ idleLimit \in [Groups -> IdleLimits]
  /\ seekAsked = [g \in Groups |-> FALSE]
  /\ seekFinished = [g \in Groups |-> FALSE]
  /\ pc = "wait"
  /\ settings = [rate |-> outputRate, resampler |-> resampler]
  /\ idleRunning = FALSE
  /\ running = 0 /\ runningIdle = 0
  /\ seeking = [g \in Groups |-> FALSE]
  /\ seeksLeft = [g \in Groups |-> 0]
  /\ seek = [s \in Streams |-> FALSE]
  /\ inFlight = [s \in Streams |-> FALSE]
  /\ resamplerPending = [s \in Streams |-> FALSE]
  /\ rate = [s \in Streams |-> outputRate]
  /\ stepped = [s \in Streams |-> FALSE]
  /\ readsWith = [s \in Streams |-> resampler]
  /\ taskInFlight = [t \in Tasks |-> FALSE]
  /\ pool = {} /\ reports = {}

Owner ==
  \/ \E g \in Groups : AddGroup(g) \/ RemoveGroup(g) \/ HearSeekFinished(g)
  \/ \E s \in Streams : AddStream(s) \/ RemoveStream(s)
  \/ \E t \in Tasks : AddIdleTask(t)
  \/ \E r \in Rates : SetOutputRate(r)
  \/ \E q \in Resamplers : SetResampler(q)
  \/ RemoveReturns \/ StopRequest \/ HandBackTasks

Songs == \E g \in Groups : SetPlaying(g) \/ SetRecording(g) \/ RequestSeek(g)

Scheduler == Drain \/ TakeRequests \/ TakeReports \/ LoadSettings \/ Start

\* The destructor has returned.
Finished ==
  /\ pc = "stopped" /\ pool = {}
  /\ \A t \in Tasks : taskAt[t] \in {"owner", "retired"}
  /\ UNCHANGED vars

Next == Owner \/ Songs \/ Tick \/ Scheduler
          \/ (\E w \in Streams \cup Tasks : WorkerStep(w)) \/ Finished

Spec == Init /\ [][Next]_vars

\* The threads go on: the scheduler thread, each step of the pool, the audio
\* device's cycles, and the owner once what it waits for is there.
Fairness ==
  /\ WF_vars(Scheduler) /\ WF_vars(Tick)
  /\ \A w \in Streams \cup Tasks : WF_vars(WorkerStep(w))
  /\ WF_vars(RemoveReturns) /\ WF_vars(HandBackTasks)

FairSpec == Spec /\ Fairness

-----------------------------------------------------------------------------
(* Safety.                                                                 *)

Steps == pool \cup reports

\* The counters agree with the steps that are out: there are never more than
\* threads, and idle work leaves a thread for a refill.  m_running counts up
\* where a step starts and down where its report is taken, two dispatches
\* apart.
RunningCounts ==
  /\ pool \cap reports = {}
  /\ running = Cardinality(Steps)
  /\ runningIdle = Cardinality({r \in Steps : r.idle})
  /\ running <= Threads
  /\ runningIdle <= Threads - 1

\* A stream or task has one step at a time, and only while the scheduler has
\* it: nothing runs on a stream its owner has back (remove_stream() returned)
\* or may delete, or on a task that is retired.
StepsOnRegistered ==
  /\ \A r, q \in Steps : r.of = q.of => r = q
  /\ \A s \in Streams :
       (\E r \in Steps : r.of = s) <=> (s \in Registered /\ inFlight[s])
  /\ \A t \in Tasks :
       (\E r \in Steps : r.of = t) <=> (t \in RegisteredTasks /\ taskInFlight[t])

\* A remove call that waits is known where it will be answered, and its
\* answer is true: done means that the scheduler has let go.
RemovalAnswered ==
  /\ removing = Nobody <=> removalAt = "none"
  /\ removalAt = "work" => removing \in Registered /\ inFlight[removing]
  /\ removalAt = "done" =>
       /\ removing \in Streams => streamAt[removing] = "owner"
       /\ removing \in Groups => groupAt[removing] = "owner"

\* A song that seeks waits for exactly its streams whose seek step is to
\* come, also when streams are removed meanwhile; between two dispatches it
\* waits for at least one.
SeekAccounting ==
  /\ \A g \in Groups :
       seeksLeft[g] = Cardinality({s \in StreamsOf(g) : seek[s]})
  /\ \A s \in Streams : seek[s] =>
       s \in Registered /\ GroupOf[s] \in RegisteredGroups /\ seeking[GroupOf[s]]
  /\ pc = "wait" => \A g \in Groups : seeking[g] => seeksLeft[g] > 0

\* The assertion of request_seek(): the owner that heard seekFinished and asks
\* for the next seek finds m_seeking clear, and nothing of the last seek is
\* left anywhere.
OneSeekAtATime ==
  \A g \in Groups : groupAt[g] # "owner" =>
    /\ ~seekAsked[g] => ~mSeeking[g] /\ ~seekFinished[g]
    /\ mSeeking[g] <=> (seekRequested[g] \/ seeking[g])
    /\ seekFinished[g] => ~mSeeking[g]

\* A seek of a song that plays waits for a thread only: as long as one of its
\* streams waits, every thread is busy, and neither a refill nor idle work
\* starts before it.
PlayingSeekFirst ==
  [][pc = "start" /\ pc' = "wait" =>
       \A s \in Registered :
         seek'[s] /\ ~inFlight'[s] /\ Playing(s) =>
           /\ running' >= Threads
           /\ \A r \in pool' \ pool : r.seek /\ ~r.idle]_vars

\* Nobody but the step itself gives a stream another resampler while its step
\* runs: the decoder would be changed under the worker that reads with it.
ResamplerBetweenSteps ==
  [][\A s \in Streams : readsWith'[s] # readsWith[s] =>
       \A r \in pool \cap pool' : r.of # s]_vars

-----------------------------------------------------------------------------
(* Liveness, under FairSpec.                                               *)

\* remove_stream() and remove_group() return: the owner (the GUI) never waits
\* for good, whatever runs, ticks or seeks meanwhile.
RemovalReturns == (removing # Nobody) ~> (removing = Nobody)

\* The seek of a song that goes on playing finishes, unless the song is closed.
SeekFinishes ==
  \A g \in Groups :
    (seekAsked[g] /\ playing[g]) ~>
      (seekFinished[g] \/ ~seekAsked[g] \/ ~playing[g] \/ groupAt[g] = "owner")

\* The destructor returns, and every task added went back to its owner.
StopReturns ==
  stopRequested ~> (pc = "stopped" /\ pool = {}
                     /\ \A t \in Tasks : taskAt[t] \in {"owner", "retired"})
=============================================================================
