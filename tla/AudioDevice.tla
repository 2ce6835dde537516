----------------------------- MODULE AudioDevice -----------------------------
(* TAudioDevice: the audio thread's cycles under one driver or another, the *)
(* GUI thread that starts and stops drivers and adds and removes clients,   *)
(* and the ways back from a driver that fails, storms or stalls. The GUI    *)
(* runs one event handler at a time; what waits in one is a state of `gui`. *)
EXTENDS Naturals, Sequences, FiniteSets

CONSTANTS
  Clients,    \* the projects' TAudioDeviceClients
  XrunLimit,  \* the xruns of a storm, 30 in the code
  MaxSetups,  \* bound: drivers the user chooses
  MaxFaults   \* bound: failures, stalls and xruns

ASSUME DeviceAssumption ==
  /\ IsFiniteSet(Clients)
  /\ {XrunLimit, MaxSetups, MaxFaults} \subseteq Nat

(* A blocking driver's cycles run in the device's own audio thread, JACK's  *)
(* in a thread of JACK's. The Dummy driver is the fallback.                 *)
Drivers == {"alsa", "jack", "dummy"}

VARIABLES
  gui,        \* what the GUI thread is at
  want,       \* the driver set_parameters() is to start
  setups,     \* how many drivers the user chose
  registered, \* m_clients.gui_items()
  leaving,    \* the client remove_client() is at
  toWait,     \* start + 2 - m_cycleCount in wait_until_changes_applied()
  deleted,    \* clients whose owner has deleted them
  posted,     \* snapshots of the clients on the way to the audio thread
  rt,         \* m_clients.rt_items()
  driver,     \* m_driverType
  thread,     \* where the thread that runs the cycles is
  run,        \* m_runAudioThread
  xruns,      \* m_xrunCount
  storm,      \* m_xrunStorm
  flagging,   \* xrun() is between its two stores
  faults,     \* how many faults there were
  finished,   \* QThread::finished events queued in the GUI thread
  watching,   \* m_watchdogTimer runs
  progress    \* m_cycleCount has changed since the watchdog looked

clientVars == <<registered, leaving, toWait, deleted>>
xrunVars == <<xruns, storm, flagging>>
watchVars == <<watching, progress>>
vars == <<gui, want, setups, clientVars, posted, rt, driver, thread, run, xrunVars,
          faults, finished, watchVars>>

(* The program starts with the Dummy driver. *)
Init ==
  /\ gui = "idle" /\ want = "dummy" /\ setups = 0
  /\ registered = {} /\ leaving \in Clients /\ toWait = 0 /\ deleted = {}
  /\ posted = <<>> /\ rt = {}
  /\ driver = "dummy" /\ thread = "starting" /\ run = TRUE
  /\ xruns = 0 /\ storm = FALSE /\ flagging = FALSE
  /\ faults = 0 /\ finished = 0
  /\ watching = TRUE /\ progress = FALSE
-----------------------------------------------------------------------------
(* The GUI thread: clients. *)

AddClient(c) ==
  /\ gui = "idle"
  /\ c \notin registered \cup deleted
  /\ registered' = registered \cup {c}
  /\ posted' = Append(posted, registered')
  /\ UNCHANGED <<gui, want, setups, leaving, toWait, deleted, rt, driver, thread, run,
                 xrunVars, faults, finished, watchVars>>

RemoveClient(c) ==
  /\ gui = "idle"
  /\ c \in registered
  /\ registered' = registered \ {c}
  /\ posted' = Append(posted, registered')
  /\ leaving' = c
  /\ gui' = "removed"
  /\ UNCHANGED <<want, setups, toWait, deleted, rt, driver, thread, run, xrunVars,
                 faults, finished, watchVars>>

\* Mutant: the wait is for the end of one cycle.
LoadCount_One ==
  /\ gui = "removed"
  /\ toWait' = 1
  /\ gui' = "waiting"
  /\ UNCHANGED <<want, setups, registered, leaving, deleted, posted, rt, driver, thread,
                 run, xrunVars, faults, finished, watchVars>>

(* wait_until_changes_applied() loads the count the wait starts from. *)
LoadCount ==
  /\ gui = "removed"
  /\ toWait' = 2
  /\ gui' = "waiting"
  /\ UNCHANGED <<want, setups, registered, leaving, deleted, posted, rt, driver, thread,
                 run, xrunVars, faults, finished, watchVars>>

(* The client is gone from the audio thread: its project deletes itself. *)
ClientGone ==
  /\ gui = "waiting" /\ toWait = 0
  /\ deleted' = deleted \cup {leaving}
  /\ gui' = "idle"
  /\ UNCHANGED <<want, setups, registered, leaving, toWait, posted, rt, driver, thread,
                 run, xrunVars, faults, finished, watchVars>>

Silent == thread \in {"ended", "hung"}

\* Mutant: the wait is given up only when the device was stopped.
WaitTimesOut_IfStopped ==
  /\ gui = "waiting" /\ toWait > 0
  /\ Silent /\ ~run
  /\ gui' = "exited"
  /\ UNCHANGED <<want, setups, clientVars, posted, rt, driver, thread, run, xrunVars,
                 faults, finished, watchVars>>

(* A second without two cycles: the client stays connected and the project  *)
(* ends the program (qFatal in disconnect_from_audio_device()).             *)
WaitTimesOut ==
  /\ gui = "waiting" /\ toWait > 0
  /\ Silent
  /\ gui' = "exited"
  /\ UNCHANGED <<want, setups, clientVars, posted, rt, driver, thread, run, xrunVars,
                 faults, finished, watchVars>>
-----------------------------------------------------------------------------
(* The GUI thread: drivers. set_parameters() waits in shutdown() for the    *)
(* audio thread and starts the next driver when it is gone.                 *)
Stopping == gui \in {"stopping", "stalled"}

SetParametersAt(where, d) ==
  /\ gui' = where
  /\ want' = d
  /\ run' = FALSE
  /\ watching' = FALSE

SetParameters(d) == SetParametersAt("stopping", d)

ChooseDriver(d) ==
  /\ gui = "idle" /\ setups < MaxSetups
  /\ setups' = setups + 1
  /\ SetParameters(d)
  /\ UNCHANGED <<clientVars, posted, rt, driver, thread, xrunVars, faults, finished,
                 progress>>

(* JACK's cycles end with jack_deactivate(), its notifications when the     *)
(* client is closed.                                                        *)
DriverStopped ==
  /\ ~flagging
  /\ \/ thread = "ended"
     \/ driver = "jack" /\ thread \in {"between", "hung"}

(* A driver that cannot be set up or started is replaced by the Dummy       *)
(* driver at once.                                                          *)
Restart ==
  /\ Stopping
  /\ DriverStopped
  /\ driver' \in {want, "dummy"}
  /\ thread' = IF driver' = "jack" THEN "between" ELSE "starting"
  /\ run' = TRUE
  /\ xruns' = 0 /\ storm' = FALSE
  /\ watching' = TRUE /\ progress' = FALSE
  /\ gui' = "idle"
  /\ UNCHANGED <<want, setups, clientVars, posted, rt, flagging, faults, finished>>

(* shutdown() gives up after a second and deletes the thread's object: Qt   *)
(* ends the program (qFatal in ~QThread()).                                 *)
ThreadLost ==
  /\ Stopping
  /\ driver # "jack" /\ thread = "hung"
  /\ gui' = "exited"
  /\ UNCHANGED <<want, setups, clientVars, posted, rt, driver, thread, run, xrunVars,
                 faults, finished, watchVars>>

(* audiothread_finished() *)
AudioThreadFinished ==
  /\ gui = "idle" /\ finished > 0
  /\ finished' = finished - 1
  /\ \/ /\ run /\ xruns <= XrunLimit
        /\ SetParameters("dummy")
     \/ /\ ~(run /\ xruns <= XrunLimit)
        /\ UNCHANGED <<gui, want, run, watching>>
  /\ UNCHANGED <<setups, clientVars, posted, rt, driver, thread, xrunVars, faults,
                 progress>>

(* check_jack_shutdown() *)
CheckJackShutdown ==
  /\ gui = "idle"
  /\ driver = "jack" /\ thread = "ended"
  /\ SetParameters("dummy")
  /\ UNCHANGED <<setups, clientVars, posted, rt, driver, thread, xrunVars, faults,
                 finished, progress>>

\* Mutant: a device that was stopped by a storm counts as stopped on purpose.
TakeStorm_Forgets ==
  /\ gui = "idle" /\ watching /\ storm
  /\ storm' = FALSE
  /\ UNCHANGED <<gui, want, run, watching, setups, clientVars, posted, rt, driver, thread,
                 xruns, flagging, faults, finished, progress>>

(* check_audio_thread_progress() takes the flag of a storm;                 *)
(* switch_to_null_driver().                                                 *)
TakeStorm ==
  /\ gui = "idle" /\ watching /\ storm
  /\ storm' = FALSE
  /\ \/ driver # "dummy" /\ SetParameters("dummy")
     \/ driver = "dummy" /\ UNCHANGED <<gui, want, run, watching>>
  /\ UNCHANGED <<setups, clientVars, posted, rt, driver, thread, xruns, flagging, faults,
                 finished, progress>>

(* check_audio_thread_progress() sees that cycles were completed, or that   *)
(* the device was stopped.                                                  *)
SeeProgress ==
  /\ gui = "idle" /\ watching /\ ~storm
  /\ progress \/ ~run
  /\ progress' = FALSE
  /\ UNCHANGED <<gui, want, setups, clientVars, posted, rt, driver, thread, run, xrunVars,
                 faults, finished, watching>>

(* check_audio_thread_progress() has seen no cycle for two seconds. *)
SeeStall ==
  /\ gui = "idle" /\ watching /\ ~storm
  /\ run /\ ~progress /\ Silent
  /\ \/ driver # "dummy" /\ SetParametersAt("stalled", "dummy")
     \/ /\ driver = "dummy"
        /\ watching' = FALSE
        /\ gui' = "exited"
        /\ UNCHANGED <<want, run>>
  /\ UNCHANGED <<setups, clientVars, posted, rt, driver, thread, xrunVars, faults, finished,
                 progress>>

(* m_xrunResetTimer, every half minute *)
ResetXruns ==
  /\ gui = "idle" /\ xruns > 0
  /\ xruns' = 0
  /\ UNCHANGED <<gui, want, setups, clientVars, posted, rt, driver, thread, run, storm,
                 flagging, faults, finished, watchVars>>
-----------------------------------------------------------------------------
(* The audio thread. *)

audioUnchanged == <<gui, want, setups, registered, leaving, deleted, run, driver>>

(* The thread ends; QThread::finished is queued in the GUI thread unless    *)
(* shutdown() has disconnected it.                                          *)
ThreadEnds ==
  /\ thread' = "ended"
  /\ finished' = IF Stopping \/ driver = "jack" THEN finished ELSE finished + 1

Fault == faults < MaxFaults /\ faults' = faults + 1

StartDriver ==
  /\ thread = "starting"
  /\ \/ thread' = "between" /\ UNCHANGED <<faults, finished>>
     \/ driver # "dummy" /\ Fault /\ ThreadEnds
  /\ UNCHANGED <<audioUnchanged, toWait, posted, rt, xrunVars, watchVars>>

(* The loop of TAudioDeviceThread::run() looks at m_runAudioThread. JACK    *)
(* calls whenever it likes, and has the transport followed first.           *)
NextCycle ==
  /\ thread = "between" /\ ~flagging
  /\ Stopping => driver # "jack"
  /\ \/ driver = "jack" /\ thread' = "following" /\ UNCHANGED finished
     \/ driver # "jack" /\ run /\ thread' = "waiting" /\ UNCHANGED finished
     \/ driver # "jack" /\ ~run /\ ThreadEnds
  /\ UNCHANGED <<audioUnchanged, toWait, posted, rt, xrunVars, faults, watchVars>>

CycleStarts ==
  /\ thread \in {"waiting", "following"} /\ ~flagging
  /\ thread' = "applying"
  /\ UNCHANGED <<audioUnchanged, toWait, posted, rt, xrunVars, faults, finished, watchVars>>

(* process_posted_gui_events() until its queue is empty *)
ApplyPosted ==
  /\ thread = "applying"
  /\ \/ posted # <<>> /\ rt' = Head(posted) /\ posted' = Tail(posted) /\ UNCHANGED thread
     \/ posted = <<>> /\ thread' = "processing" /\ UNCHANGED <<rt, posted>>
  /\ UNCHANGED <<audioUnchanged, toWait, xrunVars, faults, finished, watchVars>>

(* The end of run_cycle() counts the cycle. *)
CycleEnds ==
  /\ thread = "processing"
  /\ thread' = "between"
  /\ toWait' = IF toWait > 0 THEN toWait - 1 ELSE 0
  /\ progress' = TRUE
  /\ UNCHANGED <<audioUnchanged, posted, rt, xrunVars, faults, finished, watching>>

(* A read, a write or the wait fails. A cycle of JACK's is only not         *)
(* counted; the audio thread of another driver ends.                        *)
CycleFails ==
  /\ thread \in {"waiting", "processing"} /\ driver # "dummy"
  /\ ~flagging
  /\ Fault
  /\ IF driver = "jack" THEN thread' = "between" /\ UNCHANGED finished ELSE ThreadEnds
  /\ UNCHANGED <<audioUnchanged, toWait, posted, rt, xrunVars, watchVars>>

(* The sound card blocks, a client's process() does not end, or JACK does   *)
(* not call any more.                                                       *)
Hang ==
  /\ thread \in IF driver = "jack" THEN {"between"} ELSE {"waiting", "processing"}
  /\ ~flagging
  /\ Fault
  /\ thread' = "hung"
  /\ UNCHANGED <<audioUnchanged, toWait, posted, rt, xrunVars, finished, watchVars>>

(* JACK's server ends: the driver's shutdown callback. *)
JackShutdown ==
  /\ driver = "jack" /\ thread = "between"
  /\ Fault
  /\ thread' = "ended"
  /\ UNCHANGED <<audioUnchanged, toWait, posted, rt, xrunVars, finished, watchVars>>

(* xrun(), in the audio thread, which waits for the sound card and gives    *)
(* the cycle up, or in JACK's notification thread.                          *)
Xrun ==
  /\ \/ driver = "alsa" /\ thread = "waiting" /\ thread' = "between"
     \/ driver = "jack" /\ thread # "ended" /\ UNCHANGED thread
  /\ ~flagging
  /\ Fault
  /\ xruns' = xruns + 1
  /\ \/ xruns' > XrunLimit /\ storm' = TRUE /\ flagging' = TRUE
     \/ xruns' <= XrunLimit /\ UNCHANGED <<storm, flagging>>
  /\ UNCHANGED <<audioUnchanged, toWait, posted, rt, finished, watchVars>>

XrunStops ==
  /\ flagging
  /\ run' = FALSE
  /\ flagging' = FALSE
  /\ UNCHANGED <<gui, want, setups, clientVars, posted, rt, driver, thread, xruns, storm,
                 faults, finished, watchVars>>
-----------------------------------------------------------------------------
Tick == TakeStorm \/ SeeProgress \/ SeeStall

Gui ==
  \/ \E c \in Clients : AddClient(c) \/ RemoveClient(c)
  \/ \E d \in Drivers : ChooseDriver(d)
  \/ LoadCount \/ ClientGone \/ WaitTimesOut
  \/ Restart \/ ThreadLost
  \/ AudioThreadFinished \/ CheckJackShutdown
  \/ Tick \/ ResetXruns

Cycle == StartDriver \/ NextCycle \/ CycleStarts \/ ApplyPosted \/ CycleEnds

Next == Gui \/ Cycle \/ XrunStops \/ CycleFails \/ Hang \/ JackShutdown \/ Xrun

Spec == Init /\ [][Next]_vars

(* A thread that is not hung goes on, a handler of the GUI thread goes on   *)
(* to its end, and timers and queued events get their turn.                 *)
FairSpec ==
  /\ Spec
  /\ WF_vars(Cycle) /\ WF_vars(XrunStops)
  /\ WF_vars(LoadCount \/ ClientGone \/ WaitTimesOut)
  /\ WF_vars(Restart \/ ThreadLost)
  /\ WF_vars(AudioThreadFinished) /\ WF_vars(CheckJackShutdown)
  /\ WF_vars(Tick)
-----------------------------------------------------------------------------
TypeOK ==
  /\ gui \in {"idle", "removed", "waiting", "stopping", "stalled", "exited"}
  /\ {want, driver} \subseteq Drivers
  /\ setups \in 0..MaxSetups /\ faults \in 0..MaxFaults
  /\ registered \subseteq Clients /\ deleted \subseteq Clients /\ leaving \in Clients
  /\ toWait \in 0..2
  /\ posted \in Seq(SUBSET Clients)
  /\ rt \subseteq Clients
  /\ thread \in {"starting", "between", "waiting", "following", "applying", "processing",
                 "hung", "ended"}
  /\ {run, storm, flagging, watching, progress} \subseteq BOOLEAN
  /\ xruns \in Nat /\ finished \in Nat

(* A client that was deleted is never used again: not by a cycle's          *)
(* processing, nor by the transport of JACK, which a cycle follows before   *)
(* it applies what the GUI thread has posted.                               *)
ClientsLive == thread \in {"following", "processing"} => rt \cap deleted = {}

(* remove_client() returns or ends the program, also when the audio thread  *)
(* ends, storms or stalls under it.                                         *)
RemovalEnds == gui = "waiting" ~> gui \in {"idle", "exited"}

Broken == thread = "ended" \/ storm \/ (driver = "jack" /\ thread = "hung")
Working == run /\ ~storm /\ thread \notin {"ended", "hung"}

(* A driver that has ended, a storm of xruns and a JACK that is silent are  *)
(* always followed by a driver that works.                                  *)
Recovers == Broken ~> Working \/ gui = "exited"
=============================================================================
