---------------------------- MODULE MessageQueue ----------------------------
(* TAudioThreadMessageQueue: the three bounded queues between the GUI       *)
(* thread, which posts changes, the audio thread, which applies them at the *)
(* start of a cycle and sends signals, and the worker, which runs the       *)
(* callbacks of both. The audio thread never waits: what does not fit is    *)
(* dropped and counted.                                                     *)
EXTENDS Naturals, Sequences

CONSTANTS
  PostedSize,   \* slots of m_postedFromGuiThreadQueue
  SignalsSize,  \* slots of m_postedFromRTThreadQueue
  ReturnedSize, \* slots of m_processedByRTThreadQueue
  MaxPosts,     \* bound: changes the GUI posts
  MaxSignals,   \* bound: signals the audio thread sends
  MaxSwitches   \* bound: times the device stops

ASSUME QueueAssumption ==
  /\ {PostedSize, SignalsSize, ReturnedSize} \subseteq Nat \ {0}
  /\ {MaxPosts, MaxSignals, MaxSwitches} \subseteq Nat

VARIABLES
  gui,       \* where the GUI thread is
  posts,     \* how many changes it has posted
  switches,  \* how often the device has stopped
  posted,    \* m_postedFromGuiThreadQueue: whether each has a callback
  inHand,    \* the change the GUI thread waits to post
  audio,     \* where the audio thread is in run_cycle()
  device,    \* whether a driver runs cycles
  signals,   \* m_postedFromRTThreadQueue
  sent,      \* how many signals were sent
  returned,  \* m_processedByRTThreadQueue: how many callbacks are in it
  dropped,   \* m_droppedRtEvents > 0
  worker,    \* where the worker is
  event,     \* what it took out of its wait
  running,   \* m_running
  untold     \* ghost: something was dropped since the last overflow signal

guiVars == <<gui, posts, switches, posted, inHand>>
audioVars == <<audio, device, sent>>
sharedVars == <<signals, returned, dropped, untold>>
workerVars == <<worker, event>>
vars == <<guiVars, audioVars, sharedVars, workerVars, running>>

Init ==
  /\ gui = "idle" /\ posts = 0 /\ switches = 0 /\ posted = <<>> /\ inHand = FALSE
  /\ audio = "out" /\ device = FALSE /\ sent = 0
  /\ signals = <<>> /\ returned = 0 /\ dropped = FALSE /\ untold = FALSE
  /\ worker = "loop" /\ event = "wake"
  /\ running = TRUE
-----------------------------------------------------------------------------
(* The GUI thread. *)

(* post_gui_event(): a full queue makes the GUI thread wait. *)
PostGuiEvent(callback) ==
  /\ gui = "idle" /\ running
  /\ posts < MaxPosts
  /\ posts' = posts + 1
  /\ \/ /\ Len(posted) < PostedSize
        /\ posted' = Append(posted, callback)
        /\ UNCHANGED <<gui, inHand>>
     \/ /\ Len(posted) = PostedSize
        /\ gui' = "waiting" /\ inHand' = callback
        /\ UNCHANGED posted
  /\ UNCHANGED <<switches, audioVars, sharedVars, workerVars, running>>

WaitEnqueue ==
  /\ gui = "waiting"
  /\ Len(posted) < PostedSize
  /\ posted' = Append(posted, inHand)
  /\ gui' = "idle"
  /\ UNCHANGED <<posts, switches, inHand, audioVars, sharedVars, workerVars, running>>

(* set_parameters(): the old driver is shut down, its last cycle is over,   *)
(* and a new one starts.                                                    *)
StopDevice ==
  /\ gui = "idle" /\ device /\ audio = "out"
  /\ switches < MaxSwitches
  /\ switches' = switches + 1
  /\ device' = FALSE
  /\ UNCHANGED <<gui, posts, posted, inHand, audio, sent, sharedVars, workerVars, running>>

StartDevice ==
  /\ gui = "idle" /\ ~device /\ running
  /\ device' = TRUE
  /\ UNCHANGED <<guiVars, audio, sent, sharedVars, workerVars, running>>

(* The destructor, at the end of the program: the device is gone. *)
StopRunning ==
  /\ gui = "idle" /\ running
  /\ ~device /\ posts = MaxPosts /\ switches = MaxSwitches
  /\ running' = FALSE
  /\ gui' = "ending"
  /\ UNCHANGED <<posts, switches, posted, inHand, audioVars, sharedVars, workerVars>>

EnqueueDummy ==
  /\ gui = "ending"
  /\ signals' = IF Len(signals) < SignalsSize THEN Append(signals, "dummy") ELSE signals
  /\ gui' = "joining"
  /\ UNCHANGED <<posts, switches, posted, inHand, audioVars, returned, dropped, untold,
                 workerVars, running>>

JoinWorker ==
  /\ gui = "joining" /\ worker = "gone"
  /\ gui' = "gone"
  /\ UNCHANGED <<posts, switches, posted, inHand, audioVars, sharedVars, workerVars, running>>
-----------------------------------------------------------------------------
(* The audio thread: TAudioDevice::run_cycle(). *)

Drop == dropped' = TRUE /\ untold' = TRUE

(* post_to_gui_thread() *)
PostToGuiThread(what) ==
  \/ /\ Len(signals) < SignalsSize
     /\ signals' = Append(signals, what)
     /\ UNCHANGED <<dropped, untold>>
  \/ /\ Len(signals) = SignalsSize
     /\ Drop
     /\ UNCHANGED signals

CycleStarts ==
  /\ audio = "out" /\ device
  /\ audio' = "applying"
  /\ UNCHANGED <<guiVars, device, sent, sharedVars, workerVars, running>>

\* Mutant: a change whose callback does not fit stays in its queue.
ApplyPosted_Keeps ==
  /\ audio = "applying" /\ posted # <<>>
  /\ Head(posted) => returned < ReturnedSize
  /\ posted' = Tail(posted)
  /\ returned' = IF Head(posted) THEN returned + 1 ELSE returned
  /\ UNCHANGED <<gui, posts, switches, inHand, audioVars, signals, dropped, untold,
                 workerVars, running>>

(* One round of process_posted_gui_events(). *)
ApplyPosted ==
  /\ audio = "applying" /\ posted # <<>>
  /\ posted' = Tail(posted)
  /\ \/ /\ ~Head(posted)
        /\ UNCHANGED <<returned, dropped, untold>>
     \/ /\ Head(posted) /\ returned < ReturnedSize
        /\ returned' = returned + 1
        /\ UNCHANGED <<dropped, untold>>
     \/ /\ Head(posted) /\ returned = ReturnedSize
        /\ Drop
        /\ UNCHANGED returned
  /\ UNCHANGED <<gui, posts, switches, inHand, audioVars, signals, workerVars, running>>

PostedApplied ==
  /\ audio = "applying" /\ posted = <<>>
  /\ audio' = "processing"
  /\ UNCHANGED <<guiVars, device, sent, sharedVars, workerVars, running>>

(* A signal of the processing, e.g. that the transport stopped. *)
SendSignal ==
  /\ audio = "processing"
  /\ sent < MaxSignals
  /\ sent' = sent + 1
  /\ PostToGuiThread("signal")
  /\ UNCHANGED <<guiVars, audio, device, returned, workerVars, running>>

(* The driver fails to read or write: the thread ends without a wake. *)
CycleFails ==
  /\ audio = "processing"
  /\ switches < MaxSwitches
  /\ switches' = switches + 1
  /\ audio' = "out" /\ device' = FALSE
  /\ UNCHANGED <<gui, posts, posted, inHand, sent, sharedVars, workerVars, running>>

\* Mutant: a cycle that applied something does not wake the worker.
CycleEnds_NoWake ==
  /\ audio = "processing"
  /\ audio' = "out"
  /\ UNCHANGED <<guiVars, device, sent, sharedVars, workerVars, running>>

(* The end of the cycle wakes the worker. *)
CycleEnds ==
  /\ audio = "processing"
  /\ audio' = "out"
  /\ PostToGuiThread("wake")
  /\ UNCHANGED <<guiVars, device, sent, returned, workerVars, running>>
-----------------------------------------------------------------------------
(* The worker. Its callbacks free memory and emit signals; running one      *)
(* changes nothing here.                                                    *)

Loop ==
  /\ worker = "loop"
  /\ worker' = IF running THEN "returned" ELSE "gone"
  /\ UNCHANGED <<guiVars, audioVars, sharedVars, event, running>>

DrainReturned ==
  /\ worker = "returned"
  /\ \/ returned > 0 /\ returned' = returned - 1 /\ UNCHANGED worker
     \/ returned = 0 /\ worker' = "signals" /\ UNCHANGED returned
  /\ UNCHANGED <<guiVars, audioVars, signals, dropped, untold, event, running>>

DrainSignals ==
  /\ worker = "signals" /\ signals # <<>>
  /\ signals' = Tail(signals)
  /\ UNCHANGED <<guiVars, audioVars, returned, dropped, untold, workerVars, running>>

SignalsDrained ==
  /\ worker = "signals" /\ signals = <<>>
  /\ worker' = "waiting"
  /\ UNCHANGED <<guiVars, audioVars, sharedVars, event, running>>

WaitDequeue ==
  /\ worker = "waiting" /\ signals # <<>>
  /\ event' = Head(signals)
  /\ signals' = Tail(signals)
  /\ worker' = "counting"
  /\ UNCHANGED <<guiVars, audioVars, returned, dropped, untold, running>>

\* Mutant: the overflow is told before the counter is reset.
ResetAndTell_Swapped ==
  \/ /\ worker = "resetting"
     /\ untold' = FALSE
     /\ worker' = "telling"
     /\ UNCHANGED <<guiVars, audioVars, signals, returned, dropped, event, running>>
  \/ /\ worker = "telling"
     /\ dropped' = FALSE
     /\ worker' = "calling"
     /\ UNCHANGED <<guiVars, audioVars, signals, returned, untold, event, running>>

(* The counter is looked at, reset, and then the overflow is told. *)
ResetAndTell ==
  \/ /\ worker = "resetting"
     /\ dropped' = FALSE
     /\ worker' = "telling"
     /\ UNCHANGED <<guiVars, audioVars, signals, returned, untold, event, running>>
  \/ /\ worker = "telling"
     /\ untold' = FALSE
     /\ worker' = "calling"
     /\ UNCHANGED <<guiVars, audioVars, signals, returned, dropped, event, running>>

LoadDropped ==
  /\ worker = "counting"
  /\ worker' = IF dropped THEN "resetting" ELSE "calling"
  /\ UNCHANGED <<guiVars, audioVars, sharedVars, event, running>>

RunCallback ==
  /\ worker = "calling"
  /\ worker' = "loop"
  /\ UNCHANGED <<guiVars, audioVars, sharedVars, event, running>>
-----------------------------------------------------------------------------
Gui ==
  \/ \E callback \in BOOLEAN : PostGuiEvent(callback)
  \/ WaitEnqueue
  \/ StopDevice \/ StartDevice
  \/ StopRunning \/ EnqueueDummy \/ JoinWorker

Cycle == CycleStarts \/ ApplyPosted \/ PostedApplied \/ CycleEnds

Audio == Cycle \/ SendSignal \/ CycleFails

Worker ==
  \/ Loop \/ DrainReturned \/ DrainSignals \/ SignalsDrained \/ WaitDequeue
  \/ LoadDropped \/ ResetAndTell \/ RunCallback

Next == Gui \/ Audio \/ Worker

Spec == Init /\ [][Next]_vars

(* A started driver goes through its cycles, the worker runs whenever it    *)
(* can, and a device that has stopped is started again (set_parameters()    *)
(* falls back until a driver runs).                                         *)
FairSpec ==
  /\ Spec
  /\ WF_vars(Cycle) /\ WF_vars(Worker)
  /\ WF_vars(StartDevice) /\ WF_vars(WaitEnqueue)
  /\ WF_vars(EnqueueDummy) /\ WF_vars(JoinWorker)
-----------------------------------------------------------------------------
(* The queues are never longer than they are. *)
TypeOK ==
  /\ gui \in {"idle", "waiting", "ending", "joining", "gone"}
  /\ posts \in 0..MaxPosts /\ switches \in 0..MaxSwitches /\ sent \in 0..MaxSignals
  /\ posted \in Seq(BOOLEAN) /\ Len(posted) <= PostedSize
  /\ {inHand, device, running, dropped, untold} \subseteq BOOLEAN
  /\ audio \in {"out", "applying", "processing"}
  /\ signals \in Seq({"signal", "wake", "dummy"}) /\ Len(signals) <= SignalsSize
  /\ returned \in 0..ReturnedSize
  /\ worker \in {"loop", "returned", "signals", "waiting", "counting", "resetting",
                 "telling", "calling", "gone"}
  /\ event \in {"signal", "wake", "dummy"}

(* What the audio thread dropped is never forgotten before it was told      *)
(* (queueOverflowDetected), also when more is dropped while it is told.     *)
LossIsTold == untold => dropped \/ worker \in {"resetting", "telling"}

(* A wait for the full queue ends, as long as there is a device. *)
PostReturns == gui = "waiting" ~> gui # "waiting" \/ ~device

(* The worker is never left asleep over callbacks of changes that were      *)
(* applied: the end of a cycle wakes it, one of a later cycle if a driver   *)
(* failed in between or the wake was dropped. The program may end, or the    *)
(* GUI thread wait for an audio thread that is gone.                        *)
CallbacksWake ==
  returned > 0 /\ worker = "waiting"
    ~> worker # "waiting" \/ ~running \/ (gui = "waiting" /\ ~device)

(* The destructor gets the worker to end ("deadlock-free lifecycle          *)
(* termination by awaking the blocking thread with a dummy payload").       *)
WorkerEnds == gui = "joining" ~> gui = "gone"
=============================================================================
