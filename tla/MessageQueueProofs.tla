------------------------- MODULE MessageQueueProofs -------------------------
(* Proofs about MessageQueue, for queues of every size and any number of    *)
(* posts, signals and stops of the device.                                  *)
EXTENDS MessageQueue, TLAPS

\* The parts of TypeOK: where the threads are, how much they did, the queues.
Places ==
  /\ gui \in {"idle", "waiting", "ending", "joining", "gone"}
  /\ audio \in {"out", "applying", "processing"}
  /\ worker \in {"loop", "returned", "signals", "waiting", "counting", "resetting",
                 "telling", "calling", "gone"}
  /\ {inHand, device, running, dropped, untold} \subseteq BOOLEAN

Counts ==
  /\ posts \in 0..MaxPosts /\ switches \in 0..MaxSwitches /\ sent \in 0..MaxSignals
  /\ returned \in 0..ReturnedSize

Queues ==
  /\ posted \in Seq(BOOLEAN) /\ Len(posted) <= PostedSize
  /\ inHand \in BOOLEAN
  /\ signals \in Seq({"signal", "wake", "dummy"}) /\ Len(signals) <= SignalsSize
  /\ event \in {"signal", "wake", "dummy"}

LEMMA PlacesStep ==
  ASSUME Places, Next
  PROVE  Places'
<1> USE DEF Places, guiVars, audioVars, sharedVars, workerVars
<1>1. ASSUME NEW callback \in BOOLEAN, PostGuiEvent(callback) PROVE Places'
  BY <1>1 DEF PostGuiEvent
<1>2. ASSUME WaitEnqueue \/ StopDevice \/ StartDevice PROVE Places'
  BY <1>2 DEF WaitEnqueue, StopDevice, StartDevice
<1>3. ASSUME StopRunning \/ EnqueueDummy \/ JoinWorker PROVE Places'
  BY <1>3 DEF StopRunning, EnqueueDummy, JoinWorker
<1>4. ASSUME CycleStarts \/ PostedApplied PROVE Places'
  BY <1>4 DEF CycleStarts, PostedApplied
<1>5. ASSUME ApplyPosted PROVE Places'
  BY <1>5 DEF ApplyPosted, Drop
<1>6. ASSUME CycleEnds \/ SendSignal PROVE Places'
  BY <1>6 DEF CycleEnds, SendSignal, PostToGuiThread, Drop
<1>7. ASSUME CycleFails PROVE Places'
  BY <1>7 DEF CycleFails
<1>8. ASSUME Loop \/ DrainReturned \/ DrainSignals PROVE Places'
  BY <1>8 DEF Loop, DrainReturned, DrainSignals
<1>9. ASSUME SignalsDrained \/ WaitDequeue \/ LoadDropped PROVE Places'
  BY <1>9 DEF SignalsDrained, WaitDequeue, LoadDropped
<1>10. ASSUME ResetAndTell \/ RunCallback PROVE Places'
  BY <1>10 DEF ResetAndTell, RunCallback
<1> HIDE DEF Places
<1>11. QED
  BY <1>1, <1>2, <1>3, <1>4, <1>5, <1>6, <1>7, <1>8, <1>9, <1>10
     DEF Next, Gui, Cycle, Audio, Worker

LEMMA CountsStep ==
  ASSUME Counts, Next
  PROVE  Counts'
<1> USE QueueAssumption DEF Counts, guiVars, audioVars, sharedVars, workerVars
<1>1. ASSUME NEW callback \in BOOLEAN, PostGuiEvent(callback) PROVE Counts'
  BY <1>1 DEF PostGuiEvent
<1>2. ASSUME WaitEnqueue \/ StopDevice \/ StartDevice PROVE Counts'
  BY <1>2 DEF WaitEnqueue, StopDevice, StartDevice
<1>3. ASSUME StopRunning \/ EnqueueDummy \/ JoinWorker PROVE Counts'
  BY <1>3 DEF StopRunning, EnqueueDummy, JoinWorker
<1>4. ASSUME CycleStarts \/ PostedApplied PROVE Counts'
  BY <1>4 DEF CycleStarts, PostedApplied
<1>5. ASSUME ApplyPosted PROVE Counts'
  <2>1. returned' = returned \/ (returned < ReturnedSize /\ returned' = returned + 1)
    BY <1>5, Zenon DEF ApplyPosted
  <2>2. UNCHANGED <<posts, switches, sent>>
    BY <1>5, Zenon DEF ApplyPosted, audioVars
  <2>3. QED
    BY <2>1, <2>2
<1>6. ASSUME CycleEnds \/ SendSignal PROVE Counts'
  BY <1>6 DEF CycleEnds, SendSignal, PostToGuiThread, Drop
<1>7. ASSUME CycleFails PROVE Counts'
  BY <1>7 DEF CycleFails
<1>8. ASSUME Loop \/ DrainReturned \/ DrainSignals PROVE Counts'
  BY <1>8 DEF Loop, DrainReturned, DrainSignals
<1>9. ASSUME SignalsDrained \/ WaitDequeue \/ LoadDropped PROVE Counts'
  BY <1>9 DEF SignalsDrained, WaitDequeue, LoadDropped
<1>10. ASSUME ResetAndTell \/ RunCallback PROVE Counts'
  BY <1>10 DEF ResetAndTell, RunCallback
<1> HIDE DEF Counts
<1>11. QED
  BY <1>1, <1>2, <1>3, <1>4, <1>5, <1>6, <1>7, <1>8, <1>9, <1>10
     DEF Next, Gui, Cycle, Audio, Worker

\* Appending where there is room, and taking the head of a queue that has one.
LEMMA QueueStep ==
  ASSUME NEW Values, NEW q \in Seq(Values), NEW size \in Nat, Len(q) <= size
  PROVE  /\ \A v \in Values : Len(q) < size =>
              Append(q, v) \in Seq(Values) /\ Len(Append(q, v)) <= size
         /\ q # <<>> => /\ Head(q) \in Values
                        /\ Tail(q) \in Seq(Values) /\ Len(Tail(q)) <= size
  OBVIOUS

LEMMA QueuesStep ==
  ASSUME Queues, Next
  PROVE  Queues'
<1> DEFINE Signals == {"signal", "wake", "dummy"}
<1> USE DEF Queues, guiVars, audioVars, sharedVars, workerVars
<1>a. PostedSize \in Nat /\ SignalsSize \in Nat
  BY QueueAssumption
<1>b. /\ \A v \in BOOLEAN : Len(posted) < PostedSize =>
           Append(posted, v) \in Seq(BOOLEAN) /\ Len(Append(posted, v)) <= PostedSize
      /\ posted # <<>> => Tail(posted) \in Seq(BOOLEAN) /\ Len(Tail(posted)) <= PostedSize
  BY <1>a, QueueStep
<1>c. /\ \A v \in Signals : Len(signals) < SignalsSize =>
           Append(signals, v) \in Seq(Signals) /\ Len(Append(signals, v)) <= SignalsSize
      /\ signals # <<>> => /\ Head(signals) \in Signals
                           /\ Tail(signals) \in Seq(Signals) /\ Len(Tail(signals)) <= SignalsSize
  BY <1>a, QueueStep
<1>1. ASSUME NEW callback \in BOOLEAN, PostGuiEvent(callback) PROVE Queues'
  BY <1>1, <1>b DEF PostGuiEvent
<1>2. ASSUME WaitEnqueue PROVE Queues'
  BY <1>2, <1>b DEF WaitEnqueue
<1>3. ASSUME StopDevice \/ StartDevice \/ StopRunning \/ JoinWorker PROVE Queues'
  BY <1>3 DEF StopDevice, StartDevice, StopRunning, JoinWorker
<1>4. ASSUME EnqueueDummy PROVE Queues'
  BY <1>4, <1>c DEF EnqueueDummy
<1>5. ASSUME ApplyPosted PROVE Queues'
  BY <1>5, <1>b DEF ApplyPosted
<1>6. ASSUME CycleEnds \/ SendSignal PROVE Queues'
  BY <1>6, <1>c DEF CycleEnds, SendSignal, PostToGuiThread
<1>7. ASSUME CycleStarts \/ PostedApplied \/ CycleFails PROVE Queues'
  BY <1>7 DEF CycleStarts, PostedApplied, CycleFails
<1>8. ASSUME DrainSignals \/ WaitDequeue PROVE Queues'
  BY <1>8, <1>c DEF DrainSignals, WaitDequeue
<1>9. ASSUME Loop \/ DrainReturned \/ SignalsDrained \/ LoadDropped PROVE Queues'
  BY <1>9 DEF Loop, DrainReturned, SignalsDrained, LoadDropped
<1>10. ASSUME ResetAndTell \/ RunCallback PROVE Queues'
  BY <1>10 DEF ResetAndTell, RunCallback
<1> HIDE DEF Queues
<1>11. QED
  BY <1>1, <1>2, <1>3, <1>4, <1>5, <1>6, <1>7, <1>8, <1>9, <1>10
     DEF Next, Gui, Cycle, Audio, Worker

\* Every variable keeps its type, and no queue grows past its size: both
\* threads look at the room before they enqueue
\* (TAudioThreadMessageQueue::post_gui_event(), post_to_gui_thread()).
THEOREM TypesHold == Spec => []TypeOK
<1>1. ASSUME Init PROVE Places /\ Counts /\ Queues
  <2>1. Places
    BY <1>1 DEF Init, Places
  <2>2. Counts
    BY <1>1, QueueAssumption DEF Init, Counts
  <2>3. PostedSize \in Nat /\ SignalsSize \in Nat
    BY QueueAssumption
  <2>4. posted = <<>> /\ signals = <<>>
    BY <1>1 DEF Init
  <2>5. /\ posted \in Seq(BOOLEAN) /\ Len(posted) = 0
        /\ signals \in Seq({"signal", "wake", "dummy"}) /\ Len(signals) = 0
    BY <2>4
  <2>6. inHand \in BOOLEAN /\ event \in {"signal", "wake", "dummy"}
    BY <1>1 DEF Init
  <2>7. Len(posted) <= PostedSize /\ Len(signals) <= SignalsSize
    BY <2>3, <2>5
  <2>8. Queues
    BY <2>5, <2>6, <2>7, Zenon DEF Queues
  <2>9. QED
    BY <2>1, <2>2, <2>8
<1>2. Places /\ Counts /\ Queues /\ [Next]_vars => (Places /\ Counts /\ Queues)'
  <2>1. CASE UNCHANGED vars
    BY <2>1 DEF vars, guiVars, audioVars, sharedVars, workerVars, Places, Counts, Queues
  <2>2. QED
    BY <2>1, PlacesStep, CountsStep, QueuesStep
<1>3. Places /\ Counts /\ Queues => TypeOK
  BY DEF Places, Counts, Queues, TypeOK
<1>4. QED
  BY <1>1, <1>2, <1>3, PTL DEF Spec

\* What the audio thread dropped is not forgotten before queueOverflowDetected
\* tells of it, also when more is dropped between the look at the counter, its
\* reset and the signal (process_processed_events_by_rt_thread_queue()).
THEOREM LossesAreTold == Spec => []LossIsTold
<1> USE DEF LossIsTold, guiVars, audioVars, sharedVars, workerVars
<1>1. Init => LossIsTold
  BY DEF Init
<1>2. ASSUME LossIsTold, [Next]_vars
      PROVE  LossIsTold'
  <2>1. CASE UNCHANGED vars
    BY <1>2, <2>1 DEF vars
  <2>2. ASSUME Gui PROVE LossIsTold'
    BY <1>2, <2>2 DEF Gui, PostGuiEvent, WaitEnqueue, StopDevice, StartDevice, StopRunning,
       EnqueueDummy, JoinWorker
  <2>3. ASSUME Audio PROVE LossIsTold'
    BY <1>2, <2>3 DEF Audio, Cycle, CycleStarts, ApplyPosted, PostedApplied, CycleEnds,
       SendSignal, CycleFails, PostToGuiThread, Drop
  <2>4. ASSUME Worker PROVE LossIsTold'
    BY <1>2, <2>4 DEF Worker, Loop, DrainReturned, DrainSignals, SignalsDrained,
       WaitDequeue, LoadDropped, ResetAndTell, RunCallback
  <2>5. QED
    BY <1>2, <2>1, <2>2, <2>3, <2>4 DEF Next
<1>3. QED
  BY <1>1, <1>2, PTL DEF Spec
=============================================================================
