------------------------- MODULE AudioDeviceProofs -------------------------
(* Proofs about AudioDevice, for every set of clients, limit of xruns and   *)
(* number of drivers and faults.                                            *)
EXTENDS AudioDevice, TLAPS

\* The parts of TypeOK.
Places ==
  /\ gui \in {"idle", "removed", "waiting", "stopping", "stalled", "exited"}
  /\ {want, driver} \subseteq Drivers
  /\ thread \in {"starting", "between", "waiting", "following", "applying", "processing",
                 "hung", "ended"}
  /\ {run, storm, flagging, watching, progress} \subseteq BOOLEAN

Counts ==
  /\ setups \in 0..MaxSetups /\ faults \in 0..MaxFaults
  /\ toWait \in 0..2
  /\ xruns \in Nat /\ finished \in Nat

Lists ==
  /\ registered \subseteq Clients /\ deleted \subseteq Clients /\ leaving \in Clients
  /\ posted \in Seq(SUBSET Clients)
  /\ rt \subseteq Clients

LEMMA PlacesStep ==
  ASSUME Places, Next
  PROVE  Places'
<1> USE DEF Places, Drivers, clientVars, xrunVars, watchVars, audioUnchanged
<1>1. ASSUME NEW c \in Clients, AddClient(c) \/ RemoveClient(c) PROVE Places'
  BY <1>1 DEF AddClient, RemoveClient
<1>2. ASSUME NEW d \in Drivers, ChooseDriver(d) PROVE Places'
  BY <1>2 DEF ChooseDriver, SetParameters, SetParametersAt
<1>3. ASSUME LoadCount \/ ClientGone \/ WaitTimesOut \/ ThreadLost PROVE Places'
  BY <1>3 DEF LoadCount, ClientGone, WaitTimesOut, ThreadLost
<1>4. ASSUME Restart PROVE Places'
  BY <1>4 DEF Restart
<1>5. ASSUME AudioThreadFinished \/ CheckJackShutdown PROVE Places'
  BY <1>5 DEF AudioThreadFinished, CheckJackShutdown, SetParameters, SetParametersAt
<1>6. ASSUME TakeStorm \/ SeeStall PROVE Places'
  BY <1>6 DEF TakeStorm, SeeStall, SetParameters, SetParametersAt
<1>7. ASSUME SeeProgress \/ ResetXruns \/ XrunStops PROVE Places'
  BY <1>7 DEF SeeProgress, ResetXruns, XrunStops
<1>8. ASSUME StartDriver \/ NextCycle PROVE Places'
  BY <1>8 DEF StartDriver, NextCycle, ThreadEnds
<1>9. ASSUME CycleStarts \/ ApplyPosted \/ CycleEnds PROVE Places'
  BY <1>9 DEF CycleStarts, ApplyPosted, CycleEnds
<1>10. ASSUME CycleFails PROVE Places'
  BY <1>10 DEF CycleFails, ThreadEnds
<1>11. ASSUME Hang \/ JackShutdown PROVE Places'
  BY <1>11 DEF Hang, JackShutdown
<1>12. ASSUME Xrun PROVE Places'
  BY <1>12 DEF Xrun
<1> HIDE DEF Places
<1>13. QED
  BY <1>1, <1>2, <1>3, <1>4, <1>5, <1>6, <1>7, <1>8, <1>9, <1>10, <1>11, <1>12
     DEF Next, Gui, Cycle, Tick

LEMMA CountsStep ==
  ASSUME Counts, Next
  PROVE  Counts'
<1>a. MaxSetups \in Nat /\ MaxFaults \in Nat
  BY DeviceAssumption
<1> USE <1>a DEF Counts, clientVars, xrunVars, watchVars, audioUnchanged
<1>1. ASSUME NEW c \in Clients, AddClient(c) \/ RemoveClient(c) PROVE Counts'
  BY <1>1 DEF AddClient, RemoveClient
<1>2. ASSUME NEW d \in Drivers, ChooseDriver(d) PROVE Counts'
  BY <1>2 DEF ChooseDriver
<1>3. ASSUME LoadCount \/ ClientGone \/ WaitTimesOut \/ ThreadLost PROVE Counts'
  BY <1>3 DEF LoadCount, ClientGone, WaitTimesOut, ThreadLost
<1>4. ASSUME Restart PROVE Counts'
  BY <1>4 DEF Restart
<1>5. ASSUME AudioThreadFinished \/ CheckJackShutdown PROVE Counts'
  BY <1>5 DEF AudioThreadFinished, CheckJackShutdown
<1>6. ASSUME TakeStorm \/ SeeStall PROVE Counts'
  BY <1>6 DEF TakeStorm, SeeStall
<1>7. ASSUME SeeProgress \/ ResetXruns \/ XrunStops PROVE Counts'
  BY <1>7 DEF SeeProgress, ResetXruns, XrunStops
<1>8. ASSUME StartDriver \/ NextCycle PROVE Counts'
  BY <1>8 DEF StartDriver, NextCycle, ThreadEnds, Fault
<1>9. ASSUME CycleStarts \/ ApplyPosted \/ CycleEnds PROVE Counts'
  BY <1>9 DEF CycleStarts, ApplyPosted, CycleEnds
<1>10. ASSUME CycleFails PROVE Counts'
  BY <1>10 DEF CycleFails, ThreadEnds, Fault
<1>11. ASSUME Hang \/ JackShutdown PROVE Counts'
  BY <1>11 DEF Hang, JackShutdown, Fault
<1>12. ASSUME Xrun PROVE Counts'
  BY <1>12 DEF Xrun, Fault
<1> HIDE DEF Counts
<1>13. QED
  BY <1>1, <1>2, <1>3, <1>4, <1>5, <1>6, <1>7, <1>8, <1>9, <1>10, <1>11, <1>12
     DEF Next, Gui, Cycle, Tick

LEMMA ListsStep ==
  ASSUME Lists, Next
  PROVE  Lists'
<1> USE DEF Lists, clientVars, xrunVars, watchVars, audioUnchanged
<1>a. \A S \in SUBSET Clients : Append(posted, S) \in Seq(SUBSET Clients)
  OBVIOUS
<1>b. posted # <<>> => Head(posted) \subseteq Clients /\ Tail(posted) \in Seq(SUBSET Clients)
  OBVIOUS
<1>1. ASSUME NEW c \in Clients, AddClient(c) \/ RemoveClient(c) PROVE Lists'
  BY <1>1, <1>a DEF AddClient, RemoveClient
<1>2. ASSUME NEW d \in Drivers, ChooseDriver(d) PROVE Lists'
  BY <1>2 DEF ChooseDriver
<1>3. ASSUME LoadCount \/ ClientGone \/ WaitTimesOut \/ ThreadLost PROVE Lists'
  BY <1>3 DEF LoadCount, ClientGone, WaitTimesOut, ThreadLost
<1>4. ASSUME Restart \/ AudioThreadFinished \/ CheckJackShutdown PROVE Lists'
  BY <1>4 DEF Restart, AudioThreadFinished, CheckJackShutdown
<1>5. ASSUME TakeStorm \/ SeeStall \/ SeeProgress \/ ResetXruns \/ XrunStops PROVE Lists'
  BY <1>5 DEF TakeStorm, SeeStall, SeeProgress, ResetXruns, XrunStops
<1>6. ASSUME StartDriver \/ NextCycle \/ CycleStarts \/ CycleEnds PROVE Lists'
  BY <1>6 DEF StartDriver, NextCycle, CycleStarts, CycleEnds
<1>7. ASSUME ApplyPosted PROVE Lists'
  BY <1>7, <1>b DEF ApplyPosted
<1>8. ASSUME CycleFails \/ Hang \/ JackShutdown \/ Xrun PROVE Lists'
  BY <1>8 DEF CycleFails, Hang, JackShutdown, Xrun
<1> HIDE DEF Lists
<1>9. QED
  BY <1>1, <1>2, <1>3, <1>4, <1>5, <1>6, <1>7, <1>8 DEF Next, Gui, Cycle, Tick

\* Every variable of the device keeps its type (TAudioDevice).
THEOREM TypesHold == Spec => []TypeOK
<1>1. ASSUME Init PROVE Places /\ Counts /\ Lists
  <2>1. Places
    BY <1>1 DEF Init, Places, Drivers
  <2>2. Counts
    BY <1>1, DeviceAssumption DEF Init, Counts
  <2>3. posted \in Seq(SUBSET Clients)
    BY <1>1 DEF Init
  <2>4. Lists
    BY <1>1, <2>3 DEF Init, Lists
  <2>5. QED
    BY <2>1, <2>2, <2>4
<1>2. Places /\ Counts /\ Lists /\ [Next]_vars => (Places /\ Counts /\ Lists)'
  <2>1. CASE UNCHANGED vars
    BY <2>1 DEF vars, clientVars, xrunVars, watchVars, Places, Counts, Lists
  <2>2. QED
    BY <2>1, PlacesStep, CountsStep, ListsStep
<1>3. Places /\ Counts /\ Lists => TypeOK
  BY DEF Places, Counts, Lists, TypeOK
<1>4. QED
  BY <1>1, <1>2, <1>3, PTL DEF Spec
-----------------------------------------------------------------------------
(* A deleted client is never used.                                          *)

\* What the audio thread has, once it has applied all that was posted, is what
\* the GUI thread has.
Latest == IF posted = <<>> THEN rt ELSE posted[Len(posted)]

\* No list that is in use or on its way has a deleted client.
NoneDeleted ==
  /\ deleted \cap registered = {} /\ deleted \cap rt = {}
  /\ \A i \in 1..Len(posted) : posted[i] \cap deleted = {}

\* The client that leaves is gone from the GUI's list; the wait is at its last
\* cycle only after all was applied. The cycle that was under way when the
\* wait began does not count: it may have been past the applying.
Waited ==
  /\ gui \in {"removed", "waiting"} => leaving \notin registered
  /\ gui = "waiting" /\ (toWait = 0 \/ (toWait = 1 /\ thread = "processing")) => posted = <<>>

ClientsInv == Latest = registered /\ NoneDeleted /\ Waited

\* What an append and a tail leave of a sequence.
LEMMA SequenceEnds ==
  ASSUME NEW Values, NEW q \in Seq(Values)
  PROVE  /\ \A v \in Values :
              /\ Append(q, v) # <<>> /\ Append(q, v)[Len(Append(q, v))] = v
              /\ \A i \in 1..Len(Append(q, v)) : Append(q, v)[i] = v \/ \E j \in 1..Len(q) : Append(q, v)[i] = q[j]
         /\ q # <<>> =>
              /\ Head(q) = q[1] /\ 1 \in 1..Len(q)
              /\ Tail(q) = <<>> => q[Len(q)] = Head(q)
              /\ Tail(q) # <<>> => Tail(q)[Len(Tail(q))] = q[Len(q)]
              /\ \A i \in 1..Len(Tail(q)) : i + 1 \in 1..Len(q) /\ Tail(q)[i] = q[i + 1]
<1>1. ASSUME NEW v \in Values
      PROVE  /\ Append(q, v) # <<>> /\ Append(q, v)[Len(Append(q, v))] = v
             /\ \A i \in 1..Len(Append(q, v)) : Append(q, v)[i] = v \/ \E j \in 1..Len(q) : Append(q, v)[i] = q[j]
  <2>1. /\ Len(Append(q, v)) = Len(q) + 1 /\ Len(q) \in Nat
        /\ Append(q, v)[Len(q) + 1] = v
        /\ \A i \in 1..Len(q) : Append(q, v)[i] = q[i]
    OBVIOUS
  <2>2. Append(q, v) # <<>>
    BY <2>1
  <2>3. \A i \in 1..(Len(q) + 1) : i \in 1..Len(q) \/ i = Len(q) + 1
    BY <2>1
  <2>4. QED
    BY <2>1, <2>2, <2>3
<1>2. ASSUME q # <<>>
      PROVE  /\ Head(q) = q[1] /\ 1 \in 1..Len(q)
             /\ Tail(q) = <<>> => q[Len(q)] = Head(q)
             /\ Tail(q) # <<>> => Tail(q)[Len(Tail(q))] = q[Len(q)]
             /\ \A i \in 1..Len(Tail(q)) : i + 1 \in 1..Len(q) /\ Tail(q)[i] = q[i + 1]
  <2>1. /\ Len(Tail(q)) = Len(q) - 1 /\ Len(q) \in Nat /\ Len(q) > 0
        /\ Head(q) = q[1]
        /\ \A i \in 1..(Len(q) - 1) : Tail(q)[i] = q[i + 1]
    BY <1>2
  <2>2. Tail(q) = <<>> => Len(q) = 1
    <3>1. Len(<<>>) = 0
      OBVIOUS
    <3>2. Tail(q) = <<>> => Len(Tail(q)) = 0
      BY <3>1, Zenon
    <3>3. QED
      BY <2>1, <3>2
  <2>3. Tail(q) # <<>> => Len(q) - 1 \in 1..(Len(q) - 1)
    BY <2>1
  <2>4. QED
    BY <2>1, <2>2, <2>3
<1>3. QED
  BY <1>1, <1>2

LEMMA ClientsStep ==
  ASSUME Lists, Counts, ClientsInv, Next
  PROVE  ClientsInv'
<1>a. posted \in Seq(SUBSET Clients) /\ rt \subseteq Clients /\ registered \subseteq Clients
  BY DEF Lists
<1> USE DEF clientVars, xrunVars, watchVars, audioUnchanged
<1> DEFINE Same == UNCHANGED <<registered, deleted, leaving, posted, rt>>
           Calm == gui' = "waiting" =>
                     /\ gui = "waiting" /\ toWait' = toWait
                     /\ thread' = "processing" => thread = "processing"
<1>b. ASSUME Same, Calm, gui' \in {"removed", "waiting"} => gui \in {"removed", "waiting"}
      PROVE  ClientsInv'
  BY <1>b DEF ClientsInv, Latest, NoneDeleted, Waited
<1>1. ASSUME NEW c \in Clients, AddClient(c) PROVE ClientsInv'
  <2>1. registered' \in SUBSET Clients /\ posted' = Append(posted, registered')
    BY <1>a, <1>1 DEF AddClient
  <2>2. Latest' = registered'
    BY <1>a, <2>1, SequenceEnds DEF Latest
  <2>3. NoneDeleted'
    BY <1>a, <1>1, <2>1, SequenceEnds DEF AddClient, ClientsInv, NoneDeleted
  <2>4. Waited'
    BY <1>1 DEF AddClient, Waited
  <2>5. QED
    BY <2>2, <2>3, <2>4 DEF ClientsInv
<1>2. ASSUME NEW c \in Clients, RemoveClient(c) PROVE ClientsInv'
  <2>1. registered' \in SUBSET Clients /\ posted' = Append(posted, registered')
    BY <1>a, <1>2 DEF RemoveClient
  <2>2. Latest' = registered'
    BY <1>a, <2>1, SequenceEnds DEF Latest
  <2>3. NoneDeleted'
    BY <1>a, <1>2, <2>1, SequenceEnds DEF RemoveClient, ClientsInv, NoneDeleted
  <2>4. Waited'
    BY <1>2 DEF RemoveClient, Waited
  <2>5. QED
    BY <2>2, <2>3, <2>4 DEF ClientsInv
<1>3. ASSUME LoadCount PROVE ClientsInv'
  BY <1>3 DEF LoadCount, ClientsInv, Latest, NoneDeleted, Waited
<1>4. ASSUME ClientGone PROVE ClientsInv'
  <2>1. posted = <<>> /\ rt = registered /\ leaving \notin registered
    BY <1>4 DEF ClientGone, ClientsInv, Latest, Waited
  <2>2. NoneDeleted'
    BY <1>4, <2>1 DEF ClientGone, ClientsInv, NoneDeleted
  <2>3. Latest' = registered' /\ Waited'
    BY <1>4, <2>1 DEF ClientGone, ClientsInv, Latest, Waited
  <2>4. QED
    BY <2>2, <2>3 DEF ClientsInv
<1>5. ASSUME ApplyPosted PROVE ClientsInv'
  <2>1. CASE posted = <<>>
    BY <1>5, <2>1 DEF ApplyPosted, ClientsInv, Latest, NoneDeleted, Waited
  <2>2. CASE posted # <<>>
    <3>1. /\ rt' = Head(posted) /\ posted' = Tail(posted)
          /\ UNCHANGED <<gui, thread, toWait, registered, leaving, deleted>>
      BY <1>5, <2>2 DEF ApplyPosted
    <3>2. Latest' = registered'
      BY <1>a, <2>2, <3>1, SequenceEnds DEF ClientsInv, Latest
    <3>3. NoneDeleted'
      BY <1>a, <2>2, <3>1, SequenceEnds DEF ClientsInv, NoneDeleted
    <3>4. Waited'
      BY <2>2, <3>1 DEF ClientsInv, Waited
    <3>5. QED
      BY <3>2, <3>3, <3>4 DEF ClientsInv
  <2>3. QED
    BY <2>1, <2>2
<1>6. ASSUME CycleEnds PROVE ClientsInv'
  <2>1. /\ Same /\ gui' = gui /\ thread = "processing" /\ thread' = "between"
        /\ toWait' = IF toWait > 0 THEN toWait - 1 ELSE 0
    BY <1>6 DEF CycleEnds
  <2>2. gui = "waiting" /\ toWait' = 0 => posted = <<>>
    BY <2>1 DEF ClientsInv, Waited, Counts
  <2>3. Waited'
    BY <2>1, <2>2 DEF ClientsInv, Waited
  <2>4. Latest' = registered' /\ NoneDeleted'
    BY <2>1 DEF ClientsInv, Latest, NoneDeleted
  <2>5. QED
    BY <2>3, <2>4 DEF ClientsInv
<1>7. ASSUME NEW d \in Drivers, ChooseDriver(d) PROVE ClientsInv'
  BY <1>b, <1>7 DEF ChooseDriver, SetParameters, SetParametersAt
<1>8. ASSUME WaitTimesOut \/ ThreadLost \/ Restart PROVE ClientsInv'
  BY <1>b, <1>8 DEF WaitTimesOut, ThreadLost, Restart
<1>9. ASSUME AudioThreadFinished \/ CheckJackShutdown PROVE ClientsInv'
  BY <1>b, <1>9 DEF AudioThreadFinished, CheckJackShutdown, SetParameters, SetParametersAt
<1>10. ASSUME TakeStorm \/ SeeStall PROVE ClientsInv'
  BY <1>b, <1>10 DEF TakeStorm, SeeStall, SetParameters, SetParametersAt
<1>11. ASSUME SeeProgress \/ ResetXruns \/ XrunStops PROVE ClientsInv'
  BY <1>b, <1>11 DEF SeeProgress, ResetXruns, XrunStops
<1>12. ASSUME StartDriver \/ NextCycle \/ CycleStarts PROVE ClientsInv'
  BY <1>b, <1>12 DEF StartDriver, NextCycle, CycleStarts, ThreadEnds
<1>13. ASSUME CycleFails \/ Hang \/ JackShutdown PROVE ClientsInv'
  BY <1>b, <1>13 DEF CycleFails, Hang, JackShutdown, ThreadEnds
<1>14. ASSUME Xrun PROVE ClientsInv'
  BY <1>b, <1>14 DEF Xrun
<1>15. QED
  BY <1>1, <1>2, <1>3, <1>4, <1>5, <1>6, <1>7, <1>8, <1>9, <1>10, <1>11, <1>12, <1>13, <1>14
     DEF Next, Gui, Cycle, Tick

\* A client that its owner has deleted is not used by any cycle
\* (TAudioDevice::remove_client(), wait_until_changes_applied()): two ends of
\* cycles after the removal was posted, the audio thread has applied it,
\* whatever driver runs, fails or is changed.
THEOREM DeletedClientsUnused == Spec => []ClientsLive
<1>1. ASSUME Init PROVE Counts /\ Lists /\ ClientsInv
  <2>1. Lists
    <3>1. posted \in Seq(SUBSET Clients)
      BY <1>1 DEF Init
    <3>2. QED
      BY <1>1, <3>1 DEF Init, Lists
  <2>2. Counts
    BY <1>1, DeviceAssumption DEF Init, Counts
  <2>3. posted = <<>> /\ registered = {} /\ rt = {} /\ deleted = {} /\ gui = "idle"
    BY <1>1 DEF Init
  <2>4. ClientsInv
    BY <2>3 DEF ClientsInv, Latest, NoneDeleted, Waited
  <2>5. QED
    BY <2>1, <2>2, <2>4
<1>2. Counts /\ Lists /\ ClientsInv /\ [Next]_vars => (Counts /\ Lists /\ ClientsInv)'
  <2>1. CASE UNCHANGED vars
    BY <2>1 DEF vars, clientVars, xrunVars, watchVars, Counts, Lists, ClientsInv, Latest,
       NoneDeleted, Waited
  <2>2. QED
    BY <2>1, CountsStep, ListsStep, ClientsStep
<1>3. ClientsInv => ClientsLive
  BY DEF ClientsInv, NoneDeleted, ClientsLive
<1>4. QED
  BY <1>1, <1>2, <1>3, PTL DEF Spec
=============================================================================
