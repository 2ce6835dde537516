--------------------------- MODULE TransportProofs ---------------------------
(***************************************************************************)
(* Theorems about Transport, for every number of locations and calls.      *)
(***************************************************************************)
EXTENDS Transport, TLAPS

USE TransportAssumption

\* The next location is a location.
LEMMA AfterIsLocation == ASSUME NEW l \in Locations PROVE After(l) \in Locations
<1>1. l + 1 \in Nat /\ Wheel \in Nat \ {0}
  BY DEF Locations
<1>2. (l + 1) % Wheel \in 0..(Wheel - 1)
  BY <1>1
<1>3. QED
  BY <1>2 DEF After, Locations

LEMMA TypesInit == Init => TypeOK
<1> SUFFICES ASSUME Init PROVE TypeOK
  OBVIOUS
<1>1. 0 \in Locations /\ calls \in 0..MaxCalls /\ posted \in Nat
  BY DEF Init, Locations
<1>2. follow \in BOOLEAN
  BY DEF Init
<1>3. QED
  BY <1>1, <1>2 DEF Init, TypeOK

LEMMA UserTypes ==
  ASSUME TypeOK, User
  PROVE  TypeOK'
<1> USE DEF TypeOK, guiVars, rollVars, seekVars, ioVars, recordVars, queueVars, jackVars,
            UserCalls
<1>1. ASSUME StartTransport PROVE TypeOK'
  BY <1>1 DEF StartTransport
<1>2. ASSUME SetRecordable PROVE TypeOK'
  BY <1>2 DEF SetRecordable
<1>3. ASSUME NEW location \in Locations, SetTransportLocation(location) PROVE TypeOK'
  <2>1. calls' \in 0..MaxCalls
    BY <1>3 DEF SetTransportLocation
  <2>2. {seeking', locateReq'} \subseteq BOOLEAN /\ seekTo' \in Locations
    BY <1>3 DEF SetTransportLocation, SeekIfElsewhere, InitiateSeekStart
  <2>3. {prepare', toPrepare'} \subseteq BOOLEAN
    BY <1>3 DEF SetTransportLocation
  <2>4. QED
    BY <1>3, <2>1, <2>2, <2>3 DEF SetTransportLocation
<1>4. ASSUME NEW location \in Locations, JackLocates(location) PROVE TypeOK'
  BY <1>4 DEF JackLocates
<1>5. ASSUME JackStarts PROVE TypeOK'
  BY <1>5 DEF JackStarts
<1>6. ASSUME JackStops PROVE TypeOK'
  BY <1>6 DEF JackStops
<1> HIDE DEF TypeOK
<1>7. QED
  BY <1>1, <1>2, <1>3, <1>4, <1>5, <1>6 DEF User

LEMMA GuiTypes ==
  ASSUME TypeOK, GuiGoesOn \/ GuiHears
  PROVE  TypeOK'
<1> USE DEF TypeOK, guiVars, rollVars, seekVars, ioVars, recordVars, queueVars, jackVars,
            RecordingOff, StartTransportRolling
<1>1. ASSUME StopSeeks PROVE TypeOK'
  <2>1. 0 \in Locations
    BY DEF Locations
  <2>2. {seeking', locateReq'} \subseteq BOOLEAN /\ seekTo' \in Locations
    BY <1>1 DEF StopSeeks, SeekIfElsewhere, InitiateSeekStart
  <2>3. QED
    BY <1>1, <2>1, <2>2 DEF StopSeeks
<1>2. ASSUME StopLooks PROVE TypeOK'
  BY <1>2 DEF StopLooks
<1>3. ASSUME StopRequests PROVE TypeOK'
  BY <1>3 DEF StopRequests
<1>4. ASSUME StopRecords PROVE TypeOK'
  BY <1>4 DEF StopRecords
<1>5. ASSUME StartPrepares PROVE TypeOK'
  BY <1>5 DEF StartPrepares
<1>6. ASSUME StartRolls PROVE TypeOK'
  BY <1>6 DEF StartRolls
<1>7. ASSUME SwitchRecording PROVE TypeOK'
  BY <1>7 DEF SwitchRecording
<1>8. ASSUME PrepareRecording PROVE TypeOK'
  BY <1>8 DEF PrepareRecording
<1>9. ASSUME Prepared PROVE TypeOK'
  BY <1>9 DEF Prepared
<1>10. ASSUME SeekFinished PROVE TypeOK'
  BY <1>10 DEF SeekFinished
<1>11. ASSUME SeekOver PROVE TypeOK'
  BY <1>11 DEF SeekOver
<1>12. ASSUME Finishing PROVE TypeOK'
  BY <1>12 DEF Finishing
<1>13. ASSUME SplitTakes PROVE TypeOK'
  <2>1. posted' \in Nat
    BY <1>13 DEF SplitTakes
  <2>2. QED
    BY <1>13, <2>1 DEF SplitTakes
<1>14. ASSUME Resume PROVE TypeOK'
  BY <1>14 DEF Resume
<1>15. ASSUME Resumed PROVE TypeOK'
  BY <1>15 DEF Resumed
<1> HIDE DEF TypeOK
<1>16. QED
  BY <1>1, <1>2, <1>3, <1>4, <1>5, <1>6, <1>7, <1>8, <1>9, <1>10, <1>11, <1>12, <1>13,
     <1>14, <1>15
  DEF GuiGoesOn, GuiHears

\* The part of a cycle that follows JACK.
FollowStep ==
  Follow \/ FollowSeeks \/ FollowStopped \/ FollowStarting \/ FollowPrepares
    \/ FollowReady \/ FollowRolling

LEMMA FollowTypes ==
  ASSUME TypeOK, FollowStep
  PROVE  TypeOK'
<1> USE DEF TypeOK, guiVars, rollVars, seekVars, ioVars, recordVars, queueVars, jackVars,
            Followed
<1>1. ASSUME Follow PROVE TypeOK'
  BY <1>1 DEF Follow
<1>2. ASSUME FollowSeeks PROVE TypeOK'
  <2>1. {seeking', locateReq'} \subseteq BOOLEAN /\ seekTo' \in Locations
    BY <1>2 DEF FollowSeeks, InitiateSeekStart
  <2>2. QED
    BY <1>2, <2>1 DEF FollowSeeks
<1>3. ASSUME FollowStopped PROVE TypeOK'
  BY <1>3 DEF FollowStopped, RecordingOff
<1>4. ASSUME FollowStarting PROVE TypeOK'
  BY <1>4 DEF FollowStarting
<1>5. ASSUME FollowPrepares PROVE TypeOK'
  BY <1>5 DEF FollowPrepares
<1>6. ASSUME FollowReady PROVE TypeOK'
  BY <1>6 DEF FollowReady
<1>7. ASSUME FollowRolling PROVE TypeOK'
  <2>1. After(jackLoc) \in Locations
    BY AfterIsLocation
  <2>2. {rolling', playing'} \subseteq BOOLEAN
    BY <1>7 DEF FollowRolling, StartTransportRolling
  <2>3. jackLoc' \in Locations /\ readyAt' \in Locations \cup {None}
    BY <1>7, <2>1 DEF FollowRolling
  <2>4. QED
    BY <1>7, <2>2, <2>3 DEF FollowRolling
<1> HIDE DEF TypeOK
<1>8. QED
  BY <1>1, <1>2, <1>3, <1>4, <1>5, <1>6, <1>7 DEF FollowStep

LEMMA CycleTypes ==
  ASSUME TypeOK,
         \/ CycleStarts \/ ApplyPosted \/ Decide \/ RtInitiateSeek \/ LookForSeek
         \/ RollOrStop \/ Stopped \/ Process
  PROVE  TypeOK'
<1> USE DEF TypeOK, guiVars, rollVars, seekVars, ioVars, recordVars, queueVars, jackVars,
            StartTransportRolling
<1>1. After(loc) \in Locations /\ After(streams) \in Locations
  BY AfterIsLocation
<1>2. ASSUME CycleStarts PROVE TypeOK'
  BY <1>2 DEF CycleStarts
<1>3. ASSUME ApplyPosted PROVE TypeOK'
  <2>1. posted' \in Nat
    BY <1>3 DEF ApplyPosted
  <2>2. {rolling', playing'} \subseteq BOOLEAN /\ audio' \in {"applying", "deciding"}
    BY <1>3 DEF ApplyPosted
  <2>3. QED
    BY <1>3, <2>1, <2>2 DEF ApplyPosted
<1>4. ASSUME Decide PROVE TypeOK'
  BY <1>4 DEF Decide
<1>5. ASSUME RtInitiateSeek PROVE TypeOK'
  BY <1>5 DEF RtInitiateSeek
<1>6. ASSUME LookForSeek PROVE TypeOK'
  BY <1>6 DEF LookForSeek
<1>7. ASSUME RollOrStop PROVE TypeOK'
  <2>1. rolling' \in BOOLEAN /\ audio' \in {"out", "processing", "stopping"}
    BY <1>7 DEF RollOrStop
  <2>2. QED
    BY <1>7, <2>1 DEF RollOrStop
<1>8. ASSUME Stopped PROVE TypeOK'
  BY <1>8 DEF Stopped
<1>9. ASSUME Process PROVE TypeOK'
  BY <1>1, <1>9 DEF Process
<1> HIDE DEF TypeOK
<1>10. QED
  BY <1>2, <1>3, <1>4, <1>5, <1>6, <1>7, <1>8, <1>9

\* The steps of the scheduler and of JACK.
LEMMA OthersTypes ==
  ASSUME TypeOK, StreamsSeek \/ JackSync
  PROVE  TypeOK'
<1> USE DEF TypeOK, guiVars, rollVars, seekVars, ioVars, recordVars, queueVars, jackVars
<1>1. ASSUME StreamsSeek PROVE TypeOK'
  BY <1>1 DEF StreamsSeek
<1>2. ASSUME JackSync PROVE TypeOK'
  BY <1>2 DEF JackSync
<1> HIDE DEF TypeOK
<1>3. QED
  BY <1>1, <1>2

LEMMA TypesStutter == ASSUME TypeOK, UNCHANGED vars PROVE TypeOK'
  BY DEF vars, guiVars, rollVars, seekVars, ioVars, recordVars, queueVars, jackVars, TypeOK

LEMMA TypesStep == TypeOK /\ [Next]_vars => TypeOK'
  BY UserTypes, GuiTypes, FollowTypes, CycleTypes, OthersTypes, TypesStutter
  DEF Next, Cycle, FollowStep

\* Every variable keeps its type: the handlers of both threads, JACK's steps
\* and the scheduler's leave every location one of the song's.
THEOREM TypesHold == Spec => []TypeOK
<1>1. QED
  BY TypesInit, TypesStep, PTL DEF Spec

-----------------------------------------------------------------------------
(* A seek's way: asked for (m_isSeeking with the locate request), taken by  *)
(* the audio thread (the group's seek), finished by the scheduler, heard of *)
(* by the GUI thread, which moves the location ("landed") and lets the      *)
(* cycles go on. The flags of the two threads name one place of it, no      *)
(* cycle has got past the look at m_isSeeking from the group's seek to its  *)
(* end, and whoever moves the location without the streams does it when     *)
(* they are there already.                                                  *)
UnderWay == io # "none" \/ gui = "landed"

SeekInv ==
  /\ locateReq => seeking /\ ~UnderWay
  /\ seeking => locateReq \/ UnderWay
  /\ UnderWay => seeking /\ audio \notin {"rolls", "processing"}
  /\ gui = "landed" => io = "none"
  /\ io # "none" => ioTo = seekTo
  /\ io = "none" => streams = loc
  /\ io = "done" => streams = ioTo
  /\ audio = "seekStarts" => locateReq

LEMMA SeekInit == Init => SeekInv
  BY DEF Init, SeekInv, UnderWay

\* A step that leaves the seek's way, the locations and the audio thread's
\* place in its cycle alone, or starts no processing, keeps it.
LEMMA OthersKeepSeek ==
  ASSUME SeekInv, UNCHANGED <<seekVars, ioVars, streams, loc>>,
         gui' = gui \/ "landed" \notin {gui, gui'},
         audio' \notin {"rolls", "processing", "seekStarts"} \/ UNCHANGED audio
  PROVE  SeekInv'
  BY DEF SeekInv, UnderWay, seekVars, ioVars

\* Nor does a seek asked for, of a song that does not seek.
LEMMA AskKeepsSeek ==
  ASSUME SeekInv, NEW l, InitiateSeekStart(l), UNCHANGED <<ioVars, streams, loc>>,
         gui' = gui \/ "landed" \notin {gui, gui'},
         audio' \notin {"rolls", "processing", "seekStarts"} \/ UNCHANGED audio
  PROVE  SeekInv'
  BY DEF SeekInv, UnderWay, InitiateSeekStart, seekVars, ioVars

LEMMA UserKeepsSeek ==
  ASSUME SeekInv, User
  PROVE  SeekInv'
<1> USE DEF UserCalls
<1>1. ASSUME NEW location \in Locations, SetTransportLocation(location) PROVE SeekInv'
  BY <1>1, AskKeepsSeek, OthersKeepSeek DEF SetTransportLocation, SeekIfElsewhere
<1>2. ASSUME NEW location \in Locations, JackLocates(location) PROVE SeekInv'
  BY <1>2, OthersKeepSeek DEF JackLocates
<1>3. ASSUME StartTransport PROVE SeekInv'
  BY <1>3, OthersKeepSeek DEF StartTransport
<1>4. ASSUME SetRecordable PROVE SeekInv'
  BY <1>4, OthersKeepSeek DEF SetRecordable
<1>5. ASSUME JackStarts PROVE SeekInv'
  BY <1>5, OthersKeepSeek DEF JackStarts
<1>6. ASSUME JackStops PROVE SeekInv'
  BY <1>6, OthersKeepSeek DEF JackStops
<1>7. QED
  BY <1>1, <1>2, <1>3, <1>4, <1>5, <1>6 DEF User

LEMMA GuiKeepsSeek ==
  ASSUME SeekInv, GuiGoesOn \/ GuiHears
  PROVE  SeekInv'
<1>1. ASSUME StopSeeks PROVE SeekInv'
  BY <1>1, AskKeepsSeek, OthersKeepSeek DEF StopSeeks, SeekIfElsewhere
<1>2. ASSUME SeekFinished PROVE SeekInv'
  BY <1>2 DEF SeekFinished, SeekInv, UnderWay, seekVars
<1>3. ASSUME SeekOver PROVE SeekInv'
  BY <1>3 DEF SeekOver, SeekInv, UnderWay, ioVars
<1>4. ASSUME StopLooks PROVE SeekInv'
  BY <1>4, OthersKeepSeek DEF StopLooks
<1>5. ASSUME StopRequests PROVE SeekInv'
  BY <1>5, OthersKeepSeek DEF StopRequests
<1>6. ASSUME StopRecords PROVE SeekInv'
  BY <1>6, OthersKeepSeek DEF StopRecords
<1>7. ASSUME StartPrepares PROVE SeekInv'
  BY <1>7, OthersKeepSeek DEF StartPrepares
<1>8. ASSUME StartRolls PROVE SeekInv'
  BY <1>8, OthersKeepSeek DEF StartRolls
<1>9. ASSUME SwitchRecording PROVE SeekInv'
  BY <1>9, OthersKeepSeek DEF SwitchRecording
<1>10. ASSUME PrepareRecording PROVE SeekInv'
  BY <1>10, OthersKeepSeek DEF PrepareRecording
<1>11. ASSUME Prepared PROVE SeekInv'
  BY <1>11, OthersKeepSeek DEF Prepared
<1>12. ASSUME Finishing PROVE SeekInv'
  BY <1>12, OthersKeepSeek DEF Finishing
<1>13. ASSUME SplitTakes PROVE SeekInv'
  BY <1>13, OthersKeepSeek DEF SplitTakes
<1>14. ASSUME Resume PROVE SeekInv'
  BY <1>14, OthersKeepSeek DEF Resume
<1>15. ASSUME Resumed PROVE SeekInv'
  BY <1>15, OthersKeepSeek DEF Resumed
<1>16. QED
  BY <1>1, <1>2, <1>3, <1>4, <1>5, <1>6, <1>7, <1>8, <1>9, <1>10, <1>11, <1>12,
     <1>13, <1>14, <1>15
  DEF GuiGoesOn, GuiHears

LEMMA AudioKeepsSeek ==
  ASSUME SeekInv, Cycle
  PROVE  SeekInv'
<1> USE DEF Followed, guiVars
<1>1. ASSUME FollowSeeks PROVE SeekInv'
  BY <1>1, AskKeepsSeek DEF FollowSeeks
<1>2. ASSUME Decide PROVE SeekInv'
  BY <1>2 DEF Decide, SeekInv, UnderWay, seekVars, ioVars
<1>3. ASSUME RtInitiateSeek PROVE SeekInv'
  BY <1>3 DEF RtInitiateSeek, SeekInv, UnderWay
<1>4. ASSUME LookForSeek PROVE SeekInv'
  BY <1>4 DEF LookForSeek, SeekInv, UnderWay, seekVars, ioVars
<1>5. ASSUME RollOrStop PROVE SeekInv'
  BY <1>5 DEF RollOrStop, SeekInv, UnderWay, seekVars, ioVars
<1>6. ASSUME Process PROVE SeekInv'
  BY <1>6 DEF Process, SeekInv, UnderWay, seekVars, ioVars
<1>7. ASSUME CycleStarts PROVE SeekInv'
  BY <1>7, OthersKeepSeek DEF CycleStarts
<1>8. ASSUME Follow PROVE SeekInv'
  BY <1>8, OthersKeepSeek DEF Follow
<1>9. ASSUME FollowStopped PROVE SeekInv'
  BY <1>9, OthersKeepSeek DEF FollowStopped
<1>10. ASSUME FollowStarting PROVE SeekInv'
  BY <1>10, OthersKeepSeek DEF FollowStarting
<1>11. ASSUME FollowPrepares PROVE SeekInv'
  BY <1>11, OthersKeepSeek DEF FollowPrepares
<1>12. ASSUME FollowReady PROVE SeekInv'
  BY <1>12, OthersKeepSeek DEF FollowReady
<1>13. ASSUME FollowRolling PROVE SeekInv'
  BY <1>13, OthersKeepSeek DEF FollowRolling
<1>14. ASSUME ApplyPosted PROVE SeekInv'
  BY <1>14, OthersKeepSeek DEF ApplyPosted
<1>15. ASSUME Stopped PROVE SeekInv'
  BY <1>15, OthersKeepSeek DEF Stopped
<1>16. QED
  BY <1>1, <1>2, <1>3, <1>4, <1>5, <1>6, <1>7, <1>8, <1>9, <1>10, <1>11, <1>12,
     <1>13, <1>14, <1>15
  DEF Cycle

LEMMA SeekStep == SeekInv /\ [Next]_vars => SeekInv'
<1> SUFFICES ASSUME SeekInv, [Next]_vars PROVE SeekInv'
  OBVIOUS
<1>1. ASSUME StreamsSeek PROVE SeekInv'
  BY <1>1 DEF StreamsSeek, SeekInv, UnderWay, seekVars, guiVars
<1>2. ASSUME JackSync PROVE SeekInv'
  BY <1>2, OthersKeepSeek DEF JackSync, guiVars
<1>3. ASSUME UNCHANGED vars PROVE SeekInv'
  BY <1>3, OthersKeepSeek DEF vars, guiVars
<1>4. QED
  BY <1>1, <1>2, <1>3, UserKeepsSeek, GuiKeepsSeek, AudioKeepsSeek DEF Next

LEMMA SeekHolds == Spec => []SeekInv
<1>1. QED
  BY SeekInit, SeekStep, PTL DEF Spec

\* What a cycle plays at a location is what the streams hold for it, for every
\* number of locations and of requests of the user and of JACK.
THEOREM CycleInStep == Spec => []StreamsInStep
<1>1. SeekInv => StreamsInStep
  BY DEF SeekInv, UnderWay, StreamsInStep
<1>2. QED
  BY <1>1, SeekHolds, PTL

\* The group is asked for a seek only when the one before was heard of.
THEOREM SeeksOneByOne == Spec => OneSeek
<1>1. ASSUME SeekInv, [Next]_vars, io # "none"
      PROVE  ioTo' = ioTo /\ ~(io = "done" /\ io' = "asked")
  <2>1. ASSUME RtInitiateSeek PROVE FALSE
    BY <1>1, <2>1 DEF SeekInv, UnderWay, RtInitiateSeek
  <2>2. ASSUME SeekFinished \/ StreamsSeek
        PROVE  ioTo' = ioTo /\ ~(io = "done" /\ io' = "asked")
    BY <2>2 DEF SeekFinished, StreamsSeek
  <2>3. ASSUME User \/ GuiGoesOn \/ PrepareRecording \/ JackSync \/ UNCHANGED vars
        PROVE  UNCHANGED ioVars
    BY <2>3 DEF User, StartTransport, SetRecordable, SetTransportLocation, JackLocates,
         JackStarts, JackStops, GuiGoesOn, StopSeeks, StopLooks, StopRequests, StopRecords,
         StartPrepares, StartRolls, SwitchRecording, PrepareRecording, Prepared, SeekOver,
         Finishing, SplitTakes, Resume, Resumed, JackSync, vars
  <2>4. ASSUME Cycle, ~RtInitiateSeek PROVE UNCHANGED ioVars
    BY <2>4 DEF Cycle, CycleStarts, Follow, FollowSeeks, FollowStopped, FollowStarting,
         FollowPrepares, FollowReady, FollowRolling, Followed, ApplyPosted, Decide,
         LookForSeek, RollOrStop, Stopped, Process
  <2>5. QED
    BY <1>1, <2>1, <2>2, <2>3, <2>4 DEF Next, GuiHears, ioVars
<1>2. QED
  BY <1>1, SeekHolds, PTL DEF Spec, OneSeek
=============================================================================
