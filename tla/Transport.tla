------------------------------ MODULE Transport ------------------------------
(* The transport of a song (TSheet): play, stop, locate and record in the   *)
(* GUI thread, the audio thread's cycle that takes the requests, and the    *)
(* seek of the song's streams (IOScheduler) between the two. Without JACK   *)
(* transport_control() runs in the GUI thread; following JACK it runs at    *)
(* the start of every cycle. Neither side locks: what the two threads share *)
(* is flags, and a check of one and the store that follows are two steps    *)
(* wherever the other thread can make a difference between them.            *)
EXTENDS Naturals, Sequences

CONSTANTS
  Follows,  \* whether the driver may be a JACK that is followed: a set of BOOLEAN
  Wheel,    \* locations are counted modulo Wheel: the code only compares them
  MaxCalls, \* bound: what the user asks for
  None      \* no location

ASSUME TransportAssumption ==
  /\ Follows \subseteq BOOLEAN
  /\ Wheel \in Nat \ {0, 1} /\ MaxCalls \in Nat
  /\ None \notin Nat

Locations == 0..(Wheel - 1)
After(location) == (location + 1) % Wheel

VARIABLES
  follow,    \* the driver is a JACK that is followed
  gui,       \* where the GUI thread is
  calls,     \* how much the user asked for
  arg,       \* the location a stop was asked for at
  rolling,   \* m_transportRolling
  stopReq,   \* m_transportStopRequested
  locateReq, \* m_transportLocateRequested
  seeking,   \* m_isSeeking
  resume,    \* m_resumeTransport
  playing,   \* the group plays
  loc,       \* m_transportLocation
  seekTo,    \* m_seekTransportLocation
  io,        \* the group's seek: none, asked for, or its end told to the GUI thread
  ioTo,      \* the location of the group's seek
  streams,   \* the location the streams are at
  recording, \* m_isRecording
  ready,     \* m_readyToRecord
  prepare,   \* m_prepareRecording
  posted,    \* tasks on the way to the audio thread that start the rolling
  toPrepare, \* prepareRecording is on the way to the GUI thread
  audio,     \* where the audio thread is in its cycle
  jack,      \* the state of JACK's transport
  jackLoc,   \* its location
  readyAt    \* m_readyAtFrame

guiVars == <<gui, calls, arg>>
rollVars == <<rolling, stopReq, resume, playing>>
seekVars == <<locateReq, seeking, seekTo>>
ioVars == <<io, ioTo>>
recordVars == <<recording, ready, prepare>>
queueVars == <<posted, toPrepare>>
jackVars == <<jack, jackLoc, readyAt>>
vars == <<follow, guiVars, rollVars, seekVars, loc, ioVars, streams, recordVars, queueVars,
          audio, jackVars>>

Init ==
  /\ follow \in Follows
  /\ gui = "idle" /\ calls = 0 /\ arg = 0
  /\ rolling = FALSE /\ stopReq = FALSE /\ resume = FALSE /\ playing = FALSE
  /\ locateReq = FALSE /\ seeking = FALSE /\ seekTo = 0
  /\ loc = 0 /\ io = "none" /\ ioTo = 0 /\ streams = 0
  /\ recording = FALSE /\ ready = FALSE /\ prepare = FALSE
  /\ posted = 0 /\ toPrepare = FALSE
  /\ audio = "out"
  /\ jack = "stopped" /\ jackLoc = 0 /\ readyAt = None
-----------------------------------------------------------------------------
(* What both threads do. *)

\* Mutant: a seek under way is not looked at.
InitiateSeekStart_Always(location) ==
  /\ seeking' = TRUE
  /\ seekTo' = location
  /\ locateReq' = TRUE

(* initiate_seek_start(): one seek at a time. *)
InitiateSeekStart(location) ==
  IF seeking THEN UNCHANGED seekVars
  ELSE seeking' = TRUE /\ seekTo' = location /\ locateReq' = TRUE

\* Mutant: a location that was the last one sought is not sought again.
Elsewhere_NotSought(location) == location # loc /\ location # seekTo

Elsewhere(location) == location # loc

(* The GUI thread compares and seeks at once: without JACK no one else      *)
(* seeks, and a cycle that moves the location in between could as well have *)
(* come before.                                                             *)
SeekIfElsewhere(location) ==
  IF Elsewhere(location) THEN InitiateSeekStart(location) ELSE UNCHANGED seekVars

StartTransportRolling == rolling' = TRUE /\ playing' = TRUE

(* set_recording(false) *)
RecordingOff ==
  /\ recording' = FALSE /\ ready' = FALSE /\ prepare' = FALSE
-----------------------------------------------------------------------------
(* The GUI thread. *)

UserCalls ==
  /\ gui = "idle"
  /\ calls < MaxCalls /\ calls' = calls + 1

(* start_transport() without JACK: the location is read before it is        *)
(* compared with what the audio thread has moved it to.                     *)
StartTransport ==
  /\ UserCalls /\ ~follow
  /\ gui' = IF rolling THEN "stop" ELSE "start"
  /\ arg' = loc
  /\ UNCHANGED <<follow, rollVars, seekVars, loc, ioVars, streams, recordVars, queueVars,
                 audio, jackVars>>

(* TransportStopped: the group and the seek, the look whether the song      *)
(* rolls, the request to stop, and the end of the recording.                *)
StopSeeks ==
  /\ gui = "stop"
  /\ playing' = FALSE
  /\ SeekIfElsewhere(arg)
  /\ gui' = "stopLooks" /\ arg' = 0
  /\ UNCHANGED <<follow, calls, rolling, stopReq, resume, loc, ioVars, streams,
                 recordVars, queueVars, audio, jackVars>>

StopLooks ==
  /\ gui = "stopLooks"
  /\ gui' = IF rolling THEN "stopRequests" ELSE "idle"
  /\ UNCHANGED <<follow, calls, arg, rollVars, seekVars, loc, ioVars, streams,
                 recordVars, queueVars, audio, jackVars>>

StopRequests ==
  /\ gui = "stopRequests"
  /\ stopReq' = TRUE
  /\ gui' = "stopRecords"
  /\ UNCHANGED <<follow, calls, arg, rolling, resume, playing, seekVars, loc, ioVars,
                 streams, recordVars, queueVars, audio, jackVars>>

StopRecords ==
  /\ gui = "stopRecords"
  /\ IF recording THEN RecordingOff ELSE UNCHANGED recordVars
  /\ gui' = "idle"
  /\ UNCHANGED <<follow, calls, arg, rollVars, seekVars, loc, ioVars, streams, queueVars,
                 audio, jackVars>>

(* TransportRolling: prepare_recording(), then the start. *)
StartPrepares ==
  /\ gui = "start"
  /\ gui' = IF rolling THEN "idle" ELSE "starting"
  /\ ready' = (ready \/ (~rolling /\ recording))
  /\ UNCHANGED <<follow, calls, arg, rollVars, seekVars, loc, ioVars, streams, recording,
                 prepare, queueVars, audio, jackVars>>

StartRolls ==
  /\ gui = "starting"
  /\ StartTransportRolling
  /\ gui' = "idle"
  /\ UNCHANGED <<follow, calls, arg, stopReq, resume, seekVars, loc, ioVars, streams,
                 recordVars, queueVars, audio, jackVars>>

(* set_transport_location() without JACK, a TransportStarting in the GUI    *)
(* thread. To where the transport is already it does nothing but, when it   *)
(* is to record, ask for the preparation.                                   *)
SetTransportLocation(location) ==
  /\ UserCalls /\ ~follow
  /\ SeekIfElsewhere(location)
  /\ IF location = loc /\ ~seeking /\ recording
       THEN prepare' = TRUE /\ toPrepare' = (toPrepare \/ ~prepare)
       ELSE UNCHANGED <<prepare, toPrepare>>
  /\ UNCHANGED <<follow, gui, arg, rollVars, loc, ioVars, streams, recording, ready,
                 posted, audio, jackVars>>

(* JACK is asked instead; others may ask it, too. A cycle asks JACK for its *)
(* state once (jack_transport_query()): JACK moves between two cycles.      *)
Following ==
  audio \in {"following", "stopSeeks", "stopLooks", "startSeeks", "startLooks",
             "startPrepares", "startReady"}

JackStarts ==
  /\ UserCalls /\ follow /\ ~Following
  /\ jack = "stopped" /\ jack' = "starting"
  /\ UNCHANGED <<follow, gui, arg, rollVars, seekVars, loc, ioVars, streams, recordVars,
                 queueVars, audio, jackLoc, readyAt>>

JackStops ==
  /\ UserCalls /\ follow /\ ~Following
  /\ jack # "stopped" /\ jack' = "stopped"
  /\ UNCHANGED <<follow, gui, arg, rollVars, seekVars, loc, ioVars, streams, recordVars,
                 queueVars, audio, jackLoc, readyAt>>

JackLocates(location) ==
  /\ UserCalls /\ follow /\ ~Following
  /\ jackLoc' = location
  /\ jack' = IF jack = "stopped" THEN "stopped" ELSE "starting"
  /\ UNCHANGED <<follow, gui, arg, rollVars, seekVars, loc, ioVars, streams, recordVars,
                 queueVars, audio, readyAt>>

(* set_recordable() with an armed track: the look whether the song rolls,   *)
(* and the switch.                                                          *)
SetRecordable ==
  /\ UserCalls /\ ~rolling
  /\ gui' = "recordable"
  /\ UNCHANGED <<follow, arg, rollVars, seekVars, loc, ioVars, streams, recordVars,
                 queueVars, audio, jackVars>>

SwitchRecording ==
  /\ gui = "recordable"
  /\ IF recording THEN RecordingOff
     ELSE recording' = TRUE /\ UNCHANGED <<ready, prepare>>
  /\ gui' = "idle"
  /\ UNCHANGED <<follow, calls, arg, rollVars, seekVars, loc, ioVars, streams, queueVars,
                 audio, jackVars>>

(* prepare_recording(), told by the audio thread: the look whether the song *)
(* records, then the takes and m_readyToRecord.                             *)
PrepareRecording ==
  /\ gui = "idle" /\ toPrepare
  /\ toPrepare' = FALSE
  /\ gui' = IF recording THEN "preparing" ELSE "idle"
  /\ UNCHANGED <<follow, calls, arg, rollVars, seekVars, loc, ioVars, streams, recordVars,
                 posted, audio, jackVars>>

Prepared ==
  /\ gui = "preparing"
  /\ ready' = TRUE
  /\ gui' = "idle"
  /\ UNCHANGED <<follow, calls, arg, rollVars, seekVars, loc, ioVars, streams, recording,
                 prepare, queueVars, audio, jackVars>>

(* seek_finished(): the location, then the flag that holds the cycles back. *)
SeekFinished ==
  /\ gui = "idle" /\ io = "done"
  /\ io' = "none"
  /\ loc' = seekTo
  /\ gui' = "landed"
  /\ UNCHANGED <<follow, calls, arg, rollVars, seekVars, ioTo, streams, recordVars,
                 queueVars, audio, jackVars>>

\* Mutant: the seek is over, but the flag stays.
SeekOver_KeepsSeeking ==
  /\ gui = "landed"
  /\ gui' = "finishing"
  /\ UNCHANGED <<follow, calls, arg, rollVars, seekVars, loc, ioVars, streams, recordVars,
                 queueVars, audio, jackVars>>

SeekOver ==
  /\ gui = "landed"
  /\ seeking' = FALSE
  /\ gui' = "finishing"
  /\ UNCHANGED <<follow, calls, arg, rollVars, locateReq, seekTo, loc, ioVars, streams,
                 recordVars, queueVars, audio, jackVars>>

(* Its end: a recording goes on with new takes, the rolling is posted       *)
(* behind them; else it starts at once. m_resumeTransport is looked at      *)
(* twice and cleared after either, while a cycle that follows JACK may have *)
(* begun the next seek.                                                     *)
Finishing ==
  /\ gui = "finishing"
  /\ gui' = IF resume /\ recording /\ ready THEN "splitting" ELSE "resuming"
  /\ UNCHANGED <<follow, calls, arg, rollVars, seekVars, loc, ioVars, streams, recordVars,
                 queueVars, audio, jackVars>>

SplitTakes ==
  /\ gui = "splitting"
  /\ posted' = posted + 1
  /\ gui' = "posted"
  /\ UNCHANGED <<follow, calls, arg, rollVars, seekVars, loc, ioVars, streams, recordVars,
                 toPrepare, audio, jackVars>>

Resume ==
  /\ gui = "resuming"
  /\ \/ resume /\ StartTransportRolling /\ gui' = "resumed"
     \/ ~resume /\ gui' = "idle" /\ UNCHANGED <<rolling, playing>>
  /\ UNCHANGED <<follow, calls, arg, stopReq, resume, seekVars, loc, ioVars, streams,
                 recordVars, queueVars, audio, jackVars>>

Resumed ==
  /\ \/ gui = "posted" /\ gui' = "resuming"
     \/ gui = "resumed" /\ gui' = "idle"
  /\ resume' = FALSE
  /\ UNCHANGED <<follow, calls, arg, rolling, stopReq, playing, seekVars, loc, ioVars,
                 streams, recordVars, queueVars, audio, jackVars>>
-----------------------------------------------------------------------------
(* The scheduler: the seek of the song's streams. *)
StreamsSeek ==
  /\ io = "asked"
  /\ io' = "done"
  /\ streams' = ioTo
  /\ UNCHANGED <<follow, guiVars, rollVars, seekVars, loc, ioTo, recordVars, queueVars,
                 audio, jackVars>>
-----------------------------------------------------------------------------
(* The audio thread. *)

CycleStarts ==
  /\ audio = "out"
  /\ audio' = IF follow THEN "following" ELSE "applying"
  /\ UNCHANGED <<follow, guiVars, rollVars, seekVars, loc, ioVars, streams, recordVars,
                 queueVars, jackVars>>

(* TJackDriver::process_callback(): transport_control() with JACK's state   *)
(* of this cycle, first the comparison of the locations.                    *)
Follow ==
  /\ audio = "following"
  /\ \/ /\ jack = "stopped" /\ playing' = FALSE
        /\ audio' = IF Elsewhere(jackLoc) THEN "stopSeeks" ELSE "stopLooks"
     \/ /\ jack = "starting" /\ playing' = TRUE
        /\ audio' = IF Elsewhere(jackLoc) THEN "startSeeks" ELSE "startLooks"
  /\ UNCHANGED <<follow, guiVars, rolling, stopReq, resume, seekVars, loc, ioVars, streams,
                 recordVars, queueVars, jackVars>>

(* Its end: whether this song is ready to roll there. *)
Followed(isReady) ==
  /\ audio' = "applying"
  /\ readyAt' = IF isReady THEN jackLoc ELSE None
  /\ UNCHANGED <<follow, guiVars, resume, loc, ioVars, streams, posted, jack>>

(* The seek, for which the GUI thread may have ended the one before since   *)
(* the comparison.                                                          *)
FollowSeeks ==
  /\ audio \in {"stopSeeks", "startSeeks"}
  /\ InitiateSeekStart(jackLoc)
  /\ \/ /\ audio = "stopSeeks" /\ audio' = "stopLooks"
        /\ UNCHANGED <<follow, guiVars, resume, loc, ioVars, streams, posted, jack, readyAt>>
     \/ audio = "startSeeks" /\ Followed(FALSE)
  /\ UNCHANGED <<rolling, stopReq, playing, recordVars, toPrepare, jackLoc>>

\* Mutant: only a song that records is stopped.
FollowStopped_Recording ==
  /\ audio = "stopLooks"
  /\ stopReq' = ((rolling /\ recording) \/ stopReq)
  /\ IF rolling /\ recording THEN RecordingOff ELSE UNCHANGED recordVars
  /\ Followed(TRUE)
  /\ UNCHANGED <<rolling, playing, seekVars, toPrepare, jackLoc>>

(* The stop, which is asked for again in every cycle while the song rolls.  *)
FollowStopped ==
  /\ audio = "stopLooks"
  /\ stopReq' = (rolling \/ stopReq)
  /\ IF rolling /\ recording THEN RecordingOff ELSE UNCHANGED recordVars
  /\ Followed(TRUE)
  /\ UNCHANGED <<rolling, playing, seekVars, toPrepare, jackLoc>>

FollowStarting ==
  /\ audio = "startLooks"
  /\ \/ (seeking \/ ~recording) /\ Followed(~seeking)
     \/ /\ ~seeking /\ recording /\ audio' = "startPrepares"
        /\ UNCHANGED <<follow, guiVars, resume, loc, ioVars, streams, posted, jack, readyAt>>
  /\ UNCHANGED <<rolling, stopReq, playing, seekVars, recordVars, toPrepare, jackLoc>>

(* The GUI thread is asked once to prepare the recording. *)
FollowPrepares ==
  /\ audio = "startPrepares"
  /\ \/ ~prepare /\ prepare' = TRUE /\ toPrepare' = TRUE /\ Followed(FALSE)
     \/ /\ prepare /\ audio' = "startReady" /\ UNCHANGED <<prepare, toPrepare>>
        /\ UNCHANGED <<follow, guiVars, resume, loc, ioVars, streams, posted, jack, readyAt>>
  /\ UNCHANGED <<rolling, stopReq, playing, seekVars, recording, ready, jackLoc>>

FollowReady ==
  /\ audio = "startReady"
  /\ Followed(ready)
  /\ UNCHANGED <<rolling, stopReq, playing, seekVars, recordVars, toPrepare, jackLoc>>

FollowRolling ==
  /\ audio = "following" /\ jack = "rolling"
  /\ IF rolling THEN UNCHANGED <<rolling, playing>> ELSE StartTransportRolling
  /\ Followed(TRUE)
  /\ jackLoc' = After(jackLoc)
  /\ UNCHANGED <<stopReq, seekVars, recordVars, toPrepare>>

(* process_posted_gui_events(): the posted starts, then the processing. *)
ApplyPosted ==
  /\ audio = "applying"
  /\ \/ posted > 0 /\ posted' = posted - 1 /\ StartTransportRolling /\ UNCHANGED audio
     \/ posted = 0 /\ audio' = "deciding" /\ UNCHANGED <<posted, rolling, playing>>
  /\ UNCHANGED <<follow, guiVars, stopReq, resume, seekVars, loc, ioVars, streams,
                 recordVars, toPrepare, jackVars>>

(* process(): a seek that was asked for, and in rt_inititate_seek() the     *)
(* look whether the song rolls.                                             *)
Decide ==
  /\ audio = "deciding"
  /\ audio' = IF locateReq THEN "seekStarts" ELSE "looking"
  /\ resume' = (resume \/ (locateReq /\ rolling))
  /\ UNCHANGED <<follow, guiVars, rolling, stopReq, playing, seekVars, loc, ioVars, streams,
                 recordVars, queueVars, jackVars>>


(* rt_inititate_seek(): the song stands still, its group seeks. *)
RtInitiateSeek ==
  /\ audio = "seekStarts"
  /\ rolling' = FALSE
  /\ locateReq' = FALSE
  /\ io' = "asked" /\ ioTo' = seekTo
  /\ audio' = "out"
  /\ UNCHANGED <<follow, guiVars, stopReq, resume, playing, seeking, seekTo, loc, streams,
                 recordVars, queueVars, jackVars>>

\* Mutant: a song that seeks is processed.
LookForSeek_Not ==
  /\ audio = "looking"
  /\ audio' = "rolls"
  /\ UNCHANGED <<follow, guiVars, rollVars, seekVars, loc, ioVars, streams, recordVars,
                 queueVars, jackVars>>

(* process(): a song that seeks is not processed. *)
LookForSeek ==
  /\ audio = "looking"
  /\ audio' = IF seeking THEN "out" ELSE "rolls"
  /\ UNCHANGED <<follow, guiVars, rollVars, seekVars, loc, ioVars, streams, recordVars,
                 queueVars, jackVars>>

(* process(): nothing to do, the stop, or the processing. *)
RollOrStop ==
  /\ audio = "rolls"
  /\ \/ ~rolling /\ audio' = "out" /\ UNCHANGED rolling
     \/ rolling /\ ~stopReq /\ audio' = "processing" /\ UNCHANGED rolling
     \/ rolling /\ stopReq /\ rolling' = FALSE /\ audio' = "stopping"
  /\ UNCHANGED <<follow, guiVars, stopReq, resume, playing, seekVars, loc, ioVars, streams,
                 recordVars, queueVars, jackVars>>

Stopped ==
  /\ audio = "stopping"
  /\ stopReq' = FALSE
  /\ playing' = FALSE
  /\ audio' = "out"
  /\ UNCHANGED <<follow, guiVars, rolling, resume, seekVars, loc, ioVars, streams,
                 recordVars, queueVars, jackVars>>

(* The tracks read their streams; the transport moves on. *)
Process ==
  /\ audio = "processing"
  /\ streams' = After(streams)
  /\ loc' = After(loc)
  /\ audio' = "out"
  /\ UNCHANGED <<follow, guiVars, rollVars, seekVars, ioVars, recordVars, queueVars,
                 jackVars>>

(* JACK rolls when jack_sync_callback() says that this song is ready at its *)
(* location.                                                                *)
JackSync ==
  /\ follow /\ ~Following /\ jack = "starting"
  /\ readyAt = jackLoc
  /\ jack' = "rolling"
  /\ UNCHANGED <<follow, guiVars, rollVars, seekVars, loc, ioVars, streams, recordVars,
                 queueVars, audio, jackLoc, readyAt>>
-----------------------------------------------------------------------------
User ==
  \/ StartTransport \/ SetRecordable
  \/ \E location \in Locations : SetTransportLocation(location) \/ JackLocates(location)
  \/ JackStarts \/ JackStops

GuiGoesOn ==
  \/ StopSeeks \/ StopLooks \/ StopRequests \/ StopRecords
  \/ StartPrepares \/ StartRolls
  \/ SwitchRecording \/ Prepared
  \/ SeekOver \/ Finishing \/ SplitTakes \/ Resume \/ Resumed

GuiHears == PrepareRecording \/ SeekFinished

Cycle ==
  \/ CycleStarts
  \/ Follow \/ FollowSeeks \/ FollowStopped \/ FollowStarting \/ FollowPrepares
  \/ FollowReady \/ FollowRolling
  \/ ApplyPosted \/ Decide \/ RtInitiateSeek \/ LookForSeek \/ RollOrStop \/ Stopped
  \/ Process

Next == User \/ GuiGoesOn \/ GuiHears \/ StreamsSeek \/ Cycle \/ JackSync

Spec == Init /\ [][Next]_vars

(* The driver's cycles go on, a handler of the GUI thread goes on to its    *)
(* end, it hears what it is told, and the scheduler finishes its seeks      *)
(* (IOScheduler). Nothing is assumed about the user and JACK.               *)
FairSpec ==
  /\ Spec
  /\ WF_vars(Cycle) /\ WF_vars(GuiGoesOn) /\ WF_vars(StreamsSeek)
  /\ WF_vars(PrepareRecording) /\ WF_vars(SeekFinished)
-----------------------------------------------------------------------------
TypeOK ==
  /\ {follow, rolling, stopReq, locateReq, seeking, resume, playing, recording, ready,
      prepare, toPrepare} \subseteq BOOLEAN
  /\ gui \in {"idle", "stop", "stopLooks", "stopRequests", "stopRecords", "start", "starting",
             "recordable", "preparing", "landed", "finishing", "splitting", "posted",
             "resuming", "resumed"}
  /\ calls \in 0..MaxCalls
  /\ {arg, loc, seekTo, ioTo, streams, jackLoc} \subseteq Locations
  /\ io \in {"none", "asked", "done"}
  /\ posted \in Nat
  /\ audio \in {"out", "following", "stopSeeks", "stopLooks", "startSeeks", "startLooks",
               "startPrepares", "startReady", "applying", "deciding", "seekStarts",
               "looking", "rolls", "processing", "stopping"}
  /\ jack \in {"stopped", "starting", "rolling"}
  /\ readyAt \in Locations \cup {None}

(* What a cycle plays at a location is what the streams hold for it: no     *)
(* seek moves one without the other, whichever thread asked for it and      *)
(* whatever the transport did meanwhile.                                    *)
StreamsInStep == audio = "processing" => streams = loc /\ io # "asked"

(* A seek is asked for only when the one before was finished and heard of   *)
(* (the assertion of TIOGroup::request_seek()).                             *)
OneSeek == [][io # "none" => ioTo' = ioTo /\ ~(io = "done" /\ io' = "asked")]_vars

(* A seek ends. *)
SeekEnds == seeking ~> ~seeking


(* Under a JACK that stays stopped the song stands still in the end, also   *)
(* when the end of a seek rolls it up again behind JACK's back.             *)
JackStopTaken == <>[](follow /\ jack = "stopped") => <>[]~rolling

(* A JACK that stays where it is is followed there, also when it moved      *)
(* while the song was seeking to another place.                             *)
JackReached ==
  follow /\ jack = "stopped" /\ loc # jackLoc ~> loc = jackLoc \/ jack # "stopped"
=============================================================================
