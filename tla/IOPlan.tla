------------------------------- MODULE IOPlan -------------------------------
(***************************************************************************)
(* What TIOPlanner::plan() promises TIOScheduler, as a relation between    *)
(* the streams and idle tasks that wait and the plan made of them          *)
(* (src/src/ioscheduler/TIOPlanner.h).  Streams and tasks are any finite   *)
(* sets; the plan says which of them start now, not in which order.        *)
(* IOPlanner is the algorithm that implements it, IOScheduler its user.    *)
(***************************************************************************)
EXTENDS Integers, FiniteSets, FiniteSetsExt

IdleStartThreshold == 80
IdleStopThreshold == 60

\* TIOStream::State: what a stream tells the planner it needs now.
StreamState ==
  [needsWork: BOOLEAN, countsForFill: BOOLEAN, fill: 0..100,
   seekPending: BOOLEAN, playing: BOOLEAN]

-----------------------------------------------------------------------------
(* The classes of waiting streams.  `states` maps each stream that runs no *)
(* step to its StreamState.                                                *)

PlayingSeeks(states) ==
  {s \in DOMAIN states : states[s].seekPending /\ states[s].playing}

StoppedSeeks(states) ==
  {s \in DOMAIN states : states[s].seekPending /\ ~states[s].playing}

Refills(states) ==
  {s \in DOMAIN states : ~states[s].seekPending /\ states[s].needsWork}

\* The emptiest reader of the songs that play; 100 when there is none.
LowestFill(states) ==
  Min({100} \cup {states[s].fill :
         s \in {r \in DOMAIN states : /\ ~states[r].seekPending
                                      /\ states[r].countsForFill
                                      /\ states[r].playing}})

\* Mutant: a seek waits its turn among the refills.
Before_FillOnly(states, a, b) ==
  /\ {a, b} \subseteq Refills(states)
  /\ states[a].fill < states[b].fill

\* a must start before b: a playing seek before a refill, an emptier refill
\* before a fuller one.
Before(states, a, b) ==
  \/ a \in PlayingSeeks(states) /\ b \in Refills(states)
  \/ /\ {a, b} \subseteq Refills(states)
     /\ states[a].fill < states[b].fill

AtMost(S, n) == Min({Cardinality(S), n})

-----------------------------------------------------------------------------
(* The plan: the seeks of playing songs and the refills.                   *)
StreamsPlanned(states, free, chosen) ==
  LET waiting == PlayingSeeks(states) \cup Refills(states) IN
  /\ chosen \subseteq waiting
  /\ Cardinality(chosen) = AtMost(waiting, Max({free, 0}))
  /\ \A a \in waiting \ chosen, b \in chosen : ~Before(states, a, b)

\* The hysteresis that lets idle work run.
IdleRuns(states, seeking, wasRunning) ==
  /\ ~seeking
  /\ IF wasRunning THEN LowestFill(states) >= IdleStopThreshold
                   ELSE LowestFill(states) > IdleStartThreshold

\* How many idle steps may start next to the streams of the plan.
IdleSlots(free, started, idleBudget) ==
  Max({0, Min({Max({free, 0}) - started, idleBudget})})

\* Idle seeks first, then idle tasks; a heaviest task that is heavier than
\* every running one is among the tasks that start.
IdlePlanned(states, weights, heaviestRunning, slots, seeks, tasks) ==
  LET waiting == DOMAIN weights
      heaviest == {t \in waiting : /\ weights[t] > heaviestRunning
                                   /\ \A u \in waiting : weights[u] <= weights[t]}
  IN
  /\ seeks \subseteq StoppedSeeks(states)
  /\ Cardinality(seeks) = AtMost(StoppedSeeks(states), slots)
  /\ tasks \subseteq waiting
  /\ Cardinality(tasks) = AtMost(waiting, slots - Cardinality(seeks))
  /\ heaviest # {} /\ tasks # {} => heaviest \cap tasks # {}

\* What a call of plan() may answer: p is a plan for what waits.
PlanFor(states, playingSeek, weights, heaviestRunning, idleAllowed, free, idleBudget, wasRunning, p) ==
  LET seeking == playingSeek \/ PlayingSeeks(states) # {}
      running == IdleRuns(states, seeking, wasRunning)
      slots == IF running /\ idleAllowed
               THEN IdleSlots(free, Cardinality(p.streams), idleBudget)
               ELSE 0
  IN
  /\ StreamsPlanned(states, free, p.streams)
  /\ p.idleRunning = running
  /\ IF seeking THEN p.idleSeeks = {} /\ p.idleTasks = {}
     ELSE IdlePlanned(states, weights, heaviestRunning, slots,
                      p.idleSeeks, p.idleTasks)

\* The plans among which a call may choose.
Plans(states, weights) ==
  [streams: SUBSET (PlayingSeeks(states) \cup Refills(states)),
   idleSeeks: SUBSET StoppedSeeks(states),
   idleTasks: SUBSET DOMAIN weights,
   idleRunning: BOOLEAN]
=============================================================================
