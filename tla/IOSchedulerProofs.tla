-------------------------- MODULE IOSchedulerProofs --------------------------
(***************************************************************************)
(* Theorems about IOScheduler, for any finite sets of streams, songs and   *)
(* tasks and any number of threads, and about IOPlanner, the planner whose *)
(* contract it rests on, for any number of streams and tasks that wait.    *)
(***************************************************************************)
EXTENDS IOScheduler, IOPlanner, FiniteSetTheorems, TLAPS

\* TypeOK with the counters as integers: that they are natural numbers is
\* what the accounts below are for.
Types ==
  /\ groupAt \in [Groups -> Places]
  /\ streamAt \in [Streams -> Places]
  /\ taskAt \in [Tasks -> Places \cup {"retired"}]
  /\ removing \in Streams \cup Groups \cup {Nobody}
  /\ removalAt \in {"none", "requests", "work", "done"}
  /\ stopRequested \in BOOLEAN /\ wake \in BOOLEAN /\ ticked \in BOOLEAN
  /\ outputRate \in Rates /\ resampler \in Resamplers
  /\ resamplerChanged \in BOOLEAN
  /\ seekRequested \in [Groups -> BOOLEAN] /\ mSeeking \in [Groups -> BOOLEAN]
  /\ playing \in [Groups -> BOOLEAN] /\ recording \in [Groups -> BOOLEAN]
  /\ idleLimit \in [Groups -> IdleLimits]
  /\ seekAsked \in [Groups -> BOOLEAN] /\ seekFinished \in [Groups -> BOOLEAN]
  /\ pc \in {"wait", "requests", "reports", "settings", "start", "stopped"}
  /\ settings \in Settings /\ idleRunning \in BOOLEAN
  /\ running \in Int /\ runningIdle \in Int
  /\ seeking \in [Groups -> BOOLEAN] /\ seeksLeft \in [Groups -> Int]
  /\ seek \in [Streams -> BOOLEAN] /\ inFlight \in [Streams -> BOOLEAN]
  /\ resamplerPending \in [Streams -> BOOLEAN] /\ stepped \in [Streams -> BOOLEAN]
  /\ rate \in [Streams -> Rates] /\ readsWith \in [Streams -> Resamplers]
  /\ taskInFlight \in [Tasks -> BOOLEAN]
  /\ pool \subseteq Step /\ reports \subseteq Step
  /\ IsFiniteSet(pool) /\ IsFiniteSet(reports)

-----------------------------------------------------------------------------
(* Types.                                                                  *)

\* The initial state has the types.
LEMMA TypesInit == Init => Types
<1> SUFFICES ASSUME Init PROVE Types
  OBVIOUS
<1>1. IsFiniteSet(pool) /\ IsFiniteSet(reports)
  BY FS_EmptySet DEF Init
<1>2. pool \subseteq Step /\ reports \subseteq Step
  BY DEF Init
<1>3. settings \in Settings
  BY DEF Init, Settings
<1>4. /\ groupAt \in [Groups -> Places]
      /\ streamAt \in [Streams -> Places]
      /\ taskAt \in [Tasks -> Places \cup {"retired"}]
  BY DEF Init, Places
<1>5. /\ seekRequested \in [Groups -> BOOLEAN] /\ mSeeking \in [Groups -> BOOLEAN]
      /\ playing \in [Groups -> BOOLEAN] /\ recording \in [Groups -> BOOLEAN]
      /\ seekAsked \in [Groups -> BOOLEAN] /\ seekFinished \in [Groups -> BOOLEAN]
      /\ seeking \in [Groups -> BOOLEAN] /\ seeksLeft \in [Groups -> Int]
  BY DEF Init
<1>6. /\ seek \in [Streams -> BOOLEAN] /\ inFlight \in [Streams -> BOOLEAN]
      /\ resamplerPending \in [Streams -> BOOLEAN] /\ stepped \in [Streams -> BOOLEAN]
      /\ rate \in [Streams -> Rates] /\ readsWith \in [Streams -> Resamplers]
      /\ taskInFlight \in [Tasks -> BOOLEAN]
  BY DEF Init
<1>7. /\ removing \in Streams \cup Groups \cup {Nobody}
      /\ removalAt \in {"none", "requests", "work", "done"}
      /\ pc \in {"wait", "requests", "reports", "settings", "start", "stopped"}
      /\ running \in Int /\ runningIdle \in Int
  BY DEF Init
<1>8. /\ stopRequested \in BOOLEAN /\ wake \in BOOLEAN /\ ticked \in BOOLEAN
      /\ resamplerChanged \in BOOLEAN /\ idleRunning \in BOOLEAN
      /\ outputRate \in Rates /\ resampler \in Resamplers
      /\ idleLimit \in [Groups -> IdleLimits]
  BY DEF Init
<1>9. QED
  BY <1>1, <1>2, <1>3, <1>4, <1>5, <1>6, <1>7, <1>8 DEF Types

\* What the owner thread does keeps them.
LEMMA TypesOwner ==
  ASSUME Types, Owner
  PROVE  Types'
<1> USE ConstantAssumption DEF Types, Places
<1>1. ASSUME NEW g \in Groups, AddGroup(g) PROVE Types'
  BY <1>1 DEF AddGroup, settingVars, plannerVars, runVars, seekWorkVars, workVars
<1>2. ASSUME NEW g \in Groups, RemoveGroup(g) PROVE Types'
  BY <1>2 DEF RemoveGroup, settingVars, groupVars, seekVars, plannerVars, runVars,
              seekWorkVars, workVars
<1>3. ASSUME NEW g \in Groups, HearSeekFinished(g) PROVE Types'
  BY <1>3 DEF HearSeekFinished, ownerVars, settingVars, groupVars, plannerVars,
              runVars, seekWorkVars, workVars
<1>4. ASSUME NEW s \in Streams, AddStream(s) PROVE Types'
  BY <1>4 DEF AddStream, settingVars, groupVars, seekVars, plannerVars, runVars,
              seekWorkVars
<1>5. ASSUME NEW s \in Streams, RemoveStream(s) PROVE Types'
  BY <1>5 DEF RemoveStream, settingVars, groupVars, seekVars, plannerVars, runVars,
              seekWorkVars, workVars
<1>6. ASSUME NEW t \in Tasks, AddIdleTask(t) PROVE Types'
  BY <1>6 DEF AddIdleTask, settingVars, groupVars, seekVars, plannerVars, runVars,
              seekWorkVars, workVars
<1>7. ASSUME NEW r \in Rates, SetOutputRate(r) PROVE Types'
  BY <1>7 DEF SetOutputRate, ownerVars, groupVars, seekVars, plannerVars, runVars,
              seekWorkVars, workVars
<1>8. ASSUME NEW q \in Resamplers, SetResampler(q) PROVE Types'
  BY <1>8 DEF SetResampler, ownerVars, groupVars, seekVars, plannerVars, runVars,
              seekWorkVars, workVars
<1>9. CASE RemoveReturns
  BY <1>9 DEF RemoveReturns, settingVars, groupVars, seekVars, plannerVars, runVars,
              seekWorkVars, workVars
<1>10. CASE StopRequest
  BY <1>10 DEF StopRequest, settingVars, groupVars, seekVars, plannerVars, runVars,
               seekWorkVars, workVars
<1>11. CASE HandBackTasks
  BY <1>11, FS_EmptySet DEF HandBackTasks, settingVars, groupVars, seekVars,
              plannerVars, seekWorkVars
<1>12. QED
  BY <1>1, <1>2, <1>3, <1>4, <1>5, <1>6, <1>7, <1>8, <1>9, <1>10, <1>11 DEF Owner

\* What starts, stops and seeks songs, and the tick.
LEMMA TypesSongs ==
  ASSUME Types, Songs \/ Tick
  PROVE  Types'
<1> USE DEF Types
<1>1. ASSUME NEW g \in Groups, SetPlaying(g) PROVE Types'
  BY <1>1 DEF SetPlaying, ownerVars, settingVars, seekVars, plannerVars, runVars,
              seekWorkVars, workVars
<1>2. ASSUME NEW g \in Groups, SetRecording(g) PROVE Types'
  BY <1>2 DEF SetRecording, ownerVars, settingVars, seekVars, plannerVars, runVars,
              seekWorkVars, workVars
<1>3. ASSUME NEW g \in Groups, RequestSeek(g) PROVE Types'
  BY <1>3 DEF RequestSeek, ownerVars, settingVars, plannerVars, runVars,
              seekWorkVars, workVars
<1>4. CASE Tick
  BY <1>4 DEF Tick, ownerVars, settingVars, groupVars, seekVars, plannerVars, runVars,
              seekWorkVars, workVars
<1>5. QED
  BY <1>1, <1>2, <1>3, <1>4 DEF Songs

\* A set of as many elements as W, given by an injective function on W.
LEMMA ImageCardinality ==
  ASSUME NEW W, IsFiniteSet(W), NEW f,
         \A v, w \in W : f[v] = f[w] => v = w
  PROVE  /\ IsFiniteSet({f[w] : w \in W})
         /\ Cardinality({f[w] : w \in W}) = Cardinality(W)
<1> DEFINE T == {f[w] : w \in W}
           b == [w \in W |-> f[w]]
<1>1. b \in Bijection(W, T)
  BY DEF Bijection, Injection, Surjection, IsInjective
<1>2. ExistsBijection(W, T)
  BY <1>1 DEF ExistsBijection
<1>3. QED
  BY <1>2, FS_Bijection

\* The step the scheduler makes for a stream or a task.
LEMMA StepMade ==
  ASSUME NEW w \in Streams \cup Tasks, NEW isSeek \in BOOLEAN, NEW idle \in BOOLEAN,
         settings \in Settings
  PROVE  /\ StepOf(w, isSeek, idle) \in Step
         /\ StepOf(w, isSeek, idle).of = w
         /\ StepOf(w, isSeek, idle).idle = idle
<1>1. FALSE \in BOOLEAN
  OBVIOUS
<1>2. QED
  BY <1>1 DEF StepOf, Step

\* The steps of a plan: the three sets that StartSteps adds to the pool are
\* disjoint from each other and as large as the sets they are made for.
StreamSteps(p) == {StepOf(s, SeekToCome(s), FALSE) : s \in p.streams}
IdleSeekSteps(p) == {StepOf(s, TRUE, TRUE) : s \in p.idleSeeks}
TaskSteps(p) == {StepOf(t, FALSE, TRUE) : t \in p.idleTasks}

LEMMA StepsMade ==
  ASSUME Types, NEW p,
         p.streams \subseteq Streams, p.idleSeeks \subseteq Streams,
         p.idleTasks \subseteq Tasks
  PROVE  /\ StreamSteps(p) \subseteq Step /\ IsFiniteSet(StreamSteps(p))
         /\ Cardinality(StreamSteps(p)) = Cardinality(p.streams)
         /\ IdleSeekSteps(p) \subseteq Step /\ IsFiniteSet(IdleSeekSteps(p))
         /\ Cardinality(IdleSeekSteps(p)) = Cardinality(p.idleSeeks)
         /\ TaskSteps(p) \subseteq Step /\ IsFiniteSet(TaskSteps(p))
         /\ Cardinality(TaskSteps(p)) = Cardinality(p.idleTasks)
         /\ \A r \in StreamSteps(p) : r.of \in p.streams /\ ~r.idle
         /\ \A r \in IdleSeekSteps(p) : r.of \in p.idleSeeks /\ r.idle
         /\ \A r \in TaskSteps(p) : r.of \in p.idleTasks /\ r.idle
         /\ \A s \in p.streams : \E r \in StreamSteps(p) : r.of = s
         /\ \A s \in p.idleSeeks : \E r \in IdleSeekSteps(p) : r.of = s
         /\ \A t \in p.idleTasks : \E r \in TaskSteps(p) : r.of = t
         /\ \A r, q \in StreamSteps(p) : r.of = q.of => r = q
         /\ \A r, q \in IdleSeekSteps(p) : r.of = q.of => r = q
         /\ \A r, q \in TaskSteps(p) : r.of = q.of => r = q
<1> DEFINE f == [s \in p.streams |-> StepOf(s, SeekToCome(s), FALSE)]
           g == [s \in p.idleSeeks |-> StepOf(s, TRUE, TRUE)]
           h == [t \in p.idleTasks |-> StepOf(t, FALSE, TRUE)]
<1>1. \A s \in Streams : SeekToCome(s) \in BOOLEAN
  BY DEF SeekToCome, Types
<1>2. /\ IsFiniteSet(p.streams) /\ IsFiniteSet(p.idleSeeks)
      /\ IsFiniteSet(p.idleTasks)
  BY ConstantAssumption, FS_Subset
<1>3. \A s \in p.streams : f[s] \in Step /\ f[s].of = s /\ f[s].idle = FALSE
  <2>1. ASSUME NEW s \in p.streams
        PROVE  LET m == StepOf(s, SeekToCome(s), FALSE)
               IN m \in Step /\ m.of = s /\ m.idle = FALSE
    BY <1>1, StepMade DEF Types
  <2>2. QED
    BY <2>1
<1>4. \A s \in p.idleSeeks : g[s] \in Step /\ g[s].of = s /\ g[s].idle = TRUE
  <2>1. ASSUME NEW s \in p.idleSeeks
        PROVE  LET m == StepOf(s, TRUE, TRUE)
               IN m \in Step /\ m.of = s /\ m.idle = TRUE
    BY StepMade DEF Types
  <2>2. QED
    BY <2>1
<1>5. \A t \in p.idleTasks : h[t] \in Step /\ h[t].of = t /\ h[t].idle = TRUE
  <2>1. ASSUME NEW t \in p.idleTasks
        PROVE  LET m == StepOf(t, FALSE, TRUE)
               IN m \in Step /\ m.of = t /\ m.idle = TRUE
    BY StepMade DEF Types
  <2>2. QED
    BY <2>1
<1>6. /\ StreamSteps(p) = {f[s] : s \in p.streams}
      /\ IdleSeekSteps(p) = {g[s] : s \in p.idleSeeks}
      /\ TaskSteps(p) = {h[t] : t \in p.idleTasks}
  BY DEF StreamSteps, IdleSeekSteps, TaskSteps
<1> HIDE DEF f, g, h
<1>7. /\ IsFiniteSet(StreamSteps(p))
      /\ Cardinality(StreamSteps(p)) = Cardinality(p.streams)
  BY <1>2, <1>3, <1>6, ImageCardinality
<1>8. /\ IsFiniteSet(IdleSeekSteps(p))
      /\ Cardinality(IdleSeekSteps(p)) = Cardinality(p.idleSeeks)
  BY <1>2, <1>4, <1>6, ImageCardinality
<1>9. /\ IsFiniteSet(TaskSteps(p))
      /\ Cardinality(TaskSteps(p)) = Cardinality(p.idleTasks)
  BY <1>2, <1>5, <1>6, ImageCardinality
<1>10. QED
  BY <1>3, <1>4, <1>5, <1>6, <1>7, <1>8, <1>9

\* A plan names streams and tasks that wait, no more than it may.
LEMMA PlanWaits ==
  ASSUME NEW states, NEW weights, NEW p, p \in Plans(states, weights)
  PROVE  /\ p.streams \subseteq DOMAIN states
         /\ p.idleSeeks \subseteq DOMAIN states
         /\ p.idleTasks \subseteq DOMAIN weights
         /\ p.idleRunning \in BOOLEAN
         /\ \A s \in p.streams : states[s].seekPending => states[s].playing
         /\ \A s \in p.idleSeeks : states[s].seekPending /\ ~states[s].playing
BY DEF Plans, PlayingSeeks, Refills, StoppedSeeks

\* The minimum and the maximum of two numbers.
LEMMA MinOfTwo ==
  ASSUME NEW a \in Int, NEW b \in Int
  PROVE  Min({a, b}) = IF a <= b THEN a ELSE b
BY DEF Min

LEMMA MaxOfTwo ==
  ASSUME NEW a \in Int, NEW b \in Int
  PROVE  Max({a, b}) = IF a >= b THEN a ELSE b
BY DEF Max

\* A set of natural numbers that is not empty has a least one.
LEMMA LeastNatural ==
  ASSUME NEW S, S \subseteq Nat, S # {}
  PROVE  Min(S) \in S /\ \A k \in S : Min(S) <= k
<1> DEFINE R == OpToRel(<, Nat)
<1>1. IsWellFoundedOn(R, Nat)
  BY NatLessThanWellFounded
<1>2. \A k, m \in Nat : k < m => <<k, m>> \in R
  BY DEF OpToRel
<1> HIDE DEF R
<1>3. PICK m \in S : \A k \in S : ~ (<<k, m>> \in R)
  BY <1>1, WFMin
<1>4. ASSUME NEW k \in S PROVE m <= k
  <2>1. k \in Nat /\ m \in Nat
    OBVIOUS
  <2>2. ~ (k < m)
    BY <2>1, <1>2, <1>3
  <2>3. QED
    BY <2>1, <2>2
<1>5. QED
  BY <1>4 DEF Min

\* As many as a set has, and no more than n.
LEMMA AtMostBounds ==
  ASSUME NEW S, IsFiniteSet(S), NEW n \in Int
  PROVE  /\ Cardinality(S) \in Nat
         /\ AtMost(S, n) = IF Cardinality(S) <= n THEN Cardinality(S) ELSE n
<1>1. Cardinality(S) \in Nat
  BY FS_CardinalityType
<1>2. QED
  BY <1>1, MinOfTwo DEF AtMost

\* A plan starts no more steps than threads are free, and no more idle ones
\* than the idle work may have.
LEMMA PlanFits ==
  ASSUME NEW states, NEW weights,
         IsFiniteSet(DOMAIN states), IsFiniteSet(DOMAIN weights),
         NEW playingSeek, NEW heaviestRunning, NEW idleAllowed,
         NEW free \in Int, NEW idleBudget \in Int, NEW wasRunning,
         NEW p, PlanFor(states, playingSeek, weights, heaviestRunning, idleAllowed,
                        free, idleBudget, wasRunning, p)
  PROVE  /\ Cardinality(p.streams) \in Nat
         /\ Cardinality(p.idleSeeks) \in Nat
         /\ Cardinality(p.idleTasks) \in Nat
         /\ Cardinality(p.streams) <= IF free >= 0 THEN free ELSE 0
         /\ LET idle == Cardinality(p.idleSeeks) + Cardinality(p.idleTasks) IN
              idle > 0 => /\ Cardinality(p.streams) + idle <= free
                          /\ idle <= idleBudget
<1> DEFINE waiting == PlayingSeeks(states) \cup Refills(states)
           songSeeks == playingSeek \/ PlayingSeeks(states) # {}
           runs == IdleRuns(states, songSeeks, wasRunning)
           slots == IF runs /\ idleAllowed
                    THEN IdleSlots(free, Cardinality(p.streams), idleBudget)
                    ELSE 0
<1>1. /\ IsFiniteSet(waiting)
      /\ IsFiniteSet(StoppedSeeks(states))
  BY FS_Subset DEF PlayingSeeks, Refills, StoppedSeeks
<1>2. Max({free, 0}) = IF free >= 0 THEN free ELSE 0
  BY MaxOfTwo
<1>3. StreamsPlanned(states, free, p.streams)
  BY DEF PlanFor
<1>4. /\ Cardinality(p.streams) \in Nat
      /\ Cardinality(p.streams) <= IF free >= 0 THEN free ELSE 0
  BY <1>1, <1>2, <1>3, AtMostBounds DEF StreamsPlanned
<1>5. /\ slots \in Nat
      /\ slots > 0 => /\ Cardinality(p.streams) + slots <= free
                      /\ slots <= idleBudget
  <2>1. Max({free, 0}) - Cardinality(p.streams) \in Int
    BY <1>2, <1>4
  <2>2. Min({Max({free, 0}) - Cardinality(p.streams), idleBudget})
          = IF Max({free, 0}) - Cardinality(p.streams) <= idleBudget
            THEN Max({free, 0}) - Cardinality(p.streams) ELSE idleBudget
    BY <2>1, MinOfTwo
  <2> DEFINE m == Min({Max({free, 0}) - Cardinality(p.streams), idleBudget})
  <2>3. m \in Int
    BY <2>1, <2>2
  <2>4. IdleSlots(free, Cardinality(p.streams), idleBudget) = Max({0, m})
    BY DEF IdleSlots
  <2> HIDE DEF m
  <2>5. Max({0, m}) = IF 0 >= m THEN 0 ELSE m
    BY <2>3, MaxOfTwo
  <2>6. QED
    BY <1>2, <1>4, <2>2, <2>3, <2>4, <2>5 DEF m
<1>6. CASE songSeeks
  <2>1. p.idleSeeks = {} /\ p.idleTasks = {}
    BY <1>6 DEF PlanFor
  <2>2. Cardinality(p.idleSeeks) = 0 /\ Cardinality(p.idleTasks) = 0
    BY <2>1, FS_EmptySet
  <2>3. QED
    BY <1>4, <2>2
<1>7. CASE ~songSeeks
  <2>1. IdlePlanned(states, weights, heaviestRunning, slots, p.idleSeeks, p.idleTasks)
    BY <1>7 DEF PlanFor
  <2> HIDE DEF slots
  <2>2. Cardinality(p.idleSeeks) \in Nat /\ Cardinality(p.idleSeeks) <= slots
    BY <1>1, <1>5, <2>1, AtMostBounds DEF IdlePlanned
  <2>3. Cardinality(p.idleTasks) \in Nat
        /\ Cardinality(p.idleTasks) <= slots - Cardinality(p.idleSeeks)
    <3>1. slots - Cardinality(p.idleSeeks) \in Nat
      BY <1>5, <2>2
    <3>2. QED
      BY <2>1, <3>1, AtMostBounds DEF IdlePlanned
  <2>4. QED
    BY <1>4, <1>5, <2>2, <2>3
<1>8. QED
  BY <1>6, <1>7

\* As long as the seek of a song that plays waits, a plan takes every free
\* thread, for such seeks only.
LEMMA PlanSeeksFirst ==
  ASSUME NEW states, NEW weights, IsFiniteSet(DOMAIN states),
         NEW playingSeek, NEW heaviestRunning, NEW idleAllowed,
         NEW free \in Int, NEW idleBudget, NEW wasRunning,
         NEW p, PlanFor(states, playingSeek, weights, heaviestRunning, idleAllowed,
                        free, idleBudget, wasRunning, p),
         NEW s \in PlayingSeeks(states), s \notin p.streams
  PROVE  /\ Cardinality(p.streams) >= free
         /\ p.streams \subseteq PlayingSeeks(states)
         /\ p.idleSeeks = {} /\ p.idleTasks = {}
<1> DEFINE waiting == PlayingSeeks(states) \cup Refills(states)
<1>1. IsFiniteSet(waiting)
  BY FS_Subset DEF PlayingSeeks, Refills
<1>2. Max({free, 0}) = IF free >= 0 THEN free ELSE 0
  BY MaxOfTwo
<1>3. /\ p.streams \subseteq waiting
      /\ Cardinality(p.streams) = AtMost(waiting, Max({free, 0}))
      /\ \A a \in waiting \ p.streams, b \in p.streams : ~Before(states, a, b)
  BY DEF PlanFor, StreamsPlanned
<1>4. Cardinality(p.streams) # Cardinality(waiting)
  BY <1>1, <1>3, FS_Subset
<1>5. Cardinality(p.streams) >= free
  BY <1>1, <1>2, <1>3, <1>4, AtMostBounds
<1>6. p.streams \subseteq PlayingSeeks(states)
  BY <1>3 DEF Before
<1>7. p.idleSeeks = {} /\ p.idleTasks = {}
  BY DEF PlanFor
<1>8. QED
  BY <1>5, <1>6, <1>7

\* The idle work may have a number of threads, the lowest limit of the songs.
LEMMA IdleBudgetBounds ==
  ASSUME Types, NEW anyLimit \in IdleLimits
  PROVE  LET limit == IF RegisteredGroups = {} THEN anyLimit
                      ELSE Min({idleLimit[g] : g \in RegisteredGroups})
         IN IdleBudget(limit) \in Int /\ IdleBudget(limit) <= Threads - 1 - runningIdle
<1> DEFINE limit == IF RegisteredGroups = {} THEN anyLimit
                    ELSE Min({idleLimit[g] : g \in RegisteredGroups})
<1>1. limit \in Int
  <2>1. {idleLimit[g] : g \in RegisteredGroups} \subseteq Nat
    <3>1. ASSUME NEW g \in RegisteredGroups PROVE idleLimit[g] \in Nat
      <4>1. g \in Groups
        BY DEF RegisteredGroups
      <4>2. idleLimit[g] \in IdleLimits
        BY <4>1 DEF Types
      <4>3. QED
        BY <4>2, ConstantAssumption
    <3>2. QED
      BY <3>1
  <2>2. RegisteredGroups # {} =>
          Min({idleLimit[g] : g \in RegisteredGroups}) \in {idleLimit[g] : g \in RegisteredGroups}
    BY <2>1, LeastNatural
  <2>3. QED
    BY <2>1, <2>2, ConstantAssumption
<1> HIDE DEF limit
<1>2. Max({limit, 1}) \in Int
  BY <1>1, MaxOfTwo
<1>3. Min({Max({limit, 1}), Threads - 1}) \in Int
      /\ Min({Max({limit, 1}), Threads - 1}) <= Threads - 1
  <2> DEFINE m == Max({limit, 1})
  <2>1. m \in Int /\ Threads - 1 \in Int
    BY <1>2, ConstantAssumption
  <2> HIDE DEF m
  <2>2. Min({m, Threads - 1}) = IF m <= Threads - 1 THEN m ELSE Threads - 1
    BY <2>1, MinOfTwo
  <2>3. QED
    BY <2>1, <2>2 DEF m
<1>4. IdleBudget(limit) \in Int /\ IdleBudget(limit) <= Threads - 1 - runningIdle
  BY <1>3, ConstantAssumption DEF IdleBudget, Types
<1>5. QED
  BY <1>4 DEF limit

\* The part of Start that asks the planner and starts its plan, as a relation
\* between the plan and what waits.
StartsPlan(p) ==
  /\ p.streams \subseteq WaitingStreams
  /\ p.idleSeeks \subseteq WaitingStreams
  /\ p.idleTasks \subseteq WaitingTasks
  /\ p.idleRunning \in BOOLEAN
  /\ p.streams \cap p.idleSeeks = {}
  /\ \A s \in p.idleSeeks : SeekToCome(s)
  /\ Cardinality(p.streams) \in Nat
  /\ Cardinality(p.idleSeeks) \in Nat
  /\ Cardinality(p.idleTasks) \in Nat
  /\ Cardinality(p.streams) <= IF Threads - running >= 0 THEN Threads - running ELSE 0
  /\ LET idle == Cardinality(p.idleSeeks) + Cardinality(p.idleTasks) IN
       idle > 0 => /\ Cardinality(p.streams) + idle <= Threads - running
                   /\ idle <= Threads - 1 - runningIdle
  /\ \A s \in WaitingStreams \ p.streams : SeekToCome(s) /\ Playing(s) =>
       /\ Cardinality(p.streams) >= Threads - running
       /\ \A q \in p.streams : SeekToCome(q)
       /\ p.idleSeeks = {} /\ p.idleTasks = {}
  /\ StartSteps(p)
  /\ idleRunning' = p.idleRunning

LEMMA StartPlan ==
  ASSUME Types, Start
  PROVE  \E p : StartsPlan(p)
<1>1. PICK disk \in [WaitingStreams -> DiskStates], anyLimit \in IdleLimits :
        LET states == [s \in WaitingStreams |-> StateOf(s, disk[s])]
            weights == [t \in WaitingTasks |-> Weight[t]]
            limit == IF RegisteredGroups = {} THEN anyLimit
                     ELSE Min({idleLimit[g] : g \in RegisteredGroups})
        IN \E p \in Plans(states, weights) :
             /\ PlanFor(states, \E g \in RegisteredGroups : seeking'[g] /\ playing[g],
                        weights, HeaviestRunning,
                        \A g \in RegisteredGroups : ~recording[g],
                        Threads - running, IdleBudget(limit), idleRunning, p)
             /\ StartSteps(p)
             /\ idleRunning' = p.idleRunning
  BY DEF Start
<1> DEFINE states == [s \in WaitingStreams |-> StateOf(s, disk[s])]
           weights == [t \in WaitingTasks |-> Weight[t]]
           limit == IF RegisteredGroups = {} THEN anyLimit
                    ELSE Min({idleLimit[g] : g \in RegisteredGroups})
           playingSeek == \E g \in RegisteredGroups : seeking'[g] /\ playing[g]
           idleAllowed == \A g \in RegisteredGroups : ~recording[g]
<1>2. PICK p \in Plans(states, weights) :
        /\ PlanFor(states, playingSeek, weights, HeaviestRunning, idleAllowed,
                   Threads - running, IdleBudget(limit), idleRunning, p)
        /\ StartSteps(p)
        /\ idleRunning' = p.idleRunning
  BY <1>1
<1>3. /\ DOMAIN states = WaitingStreams /\ DOMAIN weights = WaitingTasks
      /\ \A s \in WaitingStreams :
           /\ states[s].seekPending <=> SeekToCome(s)
           /\ states[s].playing = Playing(s)
  BY DEF StateOf
<1>4. IdleBudget(limit) \in Int /\ IdleBudget(limit) <= Threads - 1 - runningIdle
  BY IdleBudgetBounds
<1> HIDE DEF states, weights, limit, playingSeek, idleAllowed
<1>5. /\ p.streams \subseteq WaitingStreams
      /\ p.idleSeeks \subseteq WaitingStreams
      /\ p.idleTasks \subseteq WaitingTasks
      /\ p.idleRunning \in BOOLEAN
      /\ \A s \in p.streams : states[s].seekPending => states[s].playing
      /\ \A s \in p.idleSeeks : states[s].seekPending /\ ~states[s].playing
  BY <1>3, PlanWaits
<1>6. /\ p.streams \cap p.idleSeeks = {}
      /\ \A s \in p.idleSeeks : SeekToCome(s)
  BY <1>3, <1>5
<1>7. IsFiniteSet(DOMAIN states) /\ IsFiniteSet(DOMAIN weights)
  BY <1>3, ConstantAssumption, FS_Subset
     DEF WaitingStreams, WaitingTasks, Registered, RegisteredTasks
<1>8. Threads - running \in Int /\ runningIdle \in Int
  BY ConstantAssumption DEF Types
<1>9. /\ Cardinality(p.streams) \in Nat
      /\ Cardinality(p.idleSeeks) \in Nat
      /\ Cardinality(p.idleTasks) \in Nat
      /\ Cardinality(p.streams) <= IF Threads - running >= 0 THEN Threads - running ELSE 0
      /\ LET idle == Cardinality(p.idleSeeks) + Cardinality(p.idleTasks) IN
           idle > 0 => /\ Cardinality(p.streams) + idle <= Threads - running
                       /\ idle <= IdleBudget(limit)
  BY <1>2, <1>4, <1>7, <1>8, PlanFits
<1>10. LET idle == Cardinality(p.idleSeeks) + Cardinality(p.idleTasks) IN
         idle > 0 => idle <= Threads - 1 - runningIdle
  BY <1>4, <1>8, <1>9, ConstantAssumption
<1>11. ASSUME NEW s \in WaitingStreams \ p.streams, SeekToCome(s), Playing(s)
       PROVE  /\ Cardinality(p.streams) >= Threads - running
              /\ \A q \in p.streams : SeekToCome(q)
              /\ p.idleSeeks = {} /\ p.idleTasks = {}
  <2>1. s \in PlayingSeeks(states) /\ s \notin p.streams
    BY <1>3, <1>11 DEF PlayingSeeks
  <2>2. /\ Cardinality(p.streams) >= Threads - running
        /\ p.streams \subseteq PlayingSeeks(states)
        /\ p.idleSeeks = {} /\ p.idleTasks = {}
    BY <1>2, <1>7, <1>8, <2>1, PlanSeeksFirst
  <2>3. QED
    BY <1>3, <2>2 DEF PlayingSeeks
<1>12. StartsPlan(p)
  BY <1>2, <1>5, <1>6, <1>9, <1>10, <1>11 DEF StartsPlan
<1>13. QED
  BY <1>12

\* What the scheduler thread does keeps the types.
LEMMA TypesScheduler ==
  ASSUME Types, Scheduler
  PROVE  Types'
<1>1. CASE Drain
  BY <1>1 DEF Drain, Types, ownerVars, settingVars, groupVars, seekVars, plannerVars,
              runVars, seekWorkVars, workVars
<1>2. CASE TakeRequests
  <2>1. seek' \in [Streams -> BOOLEAN] /\ seeksLeft' \in [Groups -> Int]
    <3>1. ASSUME NEW g \in Groups
          PROVE  Cardinality({s \in SeeksOf(RemovedAtOnce) : GroupOf[s] = g}) \in Int
      BY ConstantAssumption, FS_Subset, FS_CardinalityType
         DEF SeeksOf, RemovedAtOnce
    <3>2. QED
      BY <1>2, <3>1 DEF TakeRequests, SeeksDone, Types
  <2>2. QED
    BY <1>2, <2>1 DEF TakeRequests, Types, Places, settingVars, groupVars, seekVars,
                      plannerVars, runVars
<1>3. CASE TakeReports
  <2> USE <1>3
  <2>1. running' \in Int /\ runningIdle' \in Int
    <3>1. Cardinality(reports) \in Nat
      BY FS_CardinalityType DEF Types
    <3>2. Cardinality({r \in reports : r.idle}) \in Nat
      BY FS_CardinalityType, FS_Subset DEF Types
    <3>3. QED
      BY <3>1, <3>2 DEF TakeReports, Types
  <2>2. seek' \in [Streams -> BOOLEAN] /\ seeksLeft' \in [Groups -> Int]
    <3> DEFINE out == ReportedSeeks \cup SeeksOf(RemovedAfterStep)
    <3>1. IsFiniteSet(out)
      <4>1. out \subseteq Streams \cup Tasks
        BY DEF Types, Step, ReportedSeeks, SeekReports, SeeksOf, RemovedAfterStep
      <4>2. QED
        BY <4>1, ConstantAssumption, FS_Union, FS_Subset
    <3>2. ASSUME NEW g \in Groups
          PROVE  Cardinality({s \in out : GroupOf[s] = g}) \in Int
      BY <3>1, FS_Subset, FS_CardinalityType
    <3>3. SeeksDone(out)
      BY DEF TakeReports
    <3>4. QED
      BY <3>2, <3>3 DEF SeeksDone, Types
  <2>3. /\ seeking' \in [Groups -> BOOLEAN] /\ mSeeking' \in [Groups -> BOOLEAN]
        /\ seekFinished' \in [Groups -> BOOLEAN]
    BY DEF TakeReports, FinishSeeks, Types
  <2>4. rate' \in [Streams -> Rates]
    <3>1. ASSUME NEW s \in Streams, s \in ReportedSeeks
          PROVE  (CHOOSE r \in SeekReports : r.of = s).settings.rate \in Rates
      <4>1. PICK r \in SeekReports : r.of = s
        BY <3>1 DEF ReportedSeeks
      <4>2. (CHOOSE q \in SeekReports : q.of = s) \in Step
        BY <4>1 DEF SeekReports, Types
      <4>3. QED
        BY <4>2 DEF Step, Settings
    <3>2. QED
      BY <3>1 DEF TakeReports, Types
  <2>5. /\ readsWith' \in [Streams -> Resamplers]
        /\ resamplerPending' \in [Streams -> BOOLEAN]
        /\ stepped' \in [Streams -> BOOLEAN] /\ inFlight' \in [Streams -> BOOLEAN]
        /\ taskInFlight' \in [Tasks -> BOOLEAN]
    BY DEF TakeReports, Types
  <2>6. /\ taskAt' \in [Tasks -> Places \cup {"retired"}]
        /\ streamAt' \in [Streams -> Places]
        /\ removalAt' \in {"none", "requests", "work", "done"}
    BY DEF TakeReports, Types, Places
  <2>7. reports' \subseteq Step /\ IsFiniteSet(reports')
    BY FS_EmptySet DEF TakeReports
  <2>8. QED
    BY <2>1, <2>2, <2>3, <2>4, <2>5, <2>6, <2>7
       DEF TakeReports, Types, settingVars, plannerVars
<1>4. CASE LoadSettings
  BY <1>4 DEF LoadSettings, Types, Settings, ownerVars, settingVars, groupVars,
              seekVars, runVars, seekWorkVars
<1>5. CASE Start
  <2> USE <1>5
  <2>1. PICK p : /\ p.streams \subseteq WaitingStreams
                 /\ p.idleSeeks \subseteq WaitingStreams
                 /\ p.idleTasks \subseteq WaitingTasks
                 /\ p.idleRunning \in BOOLEAN
                 /\ StartSteps(p)
                 /\ idleRunning' = p.idleRunning
    BY StartPlan DEF StartsPlan
  <2>2. /\ IsFiniteSet(p.streams) /\ IsFiniteSet(p.idleSeeks) /\ IsFiniteSet(p.idleTasks)
        /\ p.streams \subseteq Streams /\ p.idleSeeks \subseteq Streams
        /\ p.idleTasks \subseteq Tasks
    BY <2>1, ConstantAssumption, FS_Subset
       DEF WaitingStreams, WaitingTasks, Registered, RegisteredTasks
  <2>3. running' \in Int /\ runningIdle' \in Int
    BY <2>1, <2>2, FS_CardinalityType DEF StartSteps, Types
  <2>4. pool' \subseteq Step /\ IsFiniteSet(pool')
    <3>1. pool' = ((pool \cup StreamSteps(p)) \cup IdleSeekSteps(p)) \cup TaskSteps(p)
      BY <2>1 DEF StartSteps, StreamSteps, IdleSeekSteps, TaskSteps
    <3>2. QED
      BY <2>2, <3>1, StepsMade, FS_Union DEF Types
  <2>5. /\ inFlight' \in [Streams -> BOOLEAN] /\ stepped' \in [Streams -> BOOLEAN]
        /\ taskInFlight' \in [Tasks -> BOOLEAN]
    BY <2>1 DEF StartSteps, Types
  <2>6. /\ readsWith' \in [Streams -> Resamplers]
        /\ resamplerPending' \in [Streams -> BOOLEAN]
        /\ resamplerChanged' \in BOOLEAN
    BY DEF Start, ApplyResampler, Types, Settings
  <2>7. seek' \in [Streams -> BOOLEAN] /\ seeksLeft' \in [Groups -> Int]
    <3>1. ASSUME NEW g \in Groups PROVE Cardinality(StreamsOf(g)) \in Int
      BY ConstantAssumption, FS_Subset, FS_CardinalityType DEF StreamsOf, Registered
    <3>2. QED
      BY <3>1 DEF Start, TakeSeekRequests, SeekToCome, Types
  <2>8. /\ seeking' \in [Groups -> BOOLEAN] /\ mSeeking' \in [Groups -> BOOLEAN]
        /\ seekFinished' \in [Groups -> BOOLEAN] /\ seekRequested' \in [Groups -> BOOLEAN]
    BY DEF Start, TakeSeekRequests, FinishSeeks, Types
  <2>9. /\ pc' = "wait"
        /\ UNCHANGED <<ownerVars, wake, ticked, outputRate, resampler, playing,
                       recording, idleLimit, seekAsked, settings, reports, rate>>
    BY DEF Start
  <2>10. QED
    BY <2>1, <2>3, <2>4, <2>5, <2>6, <2>7, <2>8, <2>9 DEF Types, ownerVars
<1>6. QED
  BY <1>1, <1>2, <1>3, <1>4, <1>5 DEF Scheduler

\* A step that ends keeps the types.
LEMMA TypesWorker ==
  ASSUME Types, NEW r \in pool, StepDone(r)
  PROVE  Types'
<1>1. PICK over \in BOOLEAN : reports' = reports \cup {[r EXCEPT !.over = over]}
  BY DEF StepDone
<1>2. [r EXCEPT !.over = over] \in Step
  BY DEF Types, Step
<1>3. reports' \subseteq Step /\ IsFiniteSet(reports')
  BY <1>1, <1>2, FS_AddElement DEF Types
<1>4. pool' \subseteq Step /\ IsFiniteSet(pool')
  BY FS_RemoveElement DEF Types, StepDone
<1>5. readsWith' \in [Streams -> Resamplers]
  BY DEF StepDone, Types, Step, Settings
<1>6. QED
  BY <1>3, <1>4, <1>5 DEF StepDone, Types, ownerVars, settingVars, groupVars, seekVars,
     plannerVars, seekWorkVars

\* The types hold in every state of every behaviour.
THEOREM TypesHold == Spec => []Types
<1>1. Types /\ [Next]_vars => Types'
  <2> SUFFICES ASSUME Types, [Next]_vars PROVE Types'
    OBVIOUS
  <2>1. CASE Owner
    BY <2>1, TypesOwner
  <2>2. CASE Songs \/ Tick
    BY <2>2, TypesSongs
  <2>3. CASE Scheduler
    BY <2>3, TypesScheduler
  <2>4. CASE \E w \in Streams \cup Tasks : WorkerStep(w)
    BY <2>4, TypesWorker DEF WorkerStep
  <2>5. CASE UNCHANGED vars
    BY <2>5 DEF Types, vars, ownerVars, settingVars, groupVars, seekVars, plannerVars,
                runVars, seekWorkVars, workVars
  <2>6. QED
    BY <2>1, <2>2, <2>3, <2>4, <2>5 DEF Next, Finished
<1>2. QED
  BY <1>1, TypesInit, PTL DEF Spec
-----------------------------------------------------------------------------
(* Steps run on registered streams and tasks only, one each, and a removal *)
(* is answered truthfully.                                                 *)

\* The inductive invariant.  StepsOnRegistered says what is in flight; that
\* nothing is in flight of what the scheduler does not have, that a step is
\* not on the pool and reported at once, and that the destructor comes after
\* the last removal is what makes it inductive.
StepsInv ==
  /\ StepsOnRegistered
  /\ RemovalAnswered
  /\ \A s \in Streams : inFlight[s] => s \in Registered
  /\ \A t \in Tasks : taskInFlight[t] => t \in RegisteredTasks
  /\ \A r \in pool, q \in reports : r.of # q.of
  /\ stopRequested => /\ removing = Nobody
                      /\ \A s \in Streams : streamAt[s] = "owner"
                      /\ \A g \in Groups : groupAt[g] = "owner"
  /\ pc = "stopped" => stopRequested

LEMMA StepsInit == Init => StepsInv
BY ConstantAssumption DEF Init, StepsInv, StepsOnRegistered, RemovalAnswered, Steps, Registered

\* The variables of StepsOnRegistered do not change: the steps stay right.
LEMMA StepsKept ==
  ASSUME StepsOnRegistered,
         UNCHANGED <<pool, reports, inFlight, taskInFlight>>,
         \A s \in Streams : inFlight[s] => (streamAt'[s] = "scheduler" <=> s \in Registered),
         \A t \in Tasks : taskInFlight[t] => (taskAt'[t] = "scheduler" <=> t \in RegisteredTasks)
  PROVE  StepsOnRegistered'
BY DEF StepsOnRegistered, Steps, Registered, RegisteredTasks

LEMMA StepsOwner ==
  ASSUME Types, StepsInv, Owner
  PROVE  StepsInv'
<1> USE ConstantAssumption
<1>1. ASSUME NEW g \in Groups, AddGroup(g) PROVE StepsInv'
  BY <1>1, StepsKept
     DEF AddGroup, OwnerFree, StepsInv, RemovalAnswered, Types, Registered,
         RegisteredTasks, runVars, workVars
<1>2. ASSUME NEW g \in Groups, RemoveGroup(g) PROVE StepsInv'
  BY <1>2, StepsKept
     DEF RemoveGroup, OwnerFree, StepsInv, RemovalAnswered, Types, Registered,
         RegisteredTasks, runVars, workVars
<1>3. ASSUME NEW g \in Groups, HearSeekFinished(g) PROVE StepsInv'
  BY <1>3, StepsKept
     DEF HearSeekFinished, StepsInv, RemovalAnswered, Registered, RegisteredTasks,
         ownerVars, runVars, workVars
<1>4. ASSUME NEW s \in Streams, AddStream(s) PROVE StepsInv'
  BY <1>4, StepsKept
     DEF AddStream, OwnerFree, StepsInv, RemovalAnswered, Types, Registered,
         RegisteredTasks, runVars
<1>5. ASSUME NEW s \in Streams, RemoveStream(s) PROVE StepsInv'
  BY <1>5, StepsKept
     DEF RemoveStream, OwnerFree, StepsInv, RemovalAnswered, Types, Registered,
         RegisteredTasks, runVars, workVars
<1>6. ASSUME NEW t \in Tasks, AddIdleTask(t) PROVE StepsInv'
  BY <1>6, StepsKept
     DEF AddIdleTask, StepsInv, RemovalAnswered, Types, Registered,
         RegisteredTasks, runVars, workVars
<1>7. ASSUME NEW r \in Rates, SetOutputRate(r) PROVE StepsInv'
  BY <1>7, StepsKept
     DEF SetOutputRate, StepsInv, RemovalAnswered, Registered, RegisteredTasks,
         ownerVars, runVars, workVars
<1>8. ASSUME NEW q \in Resamplers, SetResampler(q) PROVE StepsInv'
  BY <1>8, StepsKept
     DEF SetResampler, StepsInv, RemovalAnswered, Registered, RegisteredTasks,
         ownerVars, runVars, workVars
<1>9. CASE RemoveReturns
  BY <1>9, StepsKept
     DEF RemoveReturns, StepsInv, RemovalAnswered, Registered, RegisteredTasks,
         runVars, workVars
<1>10. CASE StopRequest
  BY <1>10, StepsKept
     DEF StopRequest, OwnerFree, StepsInv, RemovalAnswered, Registered,
         RegisteredTasks, runVars, workVars
<1>11. CASE HandBackTasks
  <2>1. StepsOnRegistered'
    BY <1>11 DEF HandBackTasks, StepsInv, StepsOnRegistered, Steps, Registered
  <2>2. QED
    BY <1>11, <2>1
       DEF HandBackTasks, StepsInv, RemovalAnswered, Registered, RegisteredTasks, Types
<1>12. QED
  BY <1>1, <1>2, <1>3, <1>4, <1>5, <1>6, <1>7, <1>8, <1>9, <1>10, <1>11 DEF Owner

LEMMA StepsSongs ==
  ASSUME StepsInv, Songs \/ Tick
  PROVE  StepsInv'
<1>1. UNCHANGED <<ownerVars, runVars, workVars, pc>>
  BY DEF Songs, Tick, SetPlaying, SetRecording, RequestSeek
<1>2. QED
  BY <1>1, StepsKept DEF StepsInv, RemovalAnswered, Registered, RegisteredTasks,
     ownerVars, runVars, workVars
\* Requests move streams in and out; a stream that runs a step stays.
LEMMA StepsRequests ==
  ASSUME Types, StepsInv, TakeRequests
  PROVE  StepsInv'
<1> USE ConstantAssumption
<1>1. ASSUME NEW s \in Streams, inFlight[s]
      PROVE  streamAt'[s] = "scheduler" /\ s \in Registered
  BY <1>1 DEF TakeRequests, RemovedAtOnce, StepsInv, Registered, Types
<1>2. ASSUME NEW t \in Tasks, taskInFlight[t]
      PROVE  taskAt'[t] = "scheduler" /\ t \in RegisteredTasks
  BY <1>2 DEF TakeRequests, StepsInv, RegisteredTasks, Types
<1>3. StepsOnRegistered'
  BY <1>1, <1>2, StepsKept DEF TakeRequests, StepsInv, runVars
<1>4. RemovalAnswered'
  <2>1. CASE removalAt # "requests"
    BY <2>1, <1>1 DEF TakeRequests, RemovedAtOnce, StepsInv, RemovalAnswered, Registered, Types
  <2>2. CASE removalAt = "requests" /\ removing \in {s \in Registered : inFlight[s]}
    BY <2>2, <1>1 DEF TakeRequests, StepsInv, RemovalAnswered, Registered, Types
  <2>3. CASE removalAt = "requests" /\ removing \notin {s \in Registered : inFlight[s]}
    BY <2>3 DEF TakeRequests, RemovedAtOnce, StepsInv, RemovalAnswered, Registered, Types
  <2>4. QED
    BY <2>1, <2>2, <2>3
<1>5. QED
  BY <1>1, <1>2, <1>3, <1>4
     DEF TakeRequests, StepsInv, Registered, RegisteredTasks, runVars, Types,
         RemovedAtOnce, Places

\* A report ends what is in flight; what leaves then has no step.
LEMMA StepsReports ==
  ASSUME Types, StepsInv, TakeReports
  PROVE  StepsInv'
<1> USE ConstantAssumption
<1>1. pool' = pool /\ reports' = {}
  BY DEF TakeReports
<1>2. \A r \in pool : r.of \notin Reported
  BY DEF StepsInv, Reported
<1>3. ASSUME NEW s \in Streams
      PROVE  /\ inFlight'[s] <=> (inFlight[s] /\ s \notin Reported)
             /\ streamAt'[s] = IF s \in RemovedAfterStep THEN "owner" ELSE streamAt[s]
  BY DEF TakeReports
<1>4. ASSUME NEW t \in Tasks
      PROVE  /\ taskInFlight'[t] <=> (taskInFlight[t] /\ t \notin Reported)
             /\ taskAt'[t] = IF t \in ReportedOver THEN "retired" ELSE taskAt[t]
  BY DEF TakeReports
<1>5. RemovedAfterStep \subseteq Reported /\ ReportedOver \subseteq Reported
  BY DEF RemovedAfterStep, ReportedOver, Reported
<1>6. StepsOnRegistered'
  <2>1. \A r, q \in Steps' : r.of = q.of => r = q
    BY <1>1 DEF StepsInv, StepsOnRegistered, Steps
  <2>2. ASSUME NEW s \in Streams
        PROVE  (\E r \in Steps' : r.of = s) <=> (s \in Registered' /\ inFlight'[s])
    <3>1. (\E r \in Steps' : r.of = s) <=> (\E r \in pool : r.of = s)
      BY <1>1 DEF Steps
    <3>2. (\E r \in Steps : r.of = s) <=> ((\E r \in pool : r.of = s) \/ s \in Reported)
      BY DEF Steps, Reported
    <3>3. QED
      BY <3>1, <3>2, <1>2, <1>3, <1>5 DEF StepsInv, StepsOnRegistered, Registered
  <2>3. ASSUME NEW t \in Tasks
        PROVE  (\E r \in Steps' : r.of = t) <=> (t \in RegisteredTasks' /\ taskInFlight'[t])
    <3>1. (\E r \in Steps' : r.of = t) <=> (\E r \in pool : r.of = t)
      BY <1>1 DEF Steps
    <3>2. (\E r \in Steps : r.of = t) <=> ((\E r \in pool : r.of = t) \/ t \in Reported)
      BY DEF Steps, Reported
    <3>3. QED
      BY <3>1, <3>2, <1>2, <1>4, <1>5 DEF StepsInv, StepsOnRegistered, RegisteredTasks
  <2>4. QED
    BY <2>1, <2>2, <2>3 DEF StepsOnRegistered
<1>7. RemovalAnswered'
  <2>1. removing' = removing /\ groupAt' = groupAt
    BY DEF TakeReports
  <2>2. CASE removing \in RemovedAfterStep
    <3>1. removalAt' = "done" /\ streamAt'[removing] = "owner" /\ removing \in Streams
      BY <2>2, <1>3 DEF TakeReports, RemovedAfterStep
    <3>2. QED
      BY <3>1, <2>1 DEF RemovalAnswered, StepsInv, RemovedAfterStep
  <2>3. CASE removing \notin RemovedAfterStep
    <3>1. RemovedAfterStep = {}
      BY <2>3 DEF RemovedAfterStep
    <3>2. removalAt' = removalAt /\ streamAt' = streamAt
      BY <3>1 DEF TakeReports, Types
    <3>3. ASSUME removalAt = "work"
          PROVE  removing \in Registered' /\ inFlight'[removing]
      BY <3>1, <3>2, <3>3, <1>3 DEF RemovedAfterStep, StepsInv, RemovalAnswered, Registered
    <3>4. QED
      BY <3>2, <3>3, <2>1 DEF RemovalAnswered, StepsInv
  <2>4. QED
    BY <2>2, <2>3
<1>8. QED
  BY <1>1, <1>3, <1>4, <1>5, <1>6, <1>7
     DEF TakeReports, StepsInv, Registered, RegisteredTasks, StepsOnRegistered, Reported, Steps

\* New steps are made of what waits, so that nothing has two.
LEMMA StepsStart ==
  ASSUME Types, StepsInv, Start
  PROVE  StepsInv'
<1> USE ConstantAssumption
<1>1. PICK p : /\ p.streams \subseteq WaitingStreams
               /\ p.idleSeeks \subseteq WaitingStreams
               /\ p.idleTasks \subseteq WaitingTasks
               /\ p.streams \cap p.idleSeeks = {}
               /\ StartSteps(p)
  BY StartPlan DEF StartsPlan
<1>2. /\ p.streams \subseteq Streams /\ p.idleSeeks \subseteq Streams
      /\ p.idleTasks \subseteq Tasks
      /\ \A s \in p.streams \cup p.idleSeeks : s \in Registered /\ ~inFlight[s]
      /\ \A t \in p.idleTasks : t \in RegisteredTasks /\ ~taskInFlight[t]
  BY <1>1 DEF WaitingStreams, WaitingTasks, Registered, RegisteredTasks
<1> DEFINE A == StreamSteps(p)
           B == IdleSeekSteps(p)
           C == TaskSteps(p)
<1>3. /\ \A r \in A : r.of \in p.streams
      /\ \A r \in B : r.of \in p.idleSeeks
      /\ \A r \in C : r.of \in p.idleTasks
      /\ \A s \in p.streams : \E r \in A : r.of = s
      /\ \A s \in p.idleSeeks : \E r \in B : r.of = s
      /\ \A t \in p.idleTasks : \E r \in C : r.of = t
      /\ \A r, q \in A : r.of = q.of => r = q
      /\ \A r, q \in B : r.of = q.of => r = q
      /\ \A r, q \in C : r.of = q.of => r = q
  BY <1>2, StepsMade
<1>4. pool' = ((pool \cup A) \cup B) \cup C
  BY <1>1 DEF StartSteps, StreamSteps, IdleSeekSteps, TaskSteps
<1> HIDE DEF A, B, C
<1>5. /\ reports' = reports /\ UNCHANGED ownerVars
      /\ pc' = "wait"
  BY DEF Start
<1>6. Steps' = ((Steps \cup A) \cup B) \cup C
  BY <1>4, <1>5 DEF Steps
<1>7. \A r \in Steps : r.of \notin p.streams \cup p.idleSeeks \cup p.idleTasks
  BY <1>2 DEF StepsInv, StepsOnRegistered
<1>8. /\ p.streams \cap p.idleTasks = {} /\ p.idleSeeks \cap p.idleTasks = {}
  BY <1>2
<1>9. /\ inFlight' = [s \in Streams |-> inFlight[s] \/ s \in p.streams \cup p.idleSeeks]
      /\ taskInFlight' = [t \in Tasks |-> taskInFlight[t] \/ t \in p.idleTasks]
  BY <1>1 DEF StartSteps
<1>10. Registered' = Registered /\ RegisteredTasks' = RegisteredTasks
  BY <1>5 DEF Registered, RegisteredTasks, ownerVars
<1>11. StepsOnRegistered'
  <2>1. \A r, q \in Steps' : r.of = q.of => r = q
    BY <1>1, <1>3, <1>6, <1>7, <1>8 DEF StepsInv, StepsOnRegistered
  <2>2. ASSUME NEW s \in Streams
        PROVE  (\E r \in Steps' : r.of = s) <=> (s \in Registered' /\ inFlight'[s])
    <3>1. (\E r \in Steps' : r.of = s)
            <=> ((\E r \in Steps : r.of = s) \/ s \in p.streams \/ s \in p.idleSeeks)
      BY <1>2, <1>3, <1>6
    <3>2. QED
      BY <3>1, <1>2, <1>9, <1>10 DEF StepsInv, StepsOnRegistered
  <2>3. ASSUME NEW t \in Tasks
        PROVE  (\E r \in Steps' : r.of = t) <=> (t \in RegisteredTasks' /\ taskInFlight'[t])
    <3>1. (\E r \in Steps' : r.of = t)
            <=> ((\E r \in Steps : r.of = t) \/ t \in p.idleTasks)
      BY <1>2, <1>3, <1>6
    <3>2. QED
      BY <3>1, <1>2, <1>9, <1>10 DEF StepsInv, StepsOnRegistered
  <2>4. QED
    BY <2>1, <2>2, <2>3 DEF StepsOnRegistered
<1>12. RemovalAnswered'
  BY <1>5, <1>9, <1>10 DEF RemovalAnswered, StepsInv, ownerVars, Registered
<1>13. \A r \in pool', q \in reports' : r.of # q.of
  BY <1>3, <1>4, <1>5, <1>7 DEF StepsInv, Steps
<1>14. /\ \A s \in Streams : inFlight'[s] => s \in Registered'
       /\ \A t \in Tasks : taskInFlight'[t] => t \in RegisteredTasks'
  BY <1>2, <1>9, <1>10 DEF StepsInv
<1>15. QED
  BY <1>5, <1>11, <1>12, <1>13, <1>14 DEF StepsInv, ownerVars

\* A step that ends moves from the pool to the reports.
LEMMA StepsWorker ==
  ASSUME Types, StepsInv, NEW r \in pool, StepDone(r)
  PROVE  StepsInv'
<1>1. PICK over \in BOOLEAN : reports' = reports \cup {[r EXCEPT !.over = over]}
  BY DEF StepDone
<1> DEFINE q == [r EXCEPT !.over = over]
<1>2. q.of = r.of
  BY DEF Types, Step
<1> HIDE DEF q
<1>3. pool' = pool \ {r} /\ reports' = reports \cup {q}
  BY <1>1 DEF StepDone, q
<1>4. UNCHANGED <<ownerVars, inFlight, taskInFlight, pc>>
  BY DEF StepDone
<1>5. \A x \in pool \ {r} : x.of # r.of
  BY DEF StepsInv, StepsOnRegistered, Steps
<1>6. \A x \in reports : x.of # r.of
  BY DEF StepsInv
<1>7. \A x \in pool', y \in reports' : x.of # y.of
  BY <1>2, <1>3, <1>5 DEF StepsInv
<1>8. \A x, y \in Steps' : x.of = y.of => x = y
  BY <1>2, <1>3, <1>5, <1>6, <1>7 DEF Steps, StepsInv, StepsOnRegistered
<1>9. \A w : (\E x \in Steps' : x.of = w) <=> (\E x \in Steps : x.of = w)
  BY <1>2, <1>3 DEF Steps
<1>10. Registered' = Registered /\ RegisteredTasks' = RegisteredTasks
  BY <1>4 DEF Registered, RegisteredTasks, ownerVars
<1>11. StepsOnRegistered'
  BY <1>4, <1>8, <1>9, <1>10 DEF StepsOnRegistered, StepsInv
<1>12. QED
  BY <1>4, <1>7, <1>10, <1>11 DEF StepsInv, RemovalAnswered, ownerVars

LEMMA StepsScheduler ==
  ASSUME Types, StepsInv, Scheduler
  PROVE  StepsInv'
<1>1. CASE Drain
  <2>1. /\ UNCHANGED <<ownerVars, runVars, workVars>>
        /\ pc' = "stopped" => stopRequested
    BY <1>1 DEF Drain
  <2>2. QED
    BY <2>1, StepsKept DEF StepsInv, RemovalAnswered, Registered, RegisteredTasks,
       ownerVars, runVars, workVars
<1>2. CASE LoadSettings
  BY <1>2, StepsKept
     DEF LoadSettings, StepsInv, RemovalAnswered, Registered, RegisteredTasks,
         ownerVars, runVars
<1>3. QED
  BY <1>1, <1>2, StepsRequests, StepsReports, StepsStart DEF Scheduler

\* A stream or task has one step at a time, and only while the scheduler has
\* it; a removal is answered when its step is over, and not before.
LEMMA StepsInvHolds == Spec => [](Types /\ StepsInv)
<1>1. Types /\ StepsInv /\ [Next]_vars => StepsInv'
  <2> SUFFICES ASSUME Types, StepsInv, [Next]_vars PROVE StepsInv'
    OBVIOUS
  <2>1. CASE Owner
    BY <2>1, StepsOwner
  <2>2. CASE Songs \/ Tick
    BY <2>2, StepsSongs
  <2>3. CASE Scheduler
    BY <2>3, StepsScheduler
  <2>4. CASE \E w \in Streams \cup Tasks : WorkerStep(w)
    BY <2>4, StepsWorker DEF WorkerStep
  <2>5. CASE UNCHANGED vars
    BY <2>5, StepsKept
       DEF vars, StepsInv, RemovalAnswered, Registered, RegisteredTasks, ownerVars,
           runVars, workVars
  <2>6. QED
    BY <2>1, <2>2, <2>3, <2>4, <2>5 DEF Next, Finished
<1>2. QED
  BY <1>1, TypesHold, StepsInit, PTL DEF Spec

\* Nothing runs on a stream that is not registered: the owner that has it back
\* may delete it, whatever was requested, ticked or reported meanwhile.
THEOREM StepsRunOnRegistered == Spec => []StepsOnRegistered
<1>1. StepsInv => StepsOnRegistered
  BY DEF StepsInv
<1>2. QED
  BY <1>1, StepsInvHolds, PTL

\* remove_stream() and remove_group() return only when the scheduler has let
\* go, and a removal is never lost between the requests and the work.
THEOREM RemovalsAnswered == Spec => []RemovalAnswered
<1>1. StepsInv => RemovalAnswered
  BY DEF StepsInv
<1>2. QED
  BY <1>1, StepsInvHolds, PTL

-----------------------------------------------------------------------------
(* The account of the seeks.  A song that seeks waits for exactly its      *)
(* streams whose seek step is to come, and one seek is over everywhere     *)
(* before the next is asked for.                                           *)

SeeksToCome(g) == {s \in Streams : GroupOf[s] = g /\ seek[s]}

SeekCounts == \A g \in Groups : seeksLeft[g] = Cardinality(SeeksToCome(g))

SeeksOfSeekingSongs ==
  \A s \in Streams : seek[s] =>
    /\ s \in Registered
    /\ GroupOf[s] \in Groups
    /\ GroupOf[s] \in RegisteredGroups
    /\ seeking[GroupOf[s]]

SeeksAwaited == pc = "wait" => \A g \in Groups : seeking[g] => seeksLeft[g] > 0

\* A seek step that is out is one the song waits for: its stream counts down
\* once, when it reports, and not when it is retired before.
SeekSteps == \A r \in Steps : r.seek => r.of \in Streams /\ seek[r.of]

\* A song comes before its streams and goes after them.
SongsAroundStreams ==
  \A s \in Streams :
    /\ GroupOf[s] \in Groups /\ streamAt[s] # "owner" => groupAt[GroupOf[s]] # "owner"
    /\ removing \in Groups /\ GroupOf[s] = removing => streamAt[s] = "owner"

SeekTakenOnce ==
  \A g \in Groups :
    /\ groupAt[g] # "scheduler" => ~seeking[g]
    /\ ~(seekRequested[g] /\ seeking[g])

\* The inductive invariant, next to Types and StepsInv.
SeekInv ==
  /\ SeekCounts
  /\ SeeksOfSeekingSongs
  /\ SeeksAwaited
  /\ SeekSteps
  /\ SongsAroundStreams
  /\ SeekTakenOnce
  /\ OneSeekAtATime

LEMMA SeekInit == Init => SeekInv
<1> SUFFICES ASSUME Init PROVE SeekInv
  OBVIOUS
<1>1. SeekCounts
  <2>1. ASSUME NEW g \in Groups PROVE SeeksToCome(g) = {}
    BY DEF Init, SeeksToCome
  <2>2. QED
    BY <2>1, FS_EmptySet DEF Init, SeekCounts
<1>2. SeeksOfSeekingSongs /\ SeeksAwaited /\ SeekSteps
  BY DEF Init, SeeksOfSeekingSongs, SeeksAwaited, SeekSteps, Steps
<1>3. SongsAroundStreams
  BY ConstantAssumption DEF Init, SongsAroundStreams
<1>4. SeekTakenOnce /\ OneSeekAtATime
  BY DEF Init, SeekTakenOnce, OneSeekAtATime
<1>5. QED
  BY <1>1, <1>2, <1>3, <1>4 DEF SeekInv

\* What the account is kept of does not change.
LEMMA SeekWorkKept ==
  ASSUME SeekInv,
         UNCHANGED <<seek, seeking, seeksLeft>>, pc' = "wait" => pc = "wait",
         \A r \in Steps' : r.seek => \E q \in Steps : q.of = r.of /\ q.seek,
         \A s \in Streams : streamAt[s] = "scheduler" => streamAt'[s] = "scheduler",
         \A g \in Groups : groupAt[g] = "scheduler" => groupAt'[g] = "scheduler"
  PROVE  SeekCounts' /\ SeeksOfSeekingSongs' /\ SeeksAwaited' /\ SeekSteps'
<1>1. SeekCounts'
  BY DEF SeekInv, SeekCounts, SeeksToCome
<1>2. SeeksOfSeekingSongs'
  BY DEF SeekInv, SeeksOfSeekingSongs, Registered, RegisteredGroups
<1>3. SeeksAwaited' /\ SeekSteps'
  BY DEF SeekInv, SeeksAwaited, SeekSteps
<1>4. QED
  BY <1>1, <1>2, <1>3

LEMMA SeekOwner ==
  ASSUME Types, StepsInv, SeekInv, Owner
  PROVE  SeekInv'
<1> USE ConstantAssumption
<1>1. ASSUME NEW g \in Groups, AddGroup(g) PROVE SeekInv'
  <2>1. SeekCounts' /\ SeeksOfSeekingSongs' /\ SeeksAwaited' /\ SeekSteps'
    BY <1>1, SeekWorkKept DEF AddGroup, seekWorkVars, runVars, Steps, Types
  <2>2. SongsAroundStreams'
    BY <1>1 DEF AddGroup, SeekInv, SongsAroundStreams, Types
  <2>3. SeekTakenOnce' /\ OneSeekAtATime'
    BY <1>1 DEF AddGroup, SeekInv, SeekTakenOnce, OneSeekAtATime, seekWorkVars, Types
  <2>4. QED
    BY <2>1, <2>2, <2>3 DEF SeekInv
<1>2. ASSUME NEW g \in Groups, RemoveGroup(g) PROVE SeekInv'
  <2>1. SeekCounts' /\ SeeksOfSeekingSongs' /\ SeeksAwaited' /\ SeekSteps'
    BY <1>2, SeekWorkKept DEF RemoveGroup, seekWorkVars, runVars, Steps
  <2>2. SongsAroundStreams'
    BY <1>2 DEF RemoveGroup, SeekInv, SongsAroundStreams
  <2>3. SeekTakenOnce' /\ OneSeekAtATime'
    BY <1>2 DEF RemoveGroup, SeekInv, SeekTakenOnce, OneSeekAtATime, seekWorkVars,
                groupVars, seekVars
  <2>4. QED
    BY <2>1, <2>2, <2>3 DEF SeekInv
<1>3. ASSUME NEW g \in Groups, HearSeekFinished(g) PROVE SeekInv'
  <2>1. SeekCounts' /\ SeeksOfSeekingSongs' /\ SeeksAwaited' /\ SeekSteps'
    BY <1>3, SeekWorkKept DEF HearSeekFinished, seekWorkVars, runVars, Steps, ownerVars
  <2>2. SongsAroundStreams'
    BY <1>3 DEF HearSeekFinished, SeekInv, SongsAroundStreams, ownerVars
  <2>3. SeekTakenOnce' /\ OneSeekAtATime'
    BY <1>3 DEF HearSeekFinished, SeekInv, SeekTakenOnce, OneSeekAtATime, seekWorkVars,
                groupVars, ownerVars, Types
  <2>4. QED
    BY <2>1, <2>2, <2>3 DEF SeekInv
<1>4. ASSUME NEW s \in Streams, AddStream(s) PROVE SeekInv'
  <2>1. SeekCounts' /\ SeeksOfSeekingSongs' /\ SeeksAwaited' /\ SeekSteps'
    BY <1>4, SeekWorkKept DEF AddStream, seekWorkVars, runVars, Steps, Types
  <2>2. SongsAroundStreams'
    BY <1>4 DEF AddStream, OwnerFree, SeekInv, SongsAroundStreams, Types
  <2>3. SeekTakenOnce' /\ OneSeekAtATime'
    BY <1>4 DEF AddStream, SeekInv, SeekTakenOnce, OneSeekAtATime, seekWorkVars,
                groupVars, seekVars
  <2>4. QED
    BY <2>1, <2>2, <2>3 DEF SeekInv
<1>5. ASSUME NEW s \in Streams, RemoveStream(s) PROVE SeekInv'
  <2>1. SeekCounts' /\ SeeksOfSeekingSongs' /\ SeeksAwaited' /\ SeekSteps'
    BY <1>5, SeekWorkKept DEF RemoveStream, seekWorkVars, runVars, Steps
  <2>2. SongsAroundStreams'
    BY <1>5 DEF RemoveStream, SeekInv, SongsAroundStreams
  <2>3. SeekTakenOnce' /\ OneSeekAtATime'
    BY <1>5 DEF RemoveStream, SeekInv, SeekTakenOnce, OneSeekAtATime, seekWorkVars,
                groupVars, seekVars
  <2>4. QED
    BY <2>1, <2>2, <2>3 DEF SeekInv
<1>6. ASSUME \/ \E t \in Tasks : AddIdleTask(t)
             \/ \E r \in Rates : SetOutputRate(r)
             \/ \E q \in Resamplers : SetResampler(q)
             \/ StopRequest
      PROVE  SeekInv'
  <2>1. UNCHANGED <<groupAt, streamAt, removing, groupVars, seekVars, pc, runVars,
                    seekWorkVars>>
    BY <1>6 DEF AddIdleTask, SetOutputRate, SetResampler, StopRequest, ownerVars
  <2>2. SeekCounts' /\ SeeksOfSeekingSongs' /\ SeeksAwaited' /\ SeekSteps'
    BY <2>1, SeekWorkKept DEF seekWorkVars, runVars, Steps
  <2>3. SongsAroundStreams' /\ SeekTakenOnce' /\ OneSeekAtATime'
    BY <2>1 DEF SeekInv, SongsAroundStreams, SeekTakenOnce, OneSeekAtATime, groupVars,
                seekVars, seekWorkVars
  <2>4. QED
    BY <2>2, <2>3 DEF SeekInv
<1>7. ASSUME RemoveReturns \/ HandBackTasks PROVE SeekInv'
  <2>1. /\ UNCHANGED <<groupAt, streamAt, groupVars, seekVars, pc, pool, seekWorkVars>>
        /\ removing' \in {removing, Nobody} /\ reports' \subseteq reports
    BY <1>7 DEF RemoveReturns, HandBackTasks, runVars
  <2>2. SeekCounts' /\ SeeksOfSeekingSongs' /\ SeeksAwaited' /\ SeekSteps'
    BY <2>1, SeekWorkKept DEF seekWorkVars, Steps
  <2>3. SongsAroundStreams' /\ SeekTakenOnce' /\ OneSeekAtATime'
    BY <2>1 DEF SeekInv, SongsAroundStreams, SeekTakenOnce, OneSeekAtATime, groupVars,
                seekVars, seekWorkVars
  <2>4. QED
    BY <2>2, <2>3 DEF SeekInv
<1>8. QED
  BY <1>1, <1>2, <1>3, <1>4, <1>5, <1>6, <1>7 DEF Owner

\* The songs ask for seeks; only the one that asks changes.
LEMMA SeekSongs ==
  ASSUME Types, SeekInv, Songs \/ Tick
  PROVE  SeekInv'
<1>1. UNCHANGED <<ownerVars, runVars, pc, seekWorkVars, seekFinished>>
  BY DEF Songs, Tick, SetPlaying, SetRecording, RequestSeek, seekVars
<1>2. SeekCounts' /\ SeeksOfSeekingSongs' /\ SeeksAwaited' /\ SeekSteps'
  BY <1>1, SeekWorkKept DEF seekWorkVars, ownerVars, runVars, Steps
<1>3. SongsAroundStreams'
  BY <1>1 DEF SeekInv, SongsAroundStreams, ownerVars
<1>4. SeekTakenOnce' /\ OneSeekAtATime'
  <2>1. ASSUME NEW g \in Groups, RequestSeek(g) PROVE SeekTakenOnce' /\ OneSeekAtATime'
    BY <2>1, <1>1 DEF RequestSeek, SeekInv, SeekTakenOnce, OneSeekAtATime, Types, ownerVars,
                      seekWorkVars
  <2>2. ASSUME UNCHANGED <<seekRequested, mSeeking, seekAsked>>
        PROVE  SeekTakenOnce' /\ OneSeekAtATime'
    BY <2>2, <1>1 DEF SeekInv, SeekTakenOnce, OneSeekAtATime, ownerVars, seekWorkVars
  <2>3. QED
    BY <2>1, <2>2 DEF Songs, Tick, SetPlaying, SetRecording, groupVars, seekVars
<1>5. QED
  BY <1>2, <1>3, <1>4 DEF SeekInv

\* A song counts down by its streams whose seeks are done.
LEMMA SeeksDoneCount ==
  ASSUME Types, SeekCounts, NEW out, SeeksDone(out),
         \A s \in out : s \in Streams /\ seek[s]
  PROVE  SeekCounts'
<1> SUFFICES ASSUME NEW g \in Groups
             PROVE  seeksLeft'[g] = Cardinality(SeeksToCome(g)')
  BY DEF SeekCounts
<1> DEFINE gone == {s \in out : GroupOf[s] = g}
<1>1. SeeksToCome(g)' = SeeksToCome(g) \ gone
  BY DEF SeeksDone, SeeksToCome
<1>2. SeeksToCome(g) \cap gone = gone
  BY DEF SeeksToCome
<1>3. IsFiniteSet(SeeksToCome(g))
  BY ConstantAssumption, FS_Subset DEF SeeksToCome
<1>4. Cardinality(SeeksToCome(g)') = Cardinality(SeeksToCome(g)) - Cardinality(gone)
  BY <1>1, <1>2, <1>3, FS_Difference
<1>5. QED
  BY <1>4 DEF SeekCounts, SeeksDone

\* A set with an element has more than none.
LEMMA SomeElement ==
  ASSUME NEW S, IsFiniteSet(S), NEW s \in S
  PROVE  Cardinality(S) > 0
<1>1. Cardinality(S) \in Nat /\ Cardinality(S) # 0
  BY FS_CardinalityType, FS_EmptySet
<1>2. QED
  BY <1>1

\* The streams that go take their seeks with them, also from the account.
LEMMA SeekTakeRequests ==
  ASSUME Types, StepsInv, SeekInv, TakeRequests
  PROVE  SeekInv'
<1> USE ConstantAssumption
<1> DEFINE out == SeeksOf(RemovedAtOnce)
<1>1. /\ \A s \in out : s \in Streams /\ seek[s]
      /\ SeeksDone(out)
      /\ \A s \in Streams : seek'[s] <=> (seek[s] /\ s \notin RemovedAtOnce)
  BY DEF TakeRequests, SeeksDone, SeeksOf, RemovedAtOnce
<1>2. SeekCounts'
  BY <1>1, SeeksDoneCount DEF SeekInv
<1>3. ASSUME NEW g \in Groups, removalAt = "requests", removing = g
      PROVE  /\ \A s \in Streams : GroupOf[s] = g => streamAt[s] = "owner" /\ ~seek[s]
             /\ RemovedAtOnce = {}
  BY <1>3 DEF SeekInv, SongsAroundStreams, SeeksOfSeekingSongs, Registered, RemovedAtOnce
<1>4. SeeksOfSeekingSongs'
  <2> SUFFICES ASSUME NEW s \in Streams, seek'[s]
               PROVE  /\ streamAt'[s] = "scheduler" /\ GroupOf[s] \in Groups
                      /\ groupAt'[GroupOf[s]] = "scheduler"
                      /\ seeking'[GroupOf[s]]
    BY DEF SeeksOfSeekingSongs, Registered, RegisteredGroups
  <2>1. /\ seek[s] /\ s \notin RemovedAtOnce
        /\ streamAt[s] = "scheduler" /\ GroupOf[s] \in Groups
        /\ groupAt[GroupOf[s]] = "scheduler" /\ seeking[GroupOf[s]]
    BY <1>1 DEF SeekInv, SeeksOfSeekingSongs, Registered, RegisteredGroups
  <2>2. ~(removalAt = "requests" /\ removing = GroupOf[s])
    BY <2>1, <1>3
  <2>3. QED
    BY <2>1, <2>2 DEF TakeRequests
<1>5. SeeksAwaited'
  BY DEF TakeRequests, SeeksAwaited
<1>6. SeekSteps'
  <2>1. Steps' = Steps
    BY DEF TakeRequests, Steps, runVars
  <2>2. ASSUME NEW r \in Steps, r.seek
        PROVE  r.of \in Streams /\ seek'[r.of]
    <3>1. r.of \in Streams /\ seek[r.of] /\ inFlight[r.of]
      BY <2>2 DEF SeekInv, SeekSteps, StepsInv, StepsOnRegistered
    <3>2. QED
      BY <3>1, <1>1 DEF RemovedAtOnce
  <2>3. QED
    BY <2>1, <2>2 DEF SeekSteps
<1>7. SongsAroundStreams'
  <2>1. removing' = removing
    BY DEF TakeRequests
  <2>2. ASSUME NEW s \in Streams, GroupOf[s] \in Groups, streamAt'[s] # "owner"
        PROVE  groupAt'[GroupOf[s]] # "owner"
    <3>1. streamAt[s] # "owner"
      BY <2>2 DEF TakeRequests, RemovedAtOnce
    <3>2. groupAt[GroupOf[s]] # "owner"
      BY <2>2, <3>1 DEF SeekInv, SongsAroundStreams
    <3>3. ~(removalAt = "requests" /\ removing = GroupOf[s])
      BY <2>2, <3>1, <1>3
    <3>4. QED
      BY <2>2, <3>2, <3>3 DEF TakeRequests
  <2>3. ASSUME NEW s \in Streams, removing \in Groups, GroupOf[s] = removing
        PROVE  streamAt'[s] = "owner"
    BY <2>3 DEF TakeRequests, SeekInv, SongsAroundStreams
  <2>4. QED
    BY <2>1, <2>2, <2>3 DEF SongsAroundStreams
<1>8. SeekTakenOnce' /\ OneSeekAtATime'
  BY DEF TakeRequests, SeekInv, SeekTakenOnce, OneSeekAtATime, groupVars, seekVars
<1>9. QED
  BY <1>2, <1>4, <1>5, <1>6, <1>7, <1>8 DEF SeekInv

\* finish_seeks() leaves the songs that still wait for a stream and tells the
\* owner of the others: of each seek once.
LEMMA SeeksFinished ==
  ASSUME Types, NEW isSeeking \in [Groups -> BOOLEAN], NEW left,
         FinishSeeks(isSeeking, left), groupAt' = groupAt, seekAsked' = seekAsked,
         seekRequested' \in [Groups -> BOOLEAN],
         \A g \in Groups :
           /\ groupAt[g] # "scheduler" => ~isSeeking[g]
           /\ ~(seekRequested'[g] /\ isSeeking[g])
           /\ groupAt[g] # "owner" =>
                /\ ~seekAsked[g] => ~mSeeking[g] /\ ~seekFinished[g]
                /\ mSeeking[g] <=> (seekRequested'[g] \/ isSeeking[g])
                /\ seekFinished[g] => ~mSeeking[g]
  PROVE  SeekTakenOnce' /\ OneSeekAtATime'
<1> DEFINE done == {g \in RegisteredGroups : isSeeking[g] /\ left[g] <= 0}
<1>1. ASSUME NEW g \in Groups
      PROVE  /\ seeking'[g] <=> (isSeeking[g] /\ g \notin done)
             /\ mSeeking'[g] <=> (mSeeking[g] /\ g \notin done)
             /\ seekFinished'[g] <=> (seekFinished[g] \/ g \in done)
             /\ g \in done => groupAt[g] = "scheduler" /\ isSeeking[g]
  BY DEF FinishSeeks, RegisteredGroups
<1> HIDE DEF done
<1>2. SeekTakenOnce'
  BY <1>1 DEF SeekTakenOnce
<1>3. OneSeekAtATime'
  BY <1>1 DEF OneSeekAtATime
<1>4. QED
  BY <1>2, <1>3

\* A stream that reports a seek, or goes after its step, counts down once.
LEMMA SeekTakeReports ==
  ASSUME Types, StepsInv, SeekInv, TakeReports
  PROVE  SeekInv'
<1> USE ConstantAssumption
<1> DEFINE out == ReportedSeeks \cup SeeksOf(RemovedAfterStep)
<1>1. /\ \A s \in out : s \in Streams /\ seek[s]
      /\ SeeksDone(out)
  <2>1. \A r \in SeekReports : r.of \in Streams /\ seek[r.of]
    BY DEF SeekReports, SeekInv, SeekSteps, Steps
  <2>2. QED
    BY <2>1 DEF TakeReports, ReportedSeeks, SeeksOf, RemovedAfterStep
<1>2. SeekCounts'
  BY <1>1, SeeksDoneCount DEF SeekInv
<1>3. \A s \in Streams : seek'[s] <=> (seek[s] /\ s \notin out)
  BY <1>1 DEF SeeksDone
<1>4. /\ groupAt' = groupAt /\ removing' = removing /\ pc' = "settings"
      /\ pool' = pool /\ reports' = {} /\ seekAsked' = seekAsked
      /\ seekRequested' = seekRequested
      /\ streamAt' = [s \in Streams |-> IF s \in RemovedAfterStep THEN "owner" ELSE streamAt[s]]
  BY DEF TakeReports
<1>5. \/ UNCHANGED <<seeking, mSeeking, seekFinished>>
      \/ FinishSeeks(seeking, seeksLeft')
  BY DEF TakeReports
<1>6. ASSUME NEW g \in Groups, seeking[g], ~seeking'[g]
      PROVE  seeksLeft'[g] <= 0
  BY <1>5, <1>6 DEF FinishSeeks
<1>7. SeeksOfSeekingSongs'
  <2> SUFFICES ASSUME NEW s \in Streams, seek'[s]
               PROVE  /\ streamAt'[s] = "scheduler" /\ GroupOf[s] \in Groups
                      /\ groupAt'[GroupOf[s]] = "scheduler"
                      /\ seeking'[GroupOf[s]]
    BY DEF SeeksOfSeekingSongs, Registered, RegisteredGroups
  <2>1. /\ seek[s] /\ s \notin out
        /\ streamAt[s] = "scheduler" /\ GroupOf[s] \in Groups
        /\ groupAt[GroupOf[s]] = "scheduler" /\ seeking[GroupOf[s]]
    BY <1>3 DEF SeekInv, SeeksOfSeekingSongs, Registered, RegisteredGroups
  <2>2. s \notin RemovedAfterStep
    BY <2>1 DEF SeeksOf
  <2>3. seeksLeft'[GroupOf[s]] > 0
    <3> DEFINE S == SeeksToCome(GroupOf[s])'
    <3>1. IsFiniteSet(S) /\ s \in S
      BY FS_Subset DEF SeeksToCome
    <3>2. seeksLeft'[GroupOf[s]] = Cardinality(S)
      BY <1>2, <2>1 DEF SeekCounts
    <3>3. QED
      BY <3>1, <3>2, SomeElement
  <2>4. seeking'[GroupOf[s]]
    <3>1. Types'
      BY TypesScheduler DEF Scheduler
    <3>2. QED
      BY <3>1, <2>1, <2>3, <1>6 DEF Types
  <2>5. QED
    BY <2>1, <2>2, <2>4, <1>4
<1>8. SeeksAwaited'
  BY <1>4 DEF SeeksAwaited
<1>9. SeekSteps'
  <2>1. ASSUME NEW r \in pool, r.seek
        PROVE  r.of \in Streams /\ seek'[r.of]
    <3>1. r.of \in Streams /\ seek[r.of]
      BY <2>1 DEF SeekInv, SeekSteps, Steps
    <3>2. r.of \notin Reported
      BY DEF StepsInv, Reported
    <3>3. r.of \notin out
      BY <3>2 DEF ReportedSeeks, SeekReports, Reported, SeeksOf, RemovedAfterStep
    <3>4. QED
      BY <3>1, <3>3, <1>3
  <2>2. QED
    BY <2>1, <1>4 DEF SeekSteps, Steps
<1>10. SongsAroundStreams'
  BY <1>4 DEF SeekInv, SongsAroundStreams
<1>11. SeekTakenOnce' /\ OneSeekAtATime'
  <2>1. CASE UNCHANGED <<seeking, mSeeking, seekFinished>>
    BY <2>1, <1>4 DEF SeekInv, SeekTakenOnce, OneSeekAtATime
  <2>2. CASE FinishSeeks(seeking, seeksLeft')
    <3>1. \A g \in Groups :
            /\ groupAt[g] # "scheduler" => ~seeking[g]
            /\ ~(seekRequested'[g] /\ seeking[g])
            /\ groupAt[g] # "owner" =>
                 /\ ~seekAsked[g] => ~mSeeking[g] /\ ~seekFinished[g]
                 /\ mSeeking[g] <=> (seekRequested'[g] \/ seeking[g])
                 /\ seekFinished[g] => ~mSeeking[g]
      BY <1>4 DEF SeekInv, SeekTakenOnce, OneSeekAtATime
    <3>2. seeking \in [Groups -> BOOLEAN] /\ seekRequested' \in [Groups -> BOOLEAN]
      BY <1>4 DEF Types
    <3>3. QED
      BY <2>2, <3>1, <3>2, <1>4, SeeksFinished
  <2>3. QED
    BY <2>1, <2>2, <1>5
<1>12. QED
  BY <1>2, <1>7, <1>8, <1>9, <1>10, <1>11 DEF SeekInv

\* A song whose seek is taken waits for all its streams; the streams of the
\* others are as they were.
LEMMA SeekStart ==
  ASSUME Types, StepsInv, SeekInv, Start
  PROVE  SeekInv'
<1> USE ConstantAssumption
<1> DEFINE isSeeking == [g \in Groups |-> seeking[g] \/ g \in SeekTaken]
<1>1. /\ seekRequested' = [g \in Groups |-> seekRequested[g] /\ g \notin SeekTaken]
      /\ seek' = [s \in Streams |-> SeekToCome(s)]
      /\ seeksLeft' = [g \in Groups |->
           IF g \in SeekTaken THEN Cardinality(StreamsOf(g)) ELSE seeksLeft[g]]
      /\ FinishSeeks(isSeeking, seeksLeft')
      /\ UNCHANGED ownerVars /\ reports' = reports /\ seekAsked' = seekAsked
  BY DEF Start, TakeSeekRequests
<1>2. /\ Registered' = Registered /\ RegisteredGroups' = RegisteredGroups
      /\ groupAt' = groupAt /\ streamAt' = streamAt /\ removing' = removing
  BY <1>1 DEF Registered, RegisteredGroups, ownerVars
<1>3. \A g \in SeekTaken : g \in Groups /\ g \in RegisteredGroups /\ seekRequested[g]
  BY DEF SeekTaken, RegisteredGroups
<1>4. SeekCounts'
  <2> SUFFICES ASSUME NEW g \in Groups
               PROVE  seeksLeft'[g] = Cardinality(SeeksToCome(g)')
    BY DEF SeekCounts
  <2>1. CASE g \in SeekTaken
    <3>1. SeeksToCome(g)' = StreamsOf(g)
      BY <1>1, <2>1 DEF SeeksToCome, StreamsOf, SeekToCome, SeekInv, SeeksOfSeekingSongs,
                        Registered
    <3>2. QED
      BY <2>1, <3>1, <1>1
  <2>2. CASE g \notin SeekTaken
    <3>1. SeeksToCome(g)' = SeeksToCome(g)
      BY <1>1, <2>2 DEF SeeksToCome, SeekToCome
    <3>2. QED
      BY <2>2, <3>1, <1>1 DEF SeekInv, SeekCounts
  <2>3. QED
    BY <2>1, <2>2
<1>5. ASSUME NEW g \in Groups
      PROVE  /\ isSeeking[g] => g \in RegisteredGroups
             /\ seeking'[g] <=> isSeeking[g] /\ ~(seeksLeft'[g] <= 0)
  <2>1. isSeeking[g] => g \in RegisteredGroups
    BY <1>3 DEF SeekInv, SeekTakenOnce, RegisteredGroups
  <2>2. QED
    BY <2>1, <1>1 DEF FinishSeeks
<1>6. Types'
  BY TypesScheduler DEF Scheduler
<1>7. SeeksOfSeekingSongs'
  <2> SUFFICES ASSUME NEW s \in Streams, seek'[s]
               PROVE  /\ s \in Registered /\ GroupOf[s] \in Groups
                      /\ GroupOf[s] \in RegisteredGroups
                      /\ seeking'[GroupOf[s]]
    BY <1>2 DEF SeeksOfSeekingSongs
  <2>1. SeekToCome(s)
    BY <1>1
  <2>2. /\ s \in Registered /\ GroupOf[s] \in Groups
        /\ GroupOf[s] \in RegisteredGroups /\ isSeeking[GroupOf[s]]
    BY <2>1, <1>3 DEF SeekToCome, SeekInv, SeeksOfSeekingSongs
  <2>3. seeksLeft'[GroupOf[s]] > 0
    <3> DEFINE S == SeeksToCome(GroupOf[s])'
    <3>1. IsFiniteSet(S) /\ s \in S
      BY FS_Subset DEF SeeksToCome
    <3>2. seeksLeft'[GroupOf[s]] = Cardinality(S)
      BY <1>4, <2>2 DEF SeekCounts
    <3>3. QED
      BY <3>1, <3>2, SomeElement
  <2>4. QED
    BY <2>2, <2>3, <1>5, <1>6 DEF Types
<1>8. SeeksAwaited'
  BY <1>5, <1>6 DEF SeeksAwaited, Types
<1>9. SeekSteps'
  <2>1. PICK p : /\ p.streams \subseteq WaitingStreams
                 /\ p.idleSeeks \subseteq WaitingStreams
                 /\ \A s \in p.idleSeeks : SeekToCome(s)
                 /\ StartSteps(p)
    BY StartPlan DEF StartsPlan
  <2>2. p.streams \subseteq Streams /\ p.idleSeeks \subseteq Streams
    BY <2>1 DEF WaitingStreams, Registered
  <2>3. \A r \in StreamSteps(p) : r.seek => r.of \in Streams /\ SeekToCome(r.of)
    BY <2>2 DEF StreamSteps, StepOf
  <2>4. \A r \in IdleSeekSteps(p) : r.of \in Streams /\ SeekToCome(r.of)
    BY <2>1, <2>2 DEF IdleSeekSteps, StepOf
  <2>5. \A r \in TaskSteps(p) : ~r.seek
    BY DEF TaskSteps, StepOf
  <2>6. Steps' = ((Steps \cup StreamSteps(p)) \cup IdleSeekSteps(p)) \cup TaskSteps(p)
    BY <2>1, <1>1 DEF StartSteps, StreamSteps, IdleSeekSteps, TaskSteps, Steps
  <2>7. \A r \in Steps : r.seek => r.of \in Streams /\ SeekToCome(r.of)
    BY DEF SeekInv, SeekSteps, SeekToCome
  <2>8. \A r \in Steps' : r.seek => r.of \in Streams /\ SeekToCome(r.of)
    BY <2>3, <2>4, <2>5, <2>6, <2>7
  <2>9. QED
    BY <2>8, <1>1 DEF SeekSteps
<1>10. SongsAroundStreams'
  BY <1>2 DEF SeekInv, SongsAroundStreams
<1>11. SeekTakenOnce' /\ OneSeekAtATime'
  <2>1. \A g \in Groups :
          /\ groupAt[g] # "scheduler" => ~isSeeking[g]
          /\ ~(seekRequested'[g] /\ isSeeking[g])
          /\ groupAt[g] # "owner" =>
               /\ ~seekAsked[g] => ~mSeeking[g] /\ ~seekFinished[g]
               /\ mSeeking[g] <=> (seekRequested'[g] \/ isSeeking[g])
               /\ seekFinished[g] => ~mSeeking[g]
    BY <1>1, <1>3 DEF SeekInv, SeekTakenOnce, OneSeekAtATime, RegisteredGroups, Types
  <2>2. isSeeking \in [Groups -> BOOLEAN] /\ seekRequested' \in [Groups -> BOOLEAN]
    BY <1>6 DEF Types
  <2> HIDE DEF isSeeking
  <2>3. QED
    BY <2>1, <2>2, <1>1, <1>2, SeeksFinished
<1>12. QED
  BY <1>4, <1>7, <1>8, <1>9, <1>10, <1>11 DEF SeekInv

\* A step that ends is the same step of the same stream, reported.
LEMMA SeekWorker ==
  ASSUME Types, SeekInv, NEW r \in pool, StepDone(r)
  PROVE  SeekInv'
<1>1. PICK over \in BOOLEAN : reports' = reports \cup {[r EXCEPT !.over = over]}
  BY DEF StepDone
<1> DEFINE q == [r EXCEPT !.over = over]
<1>2. q.of = r.of /\ q.seek = r.seek
  BY DEF Types, Step
<1> HIDE DEF q
<1>3. pool' = pool \ {r} /\ reports' = reports \cup {q}
  BY <1>1 DEF StepDone, q
<1>4. UNCHANGED <<ownerVars, groupVars, seekVars, pc, seekWorkVars>>
  BY DEF StepDone
<1>5. \A x \in Steps' : x.seek => \E y \in Steps : y.of = x.of /\ y.seek
  BY <1>2, <1>3 DEF Steps
<1>6. SeekCounts' /\ SeeksOfSeekingSongs' /\ SeeksAwaited' /\ SeekSteps'
  BY <1>4, <1>5, SeekWorkKept DEF seekWorkVars, ownerVars
<1>7. SongsAroundStreams' /\ SeekTakenOnce' /\ OneSeekAtATime'
  BY <1>4 DEF SeekInv, SongsAroundStreams, SeekTakenOnce, OneSeekAtATime, ownerVars,
     groupVars, seekVars, seekWorkVars
<1>8. QED
  BY <1>6, <1>7 DEF SeekInv

LEMMA SeekScheduler ==
  ASSUME Types, StepsInv, SeekInv, Scheduler
  PROVE  SeekInv'
<1>1. CASE Drain \/ LoadSettings
  <2>1. /\ UNCHANGED <<ownerVars, groupVars, seekVars, runVars, seekWorkVars>>
        /\ pc' # "wait"
    BY <1>1 DEF Drain, LoadSettings
  <2>2. SeekCounts' /\ SeeksOfSeekingSongs' /\ SeeksAwaited' /\ SeekSteps'
    BY <2>1, SeekWorkKept DEF seekWorkVars, ownerVars, runVars, Steps
  <2>3. SongsAroundStreams' /\ SeekTakenOnce' /\ OneSeekAtATime'
    BY <2>1 DEF SeekInv, SongsAroundStreams, SeekTakenOnce, OneSeekAtATime, ownerVars,
       groupVars, seekVars, seekWorkVars
  <2>4. QED
    BY <2>2, <2>3 DEF SeekInv
<1>2. QED
  BY <1>1, SeekTakeRequests, SeekTakeReports, SeekStart DEF Scheduler

\* The account of the seeks is right whatever is removed, added or reported
\* meanwhile.
LEMMA SeekInvHolds == Spec => [](Types /\ StepsInv /\ SeekInv)
<1>1. Types /\ StepsInv /\ SeekInv /\ [Next]_vars => SeekInv'
  <2> SUFFICES ASSUME Types, StepsInv, SeekInv, [Next]_vars PROVE SeekInv'
    OBVIOUS
  <2>1. CASE Owner
    BY <2>1, SeekOwner
  <2>2. CASE Songs \/ Tick
    BY <2>2, SeekSongs
  <2>3. CASE Scheduler
    BY <2>3, SeekScheduler
  <2>4. CASE \E w \in Streams \cup Tasks : WorkerStep(w)
    BY <2>4, SeekWorker DEF WorkerStep
  <2>5. CASE UNCHANGED vars
    <3>1. UNCHANGED <<ownerVars, groupVars, seekVars, pc, runVars, seekWorkVars>>
      BY <2>5 DEF vars
    <3>2. SeekCounts' /\ SeeksOfSeekingSongs' /\ SeeksAwaited' /\ SeekSteps'
      BY <3>1, SeekWorkKept DEF seekWorkVars, ownerVars, runVars, Steps
    <3>3. SongsAroundStreams' /\ SeekTakenOnce' /\ OneSeekAtATime'
      BY <3>1 DEF SeekInv, SongsAroundStreams, SeekTakenOnce, OneSeekAtATime, ownerVars,
         groupVars, seekVars, seekWorkVars
    <3>4. QED
      BY <3>2, <3>3 DEF SeekInv
  <2>6. QED
    BY <2>1, <2>2, <2>3, <2>4, <2>5 DEF Next, Finished
<1>2. QED
  BY <1>1, StepsInvHolds, SeekInit, PTL DEF Spec

\* A song that seeks waits for exactly its streams whose seek step is to come,
\* also when streams are removed meanwhile: it neither finishes early nor
\* waits for a stream that is gone.
THEOREM SeeksAccounted == Spec => []SeekAccounting
<1>1. SeekInv => SeekAccounting
  <2> SUFFICES ASSUME SeekInv PROVE SeekAccounting
    OBVIOUS
  <2>1. ASSUME NEW g \in Groups
        PROVE  seeksLeft[g] = Cardinality({s \in StreamsOf(g) : seek[s]})
    <3>1. {s \in StreamsOf(g) : seek[s]} = SeeksToCome(g)
      BY DEF StreamsOf, SeeksToCome, SeekInv, SeeksOfSeekingSongs, Registered
    <3>2. QED
      BY <3>1 DEF SeekInv, SeekCounts
  <2>2. QED
    BY <2>1 DEF SeekAccounting, SeekInv, SeeksOfSeekingSongs, SeeksAwaited
<1>2. QED
  BY <1>1, SeekInvHolds, PTL

\* The owner that has heard of the end of a seek and asks for the next finds
\* nothing of the last one: neither a flag, nor a signal, nor a request.
THEOREM SeeksOneAtATime == Spec => []OneSeekAtATime
<1>1. SeekInv => OneSeekAtATime
  BY DEF SeekInv
<1>2. QED
  BY <1>1, SeekInvHolds, PTL

-----------------------------------------------------------------------------
(* The counters of the running steps: inductive next to Types and StepsInv. *)

IdleOf(S) == {r \in S : r.idle}

\* Sets without a common element, and a set without some of its elements.
LEMMA DisjointUnion ==
  ASSUME NEW S, IsFiniteSet(S), NEW T, IsFiniteSet(T), S \cap T = {}
  PROVE  /\ IsFiniteSet(S \cup T)
         /\ Cardinality(S \cup T) = Cardinality(S) + Cardinality(T)
<1>1. Cardinality(S \cup T) = Cardinality(S) + Cardinality(T) - Cardinality({})
  BY FS_Union
<1>2. /\ Cardinality(S) \in Nat /\ Cardinality(T) \in Nat /\ Cardinality({}) = 0
  BY FS_CardinalityType, FS_EmptySet
<1>3. QED
  BY <1>1, <1>2, FS_Union

LEMMA SubsetRemoved ==
  ASSUME NEW S, IsFiniteSet(S), NEW T, T \subseteq S
  PROVE  Cardinality(S \ T) = Cardinality(S) - Cardinality(T)
<1>1. S \cap T = T
  OBVIOUS
<1>2. QED
  BY <1>1, FS_Difference

LEMMA CountsInit == Init => RunningCounts
<1> SUFFICES ASSUME Init PROVE RunningCounts
  OBVIOUS
<1>1. Steps = {} /\ {r \in Steps : r.idle} = {}
  BY DEF Init, Steps
<1>2. QED
  BY <1>1, FS_EmptySet, ConstantAssumption DEF Init, RunningCounts

\* The reports taken free their threads.
LEMMA CountsReports ==
  ASSUME Types, StepsInv, RunningCounts, TakeReports
  PROVE  RunningCounts'
<1>1. /\ reports' = {} /\ pool' = pool
      /\ running' = running - Cardinality(reports)
      /\ runningIdle' = runningIdle - Cardinality({r \in reports : r.idle})
  BY DEF TakeReports
<1>2. /\ Steps' = Steps \ reports /\ reports \subseteq Steps
      /\ IdleOf(Steps') = IdleOf(Steps) \ IdleOf(reports)
      /\ IdleOf(reports) \subseteq IdleOf(Steps)
  BY <1>1 DEF Steps, IdleOf, RunningCounts
<1>3. IsFiniteSet(Steps) /\ IsFiniteSet(IdleOf(Steps)) /\ IsFiniteSet(IdleOf(reports))
  BY FS_Union, FS_Subset DEF Types, Steps, IdleOf
<1>4. /\ Cardinality(Steps') = Cardinality(Steps) - Cardinality(reports)
      /\ Cardinality(IdleOf(Steps')) = Cardinality(IdleOf(Steps)) - Cardinality(IdleOf(reports))
  BY <1>2, <1>3, SubsetRemoved
<1>5. Cardinality(reports) \in Nat /\ Cardinality(IdleOf(reports)) \in Nat
  BY <1>3, FS_CardinalityType DEF Types
<1>6. running' = Cardinality(Steps') /\ runningIdle' = Cardinality(IdleOf(Steps'))
  BY <1>1, <1>4 DEF RunningCounts, IdleOf
<1>7. running' <= Threads /\ runningIdle' <= Threads - 1
  BY <1>1, <1>5, ConstantAssumption DEF RunningCounts, IdleOf, Types
<1>8. QED
  BY <1>1, <1>6, <1>7 DEF RunningCounts, IdleOf

\* The steps of a plan are new ones, and no more than fit.
LEMMA CountsStart ==
  ASSUME Types, StepsInv, RunningCounts, Start
  PROVE  RunningCounts'
<1>1. PICK p : StartsPlan(p)
  BY StartPlan
<1>2. /\ p.streams \subseteq Streams /\ p.idleSeeks \subseteq Streams
      /\ p.idleTasks \subseteq Tasks
      /\ \A s \in p.streams \cup p.idleSeeks : s \in Registered /\ ~inFlight[s]
      /\ \A t \in p.idleTasks : t \in RegisteredTasks /\ ~taskInFlight[t]
      /\ p.streams \cap p.idleSeeks = {}
  BY <1>1 DEF StartsPlan, WaitingStreams, WaitingTasks, Registered, RegisteredTasks
<1> DEFINE A == StreamSteps(p)
           B == IdleSeekSteps(p)
           C == TaskSteps(p)
<1>3. /\ IsFiniteSet(A) /\ IsFiniteSet(B) /\ IsFiniteSet(C)
      /\ Cardinality(A) = Cardinality(p.streams)
      /\ Cardinality(B) = Cardinality(p.idleSeeks)
      /\ Cardinality(C) = Cardinality(p.idleTasks)
      /\ \A r \in A : r.of \in p.streams /\ ~r.idle
      /\ \A r \in B : r.of \in p.idleSeeks /\ r.idle
      /\ \A r \in C : r.of \in p.idleTasks /\ r.idle
  BY <1>2, StepsMade
<1>4. /\ pool' = ((pool \cup A) \cup B) \cup C
      /\ running' = running + Cardinality(p.streams) + Cardinality(p.idleSeeks)
                            + Cardinality(p.idleTasks)
      /\ runningIdle' = runningIdle + Cardinality(p.idleSeeks) + Cardinality(p.idleTasks)
      /\ reports' = reports
  BY <1>1 DEF StartsPlan, StartSteps, StreamSteps, IdleSeekSteps, TaskSteps, Start
<1> HIDE DEF A, B, C
<1>5. \A r \in Steps : r.of \notin p.streams \cup p.idleSeeks \cup p.idleTasks
  BY <1>2 DEF StepsInv, StepsOnRegistered
<1>6. p.streams \cap p.idleTasks = {} /\ p.idleSeeks \cap p.idleTasks = {}
  BY <1>2, ConstantAssumption
<1>7. /\ Steps \cap A = {} /\ (Steps \cup A) \cap B = {}
      /\ ((Steps \cup A) \cup B) \cap C = {}
  BY <1>2, <1>3, <1>5, <1>6
<1>8. /\ Steps' = ((Steps \cup A) \cup B) \cup C
      /\ IdleOf(Steps') = (IdleOf(Steps) \cup B) \cup C
      /\ IdleOf(Steps) \cap B = {} /\ (IdleOf(Steps) \cup B) \cap C = {}
  BY <1>3, <1>4, <1>7 DEF Steps, IdleOf
<1>9. IsFiniteSet(Steps) /\ IsFiniteSet(IdleOf(Steps))
  BY FS_Union, FS_Subset DEF Types, Steps, IdleOf
<1>10. Cardinality(Steps') = Cardinality(Steps) + Cardinality(p.streams)
                              + Cardinality(p.idleSeeks) + Cardinality(p.idleTasks)
  <2> DEFINE U == Steps \cup A
             V == U \cup B
  <2>1. IsFiniteSet(U) /\ Cardinality(U) = Cardinality(Steps) + Cardinality(A)
    BY <1>3, <1>7, <1>9, DisjointUnion
  <2>2. U \cap B = {} /\ V \cap C = {} /\ Steps' = V \cup C
    BY <1>7, <1>8
  <2> HIDE DEF U
  <2>3. IsFiniteSet(V) /\ Cardinality(V) = Cardinality(U) + Cardinality(B)
    BY <1>3, <2>1, <2>2, DisjointUnion
  <2> HIDE DEF V
  <2>4. Cardinality(V \cup C) = Cardinality(V) + Cardinality(C)
    BY <1>3, <2>2, <2>3, DisjointUnion
  <2>5. QED
    BY <1>3, <2>1, <2>2, <2>3, <2>4
<1>11. Cardinality(IdleOf(Steps')) = Cardinality(IdleOf(Steps))
                              + Cardinality(p.idleSeeks) + Cardinality(p.idleTasks)
  <2> DEFINE U == IdleOf(Steps) \cup B
  <2>1. IsFiniteSet(U) /\ Cardinality(U) = Cardinality(IdleOf(Steps)) + Cardinality(B)
    BY <1>3, <1>8, <1>9, DisjointUnion
  <2>2. U \cap C = {} /\ IdleOf(Steps') = U \cup C
    BY <1>8
  <2> HIDE DEF U
  <2>3. Cardinality(U \cup C) = Cardinality(U) + Cardinality(C)
    BY <1>3, <2>1, <2>2, DisjointUnion
  <2>4. QED
    BY <1>3, <2>1, <2>2, <2>3
<1>12. running' = Cardinality(Steps') /\ runningIdle' = Cardinality(IdleOf(Steps'))
  BY <1>4, <1>10, <1>11 DEF RunningCounts, IdleOf
<1>13. running' <= Threads /\ runningIdle' <= Threads - 1
  <2>1. /\ running \in Int /\ runningIdle \in Int /\ Threads \in Int
        /\ running <= Threads /\ runningIdle <= Threads - 1
    BY ConstantAssumption DEF Types, RunningCounts
  <2>2. /\ Cardinality(p.streams) \in Nat /\ Cardinality(p.idleSeeks) \in Nat
        /\ Cardinality(p.idleTasks) \in Nat
        /\ Cardinality(p.streams) <= Threads - running
        /\ Cardinality(p.idleSeeks) + Cardinality(p.idleTasks) > 0 =>
             /\ Cardinality(p.streams) + (Cardinality(p.idleSeeks) + Cardinality(p.idleTasks))
                  <= Threads - running
             /\ Cardinality(p.idleSeeks) + Cardinality(p.idleTasks)
                  <= Threads - 1 - runningIdle
    BY <1>1, <2>1 DEF StartsPlan
  <2>3. QED
    BY <1>4, <2>1, <2>2
<1>14. pool' \cap reports' = {}
  BY <1>4, <1>7 DEF RunningCounts, Steps
<1>15. QED
  BY <1>12, <1>13, <1>14 DEF RunningCounts, IdleOf

\* A step that ends still counts until its report is taken.
LEMMA CountsWorker ==
  ASSUME Types, StepsInv, RunningCounts, NEW r \in pool, StepDone(r)
  PROVE  RunningCounts'
<1>1. PICK over \in BOOLEAN : reports' = reports \cup {[r EXCEPT !.over = over]}
  BY DEF StepDone
<1> DEFINE q == [r EXCEPT !.over = over]
<1>2. q.of = r.of /\ q.idle = r.idle
  BY DEF Types, Step
<1> HIDE DEF q
<1>3. /\ pool' = pool \ {r} /\ reports' = reports \cup {q}
      /\ UNCHANGED <<running, runningIdle>>
  BY <1>1 DEF StepDone, q
<1>4. r \in Steps /\ q \notin Steps \ {r}
  BY <1>2 DEF StepsInv, StepsOnRegistered, Steps
<1>5. Steps' = (Steps \ {r}) \cup {q}
  BY <1>3 DEF Steps, RunningCounts
<1>6. /\ IsFiniteSet(Steps) /\ IsFiniteSet(IdleOf(Steps))
      /\ Cardinality(Steps) \in Nat /\ Cardinality(IdleOf(Steps)) \in Nat
  <2>1. IsFiniteSet(Steps) /\ IsFiniteSet(IdleOf(Steps))
    BY FS_Union, FS_Subset DEF Types, Steps, IdleOf
  <2>2. QED
    BY <2>1, FS_CardinalityType
<1>7. Cardinality(Steps') = Cardinality(Steps)
  <2>1. IsFiniteSet(Steps \ {r}) /\ Cardinality(Steps \ {r}) = Cardinality(Steps) - 1
    BY <1>4, <1>6, FS_RemoveElement
  <2>2. Cardinality((Steps \ {r}) \cup {q}) = Cardinality(Steps \ {r}) + 1
    BY <1>4, <2>1, FS_AddElement
  <2>3. QED
    BY <1>5, <1>6, <2>1, <2>2
<1>8. Cardinality(IdleOf(Steps')) = Cardinality(IdleOf(Steps))
  <2>1. CASE r.idle
    <3>1. /\ IdleOf(Steps') = (IdleOf(Steps) \ {r}) \cup {q}
          /\ r \in IdleOf(Steps) /\ q \notin IdleOf(Steps) \ {r}
      BY <1>2, <1>4, <1>5, <2>1 DEF IdleOf
    <3>2. /\ IsFiniteSet(IdleOf(Steps) \ {r})
          /\ Cardinality(IdleOf(Steps) \ {r}) = Cardinality(IdleOf(Steps)) - 1
      BY <1>6, <3>1, FS_RemoveElement
    <3>3. Cardinality((IdleOf(Steps) \ {r}) \cup {q}) = Cardinality(IdleOf(Steps) \ {r}) + 1
      BY <3>1, <3>2, FS_AddElement
    <3>4. QED
      BY <1>6, <3>1, <3>2, <3>3
  <2>2. CASE ~r.idle
    <3>1. IdleOf(Steps') = IdleOf(Steps)
      BY <1>2, <1>4, <1>5, <2>2 DEF IdleOf
    <3>2. QED
      BY <3>1
  <2>3. QED
    BY <2>1, <2>2
<1>9. pool' \cap reports' = {}
  BY <1>3, <1>4 DEF RunningCounts, Steps
<1>10. QED
  BY <1>3, <1>7, <1>8, <1>9 DEF RunningCounts, IdleOf

\* Every other step leaves the steps and their counters alone, or comes after
\* the last of them.
LEMMA CountsOthers ==
  ASSUME RunningCounts,
         \/ UNCHANGED runVars
         \/ HandBackTasks
  PROVE  RunningCounts'
<1>1. CASE UNCHANGED runVars
  BY <1>1 DEF RunningCounts, runVars, Steps
<1>2. CASE HandBackTasks
  <2>1. /\ pool' = {} /\ reports' = {} /\ running' = 0 /\ runningIdle' = 0
    BY <1>2 DEF HandBackTasks
  <2>2. Steps' = {} /\ {r \in Steps' : r.idle} = {}
    BY <2>1 DEF Steps
  <2>3. QED
    BY <2>1, <2>2, FS_EmptySet, ConstantAssumption DEF RunningCounts
<1>3. QED
  BY <1>1, <1>2

\* There are never more steps than threads, and idle work leaves a thread for
\* a refill: the scheduler's counters are those of the steps that are out.
THEOREM RunningCounted == Spec => []RunningCounts
<1>1. Types /\ StepsInv /\ RunningCounts /\ [Next]_vars => RunningCounts'
  <2> SUFFICES ASSUME Types, StepsInv, RunningCounts, [Next]_vars PROVE RunningCounts'
    OBVIOUS
  <2>1. CASE Owner
    <3>1. UNCHANGED runVars \/ HandBackTasks
      BY <2>1 DEF Owner, AddGroup, RemoveGroup, HearSeekFinished, AddStream,
         RemoveStream, AddIdleTask, SetOutputRate, SetResampler, RemoveReturns,
         StopRequest
    <3>2. QED
      BY <3>1, CountsOthers
  <2>2. CASE Songs \/ Tick
    <3>1. UNCHANGED runVars
      BY <2>2 DEF Songs, Tick, SetPlaying, SetRecording, RequestSeek
    <3>2. QED
      BY <3>1, CountsOthers
  <2>3. CASE Scheduler
    <3>1. CASE Drain \/ TakeRequests \/ LoadSettings
      <4>1. UNCHANGED runVars
        BY <3>1 DEF Drain, TakeRequests, LoadSettings
      <4>2. QED
        BY <4>1, CountsOthers
    <3>2. QED
      BY <2>3, <3>1, CountsReports, CountsStart DEF Scheduler
  <2>4. CASE \E w \in Streams \cup Tasks : WorkerStep(w)
    BY <2>4, CountsWorker DEF WorkerStep
  <2>5. CASE UNCHANGED vars
    BY <2>5, CountsOthers DEF vars
  <2>6. QED
    BY <2>1, <2>2, <2>3, <2>4, <2>5 DEF Next, Finished
<1>2. QED
  BY <1>1, StepsInvHolds, CountsInit, PTL DEF Spec

\* The type invariant of the module: with the accounts, the counters are
\* natural numbers.
THEOREM TypesOK == Spec => []TypeOK
<1>1. Types /\ SeekInv /\ RunningCounts => TypeOK
  <2> SUFFICES ASSUME Types, SeekInv, RunningCounts PROVE TypeOK
    OBVIOUS
  <2>1. running \in Nat /\ runningIdle \in Nat
    <3>1. IsFiniteSet(Steps) /\ IsFiniteSet({r \in Steps : r.idle})
      BY FS_Union, FS_Subset DEF Types, Steps
    <3>2. QED
      BY <3>1, FS_CardinalityType DEF RunningCounts
  <2>2. seeksLeft \in [Groups -> Nat]
    <3>1. ASSUME NEW g \in Groups PROVE seeksLeft[g] \in Nat
      <4>1. IsFiniteSet(SeeksToCome(g))
        BY ConstantAssumption, FS_Subset DEF SeeksToCome
      <4>2. QED
        BY <4>1, FS_CardinalityType DEF SeekInv, SeekCounts
    <3>2. QED
      BY <3>1 DEF Types
  <2>3. QED
    BY <2>1, <2>2 DEF Types, TypeOK
<1>2. QED
  BY <1>1, SeekInvHolds, RunningCounted, PTL

-----------------------------------------------------------------------------
(* What a step may never do.                                               *)

\* As long as a stream of a playing song waits to seek, every thread is busy,
\* and a dispatch starts neither a refill nor idle work before it.
THEOREM PlayingSeeksFirst == Spec => PlayingSeekFirst
<1> DEFINE First ==
      pc = "start" /\ pc' = "wait" =>
        \A s \in Registered :
          seek'[s] /\ ~inFlight'[s] /\ Playing(s) =>
            /\ running' >= Threads
            /\ \A r \in pool' \ pool : r.seek /\ ~r.idle
<1>1. Types /\ [Next]_vars => First
  <2> SUFFICES ASSUME Types, [Next]_vars, pc = "start", pc' = "wait" PROVE First
    OBVIOUS
  <2>1. Start
    <3>1. CASE Owner
      BY <3>1 DEF Owner, AddGroup, RemoveGroup, HearSeekFinished, AddStream,
         RemoveStream, AddIdleTask, SetOutputRate, SetResampler, RemoveReturns,
         StopRequest, HandBackTasks
    <3>2. CASE Songs \/ Tick
      BY <3>2 DEF Songs, Tick, SetPlaying, SetRecording, RequestSeek
    <3>3. CASE Scheduler
      BY <3>3 DEF Scheduler, Drain, TakeRequests, TakeReports, LoadSettings
    <3>4. CASE \E w \in Streams \cup Tasks : WorkerStep(w)
      BY <3>4 DEF WorkerStep, StepDone
    <3>5. CASE UNCHANGED vars
      BY <3>5 DEF vars
    <3>6. QED
      BY <3>1, <3>2, <3>3, <3>4, <3>5 DEF Next, Finished
  <2>2. PICK p : StartsPlan(p)
    BY <2>1, StartPlan
  <2>3. /\ p.streams \subseteq Streams /\ p.idleSeeks \subseteq Streams
        /\ p.idleTasks \subseteq Tasks
    BY <2>2 DEF StartsPlan, WaitingStreams, WaitingTasks, Registered, RegisteredTasks
  <2>4. /\ pool' = ((pool \cup StreamSteps(p)) \cup IdleSeekSteps(p)) \cup TaskSteps(p)
        /\ running' = running + Cardinality(p.streams) + Cardinality(p.idleSeeks)
                              + Cardinality(p.idleTasks)
        /\ inFlight' = [s \in Streams |-> inFlight[s] \/ s \in p.streams \cup p.idleSeeks]
    BY <2>2 DEF StartsPlan, StartSteps, StreamSteps, IdleSeekSteps, TaskSteps
  <2>5. seek' = [s \in Streams |-> SeekToCome(s)]
    BY <2>1 DEF Start, TakeSeekRequests
  <2>6. ASSUME NEW s \in Registered, seek'[s], ~inFlight'[s], Playing(s)
        PROVE  running' >= Threads /\ \A r \in pool' \ pool : r.seek /\ ~r.idle
    <3>1. s \in WaitingStreams \ p.streams /\ SeekToCome(s)
      BY <2>4, <2>5, <2>6 DEF WaitingStreams, Registered
    <3>2. /\ Cardinality(p.streams) >= Threads - running
          /\ \A q \in p.streams : SeekToCome(q)
          /\ p.idleSeeks = {} /\ p.idleTasks = {}
      BY <2>2, <2>6, <3>1 DEF StartsPlan
    <3>3. running' >= Threads
      <4>1. /\ Cardinality(p.streams) \in Nat /\ Cardinality(p.idleSeeks) \in Nat
            /\ Cardinality(p.idleTasks) \in Nat
            /\ running \in Int /\ Threads \in Int
        BY <2>2, ConstantAssumption DEF StartsPlan, Types
      <4>2. QED
        BY <2>4, <3>2, <4>1
    <3>4. ASSUME NEW r \in pool' \ pool PROVE r.seek /\ ~r.idle
      <4>1. r \in StreamSteps(p)
        BY <2>4, <3>2 DEF IdleSeekSteps, TaskSteps
      <4>2. PICK q \in p.streams : r = StepOf(q, SeekToCome(q), FALSE)
        BY <4>1 DEF StreamSteps
      <4>3. r.seek = SeekToCome(q) /\ r.idle = FALSE
        BY <4>2 DEF StepOf
      <4>4. QED
        BY <3>2, <4>3
    <3>5. QED
      BY <3>3, <3>4
  <2>7. QED
    BY <2>6
<1>2. Types /\ [Next]_vars => [First]_vars
  BY <1>1
<1>3. QED
  BY <1>2, TypesHold, PTL DEF Spec, PlayingSeekFirst

\* Only the step itself gives a stream another resampler while its step runs:
\* the decoder is never changed under the worker that reads with it.
THEOREM ResamplersBetweenSteps == Spec => ResamplerBetweenSteps
<1> DEFINE Between == \A s \in Streams : readsWith'[s] # readsWith[s] =>
                        \A r \in pool \cap pool' : r.of # s
<1>1. Types /\ StepsInv /\ [Next]_vars => Between
  <2> SUFFICES ASSUME Types, StepsInv, [Next]_vars,
                      NEW s \in Streams, readsWith'[s] # readsWith[s],
                      NEW r \in pool, r \in pool', r.of = s
               PROVE  FALSE
    OBVIOUS
  <2>1. streamAt[s] = "scheduler" /\ inFlight[s] /\ s \notin Reported
    BY DEF StepsInv, StepsOnRegistered, Steps, Registered, Reported
  <2>2. CASE Owner
    <3>1. ASSUME NEW u \in Streams, AddStream(u) PROVE FALSE
      BY <2>1, <3>1 DEF AddStream, Types
    <3>2. ASSUME UNCHANGED readsWith PROVE FALSE
      BY <3>2
    <3>3. QED
      BY <2>2, <3>1, <3>2
         DEF Owner, AddGroup, RemoveGroup, HearSeekFinished, RemoveStream, AddIdleTask,
             SetOutputRate, SetResampler, RemoveReturns, StopRequest, HandBackTasks, workVars
  <2>3. CASE Songs \/ Tick
    BY <2>3 DEF Songs, Tick, SetPlaying, SetRecording, RequestSeek, workVars
  <2>4. CASE Scheduler
    <3>1. CASE Drain \/ TakeRequests \/ LoadSettings
      BY <3>1 DEF Drain, TakeRequests, LoadSettings, workVars
    <3>2. CASE TakeReports
      BY <2>1, <3>2 DEF TakeReports
    <3>3. CASE Start
      BY <2>1, <3>3 DEF Start, ApplyResampler
    <3>4. QED
      BY <2>4, <3>1, <3>2, <3>3 DEF Scheduler
  <2>5. ASSUME NEW q \in pool, StepDone(q) PROVE FALSE
    <3>1. s = q.of
      BY <2>5 DEF StepDone
    <3>2. q = r
      BY <3>1 DEF StepsInv, StepsOnRegistered, Steps
    <3>3. QED
      BY <2>5, <3>2 DEF StepDone
  <2>6. CASE UNCHANGED vars
    BY <2>6 DEF vars, workVars
  <2>7. QED
    BY <2>2, <2>3, <2>4, <2>5, <2>6 DEF Next, WorkerStep, Finished
<1>2. Types /\ StepsInv /\ [Next]_vars => [Between]_vars
  BY <1>1
<1>3. QED
  BY <1>2, StepsInvHolds, PTL DEF Spec, ResamplerBetweenSteps

-----------------------------------------------------------------------------
(* The planner, for any number of streams and tasks: what sorting, cutting *)
(* and rotating promise.                                                   *)

\* ahead orders S: of two elements one is ahead of the other.
Orders(ahead, S) ==
  /\ \A x \in S : <<x, x>> \notin ahead
  /\ \A x, y \in S : x # y => <<x, y>> \in ahead \/ <<y, x>> \in ahead
  /\ \A x, y, z \in S : <<x, y>> \in ahead /\ <<y, z>> \in ahead => <<x, z>> \in ahead

\* A finite set can be sorted: an element's place is the number of those
\* ahead of it, and no two have the same place.
LEMMA SortedExists ==
  ASSUME NEW S, IsFiniteSet(S), NEW ahead, Orders(ahead, S)
  PROVE  \E s \in SetToSeqs(S) :
           \A i, j \in 1..Cardinality(S) : i < j => <<s[i], s[j]>> \in ahead
<1> DEFINE n == Cardinality(S)
           below == [x \in S |-> {y \in S : <<y, x>> \in ahead}]
           place == [x \in S |-> Cardinality(below[x]) + 1]
<1>1. n \in Nat
  BY FS_CardinalityType
<1>2. ASSUME NEW x \in S
      PROVE  /\ IsFiniteSet(below[x]) /\ Cardinality(below[x]) \in Nat
             /\ place[x] \in 1..n
  <2>1. below[x] \in SUBSET S /\ x \notin below[x]
    BY DEF Orders
  <2>2. IsFiniteSet(below[x]) /\ Cardinality(below[x]) <= n
        /\ Cardinality(below[x]) # n
    BY <2>1, FS_Subset
  <2>3. Cardinality(below[x]) \in Nat
    BY <2>2, FS_CardinalityType
  <2>4. QED
    BY <1>1, <2>2, <2>3
<1>3. ASSUME NEW x \in S, NEW y \in S, <<x, y>> \in ahead
      PROVE  place[x] < place[y]
  <2>1. below[x] \in SUBSET below[y] /\ x \in below[y] /\ x \notin below[x]
    BY <1>3 DEF Orders
  <2>2. Cardinality(below[x]) <= Cardinality(below[y])
        /\ Cardinality(below[x]) # Cardinality(below[y])
    BY <1>2, <2>1, FS_Subset
  <2>3. Cardinality(below[x]) \in Nat /\ Cardinality(below[y]) \in Nat
        /\ place[x] = Cardinality(below[x]) + 1 /\ place[y] = Cardinality(below[y]) + 1
    BY <1>2
  <2>4. QED
    BY <2>2, <2>3
<1>4. place \in Injection(S, 1..n)
  <2>1. place \in [S -> 1..n]
    BY <1>2
  <2>2. \A x, y \in S : place[x] = place[y] => x = y
    <3>1. SUFFICES ASSUME NEW x \in S, NEW y \in S, place[x] = place[y], x # y
                   PROVE  FALSE
      OBVIOUS
    <3>2. place[x] < place[y] \/ place[y] < place[x]
      BY <1>3, <3>1 DEF Orders
    <3>3. place[x] \in 1..n /\ place[y] \in 1..n
      BY <1>2
    <3>4. QED
      BY <1>1, <3>1, <3>2, <3>3
  <2>3. QED
    BY <2>1, <2>2 DEF Injection, IsInjective
<1> HIDE DEF below, place
<1>5. IsFiniteSet(1..n) /\ Cardinality(1..n) = n
  BY <1>1, FS_Interval
<1>6. place \in Surjection(S, 1..n)
  BY <1>4, <1>5, FS_Injection
<1>7. \A i \in 1..n : \E x \in S : place[x] = i
  BY <1>6 DEF Surjection
<1> DEFINE s == [i \in 1..n |-> CHOOSE x \in S : place[x] = i]
<1>8. \A i \in 1..n : s[i] \in S /\ place[s[i]] = i
  BY <1>7
<1>9. s \in SetToSeqs(S)
  BY <1>8 DEF SetToSeqs
<1>10. ASSUME NEW i \in 1..n, NEW j \in 1..n, i < j
       PROVE  <<s[i], s[j]>> \in ahead
  <2>1. s[i] \in S /\ s[j] \in S /\ place[s[i]] = i /\ place[s[j]] = j
    BY <1>8
  <2>2. i \in Int /\ j \in Int
    BY <1>1
  <2>3. ~ (<<s[j], s[i]>> \in ahead)
    BY <1>3, <1>10, <2>1, <2>2
  <2>4. s[i] # s[j]
    BY <1>10, <2>1, <2>2
  <2>5. QED
    BY <2>1, <2>3, <2>4 DEF Orders
<1>11. QED
  BY <1>9, <1>10

\* s lists each element of S once.
Lists(s, S) ==
  /\ s \in [1..Cardinality(S) -> S]
  /\ \A i, j \in 1..Cardinality(S) : s[i] = s[j] => i = j
  /\ \A x \in S : \E i \in 1..Cardinality(S) : s[i] = x

LEMMA SeqsList ==
  ASSUME NEW S, IsFiniteSet(S), NEW s \in SetToSeqs(S)
  PROVE  Lists(s, S)
<1> DEFINE n == Cardinality(S)
<1>1. n \in Nat
  BY FS_CardinalityType
<1>2. s \in [1..n -> S] /\ \A i, j \in 1..n : s[i] = s[j] => i = j
  BY DEF SetToSeqs
<1>3. s \in Injection(1..n, S)
  BY <1>2 DEF Injection, IsInjective
<1>4. IsFiniteSet(1..n) /\ Cardinality(1..n) = n
  BY <1>1, FS_Interval
<1>5. s \in Surjection(1..n, S)
  BY <1>3, <1>4, FS_Injection
<1>6. QED
  BY <1>2, <1>5 DEF Lists, Surjection

\* What is arranged by index lists the set, the lower before the higher.
LEMMA ArrangedByIndex ==
  ASSUME NEW n \in Nat, NEW S \in SUBSET (1..n)
  PROVE  /\ IsFiniteSet(S) /\ Cardinality(S) \in Nat
         /\ Lists(Arranged(S, <), S)
         /\ \A i, j \in 1..Cardinality(S) :
              i < j => Arranged(S, <)[i] < Arranged(S, <)[j]
<1> DEFINE ahead == {p \in S \X S : p[1] < p[2]}
<1>1. IsFiniteSet(S) /\ Cardinality(S) \in Nat
  <2>1. IsFiniteSet(1..n)
    BY FS_Interval
  <2>2. QED
    BY <2>1, FS_Subset, FS_CardinalityType
<1>2. \A x, y \in S : x \in Int /\ (<<x, y>> \in ahead <=> x < y)
  OBVIOUS
<1>3. Orders(ahead, S)
  BY <1>2 DEF Orders
<1>4. PICK s \in SetToSeqs(S) :
        \A i, j \in 1..Cardinality(S) : i < j => <<s[i], s[j]>> \in ahead
  BY <1>1, <1>3, SortedExists
<1>5. \A i, j \in 1..Cardinality(S) : i < j => s[i] < s[j]
  BY <1>4
<1>6. /\ Arranged(S, <) \in SetToSeqs(S)
      /\ \A i, j \in 1..Cardinality(S) :
           i < j => Arranged(S, <)[i] < Arranged(S, <)[j]
  BY <1>5 DEF Arranged
<1>7. QED
  BY <1>1, <1>6, SeqsList

\* The same by fill, and by index among those of one fill.
LEMMA ArrangedByFill ==
  ASSUME NEW n \in Nat, NEW streams, NEW indices,
         ToSet(indices) \in SUBSET (1..n),
         \A i \in ToSet(indices) : streams[i].fill \in Int
  PROVE  LET s == EmptiestFirst(streams, indices)
             S == ToSet(indices)
         IN /\ Lists(s, S)
            /\ \A i, j \in 1..Cardinality(S) : i < j =>
                 \/ streams[s[i]].fill < streams[s[j]].fill
                 \/ streams[s[i]].fill = streams[s[j]].fill /\ s[i] < s[j]
<1> DEFINE S == ToSet(indices)
<1>3. \A x, y \in S : x \in Int /\ streams[x].fill \in Int
  OBVIOUS
<1> DEFINE Ahead(i, j) == \/ streams[i].fill < streams[j].fill
                          \/ streams[i].fill = streams[j].fill /\ i < j
           ahead == {p \in S \X S : Ahead(p[1], p[2])}
<1>1. IsFiniteSet(S) /\ Cardinality(S) \in Nat
  <2>1. IsFiniteSet(1..n)
    BY FS_Interval
  <2>2. QED
    BY <2>1, FS_Subset, FS_CardinalityType
<1>2. \A x, y \in S : <<x, y>> \in ahead <=> Ahead(x, y)
  OBVIOUS
<1>4. Orders(ahead, S)
  <2>1. \A x \in S : ~Ahead(x, x)
    BY <1>3
  <2>2. \A x, y \in S : x # y => Ahead(x, y) \/ Ahead(y, x)
    BY <1>3
  <2>3. \A x, y, z \in S : Ahead(x, y) /\ Ahead(y, z) => Ahead(x, z)
    BY <1>3
  <2> HIDE DEF Ahead, ahead
  <2>4. QED
    BY <1>2, <2>1, <2>2, <2>3 DEF Orders
<1>5. PICK s \in SetToSeqs(S) :
        \A i, j \in 1..Cardinality(S) : i < j => <<s[i], s[j]>> \in ahead
  BY <1>1, <1>4, SortedExists
<1>6. \A i, j \in 1..Cardinality(S) : i < j => Ahead(s[i], s[j])
  <2>1. \A i \in 1..Cardinality(S) : s[i] \in S
    BY DEF SetToSeqs
  <2> HIDE DEF Ahead, ahead
  <2>2. QED
    BY <1>2, <1>5, <2>1
<1> DEFINE t == EmptiestFirst(streams, indices)
<1>7. t \in SetToSeqs(S)
      /\ \A i, j \in 1..Cardinality(S) : i < j => Ahead(t[i], t[j])
  <2>1. t = CHOOSE q \in SetToSeqs(S) :
              \A i, j \in 1..Cardinality(S) : i < j => Ahead(q[i], q[j])
    BY DEF EmptiestFirst, Arranged
  <2> HIDE DEF t, Ahead
  <2>2. QED
    BY <1>6, <2>1
<1>8. Lists(t, S)
  BY <1>1, <1>7, SeqsList
<1>9. QED
  BY <1>7, <1>8

\* What is listed is a sequence of as many elements.
LEMMA ListedSeq ==
  ASSUME NEW S, NEW s, Lists(s, S), Cardinality(S) \in Nat
  PROVE  s \in Seq(S) /\ Len(s) = Cardinality(S) /\ ToSet(s) = S
<1>1. s \in Seq(S) /\ Len(s) = Cardinality(S)
  BY DEF Lists
<1>2. ToSet(s) = S
  BY <1>1 DEF Lists, ToSet
<1>3. QED
  BY <1>1, <1>2

\* Nothing is in s twice.
Once(s) == \A i, j \in 1..Len(s) : s[i] = s[j] => i = j

\* t is the beginning of s, of n elements at most.
IsBeginning(t, s, n) ==
  /\ Len(t) = IF Len(s) <= n THEN Len(s) ELSE n
  /\ Len(t) \in 0..Len(s)
  /\ \A i \in 1..Len(t) : i \in 1..Len(s) /\ t[i] = s[i]
  /\ \A x : x \in ToSet(t) <=> \E i \in 1..Len(t) : x = s[i]
  /\ Cardinality(ToSet(t)) = Len(t)

LEMMA CutIsBeginning ==
  ASSUME NEW T, NEW s \in Seq(T), NEW n \in Nat, Once(s)
  PROVE  Truncate(s, n) \in Seq(T) /\ IsBeginning(Truncate(s, n), s, n)
<1> DEFINE t == Truncate(s, n)
           m == IF Len(s) <= n THEN Len(s) ELSE n
<1>1. Min({Len(s), n}) = m /\ m \in 0..Len(s)
  BY MinOfTwo
<1>2. t = SubSeq(s, 1, m)
  BY <1>1 DEF Truncate
<1> HIDE DEF m
<1>3. t \in Seq(T) /\ Len(t) = m /\ \A i \in 1..m : t[i] = s[i]
  BY <1>1, <1>2
<1>4. ToSet(t) = {s[i] : i \in 1..m}
  BY <1>3 DEF ToSet
<1>5. IsFiniteSet(1..m) /\ Cardinality(1..m) = m
  BY <1>1, FS_Interval
<1>6. \A i, j \in 1..m : s[i] = s[j] => i = j
  BY <1>1 DEF Once
<1>7. Cardinality({s[i] : i \in 1..m}) = m
  <2> DEFINE W == 1..m
  <2>1. IsFiniteSet(W) /\ Cardinality(W) = m /\ \A i, j \in W : s[i] = s[j] => i = j
    BY <1>5, <1>6
  <2> HIDE DEF W
  <2>2. Cardinality({s[i] : i \in W}) = Cardinality(W)
    BY <2>1, ImageCardinality
  <2>3. QED
    BY <2>1, <2>2 DEF W
<1> HIDE DEF t
<1>8. \A x : x \in ToSet(t) <=> \E i \in 1..Len(t) : x = s[i]
  BY <1>3, <1>4
<1>9. Cardinality(ToSet(t)) = Len(t)
  BY <1>3, <1>4, <1>7
<1>10. \A i \in 1..Len(t) : i \in 1..Len(s) /\ t[i] = s[i]
  BY <1>1, <1>3
<1>11. Len(t) = (IF Len(s) <= n THEN Len(s) ELSE n) /\ Len(t) \in 0..Len(s)
  BY <1>1, <1>3 DEF m
<1>12. QED
  BY <1>3, <1>8, <1>9, <1>10, <1>11 DEF t, IsBeginning

\* The parts of a plan: playing seeks and stopped ones in the order they came,
\* the streams that wait in the order they start.
SeeksInTurn(st) == Collect(st, LAMBDA s : s.seekPending /\ s.playing)
StoppedInTurn(st) == Collect(st, LAMBDA s : s.seekPending /\ ~s.playing)
RefillsInTurn(st) == Collect(st, LAMBDA s : ~s.seekPending /\ s.needsWork)
StreamsInTurn(st) == SeeksInTurn(st) \o EmptiestFirst(st, RefillsInTurn(st))

LEMMA CollectedInTurn ==
  ASSUME NEW st \in Seq(StreamState)
  PROVE  /\ \A S \in {PlayingSeeks(st), StoppedSeeks(st), Refills(st)} :
              /\ S \in SUBSET (1..Len(st))
              /\ IsFiniteSet(S) /\ Cardinality(S) \in Nat
              /\ Lists(Arranged(S, <), S)
              /\ \A i, j \in 1..Cardinality(S) :
                   i < j => Arranged(S, <)[i] < Arranged(S, <)[j]
         /\ SeeksInTurn(st) = Arranged(PlayingSeeks(st), <)
         /\ StoppedInTurn(st) = Arranged(StoppedSeeks(st), <)
         /\ RefillsInTurn(st) = Arranged(Refills(st), <)
<1>1. DOMAIN st = 1..Len(st) /\ Len(st) \in Nat
  OBVIOUS
<1>2. \A S \in {PlayingSeeks(st), StoppedSeeks(st), Refills(st)} :
        S \in SUBSET (1..Len(st))
  BY <1>1 DEF PlayingSeeks, StoppedSeeks, Refills
<1>3. /\ SeeksInTurn(st) = Arranged(PlayingSeeks(st), <)
      /\ StoppedInTurn(st) = Arranged(StoppedSeeks(st), <)
      /\ RefillsInTurn(st) = Arranged(Refills(st), <)
  <2>1. /\ PlayingSeeks(st) = {i \in 1..Len(st) : st[i].seekPending /\ st[i].playing}
        /\ StoppedSeeks(st) = {i \in 1..Len(st) : st[i].seekPending /\ ~st[i].playing}
        /\ Refills(st) = {i \in 1..Len(st) : ~st[i].seekPending /\ st[i].needsWork}
    BY <1>1 DEF PlayingSeeks, StoppedSeeks, Refills
  <2>2. SeeksInTurn(st) = Arranged(PlayingSeeks(st), <)
    BY <2>1, Zenon DEF SeeksInTurn, Collect
  <2>3. StoppedInTurn(st) = Arranged(StoppedSeeks(st), <)
    BY <2>1, Zenon DEF StoppedInTurn, Collect
  <2>4. RefillsInTurn(st) = Arranged(Refills(st), <)
    BY <2>1, Zenon DEF RefillsInTurn, Collect
  <2>5. QED
    BY <2>2, <2>3, <2>4
<1>4. QED
  BY <1>1, <1>2, <1>3, ArrangedByIndex

\* Streams alike: two seeks, or two refills of rings equally full.
Alike(st, a, b) ==
  /\ st[a].seekPending = st[b].seekPending
  /\ st[a].seekPending \/ st[a].fill = st[b].fill

\* The streams that wait, seeks and refills, come once each and in order.
LEMMA WaitingInTurn ==
  ASSUME NEW st \in Seq(StreamState)
  PROVE  LET w == StreamsInTurn(st)
             waiting == PlayingSeeks(st) \cup Refills(st)
         IN /\ IsFiniteSet(waiting) /\ Cardinality(waiting) \in Nat
            /\ w \in Seq(waiting) /\ Len(w) = Cardinality(waiting)
            /\ \A i, j \in 1..Len(w) : w[i] = w[j] => i = j
            /\ \A a \in waiting : \E i \in 1..Len(w) : w[i] = a
            /\ \A i, j \in 1..Len(w) : i < j =>
                 /\ ~Before(st, w[j], w[i])
                 /\ Alike(st, w[i], w[j]) => w[i] < w[j]
<1> DEFINE P == PlayingSeeks(st)
           R == Refills(st)
           u == SeeksInTurn(st)
           r == RefillsInTurn(st)
           v == EmptiestFirst(st, r)
           w == StreamsInTurn(st)
           waiting == P \cup R
           p == Cardinality(P)
           q == Cardinality(R)
<1>1. /\ P \in SUBSET (1..Len(st)) /\ IsFiniteSet(P) /\ p \in Nat
      /\ R \in SUBSET (1..Len(st)) /\ IsFiniteSet(R) /\ q \in Nat
      /\ Len(st) \in Nat
  BY CollectedInTurn
<1>2. Lists(u, P) /\ \A i, j \in 1..p : i < j => u[i] < u[j]
  BY CollectedInTurn
<1>3. ToSet(r) = R
  BY <1>1, CollectedInTurn, ListedSeq
<1>4. \A i \in 1..Len(st) : st[i].fill \in Int
  <2>1. \A i \in 1..Len(st) : st[i] \in StreamState
    OBVIOUS
  <2>2. ASSUME NEW x \in StreamState PROVE x.fill \in Int
    <3>1. x.fill \in 0..100
      BY DEF StreamState
    <3>2. \A n \in 0..100 : n \in Int
      OBVIOUS
    <3>3. QED
      BY <3>1, <3>2
  <2>3. QED
    BY <2>1, <2>2
<1>5. /\ Lists(v, R)
      /\ \A i, j \in 1..q : i < j =>
           \/ st[v[i]].fill < st[v[j]].fill
           \/ st[v[i]].fill = st[v[j]].fill /\ v[i] < v[j]
  <2>1. \A i \in ToSet(r) : st[i].fill \in Int
    BY <1>1, <1>3, <1>4
  <2> HIDE DEF P, R, r, v
  <2>2. /\ Lists(EmptiestFirst(st, r), R)
        /\ \A i, j \in 1..q : i < j =>
           LET s == EmptiestFirst(st, r) IN
           \/ st[s[i]].fill < st[s[j]].fill
           \/ st[s[i]].fill = st[s[j]].fill /\ s[i] < s[j]
    BY <1>1, <1>3, <2>1, ArrangedByFill
  <2>3. QED
    BY <2>2 DEF v
<1>6. \A a \in P, b \in R : st[a].seekPending /\ st[a].playing /\ ~st[b].seekPending
                            /\ a # b
  BY DEF PlayingSeeks, Refills
<1>7. \A a \in P : st[a].seekPending
  BY DEF PlayingSeeks
<1>8. \A b \in R : ~st[b].seekPending
  BY DEF Refills
<1>9. w = u \o v
  BY DEF StreamsInTurn
<1>10. \A a, b \in waiting : Before(st, a, b) <=>
          \/ a \in P /\ b \in R
          \/ a \in R /\ b \in R /\ st[a].fill < st[b].fill
  BY DEF Before
<1>11. \A a \in waiting : st[a].fill \in Int /\ a \in Int
  BY <1>1, <1>4
<1>12. IsFiniteSet(waiting) /\ Cardinality(waiting) = p + q
  <2>1. P \cap R = {}
    BY <1>6
  <2>2. Cardinality(P \cup R) = p + q - Cardinality(P \cap R) /\ IsFiniteSet(P \cup R)
    BY <1>1, FS_Union
  <2>3. Cardinality(P \cap R) = 0
    BY <2>1, FS_EmptySet
  <2> HIDE DEF P, R
  <2>4. QED
    BY <1>1, <2>2, <2>3
<1> HIDE DEF P, R, u, r, v, w
<1>13. u \in Seq(P) /\ Len(u) = p /\ v \in Seq(R) /\ Len(v) = q
  BY <1>1, <1>2, <1>5, ListedSeq DEF p, q
<1>14. /\ u \in Seq(waiting) /\ v \in Seq(waiting)
       /\ w \in Seq(waiting) /\ Len(w) = p + q
       /\ \A i \in 1..(p + q) : w[i] = IF i <= p THEN u[i] ELSE v[i - p]
  <2>1. P \subseteq waiting /\ R \subseteq waiting
    OBVIOUS
  <2> HIDE DEF p, q, waiting
  <2>2. u \in Seq(waiting) /\ v \in Seq(waiting)
    BY <1>13, <2>1
  <2>3. w \in Seq(waiting) /\ Len(w) = p + q
    <3>1. w \in Seq(waiting)
      BY <1>9, <2>2
    <3>2. Len(w) = Len(u) + Len(v)
      BY <1>9, <2>2
    <3>3. QED
      BY <1>13, <3>1, <3>2
  <2>4. \A i \in 1..(p + q) : w[i] = IF i <= p THEN u[i] ELSE v[i - p]
    BY <1>9, <1>13, <2>2
  <2>5. QED
    BY <2>2, <2>3, <2>4
<1>15. \A i \in 1..p : u[i] \in P
  BY <1>2 DEF Lists
<1>16. \A i \in 1..q : v[i] \in R
  BY <1>5 DEF Lists
<1> HIDE DEF p, q
<1>17. ASSUME NEW i \in 1..(p + q)
       PROVE  \/ i <= p /\ i \in 1..p /\ w[i] = u[i] /\ w[i] \in P
              \/ i > p /\ i - p \in 1..q /\ w[i] = v[i - p] /\ w[i] \in R
  <2>1. p \in Nat /\ q \in Nat
    BY <1>1
  <2>2. CASE i <= p
    BY <1>14, <1>15, <2>1, <2>2
  <2>3. CASE i > p
    BY <1>14, <1>16, <2>1, <2>3
  <2>4. QED
    BY <2>1, <2>2, <2>3
<1>18. \A i, j \in 1..(p + q) : w[i] = w[j] => i = j
  <2>1. \A i, j \in 1..p : u[i] = u[j] => i = j
    BY <1>2 DEF Lists, p
  <2>2. \A i, j \in 1..q : v[i] = v[j] => i = j
    BY <1>5 DEF Lists, q
  <2>3. p \in Nat /\ q \in Nat
    BY <1>1
  <2>4. SUFFICES ASSUME NEW i \in 1..(p + q), NEW j \in 1..(p + q), w[i] = w[j]
                 PROVE  i = j
    OBVIOUS
  <2>5. CASE i <= p /\ j <= p
    BY <1>17, <2>1, <2>3, <2>4, <2>5
  <2>6. CASE i > p /\ j > p
    <3>1. i - p = j - p
      BY <1>17, <2>2, <2>3, <2>4, <2>6
    <3>2. QED
      BY <2>3, <3>1
  <2>7. QED
    BY <1>6, <1>17, <2>3, <2>4, <2>5, <2>6
<1>19. \A a \in waiting : \E i \in 1..(p + q) : w[i] = a
  <2>1. p \in Nat /\ q \in Nat
    BY <1>1
  <2>2. ASSUME NEW a \in P PROVE \E i \in 1..(p + q) : w[i] = a
    <3>1. PICK i \in 1..p : u[i] = a
      BY <1>2 DEF Lists, p
    <3>2. i \in 1..(p + q) /\ i <= p
      BY <2>1
    <3>3. QED
      BY <1>14, <3>1, <3>2
  <2>3. ASSUME NEW a \in R PROVE \E i \in 1..(p + q) : w[i] = a
    <3>1. PICK i \in 1..q : v[i] = a
      BY <1>5 DEF Lists, q
    <3>2. i + p \in 1..(p + q) /\ ~ (i + p <= p) /\ (i + p) - p = i
      BY <2>1
    <3>3. w[i + p] = a
      BY <1>14, <3>1, <3>2
    <3>4. QED
      BY <3>2, <3>3
  <2>4. QED
    BY <2>2, <2>3
<1>20. ASSUME NEW i \in 1..(p + q), NEW j \in 1..(p + q), i < j
       PROVE  /\ ~Before(st, w[j], w[i])
              /\ Alike(st, w[i], w[j]) => w[i] < w[j]
  <2>1. p \in Nat /\ q \in Nat
    BY <1>1
  <2>2. w[i] \in waiting /\ w[j] \in waiting
    BY <1>17
  <2>3. CASE j <= p
    <3>1. w[i] \in P /\ w[j] \in P /\ w[i] = u[i] /\ w[j] = u[j] /\ i \in 1..p /\ j \in 1..p
      BY <1>17, <1>20, <2>1, <2>3
    <3>2. u[i] < u[j]
      BY <1>2, <1>20, <3>1 DEF p
    <3>3. w[i] \notin R /\ w[j] \notin R
      BY <1>7, <1>8, <3>1
    <3>4. QED
      BY <1>10, <2>2, <3>1, <3>2, <3>3
  <2>4. CASE i <= p /\ j > p
    <3>1. w[i] \in P /\ w[j] \in R
      BY <1>17, <2>1, <2>4
    <3>2. w[i] \notin R /\ w[j] \notin P
      BY <1>7, <1>8, <3>1
    <3>3. ~Before(st, w[j], w[i])
      BY <1>10, <2>2, <3>1, <3>2
    <3>4. ~Alike(st, w[i], w[j])
      <4>1. st[w[i]].seekPending # st[w[j]].seekPending
        BY <1>7, <1>8, <3>1
      <4>2. QED
        BY <4>1 DEF Alike
    <3>5. QED
      BY <3>3, <3>4
  <2>5. CASE i > p
    <3>1. /\ w[i] \in R /\ w[j] \in R /\ w[i] = v[i - p] /\ w[j] = v[j - p]
          /\ i - p \in 1..q /\ j - p \in 1..q /\ i - p < j - p
      BY <1>17, <1>20, <2>1, <2>5
    <3>2. \/ st[w[i]].fill < st[w[j]].fill
          \/ st[w[i]].fill = st[w[j]].fill /\ w[i] < w[j]
      BY <1>5, <3>1 DEF q
    <3>3. ~ (st[w[j]].fill < st[w[i]].fill)
      BY <1>11, <2>2, <3>2
    <3>4. w[i] \notin P /\ w[j] \notin P /\ ~st[w[i]].seekPending
      BY <1>7, <1>8, <3>1
    <3>5. Alike(st, w[i], w[j]) => w[i] < w[j]
      <4>1. SUFFICES ASSUME st[w[i]].fill = st[w[j]].fill PROVE w[i] < w[j]
        BY <3>4 DEF Alike
      <4>2. st[w[i]].fill \in Int /\ st[w[j]].fill \in Int
        BY <1>11, <2>2
      <4>3. QED
        BY <3>2, <4>1, <4>2
    <3>6. QED
      BY <1>10, <2>2, <3>3, <3>4, <3>5
  <2>6. QED
    BY <2>1, <2>3, <2>4, <2>5
<1>21. QED
  BY <1>1, <1>12, <1>14, <1>18, <1>19, <1>20 DEF w, P, R, p, q

\* A finite set of natural numbers that is not empty has a greatest one: the
\* one with the fewest above it.
LEMMA GreatestNatural ==
  ASSUME NEW S, S \subseteq Nat, S # {}, IsFiniteSet(S)
  PROVE  Max(S) \in S /\ \A y \in S : y <= Max(S)
<1> DEFINE above(x) == {y \in S : y > x}
           counts == {k \in Nat : \E x \in S : k = Cardinality(above(x))}
<1>1. \A x \in S : IsFiniteSet(above(x)) /\ Cardinality(above(x)) \in Nat
  BY FS_Subset, FS_CardinalityType
<1>2. counts \subseteq Nat /\ counts # {}
  BY <1>1
<1>3. PICK k \in counts : \A j \in counts : k <= j
  BY <1>2, LeastNatural
<1>4. PICK x \in S : k = Cardinality(above(x))
  OBVIOUS
<1>5. ASSUME NEW y \in S, y > x PROVE FALSE
  <2>1. above(y) \in SUBSET above(x) /\ y \in above(x) /\ y \notin above(y)
    <3>1. \A z \in S : z \in Nat
      OBVIOUS
    <3>2. x \in Nat /\ y \in Nat
      BY <3>1
    <3>3. \A z \in S : z > y => z > x
      BY <1>5, <3>1, <3>2
    <3>4. above(y) \subseteq above(x)
      BY <3>3
    <3>5. y \in above(x)
      BY <1>5
    <3>6. y \notin above(y)
      BY <3>2
    <3>7. QED
      BY <3>4, <3>5, <3>6
  <2>2. Cardinality(above(y)) <= Cardinality(above(x))
        /\ Cardinality(above(y)) # Cardinality(above(x))
    BY <1>1, <2>1, FS_Subset
  <2>3. Cardinality(above(y)) \in counts
    BY <1>1
  <2> HIDE DEF above, counts
  <2>4. k <= Cardinality(above(y)) /\ k \in Nat /\ Cardinality(above(y)) \in Nat
    BY <1>2, <1>3, <2>3
  <2>5. QED
    BY <1>4, <2>2, <2>4
<1>6. \A y \in S : y <= x
  BY <1>5
<1> HIDE DEF above, counts
<1>7. QED
  BY <1>6 DEF Max

\* The idle tasks come once each; after the first in the order they came, and
\* a task heavier than all that run is first.
LEMMA TasksInTurn ==
  ASSUME NEW weights \in Seq(Nat), NEW heaviestRunning \in Int
  PROVE  LET o == HeaviestFirst(weights, heaviestRunning)
             heaviest == {t \in DOMAIN weights :
                            /\ weights[t] > heaviestRunning
                            /\ \A u \in DOMAIN weights : weights[u] <= weights[t]}
         IN /\ o \in Seq(1..Len(weights)) /\ Len(o) = Len(weights)
            /\ \A i, j \in 1..Len(o) : o[i] = o[j] => i = j
            /\ \A i, j \in 2..Len(o) : i < j => o[i] < o[j]
            /\ heaviest # {} => o[1] \in heaviest
<1> DEFINE n == Len(weights)
           o == HeaviestFirst(weights, heaviestRunning)
           heaviest == {t \in DOMAIN weights :
                          /\ weights[t] > heaviestRunning
                          /\ \A u \in DOMAIN weights : weights[u] <= weights[t]}
           top == Max(ToSet(weights))
           places == {i \in 1..n : weights[i] = top}
           first == Min(places)
           ahead == weights # <<>> /\ top > heaviestRunning
           rotated(i) == IF i = 1 THEN first ELSE IF i <= first THEN i - 1 ELSE i
<1>1. n \in Nat /\ DOMAIN weights = 1..n /\ \A i \in 1..n : weights[i] \in Nat
  OBVIOUS
<1>2. o = [i \in 1..n |-> IF ahead THEN rotated(i) ELSE i]
  BY DEF HeaviestFirst
<1>3. ASSUME n > 0
      PROVE  /\ top \in Nat /\ \A u \in 1..n : weights[u] <= top
             /\ first \in 1..n /\ weights[first] = top
  <2>1. ToSet(weights) = {weights[i] : i \in 1..n}
    BY <1>1 DEF ToSet
  <2>2. ToSet(weights) \subseteq Nat /\ ToSet(weights) # {}
    <3>1. 1 \in 1..n
      BY <1>1, <1>3
    <3>2. QED
      BY <1>1, <2>1, <3>1
  <2>3. IsFiniteSet(ToSet(weights))
    <3>1. IsFiniteSet(1..n)
      BY <1>1, FS_Interval
    <3>2. [i \in 1..n |-> weights[i]] \in Surjection(1..n, ToSet(weights))
      BY <2>1 DEF Surjection
    <3>3. QED
      BY <3>1, <3>2, FS_Surjection
  <2>4. top \in ToSet(weights) /\ \A y \in ToSet(weights) : y <= top
    BY <2>2, <2>3, GreatestNatural
  <2> HIDE DEF top
  <2>5. places # {} /\ places \subseteq Nat
    BY <1>1, <2>1, <2>4
  <2>6. first \in places
    BY <2>5, LeastNatural
  <2> HIDE DEF first
  <2>7. QED
    BY <1>1, <2>1, <2>2, <2>4, <2>6
<1> HIDE DEF o, top, first
<1>4. CASE ahead
  <2>1. n > 0
    BY <1>1, <1>4
  <2>2. /\ top \in Nat /\ \A u \in 1..n : weights[u] <= top
        /\ first \in 1..n /\ weights[first] = top
    BY <1>3, <2>1
  <2>3. \A i \in 1..n : o[i] = (IF i = 1 THEN first ELSE IF i <= first THEN i - 1 ELSE i)
    BY <1>2, <1>4
  <2>4. \A i \in 1..n : o[i] \in 1..n
    BY <1>1, <2>2, <2>3
  <2>5. o \in Seq(1..n) /\ Len(o) = n
    BY <1>1, <1>2, <2>4
  <2>6. \A i, j \in 1..n : o[i] = o[j] => i = j
    BY <1>1, <2>2, <2>3
  <2>7. \A i, j \in 2..n : i < j => o[i] < o[j]
    BY <1>1, <2>2, <2>3
  <2>8. 1 \in 1..n /\ o[1] = first
    BY <1>1, <2>1, <2>3
  <2>9. first \in heaviest
    BY <1>1, <1>4, <2>2
  <2>10. QED
    BY <2>5, <2>6, <2>7, <2>8, <2>9 DEF o
<1>5. CASE ~ahead
  <2>1. \A i \in 1..n : o[i] = i
    BY <1>2, <1>5
  <2>2. o \in Seq(1..n) /\ Len(o) = n
    BY <1>1, <1>2, <1>5
  <2>3. heaviest = {}
    <3>1. SUFFICES ASSUME NEW t \in heaviest PROVE FALSE
      OBVIOUS
    <3>2. t \in 1..n /\ weights[t] > heaviestRunning
      BY <1>1, <3>1
    <3>3. n > 0 /\ weights # <<>>
      BY <1>1, <3>2
    <3>4. weights[t] <= top /\ top \in Nat
      BY <1>3, <3>2, <3>3
    <3>5. QED
      BY <1>1, <1>5, <3>2, <3>3, <3>4
  <2>4. \A i, j \in 1..n : o[i] = o[j] => i = j
    BY <2>1
  <2>5. \A i, j \in 2..n : i < j => o[i] < o[j]
    BY <1>1, <2>1
  <2>6. QED
    BY <2>2, <2>3, <2>4, <2>5 DEF o
<1>6. QED
  BY <1>4, <1>5

\* A call of the planner has the types of its arguments.
LEMMA CallTypes ==
  ASSUME NEW c \in Call
  PROVE  /\ c.streams \in Seq(StreamState) /\ c.weights \in Seq(Nat)
         /\ c.playingSeek \in BOOLEAN /\ c.idleAllowed \in BOOLEAN
         /\ c.heaviestRunning \in Int /\ c.free \in Int /\ c.idleBudget \in Int
<1>1. /\ c.streams \in UNION {[1..n -> Inputs] : n \in 0..MaxStreams}
      /\ c.weights \in UNION {[1..n -> Weights] : n \in 0..MaxTasks}
      /\ c.playingSeek \in BOOLEAN /\ c.idleAllowed \in BOOLEAN
      /\ c.heaviestRunning \in {-1} \cup Weights
      /\ c.free \in -1..MaxThreads /\ c.idleBudget \in -1..MaxThreads
  BY DEF Call
<1>2. PICK n \in 0..MaxStreams : c.streams \in [1..n -> Inputs]
  BY <1>1
<1>3. PICK k \in 0..MaxTasks : c.weights \in [1..k -> Weights]
  BY <1>1
<1>4. n \in Nat /\ k \in Nat
  BY PlannerAssumption
<1>5. Inputs \subseteq StreamState /\ Weights \subseteq Nat
  BY PlannerAssumption
<1>6. c.streams \in Seq(StreamState)
  <2>1. c.streams \in [1..n -> StreamState]
    BY <1>2, <1>5
  <2>2. QED
    BY <1>4, <2>1
<1>7. c.weights \in Seq(Nat)
  <2>1. c.weights \in [1..k -> Nat]
    BY <1>3, <1>5
  <2>2. QED
    BY <1>4, <2>1
<1>8. c.heaviestRunning \in Int
  <2>1. c.heaviestRunning = -1 \/ c.heaviestRunning \in Weights
    BY <1>1
  <2>2. CASE c.heaviestRunning = -1
    BY <2>2
  <2>3. CASE c.heaviestRunning \in Weights
    <3>1. c.heaviestRunning \in Nat
      BY <1>5, <2>3, Zenon
    <3>2. QED
      BY <3>1
  <2>4. QED
    BY <2>1, <2>2, <2>3
<1>9. c.free \in Int /\ c.idleBudget \in Int
  BY <1>1
<1>10. QED
  BY <1>1, <1>6, <1>7, <1>8, <1>9

\* What plan() answers, part by part.
PlanStreams(c) == Truncate(StreamsInTurn(c.streams), Max({c.free, 0}))
PlanSeeking(c) == c.playingSeek \/ PlayingSeeks(c.streams) # {}
PlanBudget(c, wasRunning) ==
  IF IdleRuns(c.streams, FALSE, wasRunning) /\ c.idleAllowed
  THEN Min({Max({c.free, 0}) - Len(PlanStreams(c)), Max({c.idleBudget, 0})})
  ELSE 0
PlanSeeks(c, wasRunning) ==
  Truncate(StoppedInTurn(c.streams), PlanBudget(c, wasRunning))
PlanTasks(c, wasRunning) ==
  Truncate(HeaviestFirst(c.weights, c.heaviestRunning),
           Max({PlanBudget(c, wasRunning) - Len(PlanSeeks(c, wasRunning)), 0}))

LEMMA AnswerFields ==
  ASSUME NEW streams, NEW seeks, NEW tasks, NEW runs
  PROVE  LET a == [plan |-> [streams |-> streams, idleSeeks |-> seeks,
                             idleTasks |-> tasks],
                   idleRunning |-> runs]
         IN /\ a.plan.streams = streams
            /\ a.plan.idleSeeks = seeks /\ a.plan.idleTasks = tasks
            /\ a.idleRunning = runs
OBVIOUS

LEMMA PlanParts ==
  ASSUME NEW c \in Call, NEW wasRunning
  PROVE  /\ PlanOf(c, wasRunning).plan.streams = PlanStreams(c)
         /\ PlanSeeking(c) =>
              /\ PlanOf(c, wasRunning).plan.idleSeeks = <<>>
              /\ PlanOf(c, wasRunning).plan.idleTasks = <<>>
              /\ PlanOf(c, wasRunning).idleRunning = FALSE
         /\ ~PlanSeeking(c) =>
              /\ PlanOf(c, wasRunning).plan.idleSeeks = PlanSeeks(c, wasRunning)
              /\ PlanOf(c, wasRunning).plan.idleTasks = PlanTasks(c, wasRunning)
              /\ PlanOf(c, wasRunning).idleRunning
                   = IdleRuns(c.streams, FALSE, wasRunning)
<1> DEFINE seeks == SeeksInTurn(c.streams)
           answer ==
             IF c.playingSeek \/ seeks # <<>>
             THEN [plan |-> [NoPlan EXCEPT !.streams = PlanStreams(c)],
                   idleRunning |-> FALSE]
             ELSE [plan |-> [streams |-> PlanStreams(c),
                             idleSeeks |-> PlanSeeks(c, wasRunning),
                             idleTasks |-> PlanTasks(c, wasRunning)],
                   idleRunning |-> IdleRuns(c.streams, FALSE, wasRunning)]
<1>1. PlanOf(c, wasRunning) = answer
  BY Zenon DEF PlanOf, PlanStreams, PlanBudget, PlanSeeks, PlanTasks, SeeksInTurn,
               StoppedInTurn, RefillsInTurn, StreamsInTurn
<1>2. seeks # <<>> <=> PlayingSeeks(c.streams) # {}
  <2>1. c.streams \in Seq(StreamState)
    BY CallTypes
  <2>2. Lists(seeks, PlayingSeeks(c.streams))
        /\ Cardinality(PlayingSeeks(c.streams)) \in Nat
    BY <2>1, CollectedInTurn
  <2>3. ToSet(seeks) = PlayingSeeks(c.streams) /\ seeks \in Seq(PlayingSeeks(c.streams))
    BY <2>2, ListedSeq
  <2> HIDE DEF seeks
  <2>4. seeks = <<>> => ToSet(seeks) = {}
    BY DEF ToSet
  <2>5. seeks # <<>> => seeks[1] \in PlayingSeeks(c.streams)
    BY <2>3
  <2>6. QED
    BY <2>3, <2>4, <2>5
<1> HIDE DEF seeks
<1>3. PlanSeeking(c) <=> c.playingSeek \/ seeks # <<>>
  BY <1>2 DEF PlanSeeking
<1>4. CASE PlanSeeking(c)
  <2>1. PlanOf(c, wasRunning) = [plan |-> [NoPlan EXCEPT !.streams = PlanStreams(c)],
                                 idleRunning |-> FALSE]
    BY <1>1, <1>3, <1>4
  <2>2. QED
    BY <1>4, <2>1 DEF NoPlan
<1>5. CASE ~PlanSeeking(c)
  <2>1. PlanOf(c, wasRunning)
          = [plan |-> [streams |-> PlanStreams(c),
                       idleSeeks |-> PlanSeeks(c, wasRunning),
                       idleTasks |-> PlanTasks(c, wasRunning)],
             idleRunning |-> IdleRuns(c.streams, FALSE, wasRunning)]
    BY <1>1, <1>3, <1>5
  <2>2. PlanOf(c, wasRunning).idleRunning = IdleRuns(c.streams, FALSE, wasRunning)
    BY <2>1 DEF IdleRuns
  <2>3. /\ PlanOf(c, wasRunning).plan.streams = PlanStreams(c)
        /\ PlanOf(c, wasRunning).plan.idleSeeks = PlanSeeks(c, wasRunning)
        /\ PlanOf(c, wasRunning).plan.idleTasks = PlanTasks(c, wasRunning)
    BY <2>1, AnswerFields
  <2>4. QED
    BY <1>5, <2>2, <2>3
<1>6. QED
  BY <1>4, <1>5

\* The streams a plan starts: as many as threads are free, none while one that
\* goes before it waits, and in order.
LEMMA StreamsStartInTurn ==
  ASSUME NEW c \in Call
  PROVE  LET s == PlanStreams(c)
         IN /\ StreamsPlanned(c.streams, c.free, ToSet(s))
            /\ Len(s) \in Nat /\ Len(s) = Cardinality(ToSet(s))
            /\ Len(s) <= Max({c.free, 0})
            /\ \A i, j \in 1..Len(s) : i < j =>
                 /\ ~Before(c.streams, s[j], s[i])
                 /\ Alike(c.streams, s[i], s[j]) => s[i] < s[j]
<1> DEFINE st == c.streams
           w == StreamsInTurn(st)
           waiting == PlayingSeeks(st) \cup Refills(st)
           free == Max({c.free, 0})
           s == PlanStreams(c)
<1>1. st \in Seq(StreamState) /\ c.free \in Int
  BY CallTypes
<1>2. free \in Nat
  BY <1>1, MaxOfTwo
<1>3. /\ IsFiniteSet(waiting) /\ Cardinality(waiting) \in Nat
      /\ w \in Seq(waiting) /\ Len(w) = Cardinality(waiting)
      /\ \A i, j \in 1..Len(w) : w[i] = w[j] => i = j
      /\ \A a \in waiting : \E i \in 1..Len(w) : w[i] = a
      /\ \A i, j \in 1..Len(w) : i < j =>
           /\ ~Before(st, w[j], w[i])
           /\ Alike(st, w[i], w[j]) => w[i] < w[j]
  BY <1>1, WaitingInTurn
<1>4. s = Truncate(w, free)
  BY DEF PlanStreams
<1> HIDE DEF st, w, free, waiting, s
<1>5. IsBeginning(s, w, free)
  <2>1. Once(w)
    BY <1>3 DEF Once
  <2>2. QED
    BY <1>2, <1>3, <1>4, <2>1, CutIsBeginning
<1>6. /\ Len(s) = (IF Len(w) <= free THEN Len(w) ELSE free) /\ Len(s) \in 0..Len(w)
      /\ \A i \in 1..Len(s) : i \in 1..Len(w) /\ s[i] = w[i]
      /\ \A x : x \in ToSet(s) <=> \E i \in 1..Len(s) : x = w[i]
      /\ Cardinality(ToSet(s)) = Len(s)
  BY <1>5 DEF IsBeginning
<1>7. AtMost(waiting, free) = IF Len(w) <= free THEN Len(w) ELSE free
  BY <1>2, <1>3, AtMostBounds
<1>8. ToSet(s) \subseteq waiting
  BY <1>3, <1>6
<1>9. \A a \in waiting \ ToSet(s), b \in ToSet(s) : ~Before(st, a, b)
  <2>1. SUFFICES ASSUME NEW a \in waiting \ ToSet(s), NEW b \in ToSet(s)
                 PROVE  ~Before(st, a, b)
    OBVIOUS
  <2>2. PICK j \in 1..Len(w) : w[j] = a
    BY <1>3
  <2>3. PICK i \in 1..Len(s) : w[i] = b
    BY <1>6
  <2>4. j \notin 1..Len(s)
    BY <1>6, <2>1, <2>2
  <2>5. i \in 1..Len(w) /\ i < j
    BY <1>3, <1>6, <2>2, <2>3, <2>4
  <2>6. QED
    BY <1>3, <2>2, <2>3, <2>5
<1>10. StreamsPlanned(st, c.free, ToSet(s))
  <2>1. Cardinality(ToSet(s)) = AtMost(waiting, free)
    BY <1>6, <1>7
  <2>2. QED
    BY <1>8, <1>9, <2>1 DEF StreamsPlanned, waiting, free
<1>11. \A i, j \in 1..Len(s) : i < j =>
        /\ ~Before(st, s[j], s[i])
        /\ Alike(st, s[i], s[j]) => s[i] < s[j]
  BY <1>3, <1>6
<1>12. Len(s) \in Nat /\ Len(s) <= free
  BY <1>2, <1>3, <1>6
<1>13. QED
  BY <1>6, <1>10, <1>11, <1>12 DEF s, st, free

\* The idle work a plan starts fits the idle work allowed: the seeks of
\* stopped songs first, then the tasks, the heaviest of them among them.
LEMMA IdleWorkStartsInTurn ==
  ASSUME NEW c \in Call, NEW wasRunning
  PROVE  LET q == PlanSeeks(c, wasRunning)
             t == PlanTasks(c, wasRunning)
             slots == IF IdleRuns(c.streams, FALSE, wasRunning) /\ c.idleAllowed
                      THEN IdleSlots(c.free, Cardinality(ToSet(PlanStreams(c))),
                                     c.idleBudget)
                      ELSE 0
         IN /\ IdlePlanned(c.streams, c.weights, c.heaviestRunning, slots,
                           ToSet(q), ToSet(t))
            /\ \A i, j \in 1..Len(q) : i < j => q[i] < q[j]
            /\ \A i, j \in 2..Len(t) : i < j => t[i] < t[j]
            /\ \A i, j \in DOMAIN t : t[i] = t[j] => i = j
<1> DEFINE st == c.streams
           free == Max({c.free, 0})
           may == Max({c.idleBudget, 0})
           k == Len(PlanStreams(c))
           idle == IdleRuns(st, FALSE, wasRunning) /\ c.idleAllowed
           budget == PlanBudget(c, wasRunning)
           slots == IF idle THEN IdleSlots(c.free, Cardinality(ToSet(PlanStreams(c))),
                                           c.idleBudget)
                    ELSE 0
           u == StoppedInTurn(st)
           o == HeaviestFirst(c.weights, c.heaviestRunning)
           n == Len(c.weights)
           q == PlanSeeks(c, wasRunning)
           t == PlanTasks(c, wasRunning)
           S == StoppedSeeks(st)
<1>1. /\ st \in Seq(StreamState) /\ c.free \in Int /\ c.idleBudget \in Int
      /\ c.weights \in Seq(Nat) /\ c.heaviestRunning \in Int
  BY CallTypes
<1>2. k \in Nat /\ k = Cardinality(ToSet(PlanStreams(c))) /\ k <= free
  BY StreamsStartInTurn
<1>3. free \in Nat /\ may \in Nat /\ may = (IF c.idleBudget >= 0 THEN c.idleBudget ELSE 0)
  <2>1. free = IF c.free >= 0 THEN c.free ELSE 0
    BY <1>1, MaxOfTwo
  <2>2. may = IF c.idleBudget >= 0 THEN c.idleBudget ELSE 0
    BY <1>1, MaxOfTwo
  <2> HIDE DEF free, may
  <2>3. QED
    BY <1>1, <2>1, <2>2
<1>4. budget = slots /\ budget \in Nat
  <2>1. budget = IF idle THEN Min({free - k, may}) ELSE 0
    BY DEF PlanBudget
  <2>2. slots = IF idle THEN Max({0, Min({free - k, c.idleBudget})}) ELSE 0
    BY <1>2 DEF IdleSlots
  <2> HIDE DEF budget, slots, idle, k, free, may
  <2>3. Min({free - k, may}) = IF free - k <= may THEN free - k ELSE may
    BY <1>2, <1>3, MinOfTwo
  <2> DEFINE x == IF free - k <= c.idleBudget THEN free - k ELSE c.idleBudget
  <2>4. x \in Int /\ Min({free - k, c.idleBudget}) = x
    <3>1. free - k \in Int
      BY <1>2, <1>3
    <3>2. QED
      BY <1>1, <3>1, MinOfTwo
  <2>5. Max({0, x}) = IF 0 >= x THEN 0 ELSE x
    BY <2>4, MaxOfTwo
  <2>6. free - k >= 0 /\ free - k \in Int
    BY <1>2, <1>3
  <2>7. Min({free - k, may}) = Max({0, x}) /\ Max({0, x}) \in Nat
    BY <1>1, <1>3, <2>3, <2>4, <2>5, <2>6
  <2>8. QED
    BY <2>1, <2>2, <2>4, <2>7
<1>5. /\ IsFiniteSet(S) /\ Cardinality(S) \in Nat
      /\ Lists(u, S) /\ \A i, j \in 1..Cardinality(S) : i < j => u[i] < u[j]
  BY <1>1, CollectedInTurn
<1>6. /\ u \in Seq(S) /\ Len(u) = Cardinality(S)
      /\ \A i, j \in 1..Len(u) : u[i] = u[j] => i = j
  BY <1>5, ListedSeq DEF Lists
<1>7. q = Truncate(u, budget)
  BY DEF PlanSeeks
<1> HIDE DEF u, S, budget
<1> HIDE DEF q
<1>8. IsBeginning(q, u, budget)
  <2>1. Once(u)
    BY <1>6 DEF Once
  <2>2. QED
    BY <1>4, <1>6, <1>7, <2>1, CutIsBeginning
<1>9. /\ ToSet(q) \subseteq S /\ Cardinality(ToSet(q)) = AtMost(S, slots)
      /\ Len(q) = Cardinality(ToSet(q)) /\ Len(q) \in Nat /\ Len(q) <= budget
  <2> HIDE DEF slots
  <2>1. budget \in Int
    BY <1>4
  <2>2. AtMost(S, budget) = IF Len(u) <= budget THEN Len(u) ELSE budget
    BY <1>5, <1>6, <2>1, AtMostBounds
  <2>3. ToSet(q) \subseteq S
    BY <1>6, <1>8 DEF IsBeginning
  <2>4. QED
    BY <1>4, <1>5, <1>6, <1>8, <2>2, <2>3 DEF IsBeginning
<1>10. \A i, j \in 1..Len(q) : i < j => q[i] < q[j]
  <2>1. \A i \in 1..Len(q) : i \in 1..Len(u) /\ q[i] = u[i]
    BY <1>8 DEF IsBeginning
  <2>2. QED
    BY <1>5, <1>6, <2>1
<1> DEFINE rest == budget - Len(q)
           heaviest == {a \in DOMAIN c.weights :
                          /\ c.weights[a] > c.heaviestRunning
                          /\ \A b \in DOMAIN c.weights : c.weights[b] <= c.weights[a]}
<1>11. rest \in Nat /\ Max({rest, 0}) = rest
  <2> HIDE DEF slots
  <2>1. rest \in Nat
    BY <1>4, <1>9
  <2> HIDE DEF rest
  <2>2. QED
    BY <2>1, MaxOfTwo
<1>12. t = Truncate(o, rest)
  BY <1>11 DEF PlanTasks, budget, q
<1>13. /\ o \in Seq(1..n) /\ Len(o) = n /\ n \in Nat /\ DOMAIN c.weights = 1..n
       /\ \A i, j \in 1..Len(o) : o[i] = o[j] => i = j
       /\ \A i, j \in 2..Len(o) : i < j => o[i] < o[j]
       /\ heaviest # {} => o[1] \in heaviest
  <2>1. n \in Nat /\ DOMAIN c.weights = 1..n
    BY <1>1
  <2>2. QED
    BY <1>1, <2>1, TasksInTurn
<1> HIDE DEF rest, o, n, t, heaviest
<1>14. t \in Seq(1..n) /\ IsBeginning(t, o, rest)
  <2>1. Once(o)
    BY <1>13 DEF Once
  <2>2. QED
    BY <1>11, <1>12, <1>13, <2>1, CutIsBeginning
<1>15. /\ Len(t) = (IF n <= rest THEN n ELSE rest) /\ Len(t) \in 0..n
       /\ \A i \in 1..Len(t) : i \in 1..n /\ t[i] = o[i]
       /\ \A x : x \in ToSet(t) <=> \E i \in 1..Len(t) : x = o[i]
       /\ Cardinality(ToSet(t)) = Len(t)
  BY <1>13, <1>14 DEF IsBeginning
<1>16. /\ \A i, j \in 2..Len(t) : i < j => t[i] < t[j]
       /\ \A i, j \in DOMAIN t : t[i] = t[j] => i = j
  <2>1. DOMAIN t = 1..Len(t)
    BY <1>14
  <2>2. \A i \in 2..Len(t) : i \in 2..Len(o) /\ t[i] = o[i]
    BY <1>13, <1>15
  <2>3. QED
    BY <1>13, <1>15, <2>1, <2>2
<1>17. /\ ToSet(t) \subseteq DOMAIN c.weights
       /\ Cardinality(ToSet(t)) = AtMost(DOMAIN c.weights, slots - Cardinality(ToSet(q)))
  <2>1. ToSet(t) \subseteq 1..n
    BY <1>13, <1>15
  <2>2. IsFiniteSet(1..n) /\ Cardinality(1..n) = n
    BY <1>13, FS_Interval
  <2>3. rest = slots - Cardinality(ToSet(q))
    BY <1>4, <1>9 DEF rest
  <2> HIDE DEF slots
  <2>4. AtMost(1..n, rest) = IF n <= rest THEN n ELSE rest
    BY <1>11, <2>2, AtMostBounds
  <2>5. QED
    BY <1>13, <1>15, <2>1, <2>3, <2>4
<1>18. heaviest # {} /\ ToSet(t) # {} => heaviest \cap ToSet(t) # {}
  <2>1. SUFFICES ASSUME heaviest # {}, ToSet(t) # {} PROVE o[1] \in heaviest \cap ToSet(t)
    OBVIOUS
  <2>2. 1 \in 1..Len(t)
    BY <1>13, <1>15, <2>1
  <2>3. o[1] \in ToSet(t)
    BY <1>15, <2>2
  <2>4. QED
    BY <1>13, <2>1, <2>3
<1>19. IdlePlanned(st, c.weights, c.heaviestRunning, slots, ToSet(q), ToSet(t))
  BY <1>9, <1>17, <1>18 DEF IdlePlanned, S, heaviest
<1>20. QED
  BY <1>10, <1>16, <1>19 DEF q, t

\* What one call of plan() promises.
LEMMA PlanKeepsContract ==
  ASSUME NEW c \in Call, NEW wasRunning
  PROVE  LET a == PlanOf(c, wasRunning)
         IN PlanFor(c.streams, c.playingSeek, c.weights, c.heaviestRunning,
                    c.idleAllowed, c.free, c.idleBudget, wasRunning,
                    [streams |-> ToSet(a.plan.streams),
                     idleSeeks |-> ToSet(a.plan.idleSeeks),
                     idleTasks |-> ToSet(a.plan.idleTasks),
                     idleRunning |-> a.idleRunning])
<1> DEFINE a == PlanOf(c, wasRunning)
           runs == IdleRuns(c.streams, FALSE, wasRunning)
           p == [streams |-> ToSet(a.plan.streams),
                 idleSeeks |-> ToSet(a.plan.idleSeeks),
                 idleTasks |-> ToSet(a.plan.idleTasks),
                 idleRunning |-> a.idleRunning]
           started == ToSet(PlanStreams(c))
           Kept == PlanFor(c.streams, c.playingSeek, c.weights, c.heaviestRunning,
                           c.idleAllowed, c.free, c.idleBudget, wasRunning, p)
<1>1. a.plan.streams = PlanStreams(c)
  BY PlanParts
<1>2. StreamsPlanned(c.streams, c.free, started)
  BY StreamsStartInTurn
<1>3. ASSUME PlanSeeking(c) PROVE Kept
  <2>1. a.plan.idleSeeks = <<>> /\ a.plan.idleTasks = <<>> /\ a.idleRunning = FALSE
    BY <1>3, PlanParts
  <2>2. ToSet(<<>>) = {}
    BY DEF ToSet
  <2> HIDE DEF a
  <2>3. p.streams = started /\ p.idleSeeks = {} /\ p.idleTasks = {}
        /\ p.idleRunning = FALSE
    BY <1>1, <2>1, <2>2
  <2> HIDE DEF p, started
  <2>4. QED
    BY <1>2, <1>3, <2>3 DEF PlanFor, PlanSeeking, IdleRuns
<1>4. ASSUME ~PlanSeeking(c) PROVE Kept
  <2> DEFINE slots == IF runs /\ c.idleAllowed
                      THEN IdleSlots(c.free, Cardinality(started), c.idleBudget)
                      ELSE 0
             q == ToSet(PlanSeeks(c, wasRunning))
             t == ToSet(PlanTasks(c, wasRunning))
  <2>1. /\ a.plan.idleSeeks = PlanSeeks(c, wasRunning)
        /\ a.plan.idleTasks = PlanTasks(c, wasRunning)
        /\ a.idleRunning = runs
    BY <1>4, PlanParts
  <2>2. IdlePlanned(c.streams, c.weights, c.heaviestRunning, slots, q, t)
    BY IdleWorkStartsInTurn
  <2> HIDE DEF a
  <2>3. p.streams = started /\ p.idleSeeks = q /\ p.idleTasks = t
    BY <1>1, <2>1
  <2>4. p.idleRunning = runs
    BY <2>1 DEF IdleRuns
  <2>5. runs <=> IdleRuns(c.streams, PlanSeeking(c), wasRunning)
    BY <1>4 DEF IdleRuns
  <2>6. p.idleRunning = IdleRuns(c.streams, c.playingSeek \/ PlayingSeeks(c.streams) # {},
                                 wasRunning)
    BY <1>4, <2>4 DEF PlanSeeking, IdleRuns
  <2>7. IdleRuns(c.streams, c.playingSeek \/ PlayingSeeks(c.streams) # {}, wasRunning)
          <=> runs
    BY <2>5 DEF PlanSeeking, IdleRuns
  <2> HIDE DEF p, started, q, t
  <2>8. QED
    BY <1>2, <1>4, <2>2, <2>3, <2>6, <2>7 DEF PlanFor, PlanSeeking
<1>5. QED
  BY <1>3, <1>4

\* A call is one step of the planner.
LEMMA PlannerStep ==
  ASSUME [PlannerNext]_callVars
  PROVE  \/ \E c \in Call : PlanCall(c)
         \/ Taken
         \/ UNCHANGED callVars
BY DEF PlannerNext

\* The steps of every plan start in the planner's order (PlanStreams,
\* PlanSeeks, PlanTasks): std::stable_sort, and the heaviest task rotated to the
\* front, change nothing else of the order the streams and tasks came in.
THEOREM PlansInOrder == PlannerSpec => []InOrder
<1>1. ASSUME plan = NoPlan PROVE InOrder
  BY <1>1 DEF InOrder, NoPlan, IsInjective
<1>2. PlannerInit => InOrder
  BY <1>1 DEF PlannerInit
<1>3. ASSUME NEW c \in Call, PlanCall(c) PROVE InOrder'
  <2> DEFINE a == PlanOf(c, idleWork)
  <2>1. call' = c /\ plan' = a.plan
    BY <1>3 DEF PlanCall
  <2>2. \A i, j \in 1..Len(a.plan.streams) : i < j =>
          /\ ~Before(c.streams, a.plan.streams[j], a.plan.streams[i])
          /\ Alike(c.streams, a.plan.streams[i], a.plan.streams[j])
               => a.plan.streams[i] < a.plan.streams[j]
    BY PlanParts, StreamsStartInTurn
  <2>3. /\ \A i, j \in 1..Len(a.plan.idleSeeks) :
             i < j => a.plan.idleSeeks[i] < a.plan.idleSeeks[j]
        /\ \A i, j \in 2..Len(a.plan.idleTasks) :
             i < j => a.plan.idleTasks[i] < a.plan.idleTasks[j]
        /\ IsInjective(a.plan.idleTasks)
    <3>1. CASE PlanSeeking(c)
      <4>1. a.plan.idleSeeks = <<>> /\ a.plan.idleTasks = <<>>
        BY <3>1, PlanParts
      <4> HIDE DEF a
      <4>2. QED
        BY <4>1 DEF IsInjective
    <3>2. CASE ~PlanSeeking(c)
      <4>1. /\ a.plan.idleSeeks = PlanSeeks(c, idleWork)
            /\ a.plan.idleTasks = PlanTasks(c, idleWork)
        BY <3>2, PlanParts
      <4> HIDE DEF a
      <4>2. /\ \A i, j \in 1..Len(PlanSeeks(c, idleWork)) :
                 i < j => PlanSeeks(c, idleWork)[i] < PlanSeeks(c, idleWork)[j]
            /\ \A i, j \in 2..Len(PlanTasks(c, idleWork)) :
                 i < j => PlanTasks(c, idleWork)[i] < PlanTasks(c, idleWork)[j]
            /\ \A i, j \in DOMAIN PlanTasks(c, idleWork) :
                 PlanTasks(c, idleWork)[i] = PlanTasks(c, idleWork)[j] => i = j
        BY IdleWorkStartsInTurn
      <4>3. QED
        BY <4>1, <4>2 DEF IsInjective
    <3>3. QED
      BY <3>1, <3>2
  <2> HIDE DEF a
  <2>4. QED
    BY <2>1, <2>2, <2>3 DEF InOrder, Alike
<1>4. InOrder /\ [PlannerNext]_callVars => InOrder'
  <2>1. SUFFICES ASSUME InOrder, [PlannerNext]_callVars PROVE InOrder'
    OBVIOUS
  <2>2. CASE Taken
    <3>1. plan' = NoPlan
      BY <2>2 DEF Taken
    <3>2. QED
      BY <3>1 DEF InOrder, NoPlan, IsInjective
  <2>3. CASE UNCHANGED callVars
    BY <2>1, <2>3 DEF InOrder, callVars, IsInjective
  <2>4. QED
    BY <1>3, <2>1, <2>2, <2>3, PlannerStep
<1>5. QED
  BY <1>2, <1>4, PTL DEF PlannerSpec

\* Every plan is one the scheduler may count on (PlanFor of IOPlan), for any
\* number of streams, tasks and threads: the theorems about IOScheduler, which
\* rest on that contract, hold of it with this planner.
THEOREM PlansKeepContract == PlannerSpec => Contract
<1>1. ASSUME [PlannerNext]_callVars
      PROVE  answered' /\ ~(UNCHANGED callVars) =>
               PlanFor(call'.streams, call'.playingSeek, call'.weights,
                       call'.heaviestRunning, call'.idleAllowed, call'.free,
                       call'.idleBudget, idleWork,
                       [streams |-> ToSet(plan'.streams),
                        idleSeeks |-> ToSet(plan'.idleSeeks),
                        idleTasks |-> ToSet(plan'.idleTasks),
                        idleRunning |-> idleWork'])
  <2>1. SUFFICES ASSUME answered', ~(UNCHANGED callVars)
                 PROVE  PlanFor(call'.streams, call'.playingSeek, call'.weights,
                          call'.heaviestRunning, call'.idleAllowed, call'.free,
                          call'.idleBudget, idleWork,
                          [streams |-> ToSet(plan'.streams),
                           idleSeeks |-> ToSet(plan'.idleSeeks),
                           idleTasks |-> ToSet(plan'.idleTasks),
                           idleRunning |-> idleWork'])
    OBVIOUS
  <2>2. ~Taken
    BY <2>1 DEF Taken
  <2>3. PICK c \in Call : PlanCall(c)
    BY <1>1, <2>1, <2>2, PlannerStep
  <2>4. /\ call' = c /\ plan' = PlanOf(c, idleWork).plan
        /\ idleWork' = PlanOf(c, idleWork).idleRunning
    BY <2>3 DEF PlanCall
  <2>5. QED
    BY <2>4, PlanKeepsContract
<1>2. QED
  BY <1>1, PTL DEF PlannerSpec, Contract

=============================================================================
