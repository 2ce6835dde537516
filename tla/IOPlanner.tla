----------------------------- MODULE IOPlanner -----------------------------
(***************************************************************************)
(* TIOPlanner (src/src/ioscheduler/TIOPlanner.cpp): which of the streams   *)
(* and idle tasks that wait get a step, and in which order.  The planner   *)
(* keeps one bit between two calls, m_idleRunning, so it is a small state  *)
(* machine: each step is one call of plan() on any input, and the contract *)
(* of IOPlan must hold of what it answers.  Its names differ from those of *)
(* IOScheduler, so that one module can speak of both.                      *)
(***************************************************************************)
EXTENDS IOPlan, Sequences, SequencesExt

CONSTANTS MaxStreams,     \* how many streams wait at most
          MaxTasks,       \* how many idle tasks wait at most
          Inputs,         \* the stream states tried, a subset of StreamState
          Weights,        \* the weights tried, natural numbers
          MaxThreads      \* how many threads are free at most

ASSUME PlannerAssumption ==
  /\ MaxStreams \in Nat /\ MaxTasks \in Nat /\ MaxThreads \in Nat
  /\ Inputs \subseteq StreamState /\ Weights \subseteq Nat

VARIABLES answered,       \* plan() has returned, its caller not yet taken it
          idleWork,       \* TIOPlanner::m_idleRunning
          call,           \* the arguments of the last call
          plan            \* its answer: three sequences of indices

callVars == <<answered, idleWork, call, plan>>

-----------------------------------------------------------------------------
(* The algorithm.  Streams and tasks are sequences, in the order they came. *)

\* The elements of the finite set S as a sequence, each after those Ahead of
\* it: what std::stable_sort and a loop that collects promise.
Arranged(S, Ahead(_, _)) ==
  CHOOSE s \in SetToSeqs(S) :
    \A i, j \in 1..Cardinality(S) : i < j => Ahead(s[i], s[j])

\* The indices of s that pass Test, in order: the loop over the streams.
Collect(s, Test(_)) == Arranged({i \in 1..Len(s) : Test(s[i])}, <)

\* Mutant: the sort is not stable, streams of one fill swap.
EmptiestFirst_Unstable(streams, indices) ==
  Arranged(ToSet(indices),
    LAMBDA i, j : \/ streams[i].fill < streams[j].fill
                  \/ streams[i].fill = streams[j].fill /\ i > j)

\* std::stable_sort by fill: the indices in order of fill, those of one fill
\* in the order they came.
EmptiestFirst(streams, indices) ==
  Arranged(ToSet(indices),
    LAMBDA i, j : \/ streams[i].fill < streams[j].fill
                  \/ streams[i].fill = streams[j].fill /\ i < j)

Truncate(s, n) == SubSeq(s, 1, Min({Len(s), n}))

\* Mutant: the tasks take their turn, the heaviest too.
HeaviestFirst_InTurn(weights, heaviestRunning) == [i \in 1..Len(weights) |-> i]

\* The first of the heaviest idle tasks comes first if no heavier one runs:
\* std::rotate of the tasks up to it.
HeaviestFirst(weights, heaviestRunning) ==
  LET top == Max(ToSet(weights))
      first == Min({i \in 1..Len(weights) : weights[i] = top})
      rotated(i) == IF i = 1 THEN first ELSE IF i <= first THEN i - 1 ELSE i
      ahead == weights # <<>> /\ top > heaviestRunning
  IN [i \in 1..Len(weights) |-> IF ahead THEN rotated(i) ELSE i]

NoPlan == [streams |-> <<>>, idleSeeks |-> <<>>, idleTasks |-> <<>>]

\* TIOPlanner::plan(): the answer, and what becomes of m_idleRunning.
PlanOf(c, wasRunning) ==
  LET free == Max({c.free, 0})
      seeks == Collect(c.streams, LAMBDA s : s.seekPending /\ s.playing)
      stopped == Collect(c.streams, LAMBDA s : s.seekPending /\ ~s.playing)
      refills == Collect(c.streams, LAMBDA s : ~s.seekPending /\ s.needsWork)
      streams == Truncate(seeks \o EmptiestFirst(c.streams, refills), free)
      seeking == c.playingSeek \/ seeks # <<>>
      running == IdleRuns(c.streams, FALSE, wasRunning)
      budget == IF running /\ c.idleAllowed
                THEN Min({free - Len(streams), Max({c.idleBudget, 0})})
                ELSE 0
      idleSeeks == Truncate(stopped, budget)
      idleTasks == Truncate(HeaviestFirst(c.weights, c.heaviestRunning),
                            Max({budget - Len(idleSeeks), 0}))
  IN IF seeking
     THEN [plan |-> [NoPlan EXCEPT !.streams = streams], idleRunning |-> FALSE]
     ELSE [plan |-> [streams |-> streams, idleSeeks |-> idleSeeks,
                     idleTasks |-> idleTasks],
           idleRunning |-> running]

-----------------------------------------------------------------------------
(* The state machine.  A call without streams and tasks stands for none.   *)

Call ==
  [streams: UNION {[1..n -> Inputs] : n \in 0..MaxStreams},
   playingSeek: BOOLEAN,
   weights: UNION {[1..n -> Weights] : n \in 0..MaxTasks},
   heaviestRunning: {-1} \cup Weights,
   idleAllowed: BOOLEAN,
   free: -1..MaxThreads,
   idleBudget: -1..MaxThreads]

NoCall == [streams |-> <<>>, playingSeek |-> FALSE, weights |-> <<>>,
           heaviestRunning |-> -1, idleAllowed |-> FALSE, free |-> 0,
           idleBudget |-> 0]

PlannerInit ==
  /\ answered = FALSE
  /\ idleWork = FALSE
  /\ call = NoCall
  /\ plan = NoPlan

PlanCall(c) ==
  LET answer == PlanOf(c, idleWork) IN
  /\ answered' = TRUE
  /\ call' = c
  /\ plan' = answer.plan
  /\ idleWork' = answer.idleRunning

\* The scheduler has started the steps of the plan and will ask again.
Taken ==
  /\ answered
  /\ answered' = FALSE
  /\ call' = NoCall
  /\ plan' = NoPlan
  /\ UNCHANGED idleWork

PlannerNext == Taken \/ (~answered /\ \E c \in Call : PlanCall(c))

PlannerSpec == PlannerInit /\ [][PlannerNext]_callVars

-----------------------------------------------------------------------------
(* Properties.                                                             *)

\* Every answer, seen as sets, is one the contract of IOPlan allows: the
\* seeks of playing songs before all refills, the emptiest refill first, no
\* more steps than threads, no idle work while a playing song seeks, and the
\* heaviest task never left waiting for a lighter one.
Contract ==
  [][answered' =>
       PlanFor(call'.streams, call'.playingSeek, call'.weights,
               call'.heaviestRunning, call'.idleAllowed, call'.free,
               call'.idleBudget, idleWork,
               [streams |-> ToSet(plan'.streams),
                idleSeeks |-> ToSet(plan'.idleSeeks),
                idleTasks |-> ToSet(plan'.idleTasks),
                idleRunning |-> idleWork'])]_callVars

\* The steps start in the planner's order: no stream of a plan comes after
\* one that should wait for it, streams alike (and idle tasks, the heaviest
\* aside) start in the order they came, and nothing is planned twice.
InOrder ==
  LET s == plan.streams
      alike(a, b) == call.streams[a].seekPending = call.streams[b].seekPending
                     /\ (call.streams[a].seekPending
                         \/ call.streams[a].fill = call.streams[b].fill)
  IN
  /\ \A i, j \in 1..Len(s) : i < j =>
       /\ ~Before(call.streams, s[j], s[i])
       /\ alike(s[i], s[j]) => s[i] < s[j]
  /\ \A i, j \in 1..Len(plan.idleSeeks) : i < j => plan.idleSeeks[i] < plan.idleSeeks[j]
  /\ \A i, j \in 2..Len(plan.idleTasks) : i < j => plan.idleTasks[i] < plan.idleTasks[j]
  /\ IsInjective(plan.idleTasks)

=============================================================================
