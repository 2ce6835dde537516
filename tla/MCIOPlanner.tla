---------------------------- MODULE MCIOPlanner ----------------------------
(* Inputs of the planner for TLC: one stream state of each class the       *)
(* planner tells apart, with fills on both sides of the two thresholds.    *)
EXTENDS IOPlanner

MCReader(fill) == [needsWork |-> TRUE, countsForFill |-> TRUE, fill |-> fill,
                   seekPending |-> FALSE, playing |-> TRUE]
MCInputs ==
  {MCReader(50), MCReader(80), [MCReader(90) EXCEPT !.needsWork = FALSE],
   [MCReader(50) EXCEPT !.countsForFill = FALSE, !.playing = FALSE],
   [MCReader(100) EXCEPT !.seekPending = TRUE],
   [MCReader(100) EXCEPT !.seekPending = TRUE, !.playing = FALSE]}
MCWeights == {1, 2}
=============================================================================
