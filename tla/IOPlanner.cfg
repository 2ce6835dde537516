SPECIFICATION PlannerSpec
CONSTANTS
  MaxStreams = 3
  MaxTasks = 2
  MaxThreads = 2
  Inputs <- MCInputs
  Weights <- MCWeights
INVARIANT InOrder
PROPERTY Contract
