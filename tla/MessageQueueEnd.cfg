SPECIFICATION FairSpec
CONSTANTS
  PostedSize = 2
  SignalsSize = 2
  ReturnedSize = 1
  MaxPosts = 4
  MaxSignals = 2
  MaxSwitches = 2

PROPERTY WorkerEnds
CHECK_DEADLOCK FALSE
