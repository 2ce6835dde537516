SPECIFICATION FairSpec
CONSTANTS
  PostedSize = 2
  SignalsSize = 2
  ReturnedSize = 1
  MaxPosts = 4
  MaxSignals = 2
  MaxSwitches = 2
INVARIANT LossIsTold
PROPERTIES PostReturns CallbacksWake
CHECK_DEADLOCK FALSE
