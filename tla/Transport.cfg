SPECIFICATION FairSpec
CONSTANTS
  Follows = {FALSE, TRUE}
  Wheel = 3
  MaxCalls = 5
  None = None
INVARIANT StreamsInStep
PROPERTIES OneSeek SeekEnds  JackStopTaken JackReached
