SPECIFICATION FairSpec
CONSTANTS
  c1 = c1  c2 = c2
  Clients = {c1, c2}
  XrunLimit = 1
  MaxSetups = 2
  MaxFaults = 3
INVARIANT ClientsLive
PROPERTIES RemovalEnds Recovers
CHECK_DEADLOCK FALSE
