SPECIFICATION FairSpec
CONSTANTS
  s1 = s1  s2 = s2  g1 = g1  t1 = t1
  Streams = {s1}
  Groups = {g1}
  Tasks = {t1}
  GroupOf <- MCOneSong
  NoGroup = NoGroup
  Nobody = Nobody
  Threads = 2
  Weight <- MCWeight
  IdleLimits = {1}
  DiskStates <- MCOneEmpty
  Rates = {44100}
  Resamplers = {q1}
PROPERTIES RemovalReturns StopReturns SeekFinishes
