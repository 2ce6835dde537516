SPECIFICATION Spec
CONSTANTS
  s1 = s1  s2 = s2  g1 = g1  t1 = t1
  Streams = {s1, s2}
  Groups = {g1}
  Tasks = {t1}
  GroupOf <- MCOneSong
  NoGroup = NoGroup
  Nobody = Nobody
  Threads = 2
  Weight <- MCWeight
  IdleLimits = {1}
  DiskStates <- MCTwoFills
  Rates = {44100}
  Resamplers = {q1}
INVARIANTS TypeOK RunningCounts StepsOnRegistered RemovalAnswered SeekAccounting OneSeekAtATime
PROPERTY PlayingSeekFirst
