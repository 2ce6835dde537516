SPECIFICATION Spec
CONSTANTS
  s1 = s1  s2 = s2  g1 = g1  t1 = t1
  Streams = {s1}
  Groups = {g1}
  Tasks = {}
  GroupOf <- MCOneSong
  NoGroup = NoGroup
  Nobody = Nobody
  Threads = 2
  Weight <- MCWeight
  IdleLimits = {1}
  DiskStates <- MCOneFill
  Rates = {44100, 48000}
  Resamplers = {q1, q2}
PROPERTY ResamplerBetweenSteps
