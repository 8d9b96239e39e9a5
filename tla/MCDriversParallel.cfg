SPECIFICATION Spec
CONSTANTS
  a = a
  b = b
  c = c
  Mains <- ThreeMains
  MainLists <- Lists
  MaxCalls = 3
  PtsLimit = 2
  DriverSet = {"DoParallel"}
INVARIANT NoMapRace
