SPECIFICATION FairSpec
CONSTANTS
  a = a
  b = b
  c = c
  Mains <- ThreeMains
  MainLists <- Lists
  MaxCalls = 3
  PtsLimit = 2
  DriverSet <- AllDrivers
INVARIANTS TypeOK CacheSound ServedSound LateAnswerDelivered JoinedBeforeRead
PROPERTY Ends
