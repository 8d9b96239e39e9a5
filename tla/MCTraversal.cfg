SPECIFICATION FairSpec
CONSTANTS
  Programs <- Both
  Entry = "main"
  NameOf <- Names
  LibFns = {"lib", "fmt"}
  ExcludedPkg = {"fmt"}
  ExcludedFns = {}
  NoFn = "?"
  TrieLimit = 2
  Efficiency = TRUE
  Locks = {"A", "B"}
  NoLock = "nil"
  PosOf <- LockPos
  SameAddr = {}
INVARIANTS TypeOK GoIDsDense SpawnRecorded BalancedCalls AllVisited SingleThreadedBefore LockMapSound
PROPERTY Terminates
