SPECIFICATION Spec
CONSTANTS
  Programs <- ThreeSpawns
  Entry = "main"
  NameOf <- Names
  LibFns = {"lib", "fmt"}
  ExcludedPkg = {"fmt"}
  ExcludedFns = {}
  NoFn = "?"
  TrieLimit = 2
  Efficiency = TRUE
  Locks = {"A", "B"}
  NoLock = "nil"
  PosOf <- LockPos
  SameAddr = {}
INVARIANT GoNotBudgeted
