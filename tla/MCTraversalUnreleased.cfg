SPECIFICATION Spec
CONSTANTS
  Programs <- TwoDeferredUnlocks
  Entry = "main"
  NameOf <- Names
  LibFns = {"lib", "fmt"}
  ExcludedPkg = {"fmt"}
  ExcludedFns = {}
  NoFn = "?"
  TrieLimit = 2
  Efficiency = TRUE
  Locks = {"A", "B"}
  NoLock = "nil"
  PosOf <- LockPos
  SameAddr = {}
INVARIANT LockMapSound
