SPECIFICATION RaceSpec
CONSTANTS
  Programs <- RacePrograms
  Entry = "main"
  NameOf <- Names
  LibFns = {}
  ExcludedPkg = {}
  ExcludedFns = {}
  NoFn = "?"
  TrieLimit = 2
  Efficiency = TRUE
  Locks = {"A", "B"}
  NoLock = "nil"
  PosOf <- LockPos
  SameAddr <- Same
  SrcPosOf <- GlobalPos
INVARIANT SameLock
