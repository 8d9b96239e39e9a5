SPECIFICATION FairSpec
CONSTANTS
  Nodes <- AllNodes
  LabelsAt <- AllLabelsAt
  Systems <- AllSystems
  Fns = {"f", "g"}
  NoFn = "none"
  Shared = {"f"}
  CalleeOf <- CallCalleeOf
  FnObj <- CallFnObj
  FnBody <- CallFnBody
  CallBlocks = {20, 24}
  PtsLimit = 0
  MaxConstraints = 6
INVARIANTS TypeOK NothingLost MatchesNaive
PROPERTIES Terminates ImplementsPointsTo
