SPECIFICATION FairSpec
CONSTANTS
  Nodes <- AllNodes
  LabelsAt <- AllLabelsAt
  Systems <- CallSystems
  Fns = {"f", "g"}
  NoFn = "none"
  Shared = {"f"}
  CalleeOf <- CallCalleeOf
  FnObj <- CallFnObj
  FnBody <- CallFnBody
  CallBlocks = {20, 24}
  PtsLimit = 2
  MaxConstraints = 0
INVARIANTS Solved
PROPERTY ImplementsPointsTo
