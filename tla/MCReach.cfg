SPECIFICATION FairSpec
CONSTANTS
  Nodes = {1, 2, 3}
  Keys = {"a", "b"}
  Graphs <- MCGraphs
  NodeMaps <- MCNodeMaps
INVARIANTS TypeOK CacheCorrect EnqueuedOnce
PROPERTY Answered
