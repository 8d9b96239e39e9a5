------------------------------- MODULE Reach -------------------------------
(***************************************************************************)
(* Queries on the Happens-Before graph (gorace/shbgraph.go): reachable     *)
(* answers from a cache or by a breadth-first search over a queue that is  *)
(* an array with a head index.  checkRacyPairs asks for one pair of        *)
(* accesses after another, in both directions, while the graph stays as    *)
(* buildHB has left it.                                                    *)
(***************************************************************************)
EXTENDS Integers, Sequences

CONSTANTS
  Nodes,     \* nodes of the graph
  Keys,      \* accesses: an instruction and the goroutine that executes it
  Graphs,    \* the graphs buildHB may leave: node -> its neighbors, in order
  NodeMaps   \* what RWinsMap may be: access -> node, for some of the accesses

ASSUME GraphsAssumption ==
  /\ Graphs \subseteq [Nodes -> Seq(Nodes)]
  /\ \A m \in NodeMaps : /\ DOMAIN m \subseteq Keys
                         /\ \A k \in DOMAIN m : m[k] \in Nodes

VARIABLES
  HBgraph, RWinsMap,  \* a.HBgraph and a.RWinsMap
  reachCache,         \* a.reachCache
  phase,              \* "idle", "search", or "expand": in the neighbors loop
  from, to,           \* the two accesses of the query
  result,             \* what the last query returned
  data, head,         \* the queue: q.data[head..] is still to be visited
  visited,
  j                   \* the next neighbor of the node just dequeued

search == <<data, head, visited, j>>
vars == <<HBgraph, RWinsMap, reachCache, phase, from, to, result, search>>

Init ==
  /\ HBgraph \in Graphs
  /\ RWinsMap \in NodeMaps
  /\ reachCache = [p \in {} |-> FALSE]
  /\ phase = "idle"
  /\ from \in Keys
  /\ to \in Keys
  /\ result = FALSE
  /\ data = <<>>
  /\ head = 1
  /\ visited = {}
  /\ j = 1
-----------------------------------------------------------------------------
\* Mutant: one entry for both directions of a pair.
PairKey(f, t) == {f, t}
\* key := [4]interface{}{fromIns, fromGo, toIns, toGo}
CacheKey(f, t) == <<f, t>>

\* The answer b to the query from f to t is cached and returned.
Answer(f, t, b) ==
  /\ reachCache' = [p \in DOMAIN reachCache \cup {CacheKey(f, t)} |->
                      IF p = CacheKey(f, t) THEN b ELSE reachCache[p]]
  /\ result' = b
  /\ phase' = "idle"

Cached(f, t) ==
  /\ phase = "idle"
  /\ CacheKey(f, t) \in DOMAIN reachCache
  /\ from' = f
  /\ to' = t
  /\ result' = reachCache[CacheKey(f, t)]
  /\ UNCHANGED <<HBgraph, RWinsMap, reachCache, phase, search>>

\* reachableBFS: an access that is not in the graph reaches nothing.
NotInGraph(f, t) ==
  /\ phase = "idle"
  /\ CacheKey(f, t) \notin DOMAIN reachCache
  /\ f \notin DOMAIN RWinsMap \/ t \notin DOMAIN RWinsMap
  /\ from' = f
  /\ to' = t
  /\ Answer(f, t, FALSE)
  /\ UNCHANGED <<HBgraph, RWinsMap, search>>

StartBFS(f, t) ==
  /\ phase = "idle"
  /\ CacheKey(f, t) \notin DOMAIN reachCache
  /\ f \in DOMAIN RWinsMap
  /\ t \in DOMAIN RWinsMap
  /\ from' = f
  /\ to' = t
  /\ phase' = "search"
  /\ data' = <<RWinsMap[f]>>
  /\ head' = 1
  /\ visited' = {RWinsMap[f]}
  /\ j' = 1
  /\ UNCHANGED <<HBgraph, RWinsMap, reachCache, result>>

\* q.isEmpty
QueueEmpty == head > Len(data)

NotFound ==
  /\ phase = "search"
  /\ QueueEmpty
  /\ Answer(from, to, FALSE)
  /\ UNCHANGED <<HBgraph, RWinsMap, from, to, search>>

Found ==
  /\ phase = "search"
  /\ ~QueueEmpty
  /\ data[head] = RWinsMap[to]
  /\ Answer(from, to, TRUE)
  /\ UNCHANGED <<HBgraph, RWinsMap, from, to, search>>

\* Mutant: the head moves twice.
DequeueTwo ==
  /\ phase = "search"
  /\ ~QueueEmpty
  /\ data[head] # RWinsMap[to]
  /\ head' = head + 2
  /\ j' = 1
  /\ phase' = "expand"
  /\ UNCHANGED <<HBgraph, RWinsMap, reachCache, from, to, result, data, visited>>

Dequeue ==
  /\ phase = "search"
  /\ ~QueueEmpty
  /\ data[head] # RWinsMap[to]
  /\ head' = head + 1
  /\ j' = 1
  /\ phase' = "expand"
  /\ UNCHANGED <<HBgraph, RWinsMap, reachCache, from, to, result, data, visited>>

\* The node just dequeued
Current == data[head - 1]

\* One neighbor: enqueued unless it was visited (mutants: always enqueued;
\* a visited one is not passed over).
EnqueueAlways ==
  /\ phase = "expand"
  /\ j <= Len(HBgraph[Current])
  /\ data' = Append(data, HBgraph[Current][j])
  /\ visited' = visited \cup {HBgraph[Current][j]}
  /\ j' = j + 1
  /\ UNCHANGED <<HBgraph, RWinsMap, reachCache, phase, from, to, result, head>>
StuckAtVisited ==
  /\ phase = "expand"
  /\ j <= Len(HBgraph[Current])
  /\ HBgraph[Current][j] \notin visited
  /\ data' = Append(data, HBgraph[Current][j])
  /\ visited' = visited \cup {HBgraph[Current][j]}
  /\ j' = j + 1
  /\ UNCHANGED <<HBgraph, RWinsMap, reachCache, phase, from, to, result, head>>
Neighbor ==
  /\ phase = "expand"
  /\ j <= Len(HBgraph[Current])
  /\ LET n == HBgraph[Current][j] IN
       /\ data' = IF n \in visited THEN data ELSE Append(data, n)
       /\ visited' = visited \cup {n}
  /\ j' = j + 1
  /\ UNCHANGED <<HBgraph, RWinsMap, reachCache, phase, from, to, result, head>>

Expanded ==
  /\ phase = "expand"
  /\ j > Len(HBgraph[Current])
  /\ phase' = "search"
  /\ UNCHANGED <<HBgraph, RWinsMap, reachCache, from, to, result, search>>

Query(f, t) == Cached(f, t) \/ NotInGraph(f, t) \/ StartBFS(f, t)
BFS == NotFound \/ Found \/ Dequeue \/ Neighbor \/ Expanded

Next == BFS \/ \E f, t \in Keys : Query(f, t)

Spec == Init /\ [][Next]_vars
\* The search runs in the goroutine that asked; nothing can suspend it.
FairSpec == Spec /\ WF_vars(BFS)
-----------------------------------------------------------------------------
\* The type invariant.
TypeOK ==
  /\ HBgraph \in [Nodes -> Seq(Nodes)]
  /\ DOMAIN RWinsMap \subseteq Keys
  /\ \A k \in DOMAIN RWinsMap : RWinsMap[k] \in Nodes
  /\ DOMAIN reachCache \subseteq Keys \X Keys
  /\ \A p \in DOMAIN reachCache : reachCache[p] \in BOOLEAN
  /\ phase \in {"idle", "search", "expand"}
  /\ from \in Keys
  /\ to \in Keys
  /\ result \in BOOLEAN
  /\ data \in Seq(Nodes)
  /\ head \in 1..(Len(data) + 1)
  /\ visited \subseteq Nodes
  /\ j \in Nat \ {0}
  /\ phase # "idle" => from \in DOMAIN RWinsMap /\ to \in DOMAIN RWinsMap
  /\ phase = "expand" => head > 1

\* S is closed under the edges of the graph.
Closed(S) == \A n \in S : \A i \in 1..Len(HBgraph[n]) : HBgraph[n][i] \in S

\* n can be reached from m: it is in every closed set that m is in.
Reaches(m, n) == \A S \in SUBSET Nodes : m \in S /\ Closed(S) => n \in S

\* Both accesses are in the graph and the first happens before the second.
HappensBefore(f, t) ==
  /\ f \in DOMAIN RWinsMap
  /\ t \in DOMAIN RWinsMap
  /\ Reaches(RWinsMap[f], RWinsMap[t])

\* Every cached answer says whether there is a path, for the direction asked:
\* an answer to one query is never taken for the answer to another.
CacheCorrect ==
  \A f, t \in Keys : CacheKey(f, t) \in DOMAIN reachCache =>
     (reachCache[CacheKey(f, t)] = TRUE <=> HappensBefore(f, t))

\* No node is enqueued twice: the search visits each node of the graph at most
\* once, whatever cycles the send and receive edges make.
EnqueuedOnce == \A m, n \in DOMAIN data : data[m] = data[n] => m = n

\* Every query is answered.
Answered == phase # "idle" ~> phase = "idle"
=============================================================================
