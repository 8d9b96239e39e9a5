---------------------------- MODULE ReachProofs ----------------------------
(***************************************************************************)
(* Proofs about Reach, for every graph and every number of queries.        *)
(***************************************************************************)
EXTENDS Reach, TLAPS

\* All queued nodes were visited and can be reached from the first one.
QueuedReached ==
  \A i \in 1..Len(data) : /\ data[i] \in visited
                          /\ Reaches(RWinsMap[from], data[i])

\* Every visited node was queued at some time.
VisitedQueued == \A n \in visited : \E i \in 1..Len(data) : data[i] = n

\* Every node that was dequeued is not the target, and its neighbors have been
\* visited: those before j for the node that is being expanded.
DequeuedDone ==
  \A i \in 1..(head - 1) :
     /\ data[i] # RWinsMap[to]
     /\ \A k \in 1..Len(HBgraph[data[i]]) :
           HBgraph[data[i]][k] \in visited \/ (phase = "expand" /\ i = head - 1 /\ k >= j)

SearchInv == phase # "idle" => /\ RWinsMap[from] \in visited
                               /\ QueuedReached
                               /\ VisitedQueued
                               /\ DequeuedDone

Inv == TypeOK /\ CacheCorrect /\ SearchInv

-----------------------------------------------------------------------------
\* A reachable node's neighbors are reachable.
LEMMA ReachesStep ==
  ASSUME NEW m \in Nodes, NEW n \in Nodes, HBgraph \in [Nodes -> Seq(Nodes)],
         Reaches(m, n), NEW i \in 1..Len(HBgraph[n])
  PROVE  Reaches(m, HBgraph[n][i])
  BY DEF Reaches, Closed

\* A node reaches itself.
LEMMA ReachesSelf ==
  ASSUME NEW m \in Nodes
  PROVE  Reaches(m, m)
  BY DEF Reaches

\* Reachability depends on the graph only.
LEMMA ReachesKept ==
  ASSUME HBgraph' = HBgraph
  PROVE  \A m, n : Reaches(m, n)' <=> Reaches(m, n)
  BY DEF Reaches, Closed

\* A cached answer that was correct stays correct, and a correct one is added.
LEMMA AnswerCorrect ==
  ASSUME TypeOK, CacheCorrect, NEW f \in Keys, NEW t \in Keys, NEW b \in BOOLEAN,
         b = TRUE <=> HappensBefore(f, t), Answer(f, t, b),
         UNCHANGED <<HBgraph, RWinsMap>>
  PROVE  CacheCorrect'
<1> SUFFICES ASSUME NEW f1 \in Keys, NEW t1 \in Keys,
                    CacheKey(f1, t1) \in DOMAIN reachCache'
             PROVE  reachCache'[CacheKey(f1, t1)] = TRUE <=> HappensBefore(f1, t1)'
  BY DEF CacheCorrect, CacheKey
<1>1. HappensBefore(f1, t1)' <=> HappensBefore(f1, t1)
  BY ReachesKept DEF HappensBefore
<1>2. CASE f1 = f /\ t1 = t
  <2>1. reachCache'[CacheKey(f, t)] = b
    BY DEF Answer
  <2> QED BY <2>1, <1>1, <1>2
<1>3. CASE ~(f1 = f /\ t1 = t)
  <2>1. CacheKey(f1, t1) # CacheKey(f, t)
    BY <1>3 DEF CacheKey
  <2>2. /\ CacheKey(f1, t1) \in DOMAIN reachCache
        /\ reachCache'[CacheKey(f1, t1)] = reachCache[CacheKey(f1, t1)]
    BY <2>1 DEF Answer
  <2> QED BY <2>2, <1>1 DEF CacheCorrect
<1> QED BY <1>2, <1>3

\* The cache and the answers keep their types.
LEMMA AnswerType ==
  ASSUME TypeOK, NEW f \in Keys, NEW t \in Keys, NEW b \in BOOLEAN, Answer(f, t, b)
  PROVE  /\ DOMAIN reachCache' \subseteq Keys \X Keys
         /\ \A p \in DOMAIN reachCache' : reachCache'[p] \in BOOLEAN
         /\ result' \in BOOLEAN
         /\ phase' = "idle"
  BY DEF TypeOK, Answer, CacheKey

-----------------------------------------------------------------------------
\* The search and the cache are well typed from the start.
LEMMA InitInv == Init => Inv
<1> SUFFICES ASSUME Init PROVE Inv
  OBVIOUS
<1>1. TypeOK
  <2>1. DOMAIN reachCache = {}
    BY DEF Init
  <2>2. data \in Seq(Nodes) /\ head \in 1..(Len(data) + 1) /\ visited \subseteq Nodes
        /\ j \in Nat \ {0}
    BY DEF Init
  <2>3. /\ HBgraph \in [Nodes -> Seq(Nodes)]
        /\ DOMAIN RWinsMap \subseteq Keys
        /\ \A k \in DOMAIN RWinsMap : RWinsMap[k] \in Nodes
    BY GraphsAssumption DEF Init
  <2> QED BY <2>1, <2>2, <2>3 DEF Init, TypeOK
<1>2. CacheCorrect /\ SearchInv
  BY DEF Init, CacheCorrect, SearchInv
<1> QED BY <1>1, <1>2 DEF Inv

\* Asking a query.
LEMMA QueryInv ==
  ASSUME Inv, NEW f \in Keys, NEW t \in Keys, Query(f, t)
  PROVE  Inv'
<1> USE DEF Inv
<1>1. CASE Cached(f, t)
  <2>1. TypeOK'
    BY <1>1 DEF TypeOK, Cached, search
  <2>2. CacheCorrect'
    BY <1>1, ReachesKept DEF CacheCorrect, Cached, HappensBefore, CacheKey
  <2>3. SearchInv'
    BY <1>1 DEF SearchInv, Cached
  <2> QED BY <2>1, <2>2, <2>3
<1>2. CASE NotInGraph(f, t)
  <2>1. FALSE = TRUE <=> HappensBefore(f, t)
    BY <1>2 DEF NotInGraph, HappensBefore
  <2>2. Answer(f, t, FALSE) /\ UNCHANGED <<HBgraph, RWinsMap, search>>
    BY <1>2 DEF NotInGraph
  <2>3. CacheCorrect'
    BY <2>1, <2>2, AnswerCorrect
  <2>4. TypeOK'
    BY <1>2, <2>2, AnswerType DEF TypeOK, NotInGraph, search
  <2>5. SearchInv'
    BY <2>2 DEF SearchInv, Answer
  <2> QED BY <2>3, <2>4, <2>5
<1>3. CASE StartBFS(f, t)
  <2> USE DEF StartBFS
  <2>1. TypeOK'
    BY <1>3 DEF TypeOK
  <2>2. CacheCorrect'
    BY <1>3, ReachesKept DEF CacheCorrect, HappensBefore, CacheKey
  <2>3. RWinsMap[f] \in Nodes
    BY <1>3 DEF TypeOK
  <2>4. Reaches(RWinsMap[f], RWinsMap[f])'
    BY <2>3, <1>3, ReachesSelf, ReachesKept
  <2>5. QueuedReached'
    BY <1>3, <2>4 DEF QueuedReached
  <2>6. VisitedQueued' /\ DequeuedDone' /\ (RWinsMap[from] \in visited)'
    BY <1>3 DEF VisitedQueued, DequeuedDone
  <2> QED BY <2>1, <2>2, <2>5, <2>6 DEF SearchInv
<1> QED BY <1>1, <1>2, <1>3 DEF Query

\* The search ends without finding the target: the visited nodes are a closed
\* set without it.
LEMMA NotFoundInv ==
  ASSUME Inv, NotFound
  PROVE  Inv'
<1> USE DEF Inv
<1>0. phase = "search" /\ head = Len(data) + 1 /\ data \in Seq(Nodes) /\ visited \subseteq Nodes
  BY DEF NotFound, QueueEmpty, TypeOK
<1>1. Closed(visited)
  BY <1>0 DEF Closed, SearchInv, VisitedQueued, DequeuedDone
<1>2. RWinsMap[to] \notin visited
  BY <1>0 DEF SearchInv, VisitedQueued, DequeuedDone
<1>3. ~HappensBefore(from, to)
  BY <1>0, <1>1, <1>2 DEF HappensBefore, Reaches, SearchInv
<1>4. Answer(from, to, FALSE) /\ UNCHANGED <<HBgraph, RWinsMap, from, to, search>>
  BY DEF NotFound
<1>5. from \in Keys /\ to \in Keys
  BY DEF TypeOK
<1>6. CacheCorrect'
  BY <1>3, <1>4, <1>5, AnswerCorrect
<1>7. TypeOK'
  BY <1>4, <1>5, AnswerType DEF TypeOK, search
<1>8. SearchInv'
  BY <1>4 DEF SearchInv, Answer
<1> QED BY <1>6, <1>7, <1>8

\* The search finds the target.
LEMMA FoundInv ==
  ASSUME Inv, Found
  PROVE  Inv'
<1> USE DEF Inv
<1>0. phase = "search" /\ head \in 1..Len(data) /\ data[head] = RWinsMap[to]
  BY DEF Found, QueueEmpty, TypeOK
<1>3. HappensBefore(from, to)
  BY <1>0 DEF HappensBefore, SearchInv, QueuedReached, TypeOK
<1>4. Answer(from, to, TRUE) /\ UNCHANGED <<HBgraph, RWinsMap, from, to, search>>
  BY DEF Found
<1>5. from \in Keys /\ to \in Keys
  BY DEF TypeOK
<1>6. CacheCorrect'
  BY <1>3, <1>4, <1>5, AnswerCorrect
<1>7. TypeOK'
  BY <1>4, <1>5, AnswerType DEF TypeOK, search
<1>8. SearchInv'
  BY <1>4 DEF SearchInv, Answer
<1> QED BY <1>6, <1>7, <1>8

\* Steps of the search that neither answer nor ask leave the cache alone.
LEMMA CacheKept ==
  ASSUME CacheCorrect, UNCHANGED <<HBgraph, RWinsMap, reachCache>>
  PROVE  CacheCorrect'
  BY ReachesKept DEF CacheCorrect, HappensBefore, CacheKey

\* A node is dequeued.
LEMMA DequeueInv ==
  ASSUME Inv, Dequeue
  PROVE  Inv'
<1> USE DEF Inv, Dequeue
<1>0. head \in 1..Len(data) /\ data[head] # RWinsMap[to] /\ data[head] \in Nodes
  BY DEF QueueEmpty, TypeOK
<1>1. TypeOK'
  BY <1>0 DEF TypeOK
<1>2. CacheCorrect'
  BY CacheKept
<1>3. QueuedReached'
  BY ReachesKept DEF SearchInv, QueuedReached
<1>4. DequeuedDone'
  <2> SUFFICES ASSUME NEW i \in 1..head
               PROVE  /\ data[i] # RWinsMap[to]
                      /\ \A k \in 1..Len(HBgraph[data[i]]) :
                            HBgraph[data[i]][k] \in visited \/ (i = head /\ k >= 1)
    BY <1>0 DEF DequeuedDone, TypeOK
  <2>1. CASE i = head
    BY <2>1, <1>0 DEF TypeOK
  <2>2. CASE i # head
    BY <2>2, <1>0 DEF SearchInv, DequeuedDone
  <2> QED BY <2>1, <2>2
<1>5. VisitedQueued' /\ (RWinsMap[from] \in visited)'
  BY DEF SearchInv, VisitedQueued
<1> QED BY <1>1, <1>2, <1>3, <1>4, <1>5 DEF SearchInv

\* A neighbor is looked at.
LEMMA NeighborInv ==
  ASSUME Inv, Neighbor
  PROVE  Inv'
<1> USE DEF Inv, Neighbor
<1> DEFINE n == HBgraph[Current][j]
<1>0. /\ head - 1 \in 1..Len(data) /\ Current \in Nodes
      /\ j \in 1..Len(HBgraph[Current]) /\ n \in Nodes
      /\ data \in Seq(Nodes) /\ visited \subseteq Nodes
      /\ HBgraph \in [Nodes -> Seq(Nodes)]
  BY DEF TypeOK, Current
<1>1. /\ data' \in Seq(Nodes)
      /\ Len(data') >= Len(data)
      /\ \A i \in 1..Len(data) : data'[i] = data[i]
      /\ \A i \in 1..Len(data') : i > Len(data) => data'[i] = n
      /\ n \notin visited => Len(data') = Len(data) + 1
  BY <1>0, SMTT(30)
<1>2. TypeOK'
  BY <1>0, <1>1 DEF TypeOK
<1>3. CacheCorrect'
  BY CacheKept
<1>4. QueuedReached'
  <2>1. Reaches(RWinsMap[from], Current)
    BY <1>0 DEF SearchInv, QueuedReached, Current
  <2>2. Reaches(RWinsMap[from], n)
    BY <1>0, <2>1, ReachesStep DEF TypeOK
  <2>3. SUFFICES ASSUME NEW i \in 1..Len(data')
                 PROVE  data'[i] \in visited' /\ Reaches(RWinsMap[from], data'[i])
    BY ReachesKept DEF QueuedReached
  <2>4. CASE i \in 1..Len(data)
    BY <2>4, <1>1 DEF SearchInv, QueuedReached
  <2>5. CASE i \notin 1..Len(data)
    BY <2>5, <1>0, <1>1, <2>2
  <2> QED BY <2>4, <2>5
<1>5. VisitedQueued'
  <2> SUFFICES ASSUME NEW m \in visited \cup {n}
               PROVE  \E i \in 1..Len(data') : data'[i] = m
    BY DEF VisitedQueued
  <2>1. CASE m \in visited
    <3>1. PICK i \in 1..Len(data) : data[i] = m
      BY <2>1 DEF SearchInv, VisitedQueued
    <3> QED BY <3>1, <1>0, <1>1
  <2>2. CASE m \notin visited
    <3>1. m = n /\ Len(data') = Len(data) + 1 /\ Len(data) \in Nat
      BY <2>2, <1>0, <1>1
    <3>2. Len(data') \in 1..Len(data') /\ data'[Len(data')] = m
      BY <3>1, <1>1
    <3> QED BY <3>2
  <2> QED BY <2>1, <2>2
<1>6. DequeuedDone'
  <2> SUFFICES ASSUME NEW i \in 1..(head - 1)
               PROVE  /\ data[i] # RWinsMap[to]
                      /\ \A k \in 1..Len(HBgraph[data[i]]) :
                            HBgraph[data[i]][k] \in visited' \/ (i = head - 1 /\ k >= j + 1)
    BY <1>0, <1>1 DEF DequeuedDone, TypeOK
  <2>1. /\ data[i] # RWinsMap[to]
        /\ \A k \in 1..Len(HBgraph[data[i]]) :
              HBgraph[data[i]][k] \in visited \/ (i = head - 1 /\ k >= j)
    BY DEF SearchInv, DequeuedDone
  <2>2. visited' = visited \cup {HBgraph[data[head - 1]][j]} /\ j \in Nat
    BY <1>0 DEF Current
  <2> SUFFICES ASSUME NEW k \in 1..Len(HBgraph[data[i]])
               PROVE  HBgraph[data[i]][k] \in visited' \/ (i = head - 1 /\ k >= j + 1)
    BY <2>1
  <2>3. data[i] \in Nodes
    BY <1>0 DEF TypeOK
  <2>4. k \in Nat
    BY <1>0, <2>3
  <2> QED BY <2>1, <2>2, <2>4
<1>7. (RWinsMap[from] \in visited)'
  BY DEF SearchInv
<1> QED BY <1>2, <1>3, <1>4, <1>5, <1>6, <1>7 DEF SearchInv

\* All neighbors have been looked at.
LEMMA ExpandedInv ==
  ASSUME Inv, Expanded
  PROVE  Inv'
<1> USE DEF Inv, Expanded, search
<1>0. data[head - 1] \in Nodes /\ j > Len(HBgraph[data[head - 1]])
  BY DEF TypeOK, Current
<1>1. TypeOK'
  BY DEF TypeOK
<1>2. CacheCorrect'
  BY CacheKept
<1>3. QueuedReached'
  BY ReachesKept DEF SearchInv, QueuedReached
<1>4. DequeuedDone'
  BY <1>0, SMTT(30) DEF SearchInv, DequeuedDone, TypeOK
<1>5. VisitedQueued' /\ (RWinsMap[from] \in visited)'
  BY DEF SearchInv, VisitedQueued
<1> QED BY <1>1, <1>2, <1>3, <1>4, <1>5 DEF SearchInv

-----------------------------------------------------------------------------
\* Inv is an invariant.
LEMMA Invariance == Spec => []Inv
<1>1. Init => Inv
  BY InitInv
<1>2. Inv /\ [Next]_vars => Inv'
  <2> SUFFICES ASSUME Inv, [Next]_vars PROVE Inv'
    OBVIOUS
  <2>1. CASE UNCHANGED vars
    <3>1. TypeOK'
      BY <2>1 DEF Inv, TypeOK, vars, search
    <3>2. CacheCorrect'
      BY <2>1, CacheKept DEF Inv, vars
    <3>3. SearchInv'
      BY <2>1, ReachesKept DEF Inv, vars, search, SearchInv, QueuedReached,
           VisitedQueued, DequeuedDone
    <3> QED BY <3>1, <3>2, <3>3 DEF Inv
  <2>2. CASE BFS
    BY <2>2, NotFoundInv, FoundInv, DequeueInv, NeighborInv, ExpandedInv DEF BFS
  <2>3. CASE \E f, t \in Keys : Query(f, t)
    BY <2>3, QueryInv
  <2> QED BY <2>1, <2>2, <2>3 DEF Next
<1> QED BY <1>1, <1>2, PTL DEF Spec

\* reachable and reachableBFS index their queue, map and graph within bounds.
THEOREM ReachTypeCorrect == Spec => []TypeOK
<1>1. Inv => TypeOK
  BY DEF Inv
<1> QED BY <1>1, Invariance, PTL

\* Whatever was asked before, every answer reachable has cached says whether
\* there is a path in the Happens-Before graph from the first access to the
\* second.
THEOREM ReachCacheCorrect == Spec => []CacheCorrect
<1>1. Inv => CacheCorrect
  BY DEF Inv
<1> QED BY <1>1, Invariance, PTL

\* The search enqueues no node twice, so it ends after at most as many rounds
\* as the graph has nodes, also where send and receive edges make a cycle.
THEOREM ReachEnqueuedOnce == Spec => []EnqueuedOnce
<1>1. Init => EnqueuedOnce
  BY DEF Init, EnqueuedOnce
<1>2. Inv /\ EnqueuedOnce /\ [Next]_vars => EnqueuedOnce'
  <2> SUFFICES ASSUME Inv, EnqueuedOnce, [Next]_vars PROVE EnqueuedOnce'
    OBVIOUS
  <2>1. CASE Neighbor
    <3> DEFINE n == HBgraph[Current][j]
    <3>1. CASE n \in visited
      BY <2>1, <3>1 DEF Neighbor, EnqueuedOnce
    <3>2. CASE n \notin visited
      <4>1. data \in Seq(Nodes) /\ data' = Append(data, n)
        BY <2>1, <3>2 DEF Neighbor, Inv, TypeOK
      <4>2. \A i \in 1..Len(data) : data[i] # n
        BY <2>1, <3>2 DEF Neighbor, Inv, SearchInv, QueuedReached
      <4> QED BY <4>1, <4>2 DEF EnqueuedOnce
    <3> QED BY <3>1, <3>2
  <2>2. CASE \E f, t \in Keys : StartBFS(f, t)
    <3>1. PICK f \in Keys, t \in Keys : StartBFS(f, t)
      BY <2>2
    <3>2. data' = <<RWinsMap[f]>>
      BY <3>1 DEF StartBFS
    <3> QED BY <3>2 DEF EnqueuedOnce
  <2>3. CASE UNCHANGED data
    BY <2>3 DEF EnqueuedOnce
  <2>4. Neighbor \/ (\E f, t \in Keys : StartBFS(f, t)) \/ UNCHANGED data
    BY DEF Next, BFS, Query, NotFound, Found, Dequeue, Expanded, Cached,
         NotInGraph, search, vars
  <2> QED BY <2>1, <2>2, <2>3, <2>4
<1> QED BY <1>1, <1>2, Invariance, PTL DEF Spec
=============================================================================
