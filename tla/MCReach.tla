------------------------------ MODULE MCReach ------------------------------
(***************************************************************************)
(* Instances of Reach for TLC: small graphs with cycles, repeated edges    *)
(* (the loop over waitingN may call MakeEdge again) and nodes without      *)
(* neighbors.                                                              *)
(***************************************************************************)
EXTENDS Reach

Lists == {<<>>, <<1>>, <<2>>, <<3>>, <<2, 3>>, <<3, 3>>, <<2, 1>>}
MCGraphs == {G \in [Nodes -> Lists] : G[1] # <<>>}

\* Access "b" may be missing from the graph: its goroutine never recorded it.
MCNodeMaps == {[k \in {"a", "b"} |-> IF k = "a" THEN 1 ELSE n] : n \in {2, 3}}
                \cup {[k \in {"a"} |-> 1]}
=============================================================================
