--------------------------- MODULE HBGraphProofs ---------------------------
(***************************************************************************)
(* buildHB makes no edge from or to a node that does not exist, for every  *)
(* recorded program.                                                       *)
(*                                                                         *)
(* TypeOK is not inductive: the edge to the first instruction of a         *)
(* goroutine starts at what goCaller holds for its go statement, so every  *)
(* go statement looked at must have an entry (GosKnown), and the edge to   *)
(* any later one starts at prevN, which then is not nil.                   *)
(*                                                                         *)
(* OrderKept is not inductive either: prevN must be the node before        *)
(* (PrevIsLast), and goCaller must hold go statements (GoNodes).           *)
(***************************************************************************)
EXTENDS HBGraph, TLAPS, SequenceTheorems

HFields == {"prevN", "goCaller", "waitingN", "chanRecvs", "chanSends", "selectN",
            "readyCh", "selCaseEndN", "ifN", "ifSuccEndN", "omitComm", "RWinsMap",
            "edges"}

\* The graph and the variables name only nodes of V.
Within(H, V) ==
  /\ DOMAIN H = HFields
  /\ H.edges \subseteq V \X V
  /\ H.ifN \in V \cup {NoNode}
  /\ H.selectN \in Seq(V)
  /\ H.selCaseEndN \in Seq(V)
  /\ H.ifSuccEndN \in Seq(V)
  /\ \A k \in DOMAIN H.goCaller : H.goCaller[k] \in V
  /\ \A k \in DOMAIN H.chanRecvs : H.chanRecvs[k] \in V
  /\ \A k \in DOMAIN H.chanSends : H.chanSends[k] \in V
  /\ \A k \in DOMAIN H.RWinsMap : H.RWinsMap[k] \in V
  /\ \A k \in DOMAIN H.waitingN : H.waitingN[k].n \in V

\* Every go statement that was looked at can be looked up.
GosKnown ==
  \A n \in Visited : trace[n[1] + 1][n[2]].op = "go" =>
                       trace[n[1] + 1][n[2]].ins \in DOMAIN h.goCaller

Inv ==
  /\ IsTrace(trace)
  /\ at \in Nat \X (Nat \ {0})
  /\ at[1] <= Len(trace)
  /\ at[1] < Len(trace) => at[2] <= Len(trace[at[1] + 1]) + 1
  /\ at[1] = Len(trace) => at[2] = 1
  /\ Within(h, Visited)
  /\ h.prevN \in Visited \cup {NoNode}
  /\ at[2] > 1 => h.prevN \in Visited
  /\ GosKnown
-----------------------------------------------------------------------------
(***************************************************************************)
(* The operators keep to V.                                                *)
(***************************************************************************)
LEMMA PutWithin ==
  ASSUME NEW V, NEW m, NEW x, NEW v \in V, \A k \in DOMAIN m : m[k] \in V
  PROVE  /\ DOMAIN Put(m, x, v) = DOMAIN m \cup {x}
         /\ \A k \in DOMAIN Put(m, x, v) : Put(m, x, v)[k] \in V
BY DEF Put

LEMMA AppendWithin ==
  ASSUME NEW V, NEW s \in Seq(V), NEW v \in V
  PROVE  Append(s, v) \in Seq(V)
OBVIOUS

LEMMA WithinMore ==
  ASSUME NEW H, NEW V, NEW W, V \subseteq W, Within(H, V)
  PROVE  Within(H, W)
<1>1. Seq(V) \subseteq Seq(W)
  <2>1. SUFFICES ASSUME NEW s \in Seq(V) PROVE s \in Seq(W)
    OBVIOUS
  <2>2. s \in [1..Len(s) -> V] /\ Len(s) \in Nat
    OBVIOUS
  <2>3. s \in [1..Len(s) -> W]
    BY <2>2
  <2>4. QED
    BY <2>2, <2>3
<1>2. QED
  BY <1>1 DEF Within

LEMMA EdgesWithin ==
  ASSUME NEW H, NEW V, Within(H, V), NEW pairs \in SUBSET (V \X V)
  PROVE  /\ Within(Edges(H, pairs), V)
         /\ Edges(H, pairs).prevN = H.prevN
         /\ Edges(H, pairs).goCaller = H.goCaller
BY DEF Within, Edges, HFields

LEMMA EdgeWithin ==
  ASSUME NEW H, NEW V, Within(H, V), NEW from \in V, NEW to \in V
  PROVE  /\ Within(Edge(H, from, to), V)
         /\ Edge(H, from, to).prevN = H.prevN
         /\ Edge(H, from, to).goCaller = H.goCaller
BY DEF Within, Edge, HFields

LEMMA PrevWithin ==
  ASSUME NEW H, NEW V, Within(H, V), NEW p
  PROVE  /\ Within([H EXCEPT !.prevN = p], V)
         /\ [H EXCEPT !.prevN = p].prevN = p
         /\ [H EXCEPT !.prevN = p].goCaller = H.goCaller
BY DEF Within, HFields

LEMMA GoWithin ==
  ASSUME NEW H, NEW V, Within(H, V), NEW x, NEW n \in V
  PROVE  /\ Within(RememberGo(H, x, n), V)
         /\ RememberGo(H, x, n).prevN = H.prevN
         /\ DOMAIN RememberGo(H, x, n).goCaller = DOMAIN H.goCaller \cup {x.ins}
<1> DEFINE m == Put(H.goCaller, x.ins, n)
<1>1. DOMAIN m = DOMAIN H.goCaller \cup {x.ins} /\ \A k \in DOMAIN m : m[k] \in V
  BY PutWithin DEF Within
<1>2. RememberGo(H, x, n) = [H EXCEPT !.goCaller = m]
  BY DEF RememberGo
<1> HIDE DEF m
<1>3. QED
  BY <1>1, <1>2 DEF Within, HFields

\* What Remember does with the first instruction of a goroutine, and with
\* all others.
LEMMA RememberFirst ==
  ASSUME NEW H, NEW V, Within(H, V), NEW x, NEW n \in V,
         at[1] # 0, at[2] = 1, x.ins \in DOMAIN H.goCaller
  PROVE  LET R == Remember(H, x, n) IN
         Within(R, V) /\ R.prevN \in V /\ R.goCaller = H.goCaller
<1>1. Remember(H, x, n) = [H EXCEPT !.prevN = H.goCaller[x.ins]]
  BY DEF Remember, Has, StartN
<1>2. H.goCaller[x.ins] \in V
  BY DEF Within
<1>3. QED
  BY <1>1, <1>2, PrevWithin

LEMMA SelectSendsWithin ==
  ASSUME NEW V, NEW m, \A k \in DOMAIN m : m[k] \in V, NEW x, NEW n \in V
  PROVE  \A k \in DOMAIN SelectSends(m, x, n) : SelectSends(m, x, n)[k] \in V
BY PutWithin DEF SelectSends

LEMMA RememberLater ==
  ASSUME NEW H, NEW V, Within(H, V), NEW x, NEW n \in V, ~(at[1] # 0 /\ at[2] = 1)
  PROVE  LET R == Remember(H, x, n) IN
         /\ Within(R, V)
         /\ R.prevN = H.prevN
         /\ DOMAIN H.goCaller \subseteq DOMAIN R.goCaller
         /\ x.op = "go" => x.ins \in DOMAIN R.goCaller
<1> DEFINE R == Remember(H, x, n)
<1>1. CASE x.op = "go"
  <2>1. R = RememberGo(H, x, n)
    BY <1>1 DEF Remember, Recvs
  <2>2. QED
    BY <2>1, GoWithin
<1>2. CASE x.op = "select"
  <2> DEFINE sends == SelectSends(H.chanSends, x, n)
  <2>1. R = [H EXCEPT !.selectN = Append(@, n), !.readyCh = x.sel.ready,
                      !.selCaseEndN = <<>>, !.chanSends = sends]
    BY <1>2 DEF Remember, Recvs
  <2>2. Append(H.selectN, n) \in Seq(V) /\ <<>> \in Seq(V)
    BY DEF Within
  <2>3. \A k \in DOMAIN sends : sends[k] \in V
    BY SelectSendsWithin DEF Within
  <2> HIDE DEF sends
  <2>4. QED
    BY <1>2, <2>1, <2>2, <2>3 DEF Within, HFields
<1>3. CASE x.op \in Recvs
  <2> DEFINE m == Put(H.chanRecvs, x.arg, n)
  <2>1. R = [H EXCEPT !.chanRecvs = m]
    BY <1>3 DEF Remember, Recvs
  <2>2. \A k \in DOMAIN m : m[k] \in V
    BY PutWithin DEF Within
  <2> HIDE DEF m
  <2>3. QED
    BY <1>3, <2>1, <2>2 DEF Within, HFields, Recvs
<1>4. CASE x.op = "send"
  <2> DEFINE m == Put(H.chanSends, x.arg, n)
  <2>1. R = [H EXCEPT !.chanSends = m]
    BY <1>4 DEF Remember, Recvs
  <2>2. \A k \in DOMAIN m : m[k] \in V
    BY PutWithin DEF Within
  <2> HIDE DEF m
  <2>3. QED
    BY <1>4, <2>1, <2>2 DEF Within, HFields
<1>5. CASE x.op = "if"
  <2>1. R = [H EXCEPT !.ifN = n]
    BY <1>5 DEF Remember, Recvs
  <2>2. QED
    BY <1>5, <2>1 DEF Within, HFields
<1>6. CASE x.op \notin {"go", "select", "send", "if"} \cup Recvs
  <2>1. R = H
    BY <1>6 DEF Remember, Recvs
  <2>2. QED
    BY <1>6, <2>1
<1>7. QED
  BY <1>1, <1>2, <1>3, <1>4, <1>5, <1>6

LEMMA EndsWithin ==
  ASSUME NEW H, NEW V, Within(H, V), NEW x, NEW n \in V
  PROVE  LET R == RememberEnds(H, x, n) IN
         Within(R, V) /\ R.prevN = H.prevN /\ R.goCaller = H.goCaller
<1> DEFINE sel == IF x.caseEnd # NoChan /\ x.caseEnd \in RangeOf(H.readyCh)
                  THEN Append(H.selCaseEndN, n) ELSE H.selCaseEndN
           succ == IF x.succEnd THEN Append(H.ifSuccEndN, n) ELSE H.ifSuccEndN
<1>1. sel \in Seq(V) /\ succ \in Seq(V)
  BY AppendWithin DEF Within
<1>2. RememberEnds(H, x, n) = [H EXCEPT !.selCaseEndN = sel, !.ifSuccEndN = succ]
  BY DEF RememberEnds
<1> HIDE DEF sel, succ
<1>3. QED
  BY <1>1, <1>2 DEF Within, HFields
-----------------------------------------------------------------------------
(***************************************************************************)
(* The edge to the node of an instruction, and the additional edges.       *)
(***************************************************************************)
\* H2 is H with more edges, or with another select or branch remembered.
Linked(H, H2, V) ==
  Within(H2, V) /\ H2.prevN = H.prevN /\ H2.goCaller = H.goCaller

LEMMA CaseWithin ==
  ASSUME NEW H, NEW V, Within(H, V), NEW x, NEW n \in V, H.selectN # <<>>
  PROVE  Linked(H, LinkCase(H, x, n), V)
<1>1. H.selectN[1] \in V
  BY DEF Within
<1>2. Has(H.chanRecvs, x.caseOf) => H.chanRecvs[x.caseOf] \in V
  BY DEF Within, Has
<1>3. QED
  BY <1>1, <1>2, EdgeWithin, SMTT(20) DEF LinkCase, Linked

LEMMA SelectDoneWithin ==
  ASSUME NEW H, NEW V, Within(H, V), NEW n \in V, H.selectN # <<>>
  PROVE  Linked(H, LinkSelectDone(H, n), V)
<1> DEFINE from == CASE Len(H.selCaseEndN) > 1 -> {H.selectN[1]}
                     [] Len(H.selCaseEndN) = 1 -> {H.selCaseEndN[1]}
                     [] OTHER -> {}
           E == Edges(H, from \X {n})
           sel == IF Len(E.selectN) > 1 THEN Tail(E.selectN) ELSE E.selectN
<1>1. H.selectN[1] \in V /\ (Len(H.selCaseEndN) = 1 => H.selCaseEndN[1] \in V)
  BY DEF Within
<1>2. Len(H.selCaseEndN) \in Nat
  BY DEF Within
<1>3. from \subseteq V
  BY <1>1, <1>2
<1> HIDE DEF from
<1>4. from \X {n} \in SUBSET (V \X V)
  BY <1>3
<1>5. Linked(H, E, V)
  BY <1>4, EdgesWithin DEF Linked
<1>6. LinkSelectDone(H, n) = [E EXCEPT !.selectN = sel]
  BY DEF LinkSelectDone, from
<1> HIDE DEF E
<1>7. sel \in Seq(V)
  BY <1>5 DEF Within, Linked
<1> HIDE DEF sel
<1>8. QED
  BY <1>5, <1>6, <1>7 DEF Within, Linked, HFields

LEMMA SuccWithin ==
  ASSUME NEW H, NEW V, Within(H, V), NEW x, NEW n \in V
  PROVE  Linked(H, LinkSucc(H, x, n), V)
<1>1. CASE SkipSucc(x)
  <2>1. LinkSucc(H, x, n) = [H EXCEPT !.omitComm = @ \cup {x.blk}]
    BY <1>1 DEF LinkSucc
  <2>2. QED
    BY <2>1 DEF Within, Linked, HFields
<1>2. CASE ~SkipSucc(x)
  BY <1>2, EdgeWithin DEF LinkSucc, Linked, Within
<1>3. QED
  BY <1>1, <1>2

LEMMA LinkWithin ==
  ASSUME NEW H, NEW V, Within(H, V), H.prevN \in V, NEW x, NEW n \in V
  PROVE  Linked(H, Link(H, x, n), V)
<1>1. CASE AtCase(H, x)
  <2>1. H.selectN # <<>>
    BY <1>1 DEF AtCase
  <2>2. Link(H, x, n) = LinkCase(H, x, n)
    BY <1>1 DEF Link, AtSelectDone, AtSucc
  <2>3. QED
    BY <2>1, <2>2, CaseWithin
<1>2. CASE AtSelectDone(H, x)
  <2>1. H.selectN # <<>>
    BY <1>2 DEF AtSelectDone
  <2>2. Link(H, x, n) = LinkSelectDone(H, n)
    BY <1>2 DEF Link, AtSelectDone, AtSucc
  <2>3. QED
    BY <2>1, <2>2, SelectDoneWithin
<1>3. CASE AtSucc(H, x)
  <2>1. Link(H, x, n) = LinkSucc(H, x, n)
    BY <1>3 DEF Link, AtSucc
  <2>2. QED
    BY <2>1, SuccWithin
<1>4. CASE ~AtCase(H, x) /\ ~AtSelectDone(H, x) /\ ~AtSucc(H, x)
  <2>1. Link(H, x, n) = Edge(H, H.prevN, n)
    BY <1>4 DEF Link
  <2>2. QED
    BY <2>1, EdgeWithin DEF Linked
<1>5. QED
  BY <1>1, <1>2, <1>3, <1>4

\* The node of an instruction: prevN is a node afterwards, and the go
\* statement can be looked up.
NodeMade(H, H2, x, V) ==
  /\ Within(H2, V)
  /\ H2.prevN \in V
  /\ DOMAIN H.goCaller \subseteq DOMAIN H2.goCaller
  /\ x.op = "go" => x.ins \in DOMAIN H2.goCaller

LEMMA MakeNodeWithin ==
  ASSUME NEW H, NEW V, Within(H, V), NEW x, at \in V, at \in Nat \X (Nat \ {0}),
         at[2] > 1 => H.prevN \in V,
         at[1] # 0 /\ at[2] = 1 => x.ins \in DOMAIN H.goCaller
  PROVE  NodeMade(H, MakeNode(H, x, at), x, V)
<1>1. CASE at = <<0, 1>>
  <2> DEFINE m == IF x.op = "go" THEN Put(H.goCaller, x.ins, at) ELSE H.goCaller
  <2>1. /\ \A k \in DOMAIN m : m[k] \in V
        /\ DOMAIN H.goCaller \subseteq DOMAIN m
        /\ x.op = "go" => x.ins \in DOMAIN m
    <3>1. \A k \in DOMAIN H.goCaller : H.goCaller[k] \in V
      BY DEF Within
    <3>2. CASE x.op = "go"
      <4>1. m = Put(H.goCaller, x.ins, at)
        BY <3>2
      <4> HIDE DEF m
      <4>2. QED
        BY <3>1, <4>1 DEF Put
    <3>3. CASE x.op # "go"
      BY <3>1, <3>3
    <3>4. QED
      BY <3>2, <3>3
  <2>2. MakeNode(H, x, at) = [H EXCEPT !.prevN = at, !.goCaller = m]
    BY <1>1 DEF MakeNode
  <2> HIDE DEF m
  <2>3. QED
    BY <2>1, <2>2 DEF NodeMade, Within, HFields
<1>2. CASE at # <<0, 1>>
  <2> DEFINE R == Remember(H, x, at)
             E == RememberEnds(R, x, at)
             L == Link(E, x, at)
  <2>1. NodeMade(H, R, x, V)
    <3>1. CASE at[1] # 0 /\ at[2] = 1
      BY <3>1, RememberFirst DEF NodeMade
    <3>2. CASE ~(at[1] # 0 /\ at[2] = 1)
      <4>1. at[2] > 1
        BY <1>2, <3>2
      <4>2. QED
        BY <3>2, <4>1, RememberLater DEF NodeMade
    <3>3. QED
      BY <3>1, <3>2
  <2>2. NodeMade(H, E, x, V)
    BY <2>1, EndsWithin DEF NodeMade
  <2>3. NodeMade(H, L, x, V)
    BY <2>2, LinkWithin DEF NodeMade, Linked
  <2>4. MakeNode(H, x, at) = IF Disjoin(x) THEN L ELSE [L EXCEPT !.prevN = at]
    BY <1>2 DEF MakeNode
  <2> HIDE DEF L
  <2>5. QED
    BY <2>3, <2>4, PrevWithin DEF NodeMade
<1>3. QED
  BY <1>1, <1>2

LEMMA AccessWithin ==
  ASSUME NEW H, NEW V, Within(H, V), H.prevN \in V, NEW x
  PROVE  Linked(H, NoteAccess(H, x), V)
<1> DEFINE m == Put(H.RWinsMap, <<x.ins, at[1]>>, H.prevN)
<1>1. \A k \in DOMAIN m : m[k] \in V
  BY PutWithin DEF Within
<1>2. NoteAccess(H, x) \in {H, [H EXCEPT !.RWinsMap = m]}
  BY DEF NoteAccess, IsRW
<1> HIDE DEF m
<1>3. Linked(H, [H EXCEPT !.RWinsMap = m], V)
  BY <1>1 DEF Within, Linked, HFields
<1>4. Linked(H, H, V)
  BY DEF Linked
<1>5. QED
  BY <1>2, <1>3, <1>4

LEMMA WaitWithin ==
  ASSUME NEW H, NEW V, Within(H, V), H.prevN \in V, NEW x
  PROVE  Linked(H, NoteWait(H, x), V)
<1> DEFINE w == [n |-> H.prevN, wg |-> x.arg]
           m == Put(H.waitingN, <<x.ins, at[1]>>, w)
<1>1. \A k \in DOMAIN m : m[k].n \in V
  BY DEF Within, Put
<1>2. NoteWait(H, x) = [H EXCEPT !.waitingN = m]
  BY DEF NoteWait
<1> HIDE DEF m
<1>3. QED
  BY <1>1, <1>2 DEF Within, Linked, HFields

LEMMA DoneWithin ==
  ASSUME NEW H, NEW V, Within(H, V), H.prevN \in V, NEW x
  PROVE  Linked(H, LinkDone(H, x), V)
<1> DEFINE waits == {H.waitingN[k].n : k \in {k \in DOMAIN H.waitingN : H.waitingN[k].wg = x.arg}}
           pairs == {H.prevN} \X {w \in waits : GoOf(w) # GoOf(H.prevN)}
<1>1. waits \subseteq V
  BY DEF Within
<1> HIDE DEF waits
<1>2. pairs \in SUBSET (V \X V)
  BY <1>1
<1>3. LinkDone(H, x) = Edges(H, pairs)
  BY DEF LinkDone, waits
<1> HIDE DEF pairs
<1>4. QED
  BY <1>2, <1>3, EdgesWithin DEF Linked

LEMMA CommWithin ==
  ASSUME NEW H, NEW V, Within(H, V), H.prevN \in V, NEW m, NEW ch,
         \A k \in DOMAIN m : m[k] \in V
  PROVE  Linked(H, LinkComm(H, m, ch), V)
<1>1. Linked(H, H, V)
  BY DEF Linked
<1>2. CASE ch \in DOMAIN m
  <2> DEFINE pairs == {<<H.prevN, m[ch]>>, <<m[ch], H.prevN>>}
  <2>1. pairs \in SUBSET (V \X V)
    BY <1>2
  <2>2. LinkComm(H, m, ch) \in {H, Edges(H, pairs)}
    BY DEF LinkComm
  <2> HIDE DEF pairs
  <2>3. QED
    BY <1>1, <2>1, <2>2, EdgesWithin DEF Linked
<1>3. CASE ch \notin DOMAIN m
  BY <1>1, <1>3 DEF LinkComm, Has
<1>4. QED
  BY <1>2, <1>3

LEMMA ReturnWithin ==
  ASSUME NEW H, NEW V, Within(H, V), H.prevN \in V, NEW x
  PROVE  Linked(H, LinkReturn(H, x), V)
<1>1. Linked(H, H, V)
  BY DEF Linked
<1> DEFINE last == Len(H.ifSuccEndN)
           pairs == {H.ifSuccEndN[r] : r \in 1..(last - 1)} \X {H.prevN}
           E == Edges(H, pairs)
<1>2. pairs \in SUBSET (V \X V)
  BY DEF Within
<1>3. LinkReturn(H, x) \in {H, [E EXCEPT !.ifSuccEndN = <<>>]}
  BY DEF LinkReturn
<1> HIDE DEF pairs
<1>4. Linked(H, E, V)
  BY <1>2, EdgesWithin DEF Linked
<1> HIDE DEF E
<1>5. <<>> \in Seq(V)
  OBVIOUS
<1>6. Linked(H, [E EXCEPT !.ifSuccEndN = <<>>], V)
  BY <1>4, <1>5 DEF Linked, Within, HFields
<1>7. QED
  BY <1>1, <1>3, <1>6
-----------------------------------------------------------------------------
(***************************************************************************)
(* The steps.                                                              *)
(***************************************************************************)
Before(g, i) == {n \in NodesOf(trace) : n[1] < g \/ (n[1] = g /\ n[2] < i)}

LEMMA NodesMember ==
  ASSUME IsTrace(trace), NEW n
  PROVE  n \in NodesOf(trace) <=>
           /\ n \in Nat \X (Nat \ {0})
           /\ n[1] < Len(trace)
           /\ n[2] <= Len(trace[n[1] + 1])
<1>1. /\ Len(trace) \in Nat
      /\ \A g \in 0..(Len(trace) - 1) : Len(trace[g + 1]) \in Nat
  BY DEF IsTrace
<1>2. ASSUME n \in NodesOf(trace)
      PROVE  /\ n \in Nat \X (Nat \ {0})
             /\ n[1] < Len(trace)
             /\ n[2] <= Len(trace[n[1] + 1])
  <2>1. PICK g \in 0..(Len(trace) - 1) : n \in {<<g, i>> : i \in 1..Len(trace[g + 1])}
    BY <1>2 DEF NodesOf
  <2>2. PICK i \in 1..Len(trace[g + 1]) : n = <<g, i>>
    BY <2>1
  <2>3. QED
    BY <1>1, <2>1, <2>2
<1>3. ASSUME n \in Nat \X (Nat \ {0}), n[1] < Len(trace), n[2] <= Len(trace[n[1] + 1])
      PROVE  n \in NodesOf(trace)
  <2>1. n[1] \in 0..(Len(trace) - 1) /\ n[2] \in 1..Len(trace[n[1] + 1]) /\ n = <<n[1], n[2]>>
    BY <1>1, <1>3
  <2>2. QED
    BY <2>1 DEF NodesOf
<1>4. QED
  BY <1>2, <1>3

\* What one instruction adds to the nodes looked at.
LEMMA OneMore ==
  ASSUME Inv, More, at[2] <= Len(trace[at[1] + 1])
  PROVE  /\ at \in NodesOf(trace)
         /\ Before(at[1], at[2] + 1) = Visited \cup {at}
<1>1. Len(trace) \in Nat /\ \A g \in 0..(Len(trace) - 1) : Len(trace[g + 1]) \in Nat
  BY DEF IsTrace, Inv
<1>2. at \in NodesOf(trace)
  BY NodesMember DEF Inv, More
<1>3. ASSUME NEW n \in NodesOf(trace)
      PROVE  n \in Before(at[1], at[2] + 1) <=> n \in Visited \cup {at}
  <2>1. n \in Nat \X Nat /\ at \in Nat \X Nat
    BY <1>3, NodesMember DEF Inv
  <2>2. n = at <=> n[1] = at[1] /\ n[2] = at[2]
    BY <2>1
  <2>3. n[1] \in Nat /\ n[2] \in Nat /\ at[1] \in Nat /\ at[2] \in Nat
    BY <2>1
  <2>4. QED
    BY <1>3, <2>2, <2>3 DEF Before, Visited
<1>4. QED
  BY <1>2, <1>3 DEF Before, Visited

\* The first record of a goroutine other than main can be looked up.
LEMMA StartKnown ==
  ASSUME Inv, More, at[1] # 0, at[2] = 1, at[2] <= Len(trace[at[1] + 1])
  PROVE  Here.ins \in DOMAIN h.goCaller
<1> DEFINE n == at[1] + 1
<1>1. IsTrace(trace) /\ n \in 2..Len(trace) /\ Len(trace) \in Nat
  BY DEF Inv, More, IsTrace
<1>2. trace[n] # <<>>
  BY <1>1 DEF IsTrace
<1>3. PICK m \in 1..(n - 1) : \E i \in DOMAIN trace[m] :
         trace[m][i].op = "go" /\ trace[m][i].ins = trace[n][1].ins
  BY <1>1, <1>2 DEF IsTrace
<1>4. PICK i \in DOMAIN trace[m] : trace[m][i].op = "go" /\ trace[m][i].ins = trace[n][1].ins
  BY <1>3
<1>5. m \in 1..Len(trace) /\ m - 1 \in Nat /\ (m - 1) + 1 = m /\ m - 1 < at[1]
  <2>1. at[1] \in Nat
    BY DEF Inv
  <2>2. QED
    BY <1>1, <1>3, <2>1
<1>6. i \in 1..Len(trace[m]) /\ Len(trace[m]) \in Nat
  BY <1>1, <1>4, <1>5 DEF IsTrace
<1> DEFINE p == <<m - 1, i>>
<1>7. p \in NodesOf(trace)
  <2>1. p \in Nat \X (Nat \ {0}) /\ p[1] < Len(trace) /\ p[2] <= Len(trace[p[1] + 1])
    BY <1>1, <1>5, <1>6
  <2>2. IsTrace(trace)
    BY DEF Inv
  <2>3. QED
    BY <2>1, <2>2, NodesMember
<1>8. p \in Visited
  BY <1>5, <1>7 DEF Visited
<1>9. trace[p[1] + 1][p[2]] = trace[m][i]
  BY <1>5
<1>10. trace[m][i].ins \in DOMAIN h.goCaller
  BY <1>4, <1>8, <1>9 DEF Inv, GosKnown
<1>11. QED
  BY <1>4, <1>10 DEF Here

\* Looking at one instruction: the graph that Made gives, which the action
\* may then link further.
LEMMA MadeWithin ==
  ASSUME Inv, More, at[2] <= Len(trace[at[1] + 1])
  PROVE  NodeMade(h, Made, Here, Visited \cup {at})
<1> DEFINE V == Visited \cup {at}
           M == MakeNode(h, Here, at)
<1>1. Within(h, V)
  BY WithinMore DEF Inv
<1>2. at \in V /\ at \in Nat \X (Nat \ {0}) /\ (at[2] > 1 => h.prevN \in V)
  BY DEF Inv
<1>3. at[1] # 0 /\ at[2] = 1 => Here.ins \in DOMAIN h.goCaller
  BY StartKnown
<1> HIDE DEF V
<1>4. NodeMade(h, M, Here, V)
  BY <1>1, <1>2, <1>3, MakeNodeWithin
<1>5. Linked(M, NoteAccess(M, Here), V)
  BY <1>4, AccessWithin DEF NodeMade
<1>6. QED
  BY <1>4, <1>5 DEF NodeMade, Linked, Made, V

LEMMA Advanced ==
  ASSUME Inv, More, at[2] <= Len(trace[at[1] + 1]), Advance,
         Linked(Made, h', Visited \cup {at})
  PROVE  Inv'
<1> DEFINE V == Visited \cup {at}
<1>1. NodeMade(h, Made, Here, V)
  BY MadeWithin
<1>2. at \in NodesOf(trace) /\ Before(at[1], at[2] + 1) = V
  BY OneMore
<1>3. trace' = trace /\ at' = <<at[1], at[2] + 1>>
  BY DEF Advance
<1>4. at'[1] = at[1] /\ at'[2] = at[2] + 1
  BY <1>3
<1>5. Visited' = V
  BY <1>2, <1>3, <1>4 DEF Before, Visited, NodesOf
<1>6. at[1] \in Nat /\ at[2] \in Nat \ {0} /\ Len(trace) \in Nat /\ Len(trace[at[1] + 1]) \in Nat
  BY DEF Inv, IsTrace, More
<1>7. Within(h', V) /\ h'.prevN \in V /\ h'.goCaller = Made.goCaller
  BY <1>1 DEF NodeMade, Linked
<1>8. GosKnown'
  <2>1. SUFFICES ASSUME NEW n \in V, trace[n[1] + 1][n[2]].op = "go"
                 PROVE  trace[n[1] + 1][n[2]].ins \in DOMAIN h'.goCaller
    BY <1>3, <1>5 DEF GosKnown
  <2>2. CASE n \in Visited
    <3>1. trace[n[1] + 1][n[2]].ins \in DOMAIN h.goCaller
      BY <2>1, <2>2 DEF Inv, GosKnown
    <3>2. QED
      BY <1>1, <1>7, <3>1 DEF NodeMade
  <2>3. CASE n = at
    BY <1>1, <1>7, <2>1, <2>3 DEF NodeMade, Here
  <2>4. QED
    BY <2>2, <2>3
<1> HIDE DEF V
<1>9. IsTrace(trace)' /\ at' \in Nat \X (Nat \ {0})
  BY <1>3, <1>6 DEF Inv
<1>10. /\ at'[1] <= Len(trace')
       /\ at'[1] < Len(trace') => at'[2] <= Len(trace'[at'[1] + 1]) + 1
       /\ at'[1] = Len(trace') => at'[2] = 1
  BY <1>3, <1>4, <1>6 DEF Inv, More
<1>11. QED
  BY <1>5, <1>7, <1>8, <1>9, <1>10 DEF Inv

\* Going on to the next goroutine.
LEMMA SameVisited ==
  ASSUME Inv, NextGoroutine
  PROVE  Visited' = Visited
<1>1. /\ trace' = trace /\ at' = <<at[1] + 1, 1>>
      /\ at[1] < Len(trace) /\ at[2] > Len(trace[at[1] + 1])
  BY DEF NextGoroutine, More
<1>2. /\ at[1] \in Nat /\ at[2] \in Nat \ {0} /\ Len(trace) \in Nat
      /\ \A g \in 0..(Len(trace) - 1) : Len(trace[g + 1]) \in Nat
  BY DEF Inv, IsTrace
<1>3. at'[1] = at[1] + 1 /\ at'[2] = 1
  BY <1>1
<1>4. ASSUME NEW n \in NodesOf(trace)
      PROVE  n[1] < at[1] \/ (n[1] = at[1] /\ n[2] < at[2]) <=>
             n[1] < at[1] + 1 \/ (n[1] = at[1] + 1 /\ n[2] < 1)
  <2>1. n[1] \in Nat /\ n[2] \in Nat \ {0} /\ n[2] <= Len(trace[n[1] + 1]) /\ n[1] < Len(trace)
    BY <1>4, NodesMember DEF Inv
  <2>2. Len(trace[n[1] + 1]) \in Nat
    BY <1>2, <2>1
  <2>3. n[1] = at[1] => n[2] < at[2]
    BY <1>1, <1>2, <2>1, <2>2
  <2>4. QED
    BY <1>2, <2>1, <2>3
<1>5. QED
  BY <1>1, <1>3, <1>4 DEF Visited, NodesOf

LEMMA StepInv == Inv /\ [Next]_vars => Inv'
<1>1. SUFFICES ASSUME Inv, [Next]_vars PROVE Inv'
  OBVIOUS
<1> DEFINE V == Visited \cup {at}
<1>2. ASSUME NEW ops, AtOp(ops)
      PROVE  More /\ at[2] <= Len(trace[at[1] + 1]) /\ NodeMade(h, Made, Here, V)
  BY <1>1, <1>2, MadeWithin DEF AtOp
<1> HIDE DEF V
<1>3. CASE Wait
  <2>1. Linked(Made, h', V)
    BY <1>2, <1>3, WaitWithin DEF Wait, NodeMade
  <2>2. QED
    BY <1>1, <1>2, <1>3, <2>1, Advanced DEF Wait, V
<1>4. CASE Done
  <2>1. Linked(Made, h', V)
    BY <1>2, <1>4, DoneWithin DEF Done, NodeMade
  <2>2. QED
    BY <1>1, <1>2, <1>4, <2>1, Advanced DEF Done, V
<1>5. CASE Send
  <2>1. Linked(Made, h', V)
    BY <1>2, <1>5, CommWithin DEF Send, NodeMade, Within
  <2>2. QED
    BY <1>1, <1>2, <1>5, <2>1, Advanced DEF Send, V
<1>6. CASE Receive
  <2>1. Linked(Made, h', V)
    BY <1>2, <1>6, CommWithin DEF Receive, NodeMade, Within
  <2>2. QED
    BY <1>1, <1>2, <1>6, <2>1, Advanced DEF Receive, V
<1>7. CASE Return
  <2>1. Linked(Made, h', V)
    BY <1>2, <1>7, ReturnWithin DEF Return, NodeMade
  <2>2. QED
    BY <1>1, <1>2, <1>7, <2>1, Advanced DEF Return, V
<1>8. CASE Visit
  <2>1. Linked(Made, h', V)
    BY <1>2, <1>8 DEF Visit, NodeMade, Linked
  <2>2. QED
    BY <1>1, <1>2, <1>8, <2>1, Advanced DEF Visit, V
<1>9. CASE NextGoroutine
  <2>1. /\ trace' = trace /\ h' = h /\ at' = <<at[1] + 1, 1>>
        /\ at[1] < Len(trace) /\ at[2] > Len(trace[at[1] + 1])
    BY <1>9 DEF NextGoroutine, More
  <2>2. /\ at[1] \in Nat /\ at[2] \in Nat \ {0} /\ Len(trace) \in Nat
        /\ \A g \in 0..(Len(trace) - 1) : Len(trace[g + 1]) \in Nat
    BY <1>1 DEF Inv, IsTrace
  <2>3. at'[1] = at[1] + 1 /\ at'[2] = 1
    BY <2>1
  <2>4. Visited' = Visited
    BY <1>1, <1>9, SameVisited
  <2>5. GosKnown'
    BY <1>1, <2>1, <2>4 DEF Inv, GosKnown
  <2>6. /\ IsTrace(trace)' /\ at' \in Nat \X (Nat \ {0})
        /\ at'[1] <= Len(trace') /\ at'[2] = 1
        /\ at'[1] < Len(trace') => at'[2] <= Len(trace'[at'[1] + 1]) + 1
    BY <1>1, <2>1, <2>2, <2>3, SMTT(30) DEF Inv
  <2>7. QED
    BY <1>1, <2>1, <2>3, <2>4, <2>5, <2>6 DEF Inv
<1>10. CASE UNCHANGED vars
  <2>1. trace' = trace /\ at' = at /\ h' = h
    BY <1>10 DEF vars
  <2>2. Visited' = Visited
    BY <2>1 DEF Visited, NodesOf
  <2>3. GosKnown'
    BY <1>1, <2>1, <2>2 DEF Inv, GosKnown
  <2>4. QED
    BY <1>1, <2>1, <2>2, <2>3 DEF Inv
<1>11. QED
  BY <1>1, <1>3, <1>4, <1>5, <1>6, <1>7, <1>8, <1>9, <1>10 DEF Next, Finished

LEMMA StartInv ==
  ASSUME IsTrace(trace), at = <<0, 1>>, h = Empty
  PROVE  Inv
<1>1. Len(trace) \in Nat /\ \A g \in 0..(Len(trace) - 1) : Len(trace[g + 1]) \in Nat
  BY DEF IsTrace
<1>2. Visited = {}
  BY NodesMember DEF Visited
<1>3. Within(Empty, {})
  BY DEF Empty, Within, HFields
<1>4. at[1] = 0 /\ at[2] = 1 /\ at \in Nat \X (Nat \ {0})
  OBVIOUS
<1>5. Empty.prevN = NoNode
  BY DEF Empty
<1>6. QED
  BY <1>1, <1>2, <1>3, <1>4, <1>5 DEF Inv, GosKnown

LEMMA InvTypeOK == Inv => TypeOK
<1>1. SUFFICES ASSUME Inv PROVE TypeOK
  OBVIOUS
<1>2. Within(h, Visited) /\ h.prevN \in Visited \cup {NoNode}
  BY <1>1 DEF Inv
<1>3. RangeOf(h.selectN) \cup RangeOf(h.selCaseEndN) \cup RangeOf(h.ifSuccEndN) \subseteq Visited
  BY <1>2 DEF Within, RangeOf
<1>4. RangeOf(h.goCaller) \cup RangeOf(h.chanRecvs) \cup RangeOf(h.chanSends)
        \cup RangeOf(h.RWinsMap) \cup {w.n : w \in RangeOf(h.waitingN)} \subseteq Visited
  BY <1>2 DEF Within, RangeOf
<1>5. at[1] \in 0..Len(trace) /\ h.edges \subseteq Visited \X Visited
      /\ {h.prevN, h.ifN} \subseteq Visited \cup {NoNode}
  BY <1>1, <1>2 DEF Inv, Within, IsTrace
<1>6. QED
  BY <1>3, <1>4, <1>5 DEF TypeOK

\* Every edge of the Happens-Before graph joins nodes of instructions that
\* buildHB has looked at, and so do the variables it links from later: the
\* lookup of a go statement in goCaller never gives nil (shbgraph.go:103), for
\* every recorded program in which a goroutine begins with a go statement of
\* an earlier one.
THEOREM TypeCorrect == Spec => []TypeOK
<1>1. Init => Inv
  BY TracesAssumption, StartInv DEF Init
<1>2. Inv /\ [Next]_vars => Inv'
  BY StepInv
<1>3. Inv => TypeOK
  BY InvTypeOK
<1>4. QED
  BY <1>1, <1>2, <1>3, PTL DEF Spec
-----------------------------------------------------------------------------
(***************************************************************************)
(* What the order rests on: edges are only added, the node before is what  *)
(* prevN holds, and goCaller holds nodes of go statements.                 *)
(***************************************************************************)
\* H2 is H with more edges; what the order is read from is the same.
Grown(H, H2) ==
  /\ DOMAIN H2 = HFields
  /\ H.edges \subseteq H2.edges
  /\ H2.prevN = H.prevN
  /\ H2.goCaller = H.goCaller
  /\ H2.RWinsMap = H.RWinsMap

LEMMA GrownFrom ==
  ASSUME NEW H, DOMAIN H = HFields
  PROVE  /\ Grown(H, H)
         /\ \A pairs : Grown(H, Edges(H, pairs)) /\ pairs \subseteq Edges(H, pairs).edges
         /\ \A from, to : Grown(H, Edge(H, from, to)) /\ <<from, to>> \in Edge(H, from, to).edges
         /\ \A v : /\ Grown(H, [H EXCEPT !.selectN = v])
                   /\ Grown(H, [H EXCEPT !.ifSuccEndN = v])
                   /\ Grown(H, [H EXCEPT !.omitComm = v])
                   /\ Grown(H, [H EXCEPT !.waitingN = v])
BY DEF Grown, Edges, Edge, HFields

LEMMA GrownOn ==
  ASSUME NEW H, NEW H1, NEW H2, Grown(H, H1), Grown(H1, H2)
  PROVE  Grown(H, H2)
BY DEF Grown

LEMMA LinkGrown ==
  ASSUME NEW H, DOMAIN H = HFields, NEW x, NEW n
  PROVE  Grown(H, Link(H, x, n)) /\ (Plain(x) => <<H.prevN, n>> \in Link(H, x, n).edges)
<1>1. CASE AtCase(H, x)
  <2>1. Link(H, x, n) = LinkCase(H, x, n) /\ ~Plain(x)
    BY <1>1 DEF Link, AtSelectDone, AtSucc, AtCase, Plain
  <2>2. Grown(H, LinkCase(H, x, n))
    BY GrownFrom DEF LinkCase
  <2>3. QED
    BY <2>1, <2>2
<1>2. CASE AtSelectDone(H, x)
  <2> DEFINE from == CASE Len(H.selCaseEndN) > 1 -> {H.selectN[1]}
                       [] Len(H.selCaseEndN) = 1 -> {H.selCaseEndN[1]}
                       [] OTHER -> {}
             E == Edges(H, from \X {n})
             sel == IF Len(E.selectN) > 1 THEN Tail(E.selectN) ELSE E.selectN
  <2>1. Link(H, x, n) = LinkSelectDone(H, n) /\ ~Plain(x)
    BY <1>2 DEF Link, AtSelectDone, AtSucc, Plain
  <2>2. LinkSelectDone(H, n) = [E EXCEPT !.selectN = sel]
    BY DEF LinkSelectDone
  <2>3. Grown(H, E)
    BY GrownFrom
  <2> HIDE DEF E, sel
  <2>4. Grown(E, [E EXCEPT !.selectN = sel])
    BY <2>3, GrownFrom DEF Grown
  <2>5. QED
    BY <2>1, <2>2, <2>3, <2>4, GrownOn
<1>3. CASE AtSucc(H, x)
  <2>1. Link(H, x, n) = LinkSucc(H, x, n) /\ ~Plain(x)
    BY <1>3 DEF Link, AtSucc, Plain
  <2>2. Grown(H, LinkSucc(H, x, n))
    BY GrownFrom DEF LinkSucc
  <2>3. QED
    BY <2>1, <2>2
<1>4. CASE ~AtCase(H, x) /\ ~AtSelectDone(H, x) /\ ~AtSucc(H, x)
  <2>1. Link(H, x, n) = Edge(H, H.prevN, n)
    BY <1>4 DEF Link
  <2>2. QED
    BY <2>1, GrownFrom
<1>5. QED
  BY <1>1, <1>2, <1>3, <1>4

LEMMA EndsGrown ==
  ASSUME NEW H, DOMAIN H = HFields, NEW x, NEW n
  PROVE  Grown(H, RememberEnds(H, x, n))
BY DEF RememberEnds, Grown, HFields

\* goCaller afterwards: what it was, and the node of a go statement.
GosNoted(H, H2, x, n) ==
  \A k \in DOMAIN H2.goCaller :
    \/ k \in DOMAIN H.goCaller /\ H2.goCaller[k] = H.goCaller[k]
    \/ x.op = "go" /\ k = x.ins /\ H2.goCaller[k] = n

LEMMA RememberOrder ==
  ASSUME NEW H, DOMAIN H = HFields, NEW x, NEW n
  PROVE  LET R == Remember(H, x, n) IN
         /\ DOMAIN R = HFields /\ R.edges = H.edges /\ R.RWinsMap = H.RWinsMap
         /\ GosNoted(H, R, x, n)
         /\ ~(at[1] # 0 /\ at[2] = 1) => R.prevN = H.prevN
         /\ at[1] # 0 /\ at[2] = 1 /\ x.ins \in DOMAIN H.goCaller =>
              R.prevN = H.goCaller[x.ins]
<1> DEFINE R == Remember(H, x, n)
<1>1. CASE at[1] # 0 /\ at[2] = 1
  <2>1. R = [H EXCEPT !.prevN = StartN(H, x)]
    BY <1>1 DEF Remember
  <2>2. x.ins \in DOMAIN H.goCaller => StartN(H, x) = H.goCaller[x.ins]
    BY DEF StartN, Has
  <2>3. QED
    BY <1>1, <2>1, <2>2 DEF HFields, GosNoted
<1>2. CASE ~(at[1] # 0 /\ at[2] = 1) /\ x.op = "go"
  <2> DEFINE m == Put(H.goCaller, x.ins, n)
  <2>1. R = [H EXCEPT !.goCaller = m]
    BY <1>2 DEF Remember, RememberGo, Recvs
  <2>2. \A k \in DOMAIN m : (k \in DOMAIN H.goCaller /\ m[k] = H.goCaller[k])
                            \/ (k = x.ins /\ m[k] = n)
    BY DEF Put
  <2> HIDE DEF m
  <2>3. QED
    BY <1>2, <2>1, <2>2 DEF HFields, GosNoted
<1>3. CASE ~(at[1] # 0 /\ at[2] = 1) /\ x.op # "go"
  BY <1>3 DEF Remember, Recvs, HFields, GosNoted
<1>4. QED
  BY <1>1, <1>2, <1>3

LEMMA MakeNodeOrder ==
  ASSUME NEW H, DOMAIN H = HFields, NEW x, at \in Nat \X (Nat \ {0}),
         at[1] # 0 /\ at[2] = 1 => x.ins \in DOMAIN H.goCaller
  PROVE  LET N == MakeNode(H, x, at) IN
         /\ DOMAIN N = HFields
         /\ H.edges \subseteq N.edges
         /\ N.RWinsMap = H.RWinsMap
         /\ ~Disjoin(x) => N.prevN = at
         /\ GosNoted(H, N, x, at)
         /\ at[2] > 1 /\ Plain(x) => <<H.prevN, at>> \in N.edges
         /\ at[1] # 0 /\ at[2] = 1 /\ Plain(x) => <<H.goCaller[x.ins], at>> \in N.edges
<1> DEFINE N == MakeNode(H, x, at)
<1>1. CASE at = <<0, 1>>
  <2> DEFINE m == IF x.op = "go" THEN Put(H.goCaller, x.ins, at) ELSE H.goCaller
  <2>1. N = [H EXCEPT !.prevN = at, !.goCaller = m]
    BY <1>1 DEF MakeNode
  <2>2. \A k \in DOMAIN m : (k \in DOMAIN H.goCaller /\ m[k] = H.goCaller[k])
                            \/ (x.op = "go" /\ k = x.ins /\ m[k] = at)
    BY DEF Put
  <2> HIDE DEF m
  <2>3. at[1] = 0 /\ at[2] = 1
    BY <1>1
  <2>4. QED
    BY <2>1, <2>2, <2>3 DEF HFields, GosNoted
<1>2. CASE at # <<0, 1>>
  <2> DEFINE R == Remember(H, x, at)
             E == RememberEnds(R, x, at)
             L == Link(E, x, at)
  <2>1. /\ DOMAIN R = HFields /\ R.edges = H.edges /\ R.RWinsMap = H.RWinsMap
        /\ GosNoted(H, R, x, at)
        /\ at[2] > 1 => R.prevN = H.prevN
        /\ at[1] # 0 /\ at[2] = 1 => R.prevN = H.goCaller[x.ins]
    BY RememberOrder
  <2>2. Grown(R, E)
    BY <2>1, EndsGrown
  <2>3. Grown(E, L) /\ (Plain(x) => <<E.prevN, at>> \in L.edges)
    BY <2>2, LinkGrown DEF Grown
  <2>4. N = IF Disjoin(x) THEN L ELSE [L EXCEPT !.prevN = at]
    BY <1>2 DEF MakeNode
  <2> HIDE DEF R, E, L, N
  <2>5. Grown(R, L) /\ (Plain(x) => <<R.prevN, at>> \in L.edges)
    BY <2>2, <2>3, GrownOn DEF Grown
  <2>6. /\ DOMAIN N = HFields /\ N.edges = L.edges /\ N.RWinsMap = L.RWinsMap
        /\ N.goCaller = L.goCaller /\ (~Disjoin(x) => N.prevN = at)
    BY <2>4, <2>5 DEF Grown, HFields
  <2>7. GosNoted(H, N, x, at)
    BY <2>1, <2>5, <2>6 DEF GosNoted, Grown
  <2>8. QED
    BY <2>1, <2>5, <2>6, <2>7 DEF Grown, N
<1>3. QED
  BY <1>1, <1>2

LEMMA MoreGrown ==
  ASSUME NEW H, DOMAIN H = HFields, NEW x
  PROVE  /\ Grown(H, NoteWait(H, x))
         /\ Grown(H, LinkDone(H, x))
         /\ \A m, ch : Grown(H, LinkComm(H, m, ch))
         /\ Grown(H, LinkReturn(H, x))
<1>1. Grown(H, NoteWait(H, x))
  BY GrownFrom DEF NoteWait
<1>2. Grown(H, LinkDone(H, x))
  BY GrownFrom DEF LinkDone
<1>3. ASSUME NEW m, NEW ch PROVE Grown(H, LinkComm(H, m, ch))
  BY GrownFrom DEF LinkComm
<1>4. Grown(H, LinkReturn(H, x))
  <2> DEFINE E == Edges(H, {H.ifSuccEndN[r] : r \in 1..(Len(H.ifSuccEndN) - 1)} \X {H.prevN})
  <2>1. LinkReturn(H, x) \in {H, [E EXCEPT !.ifSuccEndN = <<>>]}
    BY DEF LinkReturn
  <2>2. Grown(H, H) /\ Grown(H, E)
    BY GrownFrom
  <2> HIDE DEF E
  <2>3. Grown(E, [E EXCEPT !.ifSuccEndN = <<>>])
    BY <2>2, GrownFrom DEF Grown
  <2>4. QED
    BY <2>1, <2>2, <2>3, GrownOn
<1>5. QED
  BY <1>1, <1>2, <1>3, <1>4
-----------------------------------------------------------------------------
(***************************************************************************)
(* The order, step by step.                                                *)
(***************************************************************************)
PrevIsLast ==
  at[2] > 1 /\ ~Disjoin(InsAt(<<at[1], at[2] - 1>>)) => h.prevN = <<at[1], at[2] - 1>>

GoNodes ==
  \A k \in DOMAIN h.goCaller :
    InsAt(h.goCaller[k]).op = "go" /\ InsAt(h.goCaller[k]).ins = k

OrderInv == Inv /\ PrevIsLast /\ GoNodes /\ OrderKept

\* The three parts of OrderKept, of the node n among the nodes V
FollowsPrev(H, n) ==
  n[2] > 1 /\ Plain(InsAt(n)) /\ ~Disjoin(InsAt(<<n[1], n[2] - 1>>)) =>
    <<<<n[1], n[2] - 1>>, n>> \in H.edges
FollowsGo(H, V, n) ==
  n[1] > 0 /\ n[2] = 1 /\ Plain(InsAt(n)) =>
    \E m \in V : /\ m[1] < n[1] /\ InsAt(m).op = "go" /\ InsAt(m).ins = InsAt(n).ins
                 /\ <<m, n>> \in H.edges
FoundAgain(H, V, n) ==
  IsRW(InsAt(n)) /\ (\A m \in V : SameIns(n, m) => ~Disjoin(InsAt(m))) =>
    \E m \in V : /\ SameIns(n, m) /\ IsRW(InsAt(m)) /\ m[2] >= n[2]
                 /\ <<InsAt(n).ins, n[1]>> \in DOMAIN H.RWinsMap
                 /\ H.RWinsMap[<<InsAt(n).ins, n[1]>>] = m

LEMMA OrderParts ==
  OrderKept <=> \A n \in Visited : /\ FollowsPrev(h, n)
                                   /\ FollowsGo(h, Visited, n)
                                   /\ FoundAgain(h, Visited, n)
BY DEF OrderKept, FollowsPrev, FollowsGo, FoundAgain

\* They are about the recorded instructions, which do not change.
LEMMA SameTrace ==
  ASSUME trace' = trace
  PROVE  /\ \A x : Disjoin(x)' <=> Disjoin(x)
         /\ \A n : InsAt(n)' = InsAt(n)
         /\ \A n, m : SameIns(n, m)' <=> SameIns(n, m)
<1>1. \A x : Disjoin(x)' <=> Disjoin(x)
  BY DEF Disjoin, IsReadySel, AllIns
<1>2. \A n : InsAt(n)' = InsAt(n)
  BY DEF InsAt
<1>3. \A n, m : SameIns(n, m)' <=> SameIns(n, m)
  BY DEF SameIns, InsAt
<1>4. QED
  BY <1>1, <1>2, <1>3

LEMMA OrderPartsPrimed ==
  ASSUME trace' = trace,
         \A n \in Visited' : /\ FollowsPrev(h', n)
                             /\ FollowsGo(h', Visited', n)
                             /\ FoundAgain(h', Visited', n)
  PROVE  OrderKept'
<1>1. SUFFICES ASSUME NEW n \in Visited'
               PROVE  /\ FollowsPrev(h, n)'
                      /\ FollowsGo(h, Visited, n)'
                      /\ FoundAgain(h, Visited, n)'
  BY DEF OrderKept, FollowsPrev, FollowsGo, FoundAgain
<1>2. FollowsPrev(h, n)'
  BY <1>1, SameTrace DEF FollowsPrev
<1>3. FollowsGo(h, Visited, n)'
  BY <1>1 DEF FollowsGo, InsAt, Plain
<1>4. FoundAgain(h, Visited, n)'
  BY <1>1, SameTrace DEF FoundAgain
<1>5. QED
  BY <1>2, <1>3, <1>4

\* One instruction more.  Made gives the node and its edge, h' may have more
\* edges.
LEMMA OrderAdvanced ==
  ASSUME OrderInv, More, at[2] <= Len(trace[at[1] + 1]), Advance, Grown(Made, h'),
         Linked(Made, h', Visited \cup {at})
  PROVE  OrderInv'
<1> DEFINE V == Visited \cup {at}
           N == MakeNode(h, Here, at)
<1>1. Inv /\ PrevIsLast /\ GoNodes
      /\ \A n \in Visited : FollowsPrev(h, n) /\ FollowsGo(h, Visited, n) /\ FoundAgain(h, Visited, n)
  BY OrderParts DEF OrderInv
<1>2. Inv'
  BY <1>1, Advanced
<1>3. trace' = trace /\ at' = <<at[1], at[2] + 1>> /\ at'[1] = at[1] /\ at'[2] = at[2] + 1
  BY DEF Advance
<1>4. Visited' = V
  <2>1. Before(at[1], at[2] + 1) = V
    BY <1>1, OneMore
  <2>2. QED
    BY <1>3, <2>1 DEF Before, Visited, NodesOf
<1>5. at \in Nat \X (Nat \ {0}) /\ at[1] \in Nat /\ at[2] \in Nat \ {0} /\ at = <<at[1], at[2]>>
  BY <1>1 DEF Inv
<1>6. Here = InsAt(at)
  BY DEF Here, InsAt
<1>7. DOMAIN h = HFields /\ (at[1] # 0 /\ at[2] = 1 => Here.ins \in DOMAIN h.goCaller)
  BY <1>1, StartKnown DEF Inv, Within
<1>8. /\ DOMAIN N = HFields
      /\ h.edges \subseteq N.edges
      /\ N.RWinsMap = h.RWinsMap
      /\ ~Disjoin(Here) => N.prevN = at
      /\ GosNoted(h, N, Here, at)
      /\ at[2] > 1 /\ Plain(Here) => <<h.prevN, at>> \in N.edges
      /\ at[1] # 0 /\ at[2] = 1 /\ Plain(Here) => <<h.goCaller[Here.ins], at>> \in N.edges
  BY <1>5, <1>7, MakeNodeOrder
<1> HIDE DEF N
<1>9. /\ N.edges \subseteq h'.edges
      /\ h'.prevN = N.prevN /\ h'.goCaller = N.goCaller
  <2>1. Made = NoteAccess(N, Here)
    BY DEF Made, N
  <2>2. Made.edges = N.edges /\ Made.prevN = N.prevN /\ Made.goCaller = N.goCaller
    BY <1>8, <2>1 DEF NoteAccess, HFields
  <2>3. QED
    BY <2>2 DEF Grown
<1>10. h'.RWinsMap = IF IsRW(Here) THEN Put(h.RWinsMap, <<Here.ins, at[1]>>, N.prevN) ELSE h.RWinsMap
  <2>1. Made = NoteAccess(N, Here)
    BY DEF Made, N
  <2>2. QED
    BY <1>8, <2>1 DEF NoteAccess, HFields, Grown
<1>11. PrevIsLast'
  <2>1. <<at'[1], at'[2] - 1>> = at
    BY <1>3, <1>5
  <2>2. SUFFICES ASSUME ~Disjoin(InsAt(at)) PROVE h'.prevN = at
    BY <1>3, <2>1, SameTrace DEF PrevIsLast
  <2>3. QED
    BY <1>6, <1>8, <1>9, <2>2
<1>12. GoNodes'
  <2>1. SUFFICES ASSUME NEW k \in DOMAIN h'.goCaller
                 PROVE  InsAt(h'.goCaller[k]).op = "go" /\ InsAt(h'.goCaller[k]).ins = k
    BY <1>3 DEF GoNodes, InsAt
  <2>2. QED
    BY <1>1, <1>6, <1>8, <1>9, <2>1 DEF GosNoted, GoNodes
<1>13. ASSUME NEW n \in V PROVE FollowsPrev(h', n)
  <2>1. CASE n \in Visited
    BY <1>1, <1>8, <1>9, <2>1 DEF FollowsPrev
  <2>2. CASE n = at
    <3>1. SUFFICES ASSUME at[2] > 1, Plain(InsAt(at)), ~Disjoin(InsAt(<<at[1], at[2] - 1>>))
                   PROVE  <<<<at[1], at[2] - 1>>, at>> \in h'.edges
      BY <2>2 DEF FollowsPrev
    <3>2. h.prevN = <<at[1], at[2] - 1>>
      BY <1>1, <3>1 DEF PrevIsLast
    <3>3. QED
      BY <1>6, <1>8, <1>9, <3>1, <3>2
  <2>3. QED
    BY <1>13, <2>1, <2>2
<1>14. ASSUME NEW n \in V PROVE FollowsGo(h', V, n)
  <2>1. CASE n \in Visited
    BY <1>1, <1>8, <1>9, <2>1 DEF FollowsGo
  <2>2. CASE n = at
    <3>1. SUFFICES ASSUME at[1] > 0, at[2] = 1, Plain(InsAt(at))
                   PROVE  \E m \in V : /\ m[1] < at[1] /\ InsAt(m).op = "go"
                                       /\ InsAt(m).ins = InsAt(at).ins
                                       /\ <<m, at>> \in h'.edges
      BY <2>2 DEF FollowsGo
    <3> DEFINE m == h.goCaller[Here.ins]
    <3>2. Here.ins \in DOMAIN h.goCaller /\ m \in Visited
      BY <1>1, <1>5, <1>7, <3>1 DEF Inv, Within
    <3>3. InsAt(m).op = "go" /\ InsAt(m).ins = Here.ins
      BY <1>1, <3>2 DEF GoNodes
    <3>4. m[1] < at[1]
      <4>1. m \in NodesOf(trace) /\ (m[1] < at[1] \/ (m[1] = at[1] /\ m[2] < at[2]))
        BY <3>2 DEF Visited
      <4>2. m[2] \in Nat \ {0}
        BY <1>1, <4>1, NodesMember DEF Inv
      <4>3. QED
        BY <3>1, <4>1, <4>2
    <3>5. <<m, at>> \in h'.edges
      BY <1>5, <1>6, <1>8, <1>9, <3>1
    <3>6. QED
      BY <1>6, <3>2, <3>3, <3>4, <3>5
  <2>3. QED
    BY <1>14, <2>1, <2>2
<1>15. ASSUME NEW n \in V PROVE FoundAgain(h', V, n)
  <2> DEFINE k == <<InsAt(n).ins, n[1]>>
  <2>1. SUFFICES ASSUME IsRW(InsAt(n)), \A m \in V : SameIns(n, m) => ~Disjoin(InsAt(m))
                 PROVE  \E m \in V : /\ SameIns(n, m) /\ IsRW(InsAt(m)) /\ m[2] >= n[2]
                                     /\ k \in DOMAIN h'.RWinsMap /\ h'.RWinsMap[k] = m
    BY DEF FoundAgain
  <2>2. CASE IsRW(Here) /\ k = <<Here.ins, at[1]>>
    <3>1. SameIns(n, at) /\ n[1] = at[1]
      BY <1>6, <2>2 DEF SameIns
    <3>2. h'.RWinsMap[k] = at /\ k \in DOMAIN h'.RWinsMap
      BY <1>6, <1>8, <1>10, <2>1, <2>2, <3>1 DEF Put
    <3>3. at[2] >= n[2]
      <4>1. n = at \/ (n \in NodesOf(trace) /\ n[2] < at[2])
        BY <1>5, <1>15, <3>1 DEF Visited
      <4>2. n \in NodesOf(trace) => n[2] \in Nat
        BY <1>1, NodesMember DEF Inv
      <4>3. QED
        BY <1>5, <4>1, <4>2
    <3>4. QED
      BY <1>6, <2>2, <3>1, <3>2, <3>3
  <2>3. CASE ~(IsRW(Here) /\ k = <<Here.ins, at[1]>>)
    <3>1. n \in Visited
      BY <1>6, <1>15, <2>1, <2>3
    <3>2. PICK m \in Visited : /\ SameIns(n, m) /\ IsRW(InsAt(m)) /\ m[2] >= n[2]
                               /\ k \in DOMAIN h.RWinsMap /\ h.RWinsMap[k] = m
      BY <1>1, <2>1, <3>1 DEF FoundAgain
    <3>3. k \in DOMAIN h'.RWinsMap /\ h'.RWinsMap[k] = h.RWinsMap[k]
      BY <1>10, <2>3, <3>2 DEF Put
    <3>4. QED
      BY <3>2, <3>3
  <2>4. QED
    BY <2>2, <2>3
<1>16. OrderKept'
  <2>1. \A n \in Visited' : /\ FollowsPrev(h', n)
                            /\ FollowsGo(h', Visited', n)
                            /\ FoundAgain(h', Visited', n)
    BY <1>4, <1>13, <1>14, <1>15
  <2>2. QED
    BY <1>3, <2>1, OrderPartsPrimed
<1>17. QED
  BY <1>2, <1>11, <1>12, <1>16 DEF OrderInv

LEMMA OrderStep == OrderInv /\ [Next]_vars => OrderInv'
<1>1. SUFFICES ASSUME OrderInv, [Next]_vars PROVE OrderInv'
  OBVIOUS
<1>2. Inv
  BY <1>1 DEF OrderInv
<1> DEFINE V == Visited \cup {at}
<1>3. ASSUME NEW ops, AtOp(ops)
      PROVE  /\ More /\ at[2] <= Len(trace[at[1] + 1])
             /\ NodeMade(h, Made, Here, V) /\ DOMAIN Made = HFields
  BY <1>2, <1>3, MadeWithin DEF AtOp, NodeMade, Within
<1> HIDE DEF V
<1>4. CASE Wait
  <2>1. Linked(Made, h', V) /\ Grown(Made, h')
    BY <1>3, <1>4, WaitWithin, MoreGrown DEF Wait, NodeMade
  <2>2. QED
    BY <1>1, <1>3, <1>4, <2>1, OrderAdvanced DEF Wait, V
<1>5. CASE Done
  <2>1. Linked(Made, h', V) /\ Grown(Made, h')
    BY <1>3, <1>5, DoneWithin, MoreGrown DEF Done, NodeMade
  <2>2. QED
    BY <1>1, <1>3, <1>5, <2>1, OrderAdvanced DEF Done, V
<1>6. CASE Send
  <2>1. Linked(Made, h', V) /\ Grown(Made, h')
    BY <1>3, <1>6, CommWithin, MoreGrown DEF Send, NodeMade, Within
  <2>2. QED
    BY <1>1, <1>3, <1>6, <2>1, OrderAdvanced DEF Send, V
<1>7. CASE Receive
  <2>1. Linked(Made, h', V) /\ Grown(Made, h')
    BY <1>3, <1>7, CommWithin, MoreGrown DEF Receive, NodeMade, Within
  <2>2. QED
    BY <1>1, <1>3, <1>7, <2>1, OrderAdvanced DEF Receive, V
<1>8. CASE Return
  <2>1. Linked(Made, h', V) /\ Grown(Made, h')
    BY <1>3, <1>8, ReturnWithin, MoreGrown DEF Return, NodeMade
  <2>2. QED
    BY <1>1, <1>3, <1>8, <2>1, OrderAdvanced DEF Return, V
<1>9. CASE Visit
  <2>1. Linked(Made, h', V) /\ Grown(Made, h')
    BY <1>3, <1>9, GrownFrom DEF Visit, NodeMade, Linked
  <2>2. QED
    BY <1>1, <1>3, <1>9, <2>1, OrderAdvanced DEF Visit, V
<1>10. ASSUME trace' = trace, h' = h, Visited' = Visited, PrevIsLast' PROVE OrderInv'
  <2>1. Inv'
    BY <1>1, <1>2, StepInv
  <2>2. GoNodes'
    BY <1>1, <1>10 DEF OrderInv, GoNodes, InsAt
  <2>3. OrderKept'
    BY <1>1, <1>10, OrderParts, OrderPartsPrimed DEF OrderInv
  <2>4. QED
    BY <1>10, <2>1, <2>2, <2>3 DEF OrderInv
<1>11. CASE NextGoroutine
  <2>1. PrevIsLast'
    BY <1>11 DEF NextGoroutine, PrevIsLast
  <2>2. QED
    BY <1>2, <1>10, <1>11, <2>1, SameVisited DEF NextGoroutine
<1>12. CASE UNCHANGED vars
  <2>1. trace' = trace /\ at' = at /\ h' = h
    BY <1>12 DEF vars
  <2>2. Visited' = Visited
    BY <2>1 DEF Visited, NodesOf
  <2>3. PrevIsLast'
    BY <1>1, <2>1, SameTrace DEF OrderInv, PrevIsLast
  <2>4. QED
    BY <1>10, <2>1, <2>2, <2>3
<1>13. QED
  BY <1>1, <1>4, <1>5, <1>6, <1>7, <1>8, <1>9, <1>11, <1>12 DEF Next, Finished

LEMMA OrderStart ==
  ASSUME IsTrace(trace), at = <<0, 1>>, h = Empty
  PROVE  OrderInv
<1>1. Inv
  BY StartInv
<1>2. Visited = {}
  BY NodesMember DEF Visited
<1>3. at[2] = 1 /\ DOMAIN h.goCaller = {}
  BY DEF Empty
<1>4. QED
  BY <1>1, <1>2, <1>3 DEF OrderInv, PrevIsLast, GoNodes, OrderKept

\* For every recorded program, the graph has the program order of each
\* goroutine and the order of the go statements that start them, whatever
\* goroutines, WaitGroups and channels make buildHB link in between, and a
\* recorded access is found (RWinsMap) at the node of its last execution by
\* the same goroutine; only after a receive that is detached is that not so.
THEOREM OrderCorrect == Spec => []OrderKept
<1>1. Init => OrderInv
  BY TracesAssumption, OrderStart DEF Init
<1>2. OrderInv /\ [Next]_vars => OrderInv'
  BY OrderStep
<1>3. OrderInv => OrderKept
  BY DEF OrderInv
<1>4. QED
  BY <1>1, <1>2, <1>3, PTL DEF Spec
=============================================================================
