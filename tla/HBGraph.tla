------------------------------ MODULE HBGraph ------------------------------
(***************************************************************************)
(* buildHB (gorace/shbgraph.go): one pass over the recorded instructions   *)
(* RWIns, goroutine by goroutine in the order of their IDs, makes a node   *)
(* for each of them and the edges of the static Happens-Before graph:      *)
(* program order, go statements, WaitGroups, channels, select and if.      *)
(*                                                                         *)
(* The pass remembers nodes it may have to link later (the last If, the    *)
(* pending Waits, the last send and receive of a channel ...) in variables *)
(* that live as long as the pass: an edge is made when the second of its   *)
(* ends is met, and it is wrong if what is remembered belongs to something *)
(* else.                                                                   *)
(***************************************************************************)
EXTENDS Integers, Sequences, FiniteSets

CONSTANTS
  Traces,       \* recorded instructions: trace[g + 1][i], goroutine g
  ChannelComm   \* channelComm

VARIABLES
  trace,        \* a.RWIns, with what the traversal noted of each instruction
  at,           \* <<g, i>>: the instruction to be looked at
  h             \* the graph and the variables of buildHB

vars == <<trace, at, h>>

(***************************************************************************)
(* A goroutine other than main begins with a record of its go statement,   *)
(* which a goroutine with a smaller ID has recorded (SpawnRecorded and     *)
(* GoIDsDense of Traversal).                                               *)
(***************************************************************************)
IsTrace(t) ==
  /\ Len(t) \in Nat /\ DOMAIN t = 1..Len(t)
  /\ \A n \in DOMAIN t : Len(t[n]) \in Nat /\ DOMAIN t[n] = 1..Len(t[n])
  /\ \A n \in 2..Len(t) : t[n] # <<>> =>
        \E m \in 1..(n - 1) : \E i \in DOMAIN t[m] :
           t[m][i].op = "go" /\ t[m][i].ins = t[n][1].ins
ASSUME TracesAssumption == \A t \in Traces : IsTrace(t)

(***************************************************************************)
(* Instructions.  ins is the instruction (it may be recorded repeatedly),  *)
(* arg its channel or WaitGroup; for a select, sel is selReady, the        *)
(* indices of its send cases and whether it is in selUnknown.  "load"      *)
(* reads a channel variable for a select, which chanRcvs lists as well.    *)
(* The other fields are the traversal's maps: ifOf is ifSuccBegin, comm    *)
(* commIfSucc, caseOf selectCaseBegin, and so on.                          *)
(***************************************************************************)
NoIns == <<>>
NoChan == ""
NotSelect == [ready |-> <<>>, sends |-> {}, unknown |-> FALSE]
Instr(ins, op, arg) ==
  [ins |-> ins, op |-> op, arg |-> arg, sel |-> NotSelect,
   blk |-> <<>>, cmt |-> "entry",
   ifOf |-> NoIns, comm |-> FALSE, succEnd |-> FALSE, final |-> FALSE,
   caseOf |-> NoChan, caseEnd |-> NoChan, selDone |-> FALSE, reads |-> FALSE]

Recvs == {"recv", "load"}
RangeOf(s) == {s[n] : n \in DOMAIN s}
AllIns == UNION {RangeOf(trace[n]) : n \in DOMAIN trace}
Has(m, x) == x \in DOMAIN m
Put(m, x, v) == [y \in DOMAIN m \cup {x} |-> IF y = x THEN v ELSE m[y]]

NoNode == <<-1, 0>>
GoOf(n) == n[1]
-----------------------------------------------------------------------------
Empty ==
  [prevN |-> NoNode, goCaller |-> <<>>, waitingN |-> <<>>,
   chanRecvs |-> <<>>, chanSends |-> <<>>,
   selectN |-> <<>>, readyCh |-> <<>>, selCaseEndN |-> <<>>,
   ifN |-> NoNode, ifSuccEndN |-> <<>>, omitComm |-> {},
   RWinsMap |-> <<>>, edges |-> {}]

Init ==
  /\ trace \in Traces
  /\ at = <<0, 1>>
  /\ h = Empty

Edge(H, from, to) == [H EXCEPT !.edges = @ \cup {<<from, to>>}]
Edges(H, pairs) == [H EXCEPT !.edges = @ \cup pairs]

\* a.isReadySel: some select waits for the channel
IsReadySel(ch) == \E s \in AllIns : s.op = "select" /\ ch \in RangeOf(s.sel.ready)

\* Mutants: nothing is detached; only main's go statements are remembered;
\* the last early return is left out.
NeverDetached(x) == FALSE
RememberGoOfMain(H, x, n) ==
  IF at[1] = 0 THEN [H EXCEPT !.goCaller = Put(@, x.ins, n)] ELSE H
LinkReturnTooFew(H, x) ==
  IF ~x.final THEN H
  ELSE LET last == Len(H.ifSuccEndN)
       IN [Edges(H, {H.ifSuccEndN[r] : r \in 1..(last - 2)} \X {H.prevN})
             EXCEPT !.ifSuccEndN = <<>>]

\* A load or receive of a channel some select waits for is detached from what
\* follows it.
Disjoin(x) == x.op \in Recvs /\ IsReadySel(x.arg)

(***************************************************************************)
(* What is remembered of instruction x with node n.                        *)
(***************************************************************************)
\* A select with channels that are parameters counts as a send on the first
\* channel of a send case that is ready.
SelectSends(sends, x, n) ==
  LET ready == {k \in DOMAIN x.sel.ready : x.sel.ready[k] # NoChan /\ k \in x.sel.sends}
  IN IF x.sel.unknown /\ ready # {}
     THEN Put(sends, x.sel.ready[CHOOSE k \in ready : \A l \in ready : k <= l], n)
     ELSE sends

RememberGo(H, x, n) == [H EXCEPT !.goCaller = Put(@, x.ins, n)]

\* A goroutine other than main begins where its go statement is (mutant: where
\* the goroutine before it ends).
StartAtPrev(H, x) == H.prevN
StartN(H, x) == IF Has(H.goCaller, x.ins) THEN H.goCaller[x.ins] ELSE NoNode

Remember(H, x, n) ==
  IF at[1] # 0 /\ at[2] = 1 THEN [H EXCEPT !.prevN = StartN(H, x)]
  ELSE CASE x.op = "go" -> RememberGo(H, x, n)
         [] x.op = "select" -> [H EXCEPT !.selectN = Append(@, n),
                                         !.readyCh = x.sel.ready,
                                         !.selCaseEndN = <<>>,
                                         !.chanSends = SelectSends(@, x, n)]
         [] x.op \in Recvs -> [H EXCEPT !.chanRecvs = Put(@, x.arg, n)]
         [] x.op = "send" -> [H EXCEPT !.chanSends = Put(@, x.arg, n)]
         [] x.op = "if" -> [H EXCEPT !.ifN = n]
         [] OTHER -> H

RememberEnds(H, x, n) ==
  [H EXCEPT !.selCaseEndN = IF x.caseEnd # NoChan /\ x.caseEnd \in RangeOf(H.readyCh)
                            THEN Append(@, n) ELSE @,
            !.ifSuccEndN = IF x.succEnd THEN Append(@, n) ELSE @]
-----------------------------------------------------------------------------
(***************************************************************************)
(* The edge that leads to n.                                               *)
(***************************************************************************)
AtCase(H, x) == x.caseOf # NoChan /\ ChannelComm /\ H.selectN # <<>>
AtSelectDone(H, x) == ~AtCase(H, x) /\ x.selDone /\ ChannelComm /\ H.selectN # <<>>
AtSucc(H, x) == ~AtCase(H, x) /\ ~AtSelectDone(H, x) /\ x.ifOf # NoIns

\* The first instruction of a select case
LinkCase(H, x, n) ==
  IF x.caseOf \in {"defaultCase", "timeOut"} THEN Edge(H, H.selectN[1], n)
  ELSE IF Has(H.chanRecvs, x.caseOf) THEN Edge(H, H.chanRecvs[x.caseOf], n)
  ELSE IF x.caseOf \in RangeOf(H.readyCh) THEN Edge(H, H.selectN[1], n)
  ELSE H

\* The first instruction after a select; the select is only dropped when
\* another one has been met.
LinkSelectDone(H, n) ==
  LET from == CASE Len(H.selCaseEndN) > 1 -> {H.selectN[1]}
                [] Len(H.selCaseEndN) = 1 -> {H.selCaseEndN[1]}
                [] OTHER -> {}
  IN [Edges(H, from \X {n}) EXCEPT !.selectN = IF Len(@) > 1 THEN Tail(@) ELSE @]

\* The first instruction of a successor of an if statement, unless the other
\* branch communicates with a select
OtherBranch(x, y) == {x.cmt, y.cmt} = {"if.then", "if.else"}
SkipSucc(x) ==
  /\ ChannelComm
  /\ \E y \in AllIns : y.ifOf = x.ifOf /\ y.ins # x.ins /\ y.comm /\ OtherBranch(x, y)

LinkSucc(H, x, n) ==
  IF SkipSucc(x) THEN [H EXCEPT !.omitComm = @ \cup {x.blk}]
  ELSE IF H.ifN = NoNode THEN H
  ELSE Edge(H, H.ifN, n)

Link(H, x, n) ==
  CASE AtCase(H, x) -> LinkCase(H, x, n)
    [] AtSelectDone(H, x) -> LinkSelectDone(H, n)
    [] AtSucc(H, x) -> LinkSucc(H, x, n)
    [] OTHER -> Edge(H, H.prevN, n)

\* The node of x.  The very first is neither remembered nor linked.
MakeNode(H, x, n) ==
  IF n = <<0, 1>>
  THEN [H EXCEPT !.prevN = n,
                 !.goCaller = IF x.op = "go" THEN Put(@, x.ins, n) ELSE @]
  ELSE LET H1 == Link(RememberEnds(Remember(H, x, n), x, n), x, n)
       IN IF Disjoin(x) THEN H1 ELSE [H1 EXCEPT !.prevN = n]
-----------------------------------------------------------------------------
(***************************************************************************)
(* "Create additional edges", from and to prevN, which is the node of the  *)
(* instruction unless that one is detached.                                *)
(***************************************************************************)
\* Accesses are found by instruction and goroutine: a repeated one replaces
\* the one before.
IsRW(x) == x.op \in {"read", "write"} \/ x.reads
NoteAccess(H, x) ==
  IF IsRW(x)
  THEN [H EXCEPT !.RWinsMap = Put(@, <<x.ins, at[1]>>, H.prevN)] ELSE H

NoteWait(H, x) == [H EXCEPT !.waitingN = Put(@, <<x.ins, at[1]>>, [n |-> H.prevN, wg |-> x.arg])]

\* A Done, deferred or not, is linked to the Waits met so far.
LinkDone(H, x) ==
  LET waits == {H.waitingN[k].n : k \in {k \in DOMAIN H.waitingN : H.waitingN[k].wg = x.arg}}
  IN Edges(H, {H.prevN} \X {w \in waits : GoOf(w) # GoOf(H.prevN)})

\* A send and a receive are linked both ways, with the last receive or send
\* met on the channel.
LinkComm(H, m, ch) ==
  IF ChannelComm /\ Has(m, ch) /\ GoOf(m[ch]) # GoOf(H.prevN)
  THEN Edges(H, {<<H.prevN, m[ch]>>, <<m[ch], H.prevN>>}) ELSE H

\* The final return of a function follows the ends of the branches that
\* return earlier (the last end is this return itself).
LinkReturn(H, x) ==
  IF ~x.final THEN H
  ELSE LET last == Len(H.ifSuccEndN)
       IN [Edges(H, {H.ifSuccEndN[r] : r \in 1..(last - 1)} \X {H.prevN})
             EXCEPT !.ifSuccEndN = <<>>]
-----------------------------------------------------------------------------
(***************************************************************************)
(* Actions: one instruction each.                                          *)
(***************************************************************************)
More == at[1] < Len(trace)
Here == trace[at[1] + 1][at[2]]
AtOp(ops) == More /\ at[2] <= Len(trace[at[1] + 1]) /\ Here.op \in ops
Made == NoteAccess(MakeNode(h, Here, at), Here)
Advance == at' = <<at[1], at[2] + 1>> /\ UNCHANGED trace

Wait == AtOp({"wait"}) /\ h' = NoteWait(Made, Here) /\ Advance
Done == AtOp({"done"}) /\ h' = LinkDone(Made, Here) /\ Advance
Send == AtOp({"send"}) /\ h' = LinkComm(Made, Made.chanRecvs, Here.arg) /\ Advance
Receive == AtOp(Recvs) /\ h' = LinkComm(Made, Made.chanSends, Here.arg) /\ Advance
Return == AtOp({"return"}) /\ h' = LinkReturn(Made, Here) /\ Advance
Visit == AtOp({"go", "select", "if", "read", "write", "jump", "other"}) /\ h' = Made /\ Advance

NextGoroutine ==
  /\ More
  /\ at[2] > Len(trace[at[1] + 1])
  /\ at' = <<at[1] + 1, 1>>
  /\ UNCHANGED <<trace, h>>

Built == ~More
Finished == Built /\ UNCHANGED vars

Next == Wait \/ Done \/ Send \/ Receive \/ Return \/ Visit \/ NextGoroutine \/ Finished

Spec == Init /\ [][Next]_vars
-----------------------------------------------------------------------------
NodesOf(tr) == UNION {{<<g, i>> : i \in 1..Len(tr[g + 1])} : g \in 0..(Len(tr) - 1)}
Visited == {n \in NodesOf(trace) : n[1] < at[1] \/ (n[1] = at[1] /\ n[2] < at[2])}

\* The type invariant: every edge joins nodes of instructions that have been
\* looked at (MakeEdge would fail otherwise), and so do all the variables.
TypeOK ==
  /\ at[1] \in 0..Len(trace)
  /\ h.edges \subseteq Visited \X Visited
  /\ {h.prevN, h.ifN} \subseteq Visited \cup {NoNode}
  /\ RangeOf(h.selectN) \cup RangeOf(h.selCaseEndN) \cup RangeOf(h.ifSuccEndN) \subseteq Visited
  /\ RangeOf(h.goCaller) \cup RangeOf(h.chanRecvs) \cup RangeOf(h.chanSends)
       \cup RangeOf(h.RWinsMap) \cup {w.n : w \in RangeOf(h.waitingN)} \subseteq Visited

InsAt(n) == trace[n[1] + 1][n[2]]
SameIns(n, m) == m[1] = n[1] /\ InsAt(m).ins = InsAt(n).ins

\* An instruction that is not the first of a branch, a case or what follows a
\* select
Plain(x) == x.ifOf = NoIns /\ (ChannelComm => x.caseOf = NoChan /\ ~x.selDone)

\* The order that does not come from synchronisation: a plain instruction
\* follows the one recorded before it, the first one of a goroutine follows a
\* go statement that starts it, and an access is found at the node of its last
\* execution by the goroutine; all unless a receive was detached in between.
OrderKept ==
  \A n \in Visited :
    /\ n[2] > 1 /\ Plain(InsAt(n)) /\ ~Disjoin(InsAt(<<n[1], n[2] - 1>>)) =>
         <<<<n[1], n[2] - 1>>, n>> \in h.edges
    /\ n[1] > 0 /\ n[2] = 1 /\ Plain(InsAt(n)) =>
         \E m \in Visited : /\ m[1] < n[1] /\ InsAt(m).op = "go" /\ InsAt(m).ins = InsAt(n).ins
                            /\ <<m, n>> \in h.edges
    /\ IsRW(InsAt(n)) /\ (\A m \in Visited : SameIns(n, m) => ~Disjoin(InsAt(m))) =>
         \E m \in Visited : /\ SameIns(n, m) /\ IsRW(InsAt(m)) /\ m[2] >= n[2]
                            /\ <<InsAt(n).ins, n[1]>> \in DOMAIN h.RWinsMap
                            /\ h.RWinsMap[<<InsAt(n).ins, n[1]>>] = m
=============================================================================
