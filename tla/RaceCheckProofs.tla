-------------------------- MODULE RaceCheckProofs --------------------------
(***************************************************************************)
(* The detector as a whole, for every plain program: the graph of what the *)
(* traversal has recorded has no missing node, every recorded access is    *)
(* found in it, the loops of checkRacyPairs report exactly the candidates, *)
(* and what precedes a go statement does not race with what it starts.     *)
(*                                                                         *)
(* HBGraphProofs assumes of the recorded instructions that a goroutine     *)
(* begins with a go statement of an earlier one; the invariant of          *)
(* TraversalProofs says that what the traversal records is so.             *)
(***************************************************************************)
EXTENDS RaceCheck, TraversalProofs

HBP == INSTANCE HBGraphProofs WITH Traces <- {}, ChannelComm <- TRUE,
                                   trace <- HBTrace, at <- hbAt, h <- hb

(***************************************************************************)
(* The operators of HBGraph are the same in HBGraphProofs.                 *)
(***************************************************************************)
LEMMA SameRemember ==
  ASSUME NEW H, NEW x, NEW n
  PROVE  /\ HB!Remember(H, x, n) = HBP!Remember(H, x, n)
         /\ HB!RememberEnds(H, x, n) = HBP!RememberEnds(H, x, n)
BY DEF HB!Remember, HBP!Remember, HB!RememberEnds, HBP!RememberEnds,
       HB!RememberGo, HBP!RememberGo, HB!SelectSends, HBP!SelectSends,
       HB!StartN, HBP!StartN, HB!Put, HBP!Put, HB!Has, HBP!Has, HB!RangeOf,
       HBP!RangeOf, HB!NoNode, HBP!NoNode, HB!NoChan, HBP!NoChan, HB!Recvs,
       HBP!Recvs

LEMMA SameLinks ==
  ASSUME NEW H, NEW x, NEW n
  PROVE  /\ HB!LinkCase(H, x, n) = HBP!LinkCase(H, x, n)
         /\ HB!LinkSelectDone(H, n) = HBP!LinkSelectDone(H, n)
         /\ HB!LinkSucc(H, x, n) = HBP!LinkSucc(H, x, n)
BY DEF HB!LinkCase, HBP!LinkCase, HB!LinkSelectDone, HBP!LinkSelectDone,
       HB!LinkSucc, HBP!LinkSucc, HB!SkipSucc, HBP!SkipSucc, HB!OtherBranch,
       HBP!OtherBranch, HB!AllIns, HBP!AllIns, HB!Edge, HBP!Edge, HB!Edges,
       HBP!Edges, HB!Has, HBP!Has, HB!RangeOf, HBP!RangeOf, HB!NoNode,
       HBP!NoNode

LEMMA SameLink ==
  ASSUME NEW H, NEW x, NEW n
  PROVE  HB!Link(H, x, n) = HBP!Link(H, x, n)
BY SameLinks DEF HB!Link, HBP!Link, HB!AtCase, HBP!AtCase, HB!AtSelectDone,
       HBP!AtSelectDone, HB!AtSucc, HBP!AtSucc, HB!NoChan, HBP!NoChan,
       HB!NoIns, HBP!NoIns, HB!Edge, HBP!Edge

LEMMA SameDisjoin ==
  ASSUME NEW x
  PROVE  HB!Disjoin(x) = HBP!Disjoin(x)
BY DEF HB!Disjoin, HBP!Disjoin, HB!IsReadySel, HBP!IsReadySel, HB!Recvs,
       HBP!Recvs, HB!AllIns, HBP!AllIns, HB!RangeOf, HBP!RangeOf

LEMMA SameMakeNode ==
  ASSUME NEW H, NEW x, NEW n
  PROVE  HB!MakeNode(H, x, n) = HBP!MakeNode(H, x, n)
BY SameRemember, SameLink, SameDisjoin DEF HB!MakeNode, HBP!MakeNode, HB!Put,
       HBP!Put

LEMMA SameNotes ==
  ASSUME NEW H, NEW x
  PROVE  /\ HB!NoteAccess(H, x) = HBP!NoteAccess(H, x)
         /\ HB!NoteWait(H, x) = HBP!NoteWait(H, x)
         /\ HB!LinkReturn(H, x) = HBP!LinkReturn(H, x)
BY DEF HB!NoteAccess, HBP!NoteAccess, HB!NoteWait, HBP!NoteWait,
       HB!LinkReturn, HBP!LinkReturn, HB!Put, HBP!Put, HB!Edges, HBP!Edges,
       HB!IsRW, HBP!IsRW

LEMMA SameLinkDone ==
  ASSUME NEW H, NEW x
  PROVE  HB!LinkDone(H, x) = HBP!LinkDone(H, x)
BY DEF HB!LinkDone, HBP!LinkDone, HB!Edges, HBP!Edges, HB!GoOf, HBP!GoOf

LEMMA SameLinkComm ==
  ASSUME NEW H, NEW m, NEW ch
  PROVE  HB!LinkComm(H, m, ch) = HBP!LinkComm(H, m, ch)
BY DEF HB!LinkComm, HBP!LinkComm, HB!Edges, HBP!Edges, HB!GoOf, HBP!GoOf,
       HB!Has, HBP!Has

LEMMA SameMade ==
  /\ HB!Made = HBP!Made
  /\ HB!Here = HBP!Here
BY SameMakeNode, SameNotes DEF HB!Made, HBP!Made, HB!Here, HBP!Here

LEMMA SameNext == HB!Next => HBP!Next
<1>1. SUFFICES ASSUME HB!Next PROVE HBP!Next
  OBVIOUS
<1>2. HB!More = HBP!More
  BY DEF HB!More, HBP!More
<1>3. ASSUME NEW ops PROVE HB!AtOp(ops) = HBP!AtOp(ops)
  BY <1>2, SameMade DEF HB!AtOp, HBP!AtOp
<1>4. HB!Advance = HBP!Advance
  BY DEF HB!Advance, HBP!Advance
<1>5. HB!Recvs = HBP!Recvs
  BY DEF HB!Recvs, HBP!Recvs
<1>6. CASE HB!Wait
  BY <1>3, <1>4, <1>6, SameMade, SameNotes DEF HB!Wait, HBP!Wait, HBP!Next
<1>7. CASE HB!Done
  BY <1>3, <1>4, <1>7, SameMade, SameLinkDone DEF HB!Done, HBP!Done, HBP!Next
<1>8. CASE HB!Send
  BY <1>3, <1>4, <1>8, SameMade, SameLinkComm DEF HB!Send, HBP!Send, HBP!Next
<1>9. CASE HB!Receive
  BY <1>3, <1>4, <1>5, <1>9, SameMade, SameLinkComm DEF HB!Receive, HBP!Receive, HBP!Next
<1>10. CASE HB!Return
  BY <1>3, <1>4, <1>10, SameMade, SameNotes DEF HB!Return, HBP!Return, HBP!Next
<1>11. CASE HB!Visit
  BY <1>3, <1>4, <1>11, SameMade DEF HB!Visit, HBP!Visit, HBP!Next
<1>12. CASE HB!NextGoroutine
  BY <1>2, <1>12 DEF HB!NextGoroutine, HBP!NextGoroutine, HBP!Next
<1>13. CASE HB!Finished
  BY <1>2, <1>13 DEF HB!Finished, HBP!Finished, HB!Built, HBP!Built, HB!vars, HBP!vars, HBP!Next
<1>14. QED
  BY <1>1, <1>6, <1>7, <1>8, <1>9, <1>10, <1>11, <1>12, <1>13 DEF HB!Next

LEMMA SameEmpty == HB!Empty = HBP!Empty
BY DEF HB!Empty, HBP!Empty, HB!NoNode, HBP!NoNode

LEMMA SameTypeOK == HBP!TypeOK => HB!TypeOK
<1>1. HB!Visited = HBP!Visited
  BY DEF HB!Visited, HBP!Visited, HB!NodesOf, HBP!NodesOf
<1>2. QED
  BY <1>1 DEF HB!TypeOK, HBP!TypeOK, HB!RangeOf, HBP!RangeOf, HB!NoNode, HBP!NoNode
-----------------------------------------------------------------------------
\* What buildHB gets of an instruction
LEMMA HBInsFacts ==
  ASSUME NEW ins
  PROVE  /\ HBIns(ins).ins = ins
         /\ InstrAt(ins).op = "go" => HBIns(ins).op = "go"
<1>1. HBIns(ins).ins = ins /\ HBIns(ins).op = HBOp(InstrAt(ins))
  BY DEF HBIns
<1>2. InstrAt(ins).op = "go" => HBOp(InstrAt(ins)) = "go"
  BY DEF HBOp
<1>3. QED
  BY <1>1, <1>2

LEMMA LenOver ==
  ASSUME NEW s, NEW k \in Nat, DOMAIN s = 1..k, NEW S, \A n \in 1..k : s[n] \in S,
         s = [n \in 1..k |-> s[n]]
  PROVE  Len(s) = k
<1>1. s \in [1..k -> S]
  OBVIOUS
<1>2. QED
  BY <1>1

\* The recorded instructions as buildHB gets them
LEMMA TraceRows ==
  ASSUME During
  PROVE  /\ Len(RWIns) \in Nat /\ DOMAIN RWIns = 1..Len(RWIns)
         /\ DOMAIN HBTrace = 1..Len(RWIns) /\ Len(HBTrace) = Len(RWIns)
         /\ \A n \in 1..Len(RWIns) :
              /\ Len(RWIns[n]) \in Nat /\ DOMAIN RWIns[n] = 1..Len(RWIns[n])
              /\ RWIns[n] = <<>> <=> Len(RWIns[n]) = 0
              /\ HBTrace[n] = [m \in DOMAIN RWIns[n] |-> HBIns(RWIns[n][m].ins)]
              /\ DOMAIN HBTrace[n] = 1..Len(RWIns[n])
              /\ Len(HBTrace[n]) = Len(RWIns[n])
              /\ \A m \in 1..Len(RWIns[n]) : HBTrace[n][m] = HBIns(RWIns[n][m].ins)
<1> DEFINE row(n) == [m \in DOMAIN RWIns[n] |-> HBIns(RWIns[n][m].ins)]
<1>1. /\ IsSeq(RWIns) /\ \A g \in 1..Len(RWIns) : IsSeq(RWIns[g])
  BY DEF During, CallsFit, SpawnsFit, Recs
<1>2. Len(RWIns) \in Nat /\ DOMAIN RWIns = 1..Len(RWIns)
  BY <1>1, SeqFacts
<1>3. /\ DOMAIN HBTrace = 1..Len(RWIns)
      /\ \A n \in 1..Len(RWIns) : HBTrace[n] = row(n)
      /\ HBTrace = [n \in 1..Len(RWIns) |-> row(n)]
  BY <1>2 DEF HBTrace
<1>4. Len(HBTrace) = Len(RWIns)
  <2>1. \A n \in 1..Len(RWIns) : HBTrace[n] \in {row(m) : m \in 1..Len(RWIns)}
    BY <1>3
  <2>2. HBTrace = [n \in 1..Len(RWIns) |-> HBTrace[n]]
    BY <1>3
  <2>3. QED
    BY <1>2, <1>3, <2>1, <2>2, LenOver
<1>5. ASSUME NEW n \in 1..Len(RWIns)
      PROVE  /\ Len(RWIns[n]) \in Nat /\ DOMAIN RWIns[n] = 1..Len(RWIns[n])
             /\ RWIns[n] = <<>> <=> Len(RWIns[n]) = 0
             /\ DOMAIN HBTrace[n] = 1..Len(RWIns[n])
             /\ Len(HBTrace[n]) = Len(RWIns[n])
             /\ \A m \in 1..Len(RWIns[n]) : HBTrace[n][m] = HBIns(RWIns[n][m].ins)
  <2>1. /\ Len(RWIns[n]) \in Nat /\ DOMAIN RWIns[n] = 1..Len(RWIns[n])
        /\ RWIns[n] = <<>> <=> Len(RWIns[n]) = 0
    BY <1>1, SeqFacts
  <2>2. /\ DOMAIN HBTrace[n] = 1..Len(RWIns[n])
        /\ \A m \in 1..Len(RWIns[n]) : HBTrace[n][m] = HBIns(RWIns[n][m].ins)
        /\ HBTrace[n] = [m \in 1..Len(RWIns[n]) |-> HBTrace[n][m]]
    BY <1>3, <2>1
  <2>3. \A m \in 1..Len(RWIns[n]) :
           HBTrace[n][m] \in {HBTrace[n][k] : k \in 1..Len(RWIns[n])}
    OBVIOUS
  <2>4. Len(HBTrace[n]) = Len(RWIns[n])
    BY <2>1, <2>2, <2>3, LenOver
  <2>5. QED
    BY <2>1, <2>2, <2>4
<1>6. QED
  BY <1>2, <1>3, <1>4, <1>5

\* What the traversal records begins, goroutine by goroutine, as buildHB
\* expects it.
LEMMA TraceReady ==
  ASSUME During
  PROVE  HBP!IsTrace(HBTrace)
<1> DEFINE row(n) == [m \in DOMAIN RWIns[n] |-> HBIns(RWIns[n][m].ins)]
<1>1. /\ IsSeq(RWIns) /\ IsSeq(workList) /\ IsSeq(goStack)
      /\ Numbered(RWIns, workList, goStack, goCaller)
      /\ Spawned(prog, RWIns, goStack, goCaller)
  BY DEF During, CallsFit, SpawnsFit, Recs
<1>2. /\ Len(RWIns) \in Nat /\ DOMAIN RWIns = 1..Len(RWIns)
      /\ Len(workList) \in Nat /\ Len(goStack) \in Nat
      /\ Len(RWIns) + Len(workList) = Len(goStack)
  BY <1>1, SeqFacts DEF Numbered
<1>3. \A n \in 1..Len(RWIns) : HBTrace[n] = row(n)
  BY TraceRows
<1>4. DOMAIN HBTrace = 1..Len(RWIns) /\ Len(HBTrace) = Len(RWIns)
  BY TraceRows
<1>5. ASSUME NEW n \in 1..Len(RWIns)
      PROVE  /\ Len(RWIns[n]) \in Nat /\ DOMAIN RWIns[n] = 1..Len(RWIns[n])
             /\ RWIns[n] = <<>> <=> Len(RWIns[n]) = 0
             /\ DOMAIN HBTrace[n] = 1..Len(RWIns[n])
             /\ Len(HBTrace[n]) = Len(RWIns[n])
             /\ \A m \in 1..Len(RWIns[n]) : HBTrace[n][m] = HBIns(RWIns[n][m].ins)
  BY TraceRows
<1>6. ASSUME NEW n \in 2..Len(HBTrace), HBTrace[n] # <<>>
      PROVE  \E m \in 1..(n - 1) : \E i \in DOMAIN HBTrace[m] :
                HBTrace[m][i].op = "go" /\ HBTrace[m][i].ins = HBTrace[n][1].ins
  <2> DEFINE g == n - 1
             m == goCaller[g] + 1
             ins == SpawnIns(goStack, g)
  <2>1. /\ n \in 1..Len(RWIns) /\ g \in 1..(Len(goStack) - 1) /\ g < Len(RWIns) /\ g + 1 = n
    BY <1>2, <1>4, <1>6
  <2>2. goCaller[g] \in 0..(g - 1) /\ m \in 1..(n - 1) /\ m \in 1..Len(RWIns)
    <3>1. goCaller[g] \in 0..(g - 1) /\ g \in Nat
      BY <1>1, <2>1 DEF Numbered
    <3>2. QED
      BY <1>2, <2>1, <3>1
  <2>3. RWIns[n] # <<>>
    <3>1. SUFFICES ASSUME RWIns[n] = <<>> PROVE FALSE
      OBVIOUS
    <3>2. Len(RWIns[n]) = 0 /\ DOMAIN HBTrace[n] = {}
      BY <1>5, <2>1, <3>1
    <3>3. HBTrace[n] = <<>>
      <4>1. HBTrace[n] = row(n) /\ DOMAIN RWIns[n] = {}
        BY <1>3, <1>5, <2>1, <3>2
      <4>2. QED
        BY <4>1
    <3>4. QED
      BY <1>6, <3>3
  <2>4. /\ Insn(prog, ins).op = "go"
        /\ \E i \in 1..Len(RWIns[m]) : RWIns[m][i].ins = ins
        /\ RWIns[n][1].ins = ins
    BY <1>1, <2>1, <2>3 DEF Spawned
  <2>5. PICK i \in 1..Len(RWIns[m]) : RWIns[m][i].ins = ins
    BY <2>4
  <2>6. 1 \in 1..Len(RWIns[n])
    BY <1>5, <2>1, <2>3
  <2>7. HBTrace[n][1] = HBIns(ins) /\ HBTrace[m][i] = HBIns(ins) /\ i \in DOMAIN HBTrace[m]
    BY <1>5, <2>1, <2>2, <2>4, <2>5, <2>6
  <2>8. HBIns(ins).op = "go"
    BY <2>4, HBInsFacts DEF Insn, InstrAt
  <2> HIDE DEF m
  <2>9. QED
    BY <2>2, <2>7, <2>8
<1>7. QED
  BY <1>2, <1>4, <1>5, <1>6 DEF HBP!IsTrace
-----------------------------------------------------------------------------
(***************************************************************************)
(* The invariant: the traversal's, and once it has ended buildHB's.        *)
(***************************************************************************)
Idle == hbAt = <<0, 1>> /\ hb = HB!Empty
RaceInv ==
  /\ Inv
  /\ ~Traversed => Idle
  /\ Traversed => During /\ HBP!OrderInv

LEMMA Started == During /\ Idle => HBP!OrderInv
BY TraceReady, SameEmpty, HBP!OrderStart DEF Idle

LEMMA NextKeepsInv == ASSUME Inv, [Next]_vars PROVE Inv'
BY BeforeStep, DuringStep DEF Inv

\* Nothing is missing while the traversal goes on, either.
LEMMA RaceInvTypeOK == RaceInv => HB!TypeOK
<1>1. SUFFICES ASSUME RaceInv PROVE HB!TypeOK
  OBVIOUS
<1>2. CASE Traversed
  BY <1>1, <1>2, SameTypeOK, HBP!InvTypeOK DEF RaceInv, HBP!OrderInv
<1>3. CASE ~Traversed /\ During
  BY <1>1, <1>3, Started, SameTypeOK, HBP!InvTypeOK DEF RaceInv, HBP!OrderInv
<1>4. CASE ~Traversed /\ Before
  <2>1. RWIns = <<>> /\ Idle
    BY <1>1, <1>4 DEF RaceInv, Before
  <2>2. HBTrace = <<>>
    BY <2>1 DEF HBTrace
  <2>3. HBP!IsTrace(HBTrace)
    BY <2>2 DEF HBP!IsTrace
  <2>4. HBP!Inv
    BY <2>1, <2>3, SameEmpty, HBP!StartInv DEF Idle
  <2>5. QED
    BY <2>4, SameTypeOK, HBP!InvTypeOK
<1>5. QED
  BY <1>1, <1>2, <1>3, <1>4 DEF RaceInv, Inv

LEMMA SameTrace == UNCHANGED vars => HBTrace' = HBTrace
BY DEF vars, HBTrace, HBIns, HBOp, InstrAt, BlockOf, IfOf, IfsBefore,
       IsSuccEnd, IsFinal, IfBlock, LastOf, Returns

LEMMA RaceInvStep == RaceInv /\ [RaceNext]_allVars => RaceInv'
<1>1. SUFFICES ASSUME RaceInv, [RaceNext]_allVars PROVE RaceInv'
  OBVIOUS
<1>2. CASE Traverse
  <2>1. ~Traversed /\ Next /\ UNCHANGED <<hbAt, hb>>
    BY <1>2 DEF Traverse, Traversed, raceVars
  <2>2. Inv' /\ Idle'
    BY <1>1, <2>1, NextKeepsInv DEF RaceInv, Idle, HB!Empty, HB!NoNode
  <2>3. ASSUME Traversed' PROVE During'
    <3>1. cs' = <<>>
      BY <2>3 DEF Traversed
    <3>2. ~Before'
      BY <3>1 DEF Before
    <3>3. QED
      BY <2>2, <3>2 DEF Inv
  <2>4. ASSUME Traversed' PROVE HBP!OrderInv'
    <3>1. During' /\ Idle'
      BY <2>2, <2>3, <2>4
    <3>2. QED
      BY <3>1, Started, PTL
  <2>5. QED
    BY <2>2, <2>3, <2>4 DEF RaceInv
<1>3. CASE BuildHB
  <2>1. Traversed /\ UNCHANGED vars /\ HB!Next
    BY <1>3 DEF BuildHB
  <2>2. HBP!OrderInv'
    BY <1>1, <2>1, SameNext, HBP!OrderStep DEF RaceInv
  <2>3. During'
    BY <1>1, <2>1, DuringStep DEF RaceInv
  <2>4. Traversed'
    BY <2>1 DEF Traversed, vars
  <2>5. QED
    BY <2>2, <2>3, <2>4 DEF RaceInv, Inv
<1>4. CASE UNCHANGED <<vars, hbAt, hb>>
  <2>1. Inv' /\ (During => During')
    BY <1>1, <1>4, NextKeepsInv, DuringStep DEF RaceInv
  <2>2. Traversed' = Traversed /\ Idle' = Idle
    BY <1>4 DEF Traversed, vars, Idle, HB!Empty, HB!NoNode
  <2>3. HBP!OrderInv => HBP!OrderInv'
    BY <1>4, SameTrace, HBP!OrderStep DEF HBP!vars
  <2>4. QED
    BY <1>1, <2>1, <2>2, <2>3 DEF RaceInv
<1>5. QED
  BY <1>1, <1>2, <1>3, <1>4 DEF RaceNext, Checking, NotParallel, CheckAccess,
                           PairChecked, Stopped, allVars

LEMMA StartRaceInv == RaceInit => RaceInv
<1>1. SUFFICES ASSUME RaceInit PROVE RaceInv
  OBVIOUS
<1>2. Inv /\ Idle /\ ~Traversed
  BY <1>1 DEF RaceInit, Init, Inv, Before, Idle, Traversed
<1>3. QED
  BY <1>2 DEF RaceInv

\* In the detector as a whole, every edge that buildHB makes joins nodes of
\* instructions that the traversal has recorded and buildHB has looked at; in
\* particular the go statement of every goroutine is found in goCaller
\* (shbgraph.go:103), whatever the traversal has left out because of budgets.
THEOREM GraphCorrect == RaceSpec => []HB!TypeOK
<1>1. RaceInit => RaceInv
  BY StartRaceInv
<1>2. RaceInv /\ [RaceNext]_allVars => RaceInv'
  BY RaceInvStep
<1>3. RaceInv => HB!TypeOK
  BY RaceInvTypeOK
<1>4. QED
  BY <1>1, <1>2, <1>3, PTL DEF RaceSpec
-----------------------------------------------------------------------------
(***************************************************************************)
(* The accesses that checkRacyPairs looks up.  The operations on channels  *)
(* are not recorded here, so nothing is detached.                          *)
(***************************************************************************)
ReadsOrWrites(ins) == IsReadIns(ins) \/ IsWriteIns(ins)

LEMMA AccessIns ==
  ASSUME NEW ins
  PROVE  /\ ReadsOrWrites(ins) => HBP!IsRW(HBIns(ins))
         /\ ~HBP!Disjoin(HBIns(ins))
<1>1. /\ HBIns(ins).op = HBOp(InstrAt(ins))
      /\ HBIns(ins).reads = (InstrAt(ins).op = "call" /\ InstrAt(ins).reads)
  BY DEF HBIns
<1>2. /\ InstrAt(ins).op \in {"write", "store", "changetype"} => HBOp(InstrAt(ins)) = "write"
      /\ InstrAt(ins).op = "read" => HBOp(InstrAt(ins)) = "read"
      /\ HBOp(InstrAt(ins)) \notin {"recv", "load"}
  BY DEF HBOp
<1>3. QED
  BY <1>1, <1>2 DEF ReadsOrWrites, IsReadIns, IsWriteIns, HBP!IsRW, HBP!Disjoin, HBP!Recvs

\* When checkRacyPairs begins, every recorded access has a node: reachable
\* looks it up by its instruction and goroutine and gets the last execution.
AccessesFound ==
  HBDone =>
    \A g \in 0..(Len(RWIns) - 1) : \A n \in DOMAIN RWIns[g + 1] :
      ReadsOrWrites(RWIns[g + 1][n].ins) =>
        \E m \in DOMAIN RWIns[g + 1] :
          /\ m >= n /\ RWIns[g + 1][m].ins = RWIns[g + 1][n].ins
          /\ <<RWIns[g + 1][n].ins, g>> \in DOMAIN hb.RWinsMap
          /\ hb.RWinsMap[<<RWIns[g + 1][n].ins, g>>] = <<g, m>>

\* The recorded instructions once the graph is built
LEMMA BuiltFacts ==
  ASSUME RaceInv, HBDone
  PROVE  /\ HBP!OrderInv /\ Len(RWIns) \in Nat
         /\ \A k \in 1..Len(RWIns) :
              Len(RWIns[k]) \in Nat /\ DOMAIN RWIns[k] = 1..Len(RWIns[k])
         /\ \A g \in 0..(Len(RWIns) - 1) : \A n \in DOMAIN RWIns[g + 1] : <<g, n>> \in HBP!Visited
         /\ \A p \in HBP!Visited :
              /\ p = <<p[1], p[2]>> /\ p[1] \in 0..(Len(RWIns) - 1) /\ p[2] \in DOMAIN RWIns[p[1] + 1]
              /\ HBP!InsAt(p) = HBIns(RWIns[p[1] + 1][p[2]].ins)
              /\ ~HBP!Disjoin(HBP!InsAt(p))
<1>1. During /\ HBP!OrderInv /\ ~HB!More
  BY DEF RaceInv, HBDone, HB!Built
<1>2. /\ Len(RWIns) \in Nat /\ Len(HBTrace) = Len(RWIns)
      /\ \A k \in 1..Len(RWIns) :
           /\ Len(RWIns[k]) \in Nat /\ DOMAIN RWIns[k] = 1..Len(RWIns[k])
           /\ Len(HBTrace[k]) = Len(RWIns[k])
           /\ \A i \in 1..Len(RWIns[k]) : HBTrace[k][i] = HBIns(RWIns[k][i].ins)
  BY <1>1, TraceRows
<1>3. hbAt[1] = Len(RWIns) /\ HBP!IsTrace(HBTrace)
  BY <1>1, <1>2 DEF HBP!OrderInv, HBP!Inv, HB!More
<1>4. ASSUME NEW p
      PROVE  p \in HBP!Visited <=> /\ p \in Nat \X (Nat \ {0}) /\ p[1] < Len(RWIns)
                                   /\ p[2] <= Len(RWIns[p[1] + 1])
  BY <1>2, <1>3, HBP!NodesMember, SMTT(20) DEF HBP!Visited
<1>5. ASSUME NEW p \in HBP!Visited
      PROVE  /\ p = <<p[1], p[2]>> /\ p[1] \in 0..(Len(RWIns) - 1) /\ p[2] \in DOMAIN RWIns[p[1] + 1]
             /\ HBP!InsAt(p) = HBIns(RWIns[p[1] + 1][p[2]].ins)
             /\ ~HBP!Disjoin(HBP!InsAt(p))
  <2>1. /\ p[1] + 1 \in 1..Len(RWIns) /\ p[2] \in 1..Len(RWIns[p[1] + 1])
        /\ p = <<p[1], p[2]>> /\ p[1] \in 0..(Len(RWIns) - 1)
    BY <1>2, <1>4
  <2>2. HBP!InsAt(p) = HBIns(RWIns[p[1] + 1][p[2]].ins)
    BY <1>2, <2>1 DEF HBP!InsAt
  <2>3. QED
    BY <1>2, <2>1, <2>2, AccessIns
<1>6. ASSUME NEW g \in 0..(Len(RWIns) - 1), NEW n \in DOMAIN RWIns[g + 1]
      PROVE  <<g, n>> \in HBP!Visited
  <2> DEFINE p == <<g, n>>
  <2>1. g + 1 \in 1..Len(RWIns) /\ g \in Nat /\ g < Len(RWIns)
    BY <1>2
  <2>2. n \in Nat \ {0} /\ n <= Len(RWIns[g + 1])
    BY <1>2, <1>6, <2>1
  <2>3. p \in Nat \X (Nat \ {0}) /\ p[1] = g /\ p[2] = n
    BY <2>1, <2>2
  <2> HIDE DEF p
  <2>4. p \in HBP!Visited
    BY <1>4, <2>1, <2>2, <2>3
  <2>5. QED
    BY <2>4 DEF p
<1>7. QED
  BY <1>1, <1>2, <1>5, <1>6

LEMMA RaceInvFound == RaceInv => AccessesFound
<1>1. SUFFICES ASSUME RaceInv, HBDone,
                      NEW g \in 0..(Len(RWIns) - 1), NEW n \in DOMAIN RWIns[g + 1],
                      ReadsOrWrites(RWIns[g + 1][n].ins)
               PROVE  \E m \in DOMAIN RWIns[g + 1] :
                        /\ m >= n /\ RWIns[g + 1][m].ins = RWIns[g + 1][n].ins
                        /\ <<RWIns[g + 1][n].ins, g>> \in DOMAIN hb.RWinsMap
                        /\ hb.RWinsMap[<<RWIns[g + 1][n].ins, g>>] = <<g, m>>
  BY DEF AccessesFound
<1> DEFINE p == <<g, n>>
<1>2. p \in HBP!Visited /\ p[1] = g /\ p[2] = n
  BY <1>1, BuiltFacts
<1>3. HBP!IsRW(HBP!InsAt(p)) /\ HBP!InsAt(p).ins = RWIns[g + 1][n].ins
  BY <1>1, <1>2, BuiltFacts, AccessIns, HBInsFacts
<1>4. PICK m \in HBP!Visited :
         /\ HBP!SameIns(p, m) /\ m[2] >= p[2]
         /\ <<HBP!InsAt(p).ins, p[1]>> \in DOMAIN hb.RWinsMap
         /\ hb.RWinsMap[<<HBP!InsAt(p).ins, p[1]>>] = m
  BY <1>1, <1>2, <1>3, BuiltFacts DEF HBP!OrderInv, HBP!OrderKept
<1>5. /\ m[1] = g /\ RWIns[g + 1][m[2]].ins = RWIns[g + 1][n].ins /\ m = <<g, m[2]>>
      /\ m[2] \in DOMAIN RWIns[g + 1]
  BY <1>1, <1>2, <1>3, <1>4, BuiltFacts, HBInsFacts DEF HBP!SameIns
<1>6. QED
  BY <1>2, <1>3, <1>4, <1>5

\* In the detector as a whole, checkRacyPairs never asks reachable for an
\* access that has no node, so that a missing path means that the graph does
\* not order the two accesses and never that one was not found
\* (shbgraph.go:37-41).
THEOREM AccessesCorrect == RaceSpec => []AccessesFound
<1>1. RaceInit => RaceInv
  BY StartRaceInv
<1>2. RaceInv /\ [RaceNext]_allVars => RaceInv'
  BY RaceInvStep
<1>3. RaceInv => AccessesFound
  BY RaceInvFound
<1>4. QED
  BY <1>1, <1>2, <1>3, PTL DEF RaceSpec
-----------------------------------------------------------------------------
(***************************************************************************)
(* checkRacyPairs: its four loops go through the accesses in order, and    *)
(* what it goes through stays as it is.                                    *)
(***************************************************************************)
LEMMA SameInputs ==
  ASSUME UNCHANGED vars
  PROVE  /\ prog' = prog /\ RWIns' = RWIns /\ goStack' = goStack /\ goCaller' = goCaller
         /\ insMono' = insMono /\ lockMap' = lockMap /\ RlockMap' = RlockMap
BY DEF vars, goVars

LEMMA SamePath ==
  ASSUME UNCHANGED vars
  PROVE  PathTo' = PathTo
BY SameInputs DEF PathTo

LEMMA SameParallelStack ==
  ASSUME NEW CONSTANT g, UNCHANGED vars
  PROVE  ParallelStack(g)' = ParallelStack(g)
BY SameInputs, SamePath DEF ParallelStack, Entries, SpawnStack, GoEntry

LEMMA SameBlocks ==
  ASSUME UNCHANGED vars
  PROVE  /\ \A b, c : Dominates(b, c)' <=> Dominates(b, c)
         /\ \A e : IsDefer(e)' <=> IsDefer(e)
         /\ \A e : Site(e)' = Site(e)
<1>1. \A b, c : Dominates(b, c)' <=> Dominates(b, c)
  BY SameInputs DEF Dominates
<1>2. \A e : IsDefer(e)' <=> IsDefer(e)
  BY SameInputs DEF IsDefer, InstrAt
<1>3. \A ins : RunDefersAfter(ins)' = RunDefersAfter(ins)
  BY SameInputs DEF RunDefersAfter, InstrAt
<1>4. \A ins : DeferToRet(ins)' = DeferToRet(ins)
  BY <1>3 DEF DeferToRet
<1>5. \A e : NeverRun(e)' <=> NeverRun(e)
  BY <1>2, <1>4 DEF NeverRun
<1>6. \A e : Site(e)' = Site(e)
  BY <1>2, <1>4, <1>5 DEF Site
<1>7. QED
  BY <1>1, <1>2, <1>6

LEMMA SameParallel ==
  ASSUME NEW CONSTANT g, NEW CONSTANT h, UNCHANGED vars
  PROVE  CanRunInParallel(g, h)' <=> CanRunInParallel(g, h)
<1>1. \A b, c : Unordered(b, c)' <=> Unordered(b, c)
  BY SameBlocks DEF Unordered
<1>2. ParallelStack(g)' = ParallelStack(g) /\ ParallelStack(h)' = ParallelStack(h)
  BY SameParallelStack
<1>3. QED
  BY <1>1, <1>2 DEF CanRunInParallel

LEMMA SameAccessStack ==
  ASSUME NEW CONSTANT g, NEW CONSTANT n, UNCHANGED vars
  PROVE  AccessStack(g, RWIns[g + 1][n])' = AccessStack(g, RWIns[g + 1][n])
BY SameInputs, SamePath DEF AccessStack, Entries, SpawnStack

LEMMA SameExcluded ==
  ASSUME NEW CONSTANT i, NEW CONSTANT n, NEW CONSTANT j, NEW CONSTANT m, UNCHANGED vars
  PROVE  MutuallyExcluded(RWIns[i + 1][n], i, RWIns[j + 1][m], j)'
          <=> MutuallyExcluded(RWIns[i + 1][n], i, RWIns[j + 1][m], j)
<1>1. /\ AccessStack(i, RWIns[i + 1][n])' = AccessStack(i, RWIns[i + 1][n])
      /\ AccessStack(j, RWIns[j + 1][m])' = AccessStack(j, RWIns[j + 1][m])
  BY SameAccessStack
<1>2. \A s, x, t, y : Parting(s, x, t, y)' = Parting(s, x, t, y)
  BY SameBlocks DEF Parting
<1>3. \A s, k : NoGoAfterFn(s, k)' <=> NoGoAfterFn(s, k)
  BY SameInputs DEF NoGoAfterFn, InstrAt
<1>4. \A s : StackContainsDefer(s)' <=> StackContainsDefer(s)
  BY SameBlocks DEF StackContainsDefer
<1>5. \A b, c, s : ReturnsBefore(b, c, s)' <=> ReturnsBefore(b, c, s)
  BY SameInputs, SameBlocks, <1>4 DEF ReturnsBefore
<1>6. QED
  BY <1>1, <1>2, <1>3, <1>5, SameInputs, SameBlocks DEF MutuallyExcluded, Unordered

LEMMA SameCandidate ==
  ASSUME NEW CONSTANT i, NEW CONSTANT n, NEW CONSTANT j, NEW CONSTANT m,
         UNCHANGED <<vars, hbAt, hb>>
  PROVE  /\ RaceInfo(i, n, j, m)' = RaceInfo(i, n, j, m)
         /\ Candidate(i, n, j, m)' <=> Candidate(i, n, j, m)
<1>1. RaceInfo(i, n, j, m)' = RaceInfo(i, n, j, m)
  BY SameInputs DEF RaceInfo, Address, InstrAt
<1>2. \A x : LocksAt(x)' = LocksAt(x)
  <2>1. ASSUME NEW x PROVE IsReadIns(x)' <=> IsReadIns(x)
    BY SameInputs DEF IsReadIns, InstrAt
  <2>2. ASSUME NEW x PROVE LocksOf(lockMap, x)' = LocksOf(lockMap, x)
    BY SameInputs, Zenon DEF LocksOf, Get
  <2>3. ASSUME NEW x PROVE LocksOf(RlockMap, x)' = LocksOf(RlockMap, x)
    BY SameInputs, Zenon DEF LocksOf, Get
  <2>4. ASSUME NEW x PROVE LocksAt(x)' = LocksAt(x)
    BY <2>1, <2>2, <2>3 DEF LocksAt
  <2>5. QED
    BY <2>4, Zenon
<1>3. \A x, y : Conflict(x, y)' <=> Conflict(x, y)
  <2>1. \A x : IsWriteIns(x)' <=> IsWriteIns(x)
    BY SameInputs DEF IsWriteIns, InstrAt
  <2>2. \A x : IsReadIns(x)' <=> IsReadIns(x)
    BY SameInputs DEF IsReadIns, InstrAt
  <2>3. QED
    BY <2>1, <2>2 DEF Conflict
<1>4. \A x : Address(x)' = Address(x)
  BY SameInputs DEF Address, InstrAt
<1>5. \A x, y : LockSetsIntersect(x, y)' <=> LockSetsIntersect(x, y)
  BY <1>2 DEF LockSetsIntersect
<1>6. \A x, g, y, h : Reachable(x, g, y, h)' <=> Reachable(x, g, y, h)
  BY DEF Reachable
<1>7. Compared(i, n, j, m)' <=> Compared(i, n, j, m)
  BY SameInputs, <1>3, <1>4 DEF Compared
<1>8. Racy(i, n, j, m)' <=> Racy(i, n, j, m)
  BY SameInputs, <1>5, <1>6, <1>7 DEF Racy
<1>9. (IsAccess(i, n)' <=> IsAccess(i, n)) /\ (IsAccess(j, m)' <=> IsAccess(j, m))
  BY SameInputs DEF IsAccess
<1>10. QED
  BY <1>1, <1>8, <1>9, SameParallel, SameExcluded DEF Candidate

(***************************************************************************)
(* The invariant of checkRacyPairs: the loops have passed the accesses     *)
(* before the current ones in the order of the four indices, and the races *)
(* are exact for these.                                                    *)
(***************************************************************************)
NotBegun == pair = <<0, 1>> /\ access = <<1, 1>> /\ races = <<>> /\ checking = "run"

Passed(i, n, j, m) ==
  \/ i < pair[1]
  \/ i = pair[1] /\ j < pair[2]
  \/ i = pair[1] /\ j = pair[2] /\ n < access[1]
  \/ i = pair[1] /\ j = pair[2] /\ n = access[1] /\ m < access[2]

AddrsOf(i, n, j, m) == {RaceInfo(i, n, j, m).addrs[1], RaceInfo(i, n, j, m).addrs[2]}

LoopsFit ==
  /\ pair = <<pair[1], pair[2]>> /\ pair[1] \in Nat /\ pair[2] \in Nat /\ pair[1] < pair[2]
  /\ MorePairs => pair[2] < Len(RWIns)
  /\ access = <<access[1], access[2]>> /\ access[1] \in Nat \ {0} /\ access[2] \in Nat \ {0}
  /\ access[2] = 1 \/ access[2] <= Len(RWIns[pair[2] + 1])

RacesReal ==
  \A k \in DOMAIN races :
     LET g == races[k].goIDs
         at == races[k].insInd
     IN Candidate(g[1], at[1], g[2], at[2]) /\ races[k] = RaceInfo(g[1], at[1], g[2], at[2])
RacesDistinct == \A k, l \in DOMAIN races : Addrs(k) = Addrs(l) => k = l
RacesComplete ==
  checking = "run" =>
    \A i, n, j, m :
      IsAccess(i, n) /\ IsAccess(j, m) /\ Passed(i, n, j, m) /\ Candidate(i, n, j, m) =>
        \E k \in DOMAIN races : Addrs(k) = AddrsOf(i, n, j, m)

CheckInv == IsSeq(races) /\ LoopsFit /\ RacesReal /\ RacesDistinct /\ RacesComplete

LEMMA RecsAreSeqs ==
  ASSUME During
  PROVE  /\ Len(RWIns) \in Nat /\ DOMAIN RWIns = 1..Len(RWIns)
         /\ \A i \in 0..(Len(RWIns) - 1) :
               Len(RWIns[i + 1]) \in Nat /\ DOMAIN RWIns[i + 1] = 1..Len(RWIns[i + 1])
<1>1. IsSeq(RWIns) /\ \A g \in 1..Len(RWIns) : IsSeq(RWIns[g])
  BY DEF During, CallsFit, SpawnsFit, Recs
<1>2. Len(RWIns) \in Nat /\ DOMAIN RWIns = 1..Len(RWIns)
  BY <1>1, SeqFacts
<1>3. ASSUME NEW i \in 0..(Len(RWIns) - 1)
      PROVE  Len(RWIns[i + 1]) \in Nat /\ DOMAIN RWIns[i + 1] = 1..Len(RWIns[i + 1])
  <2>1. i + 1 \in 1..Len(RWIns)
    BY <1>2, <1>3
  <2>2. QED
    BY <1>1, <2>1, SeqFacts
<1>4. QED
  BY <1>2, <1>3

\* Nothing is passed before the loops begin.
LEMMA CheckBegins ==
  ASSUME During, NotBegun
  PROVE  CheckInv
<1>1. Len(RWIns) \in Nat
  BY RecsAreSeqs
<1>2. LoopsFit
  BY <1>1 DEF NotBegun, LoopsFit, MorePairs
<1>3. IsSeq(races) /\ RacesReal /\ RacesDistinct
  BY SeqEmpty DEF NotBegun, RacesReal, RacesDistinct
<1>4. ASSUME NEW i, NEW n, NEW j, NEW m, IsAccess(i, n), IsAccess(j, m),
             Passed(i, n, j, m), Candidate(i, n, j, m)
      PROVE  FALSE
  <2>1. i \in Nat /\ j \in Nat /\ n \in Nat \ {0} /\ m \in Nat \ {0} /\ i < j
    BY <1>4, RecsAreSeqs, SMTT(20) DEF IsAccess, Candidate
  <2>2. QED
    BY <1>4, <2>1 DEF Passed, NotBegun
<1>5. QED
  BY <1>2, <1>3, <1>4 DEF CheckInv, RacesComplete

\* When the loops have ended, all is passed.
LEMMA CheckEnds ==
  ASSUME During, CheckInv
  PROVE  RacesExact
<1>1. ASSUME ~MorePairs, checking = "run",
             NEW i \in 0..(Len(RWIns) - 1), NEW j \in 0..(Len(RWIns) - 1),
             NEW n \in DOMAIN RWIns[i + 1], NEW m \in DOMAIN RWIns[j + 1],
             Candidate(i, n, j, m)
      PROVE  \E k \in DOMAIN races :
               Addrs(k) = {Address(RWIns[i + 1][n].ins), Address(RWIns[j + 1][m].ins)}
  <2>1. IsAccess(i, n) /\ IsAccess(j, m)
    BY <1>1 DEF IsAccess
  <2>2. Len(RWIns) \in Nat /\ i < j
    BY <1>1, RecsAreSeqs DEF Candidate
  <2>3. Passed(i, n, j, m)
    BY <1>1, <2>2 DEF Passed, MorePairs, CheckInv, LoopsFit
  <2>4. \E k \in DOMAIN races : Addrs(k) = AddrsOf(i, n, j, m)
    BY <1>1, <2>1, <2>3 DEF CheckInv, RacesComplete
  <2>5. QED
    BY <2>4 DEF AddrsOf, RaceInfo
<1>2. QED
  BY <1>1 DEF RacesExact, CheckInv, RacesReal, RacesDistinct

\* One round of the inner loops passes the current accesses and no others.
LEMMA InnerRound ==
  ASSUME During, LoopsFit, MorePairs, MoreAccesses,
         access' = NextAccess, pair' = pair, RWIns' = RWIns
  PROVE  /\ LoopsFit'
         /\ \A i, n, j, m :
              IsAccess(i, n) /\ IsAccess(j, m) /\ Passed(i, n, j, m)' =>
                \/ Passed(i, n, j, m)
                \/ i = pair[1] /\ j = pair[2] /\ n = access[1] /\ m = access[2]
<1> DEFINE cols == Len(RWIns[pair[2] + 1])
<1>1. /\ Len(RWIns) \in Nat /\ pair[1] \in Nat /\ pair[2] \in 0..(Len(RWIns) - 1)
      /\ cols \in Nat /\ access[2] <= cols
      /\ access[1] \in Nat \ {0} /\ access[2] \in Nat \ {0}
  BY RecsAreSeqs DEF LoopsFit, MoreAccesses
<1>2. LoopsFit'
  <2>1. CASE access[2] < cols
    <3>1. access' = <<access[1], access[2] + 1>>
      BY <2>1 DEF NextAccess
    <3>2. /\ access'[1] = access[1] /\ access'[2] = access[2] + 1
          /\ access' = <<access'[1], access'[2]>>
      BY <3>1
    <3>3. QED
      BY <1>1, <2>1, <3>2 DEF LoopsFit, MorePairs
  <2>2. CASE ~(access[2] < cols)
    <3>1. access' = <<access[1] + 1, 1>>
      BY <2>2 DEF NextAccess
    <3>2. /\ access'[1] = access[1] + 1 /\ access'[2] = 1
          /\ access' = <<access'[1], access'[2]>>
      BY <3>1
    <3>3. QED
      BY <1>1, <2>2, <3>2 DEF LoopsFit, MorePairs
  <2>3. QED
    BY <2>1, <2>2
<1>3. ASSUME NEW i, NEW n, NEW j, NEW m, IsAccess(i, n), IsAccess(j, m), Passed(i, n, j, m)'
      PROVE  \/ Passed(i, n, j, m)
             \/ i = pair[1] /\ j = pair[2] /\ n = access[1] /\ m = access[2]
  <2>a. /\ i \in 0..(Len(RWIns) - 1) /\ n \in DOMAIN RWIns[i + 1]
        /\ j \in 0..(Len(RWIns) - 1) /\ m \in DOMAIN RWIns[j + 1]
    BY <1>3 DEF IsAccess
  <2>b. /\ Len(RWIns[i + 1]) \in Nat /\ DOMAIN RWIns[i + 1] = 1..Len(RWIns[i + 1])
        /\ Len(RWIns[j + 1]) \in Nat /\ DOMAIN RWIns[j + 1] = 1..Len(RWIns[j + 1])
    BY <2>a, RecsAreSeqs
  <2>1. n \in Nat \ {0} /\ m \in 1..Len(RWIns[j + 1])
    BY <2>a, <2>b
  <2>2. SUFFICES ASSUME i = pair[1], j = pair[2]
                 PROVE  \/ Passed(i, n, j, m)
                        \/ n = access[1] /\ m = access[2]
    BY <1>3 DEF Passed
  <2>3. \/ n < access'[1]
        \/ n = access'[1] /\ m < access'[2]
    BY <1>1, <1>3, <2>2 DEF Passed
  <2>4. n < access[1] \/ (n = access[1] /\ m <= access[2])
    BY <1>1, <2>1, <2>2, <2>3 DEF NextAccess
  <2>5. QED
    BY <1>1, <2>1, <2>2, <2>4 DEF Passed
<1>4. QED
  BY <1>2, <1>3

\* The step to the next two goroutines passes the current ones and no others.
LEMMA OuterRound ==
  ASSUME During, LoopsFit, MorePairs,
         pair' = NextPair, access' = <<1, 1>>, RWIns' = RWIns
  PROVE  /\ LoopsFit'
         /\ \A i, n, j, m :
              IsAccess(i, n) /\ IsAccess(j, m) /\ i < j /\ Passed(i, n, j, m)' =>
                Passed(i, n, j, m) \/ (i = pair[1] /\ j = pair[2])
<1>1. /\ Len(RWIns) \in Nat /\ pair[1] \in Nat /\ pair[2] \in Nat /\ pair[1] < pair[2]
      /\ pair[2] < Len(RWIns) /\ pair[1] < Len(RWIns) - 1
      /\ access'[1] = 1 /\ access'[2] = 1 /\ access' = <<access'[1], access'[2]>>
  BY RecsAreSeqs DEF LoopsFit, MorePairs
<1>2. \/ pair[2] < Len(RWIns) - 1 /\ pair'[1] = pair[1] /\ pair'[2] = pair[2] + 1
      \/ pair[2] = Len(RWIns) - 1 /\ pair'[1] = pair[1] + 1 /\ pair'[2] = pair[1] + 2
  BY <1>1 DEF NextPair
<1>3. pair' = <<pair'[1], pair'[2]>>
  BY DEF NextPair
<1>4. LoopsFit'
  BY <1>1, <1>2, <1>3 DEF LoopsFit, MorePairs
<1>5. ASSUME NEW i, NEW n, NEW j, NEW m, IsAccess(i, n), IsAccess(j, m), i < j,
             Passed(i, n, j, m)'
      PROVE  Passed(i, n, j, m) \/ (i = pair[1] /\ j = pair[2])
  <2>1. /\ i \in Nat /\ j \in 0..(Len(RWIns) - 1)
        /\ n \in Nat \ {0} /\ m \in Nat \ {0}
    BY <1>5, RecsAreSeqs, SMTT(20) DEF IsAccess
  <2>2. i < pair'[1] \/ (i = pair'[1] /\ j < pair'[2])
    BY <1>1, <1>5, <2>1 DEF Passed
  <2>3. i < pair[1] \/ (i = pair[1] /\ j <= pair[2])
    BY <1>1, <1>2, <1>5, <2>1, <2>2, SMTT(20)
  <2>4. QED
    BY <1>1, <2>1, <2>3 DEF Passed
<1>6. QED
  BY <1>4, <1>5

\* When the inner loops end, the accesses of the two goroutines are passed.
LEMMA InnerEnds ==
  ASSUME During, LoopsFit, MorePairs, ~MoreAccesses,
         NEW n, NEW m, IsAccess(pair[1], n), IsAccess(pair[2], m)
  PROVE  Passed(pair[1], n, pair[2], m)
<1>1. /\ n \in 1..Len(RWIns[pair[1] + 1]) /\ Len(RWIns[pair[1] + 1]) \in Nat
      /\ m \in 1..Len(RWIns[pair[2] + 1]) /\ Len(RWIns[pair[2] + 1]) \in Nat
      /\ access[1] \in Nat \ {0} /\ access[2] \in Nat \ {0}
  BY RecsAreSeqs DEF IsAccess, LoopsFit
<1>2. access[1] > Len(RWIns[pair[1] + 1])
  BY <1>1, SMTT(20) DEF LoopsFit, MoreAccesses
<1>3. QED
  BY <1>1, <1>2 DEF Passed

LEMMA SameAccesses ==
  ASSUME UNCHANGED <<vars, hbAt, hb>>
  PROVE  /\ \A i, n, j, m : Candidate(i, n, j, m)' <=> Candidate(i, n, j, m)
         /\ \A i, n, j, m : RaceInfo(i, n, j, m)' = RaceInfo(i, n, j, m)
         /\ \A i, n, j, m : AddrsOf(i, n, j, m)' = AddrsOf(i, n, j, m)
         /\ \A i, n : IsAccess(i, n)' <=> IsAccess(i, n)
         /\ RWIns' = RWIns
<1>1. \A i, n, j, m : /\ Candidate(i, n, j, m)' <=> Candidate(i, n, j, m)
                      /\ RaceInfo(i, n, j, m)' = RaceInfo(i, n, j, m)
  BY SameCandidate
<1>2. \A i, n, j, m : AddrsOf(i, n, j, m)' = AddrsOf(i, n, j, m)
  BY <1>1 DEF AddrsOf
<1>3. \A i, n : IsAccess(i, n)' <=> IsAccess(i, n)
  BY SameInputs DEF IsAccess
<1>4. QED
  BY <1>1, <1>2, <1>3, SameInputs

LEMMA KnownAddrs ==
  ASSUME NEW i, NEW n, NEW j, NEW m
  PROVE  Known(races, RWIns[i + 1][n].ins, RWIns[j + 1][m].ins)
          <=> \E k \in DOMAIN races : Addrs(k) = AddrsOf(i, n, j, m)
BY DEF Known, Addrs, AddrsOf, RaceInfo

LEMMA VerdictFacts ==
  ASSUME NEW i, NEW n, NEW j, NEW m
  PROVE  /\ Verdict(i, n, j, m) = "race" =>
              /\ Racy(i, n, j, m)
              /\ ~MutuallyExcluded(RWIns[i + 1][n], i, RWIns[j + 1][m], j)
              /\ ~\E k \in DOMAIN races : Addrs(k) = AddrsOf(i, n, j, m)
         /\ Verdict(i, n, j, m) \notin {"race", "panic"} /\ Candidate(i, n, j, m) =>
              \E k \in DOMAIN races : Addrs(k) = AddrsOf(i, n, j, m)
<1> DEFINE susp == Suspected(races, i, n, j, m)
           nil == NilBlock(RWIns[i + 1][n], i, RWIns[j + 1][m], j)
           mut == MutuallyExcluded(RWIns[i + 1][n], i, RWIns[j + 1][m], j)
           v == Verdict(i, n, j, m)
<1>1. v = CASE ~susp -> "none"
            [] susp /\ nil -> "panic"
            [] OTHER -> IF mut THEN "none" ELSE "race"
  BY DEF Verdict
<1> HIDE DEF v
<1>2. /\ ~susp => v = "none"
      /\ susp /\ nil => v = "panic"
      /\ susp /\ ~nil => v = IF mut THEN "none" ELSE "race"
  <2> HIDE DEF susp, nil, mut
  <2>1. QED
    BY <1>1
<1>3. susp <=> /\ Racy(i, n, j, m)
               /\ ~\E k \in DOMAIN races : Addrs(k) = AddrsOf(i, n, j, m)
  BY KnownAddrs DEF Suspected
<1>4. v = "race" => susp /\ ~mut
  <2> HIDE DEF susp, nil, mut
  <2>1. QED
    BY <1>2
<1>5. v \notin {"race", "panic"} => ~susp \/ mut
  <2> HIDE DEF susp, nil, mut
  <2>1. QED
    BY <1>2
<1>6. QED
  BY <1>3, <1>4, <1>5 DEF Candidate, v

\* The rounds that leave the races as they are
LEMMA QuietStep ==
  ASSUME CheckInv, UNCHANGED <<vars, hbAt, hb, races, checking>>, LoopsFit',
         \A i, n, j, m :
           IsAccess(i, n) /\ IsAccess(j, m) /\ Candidate(i, n, j, m) /\ Passed(i, n, j, m)' =>
             \/ Passed(i, n, j, m)
             \/ \E k \in DOMAIN races : Addrs(k) = AddrsOf(i, n, j, m)
  PROVE  CheckInv'
<1>1. \A k : Addrs(k)' = Addrs(k)
  BY DEF Addrs
<1>2. RacesReal'
  BY SameAccesses DEF CheckInv, RacesReal
<1>3. RacesDistinct'
  BY <1>1 DEF CheckInv, RacesDistinct
<1>4. RacesComplete'
  BY <1>1, SameAccesses DEF CheckInv, RacesComplete
<1>5. QED
  BY <1>2, <1>3, <1>4 DEF CheckInv

LEMMA CheckAccessKeeps ==
  ASSUME During, CheckInv, CheckAccess
  PROVE  CheckInv'
<1> DEFINE i0 == pair[1]
           j0 == pair[2]
           n0 == access[1]
           m0 == access[2]
           v == Verdict(i0, n0, j0, m0)
           r == RaceInfo(i0, n0, j0, m0)
<1>1. /\ UNCHANGED <<vars, hbAt, hb>> /\ UNCHANGED pair /\ MorePairs /\ MoreAccesses
      /\ CanRunInParallel(i0, j0) /\ access' = NextAccess /\ checking = "run"
      /\ races' = IF v = "race" THEN Append(races, r) ELSE races
      /\ checking' = IF v = "panic" THEN "panic" ELSE "run"
  BY DEF CheckAccess, Checking
<1>2. /\ LoopsFit'
      /\ \A i, n, j, m :
           IsAccess(i, n) /\ IsAccess(j, m) /\ Passed(i, n, j, m)' =>
             \/ Passed(i, n, j, m)
             \/ i = i0 /\ j = j0 /\ n = n0 /\ m = m0
  BY <1>1, InnerRound, SameAccesses DEF CheckInv
<1>3. /\ v = "race" =>
           /\ Racy(i0, n0, j0, m0)
           /\ ~MutuallyExcluded(RWIns[i0 + 1][n0], i0, RWIns[j0 + 1][m0], j0)
           /\ ~\E k \in DOMAIN races : Addrs(k) = AddrsOf(i0, n0, j0, m0)
      /\ v \notin {"race", "panic"} /\ Candidate(i0, n0, j0, m0) =>
           \E k \in DOMAIN races : Addrs(k) = AddrsOf(i0, n0, j0, m0)
  BY VerdictFacts
<1> HIDE DEF v, r, i0, j0, n0, m0
<1>4. CASE v \notin {"race", "panic"}
  <2>1. races' = races /\ checking' = checking
    BY <1>1, <1>4
  <2>2. QED
    BY <1>1, <1>2, <1>3, <1>4, <2>1, QuietStep
<1>5. CASE v = "panic"
  <2>1. races' = races /\ checking' # "run"
    BY <1>1, <1>5
  <2>2. \A k : Addrs(k)' = Addrs(k)
    BY <2>1 DEF Addrs
  <2>3. RacesReal'
    BY <1>1, <2>1, SameAccesses DEF CheckInv, RacesReal
  <2>4. RacesDistinct' /\ IsSeq(races)'
    BY <2>1, <2>2 DEF CheckInv, RacesDistinct
  <2>5. RacesComplete'
    BY <2>1 DEF RacesComplete
  <2>6. QED
    BY <1>2, <2>3, <2>4, <2>5 DEF CheckInv
<1>6. CASE v = "race"
  <2>0. Len(races) \in Nat
    BY SeqFacts DEF CheckInv
  <2>b. PICK last \in Nat : last = Len(races) + 1
    BY <2>0
  <2>1. races' = Append(races, r) /\ checking' = "run"
    BY <1>1, <1>6
  <2>2. /\ IsSeq(races)' /\ Len(races) \in Nat
        /\ DOMAIN races = 1..Len(races) /\ DOMAIN races' = 1..last
        /\ \A k \in DOMAIN races : races'[k] = races[k]
        /\ races'[last] = r
    <3>1. IsSeq(races) /\ Len(races) \in Nat /\ DOMAIN races = 1..Len(races)
      BY SeqFacts DEF CheckInv
    <3>2. /\ IsSeq(races') /\ Len(races') = last /\ races'[last] = r
          /\ \A k \in 1..Len(races) : races'[k] = races[k]
      BY <2>b, <2>1, <3>1, SeqAppend
    <3>3. DOMAIN races' = 1..last
      BY <3>2, SeqFacts
    <3>4. QED
      BY <3>1, <3>2, <3>3 DEF IsSeq
  <2>3. Candidate(i0, n0, j0, m0)
    <3>1. /\ i0 \in 0..(Len(RWIns) - 1) /\ j0 \in 0..(Len(RWIns) - 1) /\ i0 < j0
          /\ n0 \in 1..Len(RWIns[i0 + 1]) /\ m0 \in 1..Len(RWIns[j0 + 1])
      <4>1. Len(RWIns) \in Nat
        BY RecsAreSeqs
      <4>2. i0 \in 0..(Len(RWIns) - 1) /\ j0 \in 0..(Len(RWIns) - 1) /\ i0 < j0
        BY <1>1, <4>1 DEF CheckInv, LoopsFit, MorePairs, i0, j0
      <4>3. Len(RWIns[i0 + 1]) \in Nat /\ Len(RWIns[j0 + 1]) \in Nat
        BY <4>2, RecsAreSeqs
      <4>4. QED
        BY <1>1, <4>2, <4>3 DEF CheckInv, LoopsFit, MoreAccesses, i0, j0, n0, m0
    <3>a. IsAccess(i0, n0) /\ IsAccess(j0, m0)
      BY <3>1, RecsAreSeqs DEF IsAccess
    <3>2. QED
      BY <1>1, <1>3, <1>6, <3>1, <3>a DEF Candidate
  <2>4. r.goIDs[1] = i0 /\ r.goIDs[2] = j0 /\ r.insInd[1] = n0 /\ r.insInd[2] = m0
    BY DEF r, RaceInfo
  <2>5. /\ \A k \in DOMAIN races : Addrs(k)' = Addrs(k)
        /\ Addrs(last)' = AddrsOf(i0, n0, j0, m0)
    BY <2>2 DEF Addrs, AddrsOf, r
  <2>6. \A k \in DOMAIN races' : k \in DOMAIN races \/ k = last
    BY <2>b, <2>2
  <2>7. RacesReal'
    <3>1. SUFFICES ASSUME NEW k \in DOMAIN races'
                   PROVE  /\ Candidate(races'[k].goIDs[1], races'[k].insInd[1],
                                       races'[k].goIDs[2], races'[k].insInd[2])
                          /\ races'[k] = RaceInfo(races'[k].goIDs[1], races'[k].insInd[1],
                                                  races'[k].goIDs[2], races'[k].insInd[2])
      BY <1>1, SameAccesses DEF RacesReal
    <3>2. CASE k \in DOMAIN races
      BY <2>2, <3>2 DEF CheckInv, RacesReal
    <3>3. CASE k = last
      BY <2>2, <2>3, <2>4, <3>3 DEF r
    <3>4. QED
      BY <2>6, <3>1, <3>2, <3>3
  <2>8. RacesDistinct'
    <3>1. SUFFICES ASSUME NEW k \in DOMAIN races', NEW l \in DOMAIN races',
                          Addrs(k)' = Addrs(l)'
                   PROVE  k = l
      BY DEF RacesDistinct
    <3>2. \A h \in DOMAIN races : Addrs(h)' # Addrs(last)'
      BY <1>3, <1>6, <2>5
    <3>3. QED
      BY <2>5, <2>6, <3>1, <3>2 DEF CheckInv, RacesDistinct
  <2>9. RacesComplete'
    <3>1. SUFFICES ASSUME NEW i, NEW n, NEW j, NEW m, IsAccess(i, n), IsAccess(j, m),
                          Passed(i, n, j, m)', Candidate(i, n, j, m)
                   PROVE  \E k \in DOMAIN races' : Addrs(k)' = AddrsOf(i, n, j, m)
      BY <1>1, SameAccesses DEF RacesComplete
    <3>2. CASE Passed(i, n, j, m)
      BY <1>1, <2>2, <2>5, <3>1, <3>2 DEF CheckInv, RacesComplete
    <3>3. CASE ~Passed(i, n, j, m)
      BY <1>2, <2>b, <2>2, <2>5, <3>1, <3>3
    <3>4. QED
      BY <3>2, <3>3
  <2>10. QED
    BY <1>2, <2>2, <2>7, <2>8, <2>9 DEF CheckInv
<1>7. QED
  BY <1>4, <1>5, <1>6

LEMMA NextPairKeeps ==
  ASSUME During, CheckInv, NotParallel \/ PairChecked
  PROVE  CheckInv'
<1>1. /\ UNCHANGED <<vars, hbAt, hb>> /\ UNCHANGED <<races, checking>> /\ MorePairs
      /\ pair' = NextPair /\ access' = <<1, 1>>
      /\ ~CanRunInParallel(pair[1], pair[2]) \/ ~MoreAccesses
  BY DEF NotParallel, PairChecked, Checking
<1>2. /\ LoopsFit'
      /\ \A i, n, j, m :
           IsAccess(i, n) /\ IsAccess(j, m) /\ i < j /\ Passed(i, n, j, m)' =>
             Passed(i, n, j, m) \/ (i = pair[1] /\ j = pair[2])
  BY <1>1, OuterRound, SameAccesses DEF CheckInv
<1>3. ASSUME NEW i, NEW n, NEW j, NEW m, IsAccess(i, n), IsAccess(j, m),
             Candidate(i, n, j, m), Passed(i, n, j, m)'
      PROVE  Passed(i, n, j, m)
  <2>1. SUFFICES ASSUME i = pair[1], j = pair[2] PROVE Passed(i, n, j, m)
    BY <1>2, <1>3 DEF Candidate
  <2>2. ~MoreAccesses
    BY <1>1, <1>3, <2>1 DEF Candidate
  <2>3. QED
    BY <1>1, <1>3, <2>1, <2>2, InnerEnds DEF CheckInv
<1>4. QED
  BY <1>1, <1>2, <1>3, QuietStep

DetectorInv == RaceInv /\ (NotBegun \/ (HBDone /\ CheckInv))

LEMMA BegunInv ==
  ASSUME DetectorInv, HBDone
  PROVE  During /\ CheckInv
<1>1. During
  BY DEF DetectorInv, RaceInv, HBDone
<1>2. QED
  BY <1>1, CheckBegins DEF DetectorInv

LEMMA BuiltKept ==
  ASSUME HBDone, UNCHANGED <<vars, hbAt, hb>>
  PROVE  HBDone'
<1>1. HB!Built => HB!Built'
  BY SameTrace DEF HB!Built, HB!More
<1>2. QED
  BY <1>1 DEF HBDone, Traversed, vars

LEMMA DetectorStep == DetectorInv /\ [RaceNext]_allVars => DetectorInv'
<1>1. SUFFICES ASSUME DetectorInv, [RaceNext]_allVars PROVE DetectorInv'
  OBVIOUS
<1>2. RaceInv'
  BY <1>1, RaceInvStep DEF DetectorInv
<1>3. CASE Traverse \/ BuildHB
  <2>1. ~HBDone /\ UNCHANGED raceVars
    BY <1>3 DEF Traverse, BuildHB, HBDone, Traversed
  <2>2. NotBegun'
    BY <1>1, <2>1 DEF DetectorInv, NotBegun, raceVars
  <2>3. QED
    BY <1>2, <2>2 DEF DetectorInv
<1>4. CASE CheckAccess
  <2>1. HBDone /\ UNCHANGED <<vars, hbAt, hb>>
    BY <1>4 DEF CheckAccess, Checking
  <2>2. HBDone' /\ CheckInv'
    BY <1>1, <1>4, <2>1, BegunInv, BuiltKept, CheckAccessKeeps
  <2>3. QED
    BY <1>2, <2>2 DEF DetectorInv
<1>5. CASE NotParallel \/ PairChecked
  <2>1. HBDone /\ UNCHANGED <<vars, hbAt, hb>>
    BY <1>5 DEF NotParallel, PairChecked, Checking
  <2>2. HBDone' /\ CheckInv'
    BY <1>1, <1>5, <2>1, BegunInv, BuiltKept, NextPairKeeps
  <2>3. QED
    BY <1>2, <2>2 DEF DetectorInv
<1>6. CASE UNCHANGED allVars
  <2>1. UNCHANGED <<vars, hbAt, hb, races, checking>> /\ UNCHANGED <<pair, access>>
    BY <1>6 DEF allVars, raceVars
  <2>2. NotBegun => NotBegun'
    BY <2>1 DEF NotBegun
  <2>3. ASSUME HBDone, CheckInv PROVE HBDone' /\ CheckInv'
    <3>1. LoopsFit'
      BY <2>1, <2>3, SameAccesses DEF CheckInv, LoopsFit, MorePairs
    <3>2. \A i, n, j, m : Passed(i, n, j, m)' => Passed(i, n, j, m)
      BY <2>1 DEF Passed
    <3>3. CheckInv'
      BY <2>1, <2>3, <3>1, <3>2, QuietStep
    <3>4. QED
      BY <2>1, <2>3, <3>3, BuiltKept
  <2>4. QED
    BY <1>1, <1>2, <2>2, <2>3 DEF DetectorInv
<1>7. QED
  BY <1>1, <1>3, <1>4, <1>5, <1>6 DEF RaceNext, Stopped

LEMMA StartDetectorInv == RaceInit => DetectorInv
BY StartRaceInv DEF RaceInit, DetectorInv, NotBegun

\* For every plain program, whatever the traversal recorded and buildHB made of
\* it: checkRacyPairs reports only candidates, each pair of addresses at most
\* once, and when its loops end without a panic no candidate's addresses are
\* missing.
THEOREM RacesCorrect == RaceSpec => []RacesExact
<1>1. RaceInit => DetectorInv
  BY StartDetectorInv
<1>2. DetectorInv /\ [RaceNext]_allVars => DetectorInv'
  BY DetectorStep
<1>3. DetectorInv => RacesExact
  <2>1. SUFFICES ASSUME DetectorInv PROVE RacesExact
    OBVIOUS
  <2>2. CASE HBDone
    BY <2>1, <2>2, BegunInv, CheckEnds
  <2>3. CASE ~HBDone
    BY <2>1, <2>3 DEF DetectorInv, NotBegun, RacesExact
  <2>4. QED
    BY <2>2, <2>3
<1>4. QED
  BY <1>1, <1>2, <1>3, PTL DEF RaceSpec
-----------------------------------------------------------------------------
(***************************************************************************)
(* What reachable finds.  The provers have no induction: the first round   *)
(* for which a claim fails gives the contradiction (LeastNat).             *)
(***************************************************************************)
\* The rounds of the search: f[k] is what k steps along the edges reach.
Expand(E, S) == S \cup {e[2] : e \in {e \in E : e[1] \in S}}
IsRounds(f, E, n, N) == f = [k \in 0..N |-> IF k = 0 THEN {n} ELSE Expand(E, f[k - 1])]

LEMMA RoundsExist ==
  ASSUME NEW E, NEW n, NEW N \in Nat
  PROVE  \E f : IsRounds(f, E, n, N)
<1> DEFINE Bad == {k \in Nat : ~\E f : IsRounds(f, E, n, k)}
<1>1. SUFFICES ASSUME Bad # {} PROVE FALSE
  OBVIOUS
<1>2. PICK d \in Bad : \A e \in Bad : d <= e
  <2>1. Bad \subseteq Nat
    OBVIOUS
  <2> HIDE DEF Bad
  <2>2. QED
    BY <1>1, <2>1, LeastNat
<1>3. d \in Nat /\ ~\E f : IsRounds(f, E, n, d)
  OBVIOUS
<1>4. CASE d = 0
  <2> DEFINE f == [k \in 0..0 |-> {n}]
  <2>1. IsRounds(f, E, n, 0)
    BY DEF IsRounds
  <2>2. QED
    BY <1>3, <1>4, <2>1
<1>5. CASE d # 0
  <2>1. d - 1 \in Nat /\ d - 1 \notin Bad
    BY <1>2, <1>3, <1>5
  <2>2. PICK f : IsRounds(f, E, n, d - 1)
    BY <2>1
  <2> DEFINE g == [i \in 0..d |-> IF i = d THEN Expand(E, f[d - 1]) ELSE f[i]]
  <2>3. ASSUME NEW i \in 0..d
        PROVE  g[i] = IF i = 0 THEN {n} ELSE Expand(E, g[i - 1])
    <3>1. CASE i = d
      BY <1>3, <1>5, <3>1
    <3>2. CASE i # d
      <4>1. i \in 0..(d - 1) /\ (i # 0 => i - 1 \in 0..d /\ i - 1 # d) /\ g[i] = f[i]
        BY <1>3, <2>3, <3>2
      <4>2. f[i] = IF i = 0 THEN {n} ELSE Expand(E, f[i - 1])
        BY <2>2, <4>1 DEF IsRounds
      <4>3. i # 0 => g[i - 1] = f[i - 1]
        BY <4>1
      <4>4. QED
        BY <4>1, <4>2, <4>3
    <3>3. QED
      BY <3>1, <3>2
  <2>4. g = [k \in 0..d |-> IF k = 0 THEN {n} ELSE Expand(E, g[k - 1])]
    <3>1. g = [i \in 0..d |-> g[i]]
      OBVIOUS
    <3> HIDE DEF g
    <3>2. QED
      BY <2>3, <3>1
  <2>5. IsRounds(g, E, n, d)
    BY <2>4 DEF IsRounds
  <2>6. QED
    BY <1>3, <2>5
<1>6. QED
  BY <1>4, <1>5

LEMMA ClosureRounds ==
  ASSUME NEW E, NEW n, Cardinality(E) \in Nat
  PROVE  \E f : IsRounds(f, E, n, Cardinality(E)) /\ Closure(E, n) = f[Cardinality(E)]
<1> DEFINE after == CHOOSE f : IsRounds(f, E, n, Cardinality(E))
<1>1. IsRounds(after, E, n, Cardinality(E))
  BY RoundsExist
<1>2. Closure(E, n) = after[Cardinality(E)]
  BY DEF Closure, IsRounds, Expand
<1>3. QED
  BY <1>1, <1>2

\* A set of nodes that no edge of E leaves
Closed(E, S) == \A e \in E : e[1] \in S => e[2] \in S

LEMMA RoundsWithin ==
  ASSUME NEW E, NEW n, NEW N \in Nat, NEW f, IsRounds(f, E, n, N), NEW S, n \in S, Closed(E, S)
  PROVE  \A k \in 0..N : f[k] \subseteq S
<1> DEFINE Bad == {k \in 0..N : ~(f[k] \subseteq S)}
<1>1. SUFFICES ASSUME Bad # {} PROVE FALSE
  OBVIOUS
<1>2. PICK d \in Bad : \A e \in Bad : d <= e
  <2>1. Bad \subseteq Nat
    OBVIOUS
  <2> HIDE DEF Bad
  <2>2. QED
    BY <1>1, <2>1, LeastNat
<1>3. d \in 0..N /\ ~(f[d] \subseteq S)
  OBVIOUS
<1>4. f[d] = IF d = 0 THEN {n} ELSE Expand(E, f[d - 1])
  BY <1>3 DEF IsRounds
<1>5. d # 0
  BY <1>3, <1>4
<1>6. d - 1 \in 0..N /\ d - 1 \notin Bad
  BY <1>2, <1>3, <1>5
<1>7. f[d - 1] \subseteq S
  BY <1>6
<1>8. QED
  BY <1>3, <1>4, <1>5, <1>7 DEF Expand, Closed

\* An edge that leaves what k rounds give starts in what the last of them
\* added: there are more than k edges that start in it.
LEMMA RoundsGrow ==
  ASSUME NEW E, IsFiniteSet(E), NEW n, NEW N \in Nat, NEW f, IsRounds(f, E, n, N)
  PROVE  \A k \in 0..N : Closed(E, f[k]) \/ Cardinality({e \in E : e[1] \in f[k]}) > k
<1> DEFINE From(k) == {e \in E : e[1] \in f[k]}
           Bad == {k \in 0..N : ~(Closed(E, f[k]) \/ Cardinality(From(k)) > k)}
<1>1. SUFFICES ASSUME Bad # {} PROVE FALSE
  OBVIOUS
<1>2. PICK d \in Bad : \A e \in Bad : d <= e
  <2>1. Bad \subseteq Nat
    OBVIOUS
  <2> HIDE DEF Bad
  <2>2. QED
    BY <1>1, <2>1, LeastNat
<1>3. d \in 0..N /\ ~Closed(E, f[d]) /\ ~(Cardinality(From(d)) > d)
  OBVIOUS
<1>4. PICK e \in E : e[1] \in f[d] /\ e[2] \notin f[d]
  BY <1>3 DEF Closed
<1>5. \A k : IsFiniteSet(From(k)) /\ Cardinality(From(k)) \in Nat
  BY FS_Subset, FS_CardinalityType
<1>6. f[d] = IF d = 0 THEN {n} ELSE Expand(E, f[d - 1])
  BY <1>3 DEF IsRounds
<1>7. CASE d = 0
  <2>1. From(d) # {}
    BY <1>4
  <2> HIDE DEF From
  <2>2. Cardinality(From(d)) # 0
    BY <1>5, <2>1, FS_EmptySet
  <2>3. QED
    BY <1>3, <1>5, <1>7, <2>2
<1>8. CASE d # 0
  <2>1. d - 1 \in 0..N /\ d - 1 \notin Bad
    BY <1>2, <1>3, <1>8
  <2>2. f[d] = Expand(E, f[d - 1])
    BY <1>6, <1>8
  <2>3. e \notin From(d - 1)
    BY <1>4, <2>2 DEF Expand
  <2>4. From(d - 1) \cup {e} \subseteq From(d)
    BY <1>4, <2>2 DEF Expand
  <2>5. ~Closed(E, f[d - 1])
    <3>1. ASSUME Closed(E, f[d - 1]) PROVE FALSE
      <4>1. f[d] = f[d - 1]
        BY <2>2, <3>1 DEF Expand, Closed
      <4>2. QED
        BY <1>3, <3>1, <4>1
    <3>2. QED
      BY <3>1
  <2>6. Cardinality(From(d - 1)) > d - 1
    BY <2>1, <2>5
  <2> HIDE DEF From
  <2>7. Cardinality(From(d - 1) \cup {e}) = Cardinality(From(d - 1)) + 1
    BY <1>5, <2>3, FS_AddElement
  <2>8. Cardinality(From(d - 1) \cup {e}) <= Cardinality(From(d))
    BY <1>5, <2>4, FS_Subset
  <2>9. Cardinality(From(d - 1)) \in Nat /\ Cardinality(From(d)) \in Nat /\ d \in Nat
    BY <1>3, <1>5
  <2>10. QED
    BY <1>3, <2>6, <2>7, <2>8, <2>9
<1>9. QED
  BY <1>7, <1>8

\* Closure, which stands for the breadth-first search of reachable: the least
\* set of nodes with n in it that no edge leaves.
LEMMA ClosureLeast ==
  ASSUME NEW E, IsFiniteSet(E), NEW n
  PROVE  /\ n \in Closure(E, n)
         /\ Closed(E, Closure(E, n))
         /\ \A S : n \in S /\ Closed(E, S) => Closure(E, n) \subseteq S
<1> DEFINE N == Cardinality(E)
<1>1. N \in Nat
  BY FS_CardinalityType
<1>2. PICK f : IsRounds(f, E, n, N) /\ Closure(E, n) = f[N]
  BY <1>1, ClosureRounds
<1>3. \A S : n \in S /\ Closed(E, S) => Closure(E, n) \subseteq S
  <2>1. SUFFICES ASSUME NEW S, n \in S, Closed(E, S) PROVE f[N] \subseteq S
    BY <1>2
  <2>2. \A k \in 0..N : f[k] \subseteq S
    BY <1>1, <1>2, <2>1, RoundsWithin
  <2>3. N \in 0..N
    BY <1>1
  <2>4. QED
    BY <2>2, <2>3
<1>4. Closed(E, f[N])
  <2> DEFINE F == {e \in E : e[1] \in f[N]}
  <2>1. F \subseteq E /\ (Closed(E, f[N]) \/ Cardinality(F) > N)
    BY <1>1, <1>2, RoundsGrow
  <2> HIDE DEF F
  <2>2. Cardinality(F) <= N /\ Cardinality(F) \in Nat
    BY <2>1, FS_Subset, FS_CardinalityType
  <2>3. QED
    BY <1>1, <2>1, <2>2
<1>5. n \in f[N]
  <2> DEFINE Bad == {k \in 0..N : n \notin f[k]}
  <2>1. SUFFICES ASSUME Bad # {} PROVE FALSE
    BY <1>1
  <2>2. PICK d \in Bad : \A e \in Bad : d <= e
    <3>1. Bad \subseteq Nat
      OBVIOUS
    <3> HIDE DEF Bad
    <3>2. QED
      BY <2>1, <3>1, LeastNat
  <2>3. d \in 0..N /\ n \notin f[d]
    OBVIOUS
  <2>4. f[d] = IF d = 0 THEN {n} ELSE Expand(E, f[d - 1])
    BY <1>2, <2>3 DEF IsRounds
  <2>5. d # 0 /\ d - 1 \in 0..N /\ d - 1 \notin Bad
    BY <1>1, <2>2, <2>3, <2>4
  <2>6. n \in f[d - 1]
    BY <2>5
  <2>7. QED
    BY <2>3, <2>4, <2>5, <2>6 DEF Expand
<1>6. QED
  BY <1>2, <1>3, <1>4, <1>5

LEMMA EdgesFinite ==
  ASSUME RaceInv, HBDone
  PROVE  IsFiniteSet(hb.edges)
<1> DEFINE L == Len(RWIns)
           Row(g) == {g} \X (1..Len(RWIns[g + 1]))
           f == [g \in 0..(L - 1) |-> Row(g)]
           Rows == {Row(g) : g \in 0..(L - 1)}
<1>1. /\ L \in Nat /\ HBP!OrderInv
      /\ \A g \in 0..(L - 1) : Len(RWIns[g + 1]) \in Nat /\ DOMAIN RWIns[g + 1] = 1..Len(RWIns[g + 1])
  BY BuiltFacts
<1>2. ASSUME NEW g \in 0..(L - 1) PROVE IsFiniteSet(Row(g))
  <2>1. IsFiniteSet({g})
    BY FS_Singleton
  <2>2. 1 \in Int /\ Len(RWIns[g + 1]) \in Int
    BY <1>1, <1>2
  <2>3. IsFiniteSet(1..Len(RWIns[g + 1]))
    BY <2>2, FS_Interval
  <2>4. QED
    BY <2>1, <2>3, FS_Product
<1>3. HBP!Visited \subseteq UNION Rows
  <2>1. SUFFICES ASSUME NEW p \in HBP!Visited PROVE p \in UNION Rows
    OBVIOUS
  <2>2. /\ p = <<p[1], p[2]>> /\ p[1] \in 0..(L - 1)
        /\ p[2] \in DOMAIN RWIns[p[1] + 1]
    BY <2>1, BuiltFacts
  <2>3. p[2] \in 1..Len(RWIns[p[1] + 1])
    BY <1>1, <2>2
  <2>4. p \in Row(p[1])
    BY <2>2, <2>3
  <2>5. QED
    BY <2>2, <2>4
<1>4. IsFiniteSet(Rows)
  <2>1. f \in Surjection(0..(L - 1), Rows)
    BY DEF Surjection
  <2>2. IsFiniteSet(0..(L - 1))
    BY <1>1, FS_Interval
  <2> HIDE DEF f, Rows
  <2>3. QED
    BY <2>1, <2>2, FS_Surjection
<1>5. \A T \in Rows : IsFiniteSet(T)
  BY <1>2
<1> HIDE DEF Rows
<1>6. IsFiniteSet(HBP!Visited)
  BY <1>3, <1>4, <1>5, FS_UNION, FS_Subset
<1>7. IsFiniteSet(HBP!Visited \X HBP!Visited)
  BY <1>6, FS_Product
<1>8. hb.edges \subseteq HBP!Visited \X HBP!Visited
  BY <1>1 DEF HBP!OrderInv, HBP!Inv, HBP!Within
<1>9. QED
  BY <1>7, <1>8, FS_Subset

LEMMA PlainIns ==
  ASSUME NEW ins, IfOf(ins) = <<>>
  PROVE  HBP!Plain(HBIns(ins))
<1>1. HBIns(ins).ifOf = <<>> /\ HBIns(ins).caseOf = "" /\ HBIns(ins).selDone = FALSE
  BY DEF HBIns
<1>2. QED
  BY <1>1 DEF HBP!Plain, HBP!NoIns, HBP!NoChan

\* In straight-line code, what reaches an instruction reaches the later ones.
LEMMA StraightPath ==
  ASSUME RaceInv, HBDone, NEW C, Closed(hb.edges, C),
         NEW g \in 0..(Len(RWIns) - 1), NEW a \in DOMAIN RWIns[g + 1], NEW b \in DOMAIN RWIns[g + 1],
         a <= b, Straight(g, a, b), <<g, a>> \in C
  PROVE  <<g, b>> \in C
<1>1. Len(RWIns[g + 1]) \in Nat /\ DOMAIN RWIns[g + 1] = 1..Len(RWIns[g + 1])
  BY BuiltFacts
<1> DEFINE Bad == {k \in a..b : <<g, k>> \notin C}
<1>2. SUFFICES ASSUME Bad # {} PROVE FALSE
  BY <1>1
<1>3. PICK d \in Bad : \A e \in Bad : d <= e
  <2>1. Bad \subseteq Nat
    BY <1>1
  <2> HIDE DEF Bad
  <2>2. QED
    BY <1>2, <2>1, LeastNat
<1>4. d \in a..b /\ <<g, d>> \notin C /\ d # a
  OBVIOUS
<1>5. d - 1 \in a..b /\ d \in (a + 1)..b /\ d - 1 \notin Bad
  BY <1>1, <1>3, <1>4
<1>6. <<g, d - 1>> \in C
  BY <1>5
<1>7. d \in DOMAIN RWIns[g + 1] /\ d - 1 \in DOMAIN RWIns[g + 1] /\ d > 1
  BY <1>1, <1>5
<1> DEFINE p == <<g, d>>
           q == <<g, d - 1>>
<1>8. p \in HBP!Visited /\ q \in HBP!Visited /\ p[1] = g /\ p[2] = d /\ <<p[1], p[2] - 1>> = q
  BY <1>7, BuiltFacts
<1>9. HBP!Plain(HBP!InsAt(p))
  <2>1. IfOf(RWIns[g + 1][d].ins) = <<>>
    BY <1>5 DEF Straight
  <2>2. HBP!InsAt(p) = HBIns(RWIns[g + 1][d].ins)
    BY <1>8, BuiltFacts
  <2>3. QED
    BY <2>1, <2>2, PlainIns
<1>10. ~HBP!Disjoin(HBP!InsAt(q))
  BY <1>8, BuiltFacts
<1> HIDE DEF p, q
<1>11. <<q, p>> \in hb.edges
  BY <1>7, <1>8, <1>9, <1>10, BuiltFacts DEF HBP!OrderInv, HBP!OrderKept
<1>12. p \in C
  BY <1>6, <1>11 DEF Closed, q
<1>13. QED
  BY <1>4, <1>12 DEF p
-----------------------------------------------------------------------------
(***************************************************************************)
(* What a goroutine does before it starts another one.                     *)
(***************************************************************************)
LEMMA SpawnOrdered ==
  ASSUME RaceInv, HBDone, NEW i, NEW n, NEW j, NEW m, IsAccess(i, n), IsAccess(j, m), i < j,
         ReadsOrWrites(RWIns[i + 1][n].ins), ReadsOrWrites(RWIns[j + 1][m].ins),
         BeforeSpawn(i, n, j, m)
  PROVE  Reachable(RWIns[i + 1][n].ins, i, RWIns[j + 1][m].ins, j)
<1>1. /\ i \in 0..(Len(RWIns) - 1) /\ n \in DOMAIN RWIns[i + 1]
      /\ j \in 0..(Len(RWIns) - 1) /\ m \in DOMAIN RWIns[j + 1] /\ Len(RWIns) \in Nat
  BY BuiltFacts DEF IsAccess
<1>2. /\ Len(RWIns[i + 1]) \in Nat /\ DOMAIN RWIns[i + 1] = 1..Len(RWIns[i + 1])
      /\ Len(RWIns[j + 1]) \in Nat /\ DOMAIN RWIns[j + 1] = 1..Len(RWIns[j + 1])
  BY <1>1, BuiltFacts
<1> DEFINE x == RWIns[i + 1][n].ins
           y == RWIns[j + 1][m].ins
           start == RWIns[j + 1][1].ins
<1>3. PICK q \in DOMAIN RWIns[i + 1] :
        /\ \A g \in 0..(j - 1) : \A p \in DOMAIN RWIns[g + 1] :
              RWIns[g + 1][p].ins = start => g = i /\ p = q
        /\ \A p \in DOMAIN RWIns[i + 1] : RWIns[i + 1][p].ins = x => p < q /\ Straight(i, p, q)
        /\ \A p \in DOMAIN RWIns[j + 1] : RWIns[j + 1][p].ins = y => Straight(j, 0, p)
  BY DEF BeforeSpawn
<1>4. PICK a \in DOMAIN RWIns[i + 1] :
        /\ RWIns[i + 1][a].ins = x
        /\ <<x, i>> \in DOMAIN hb.RWinsMap /\ hb.RWinsMap[<<x, i>>] = <<i, a>>
  BY <1>1, RaceInvFound DEF AccessesFound
<1>5. PICK b \in DOMAIN RWIns[j + 1] :
        /\ RWIns[j + 1][b].ins = y
        /\ <<y, j>> \in DOMAIN hb.RWinsMap /\ hb.RWinsMap[<<y, j>>] = <<j, b>>
  BY <1>1, RaceInvFound DEF AccessesFound
<1> DEFINE C == Closure(hb.edges, <<i, a>>)
<1>6. <<i, a>> \in C /\ Closed(hb.edges, C)
  BY EdgesFinite, ClosureLeast
<1> HIDE DEF C
<1>7. <<i, q>> \in C
  <2>1. a < q /\ Straight(i, a, q)
    BY <1>3, <1>4
  <2>2. a <= q
    BY <1>2, <1>3, <1>4, <2>1
  <2>3. QED
    BY <1>1, <1>3, <1>4, <1>6, <2>1, <2>2, StraightPath
<1>8. Straight(j, 0, b) /\ 1 \in DOMAIN RWIns[j + 1] /\ 1 <= b
  BY <1>2, <1>3, <1>5
<1>9. <<j, 1>> \in C
  <2> DEFINE p == <<j, 1>>
  <2>1. p \in HBP!Visited /\ p[1] = j /\ p[2] = 1 /\ HBP!InsAt(p) = HBIns(start)
    BY <1>1, <1>8, BuiltFacts
  <2>2. IfOf(start) = <<>>
    BY <1>2, <1>5, <1>8 DEF Straight
  <2>3. HBP!Plain(HBP!InsAt(p)) /\ HBP!InsAt(p).ins = start
    BY <2>1, <2>2, PlainIns, HBInsFacts
  <2>4. j > 0
    BY <1>1
  <2> HIDE DEF p
  <2>5. PICK v \in HBP!Visited : v[1] < j /\ HBP!InsAt(v).ins = start /\ <<v, p>> \in hb.edges
    BY <2>1, <2>3, <2>4, BuiltFacts DEF HBP!OrderInv, HBP!OrderKept
  <2>6. /\ v = <<v[1], v[2]>> /\ v[1] \in 0..(j - 1) /\ v[2] \in DOMAIN RWIns[v[1] + 1]
        /\ RWIns[v[1] + 1][v[2]].ins = start
    BY <1>1, <2>5, BuiltFacts, HBInsFacts
  <2>7. v = <<i, q>>
    BY <1>3, <2>6
  <2>8. QED
    BY <1>6, <1>7, <2>5, <2>7 DEF Closed, p
<1>10. <<j, b>> \in C
  <2>1. Straight(j, 1, b)
    BY <1>2, <1>5, <1>8 DEF Straight
  <2>2. QED
    BY <1>1, <1>5, <1>6, <1>8, <1>9, <2>1, StraightPath
<1>11. QED
  BY <1>4, <1>5, <1>10 DEF Reachable, C

\* For every plain program: no race is reported between what a goroutine does
\* in straight-line code before it starts another one, by a go statement that
\* is executed once, and what the other one does in straight-line code.  It
\* takes all three parts: the traversal records the go statement before the
\* goroutine it starts, buildHB links the two and keeps the order of each
\* goroutine, and reachable finds the path (shbgraph.go:33).
THEOREM SpawnRespectedCorrect == RaceSpec => []SpawnRespected
<1>1. RaceInit => DetectorInv
  BY StartDetectorInv
<1>2. DetectorInv /\ [RaceNext]_allVars => DetectorInv'
  BY DetectorStep
<1>3. DetectorInv => SpawnRespected
  <2>1. SUFFICES ASSUME DetectorInv, NEW k \in DOMAIN races,
                        BeforeSpawn(races[k].goIDs[1], races[k].insInd[1],
                                    races[k].goIDs[2], races[k].insInd[2])
                 PROVE  FALSE
    BY DEF SpawnRespected
  <2> DEFINE i == races[k].goIDs[1]
             n == races[k].insInd[1]
             j == races[k].goIDs[2]
             m == races[k].insInd[2]
  <2>2. RaceInv /\ HBDone /\ CheckInv
    BY <2>1 DEF DetectorInv, NotBegun
  <2>3. Candidate(i, n, j, m)
    BY <2>2 DEF CheckInv, RacesReal
  <2> HIDE DEF i, n, j, m
  <2>4. /\ IsAccess(i, n) /\ IsAccess(j, m) /\ i < j
        /\ Conflict(RWIns[i + 1][n].ins, RWIns[j + 1][m].ins)
        /\ ~Reachable(RWIns[i + 1][n].ins, i, RWIns[j + 1][m].ins, j)
    BY <2>3 DEF Candidate, Racy, Compared
  <2>5. ReadsOrWrites(RWIns[i + 1][n].ins) /\ ReadsOrWrites(RWIns[j + 1][m].ins)
    BY <2>4 DEF Conflict, ReadsOrWrites
  <2>6. BeforeSpawn(i, n, j, m)
    BY <2>1 DEF i, n, j, m
  <2>7. QED
    BY <2>2, <2>4, <2>5, <2>6, SpawnOrdered
<1>4. QED
  BY <1>1, <1>2, <1>3, PTL DEF RaceSpec
=============================================================================
