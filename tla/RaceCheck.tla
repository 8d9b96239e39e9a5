----------------------------- MODULE RaceCheck -----------------------------
(***************************************************************************)
(* The race detector as a whole, for one entry point (runChecker of        *)
(* gorace/analysisTools.go): the traversal, the Happens-Before graph of    *)
(* what it recorded, and checkRacyPairs (gorace/raceCollection.go), which  *)
(* compares the accesses of any two goroutines.                            *)
(***************************************************************************)
EXTENDS Traversal

CONSTANTS
  SrcPosOf   \* getSrcPos: position of a lock expression; 0, NoPos, for a global

VARIABLES
  hbAt, hb,   \* buildHB: where it is, its graph and variables
  pair,       \* checkRacyPairs: <<i, j>>, the goroutines to be compared
  access,     \* and <<n, m>>, their accesses to be compared next
  races,      \* the races found, in order
  checking    \* "run", or "panic" after a nil dereference

raceVars == <<pair, access, races, checking>>
allVars == <<vars, hbAt, hb, raceVars>>
-----------------------------------------------------------------------------
(***************************************************************************)
(* What buildHB gets: the recorded instructions, with what the traversal   *)
(* notes of if statements and returns.  There is one WaitGroup.            *)
(***************************************************************************)
BlockOf(ins) == prog[ins[1]][ins[2]]
LastOf(block) == block.instrs[Len(block.instrs)]
IfBlock(block) == block.comment \in {"if.then", "if.else", "if.done"}

\* ifSuccBegin: the If visited last before the block
IfsBefore(ins) == {b \in 1..(ins[2] - 1) : LastOf(prog[ins[1]][b]).op = "if"}
IfOf(ins) ==
  IF ins[3] = 1 /\ IfBlock(BlockOf(ins)) /\ IfsBefore(ins) # {}
  THEN LET b == CHOOSE b \in IfsBefore(ins) : \A c \in IfsBefore(ins) : c <= b
       IN <<ins[1], b, Len(prog[ins[1]][b].instrs)>>
  ELSE <<>>

\* ifFnReturn, ifSuccEnd: returns at the end of the blocks of if statements
Returns(f) == {b \in DOMAIN prog[f] : IfBlock(prog[f][b]) /\ LastOf(prog[f][b]).op = "return"}
IsSuccEnd(ins) ==
  /\ ins[2] \in Returns(ins[1]) /\ IfsBefore(ins) # {}
  /\ ins[3] = Len(BlockOf(ins).instrs)
IsFinal(ins) == IsSuccEnd(ins) /\ \A b \in Returns(ins[1]) : b <= ins[2]

HBOp(i) ==
  CASE i.op \in {"read", "write", "go", "wait", "done", "return", "if", "jump"} -> i.op
    [] i.op \in {"store", "changetype"} -> "write"
    [] i.op = "defer" /\ i.arg.kind = "done" -> "done"
    [] OTHER -> "other"
HBIns(ins) ==
  [ins |-> ins, op |-> HBOp(InstrAt(ins)), arg |-> "-",
   sel |-> [ready |-> <<>>, sends |-> {}, unknown |-> FALSE],
   blk |-> <<ins[1], ins[2]>>, cmt |-> BlockOf(ins).comment,
   ifOf |-> IfOf(ins), comm |-> FALSE,
   succEnd |-> IsSuccEnd(ins), final |-> IsFinal(ins),
   caseOf |-> "", caseEnd |-> "", selDone |-> FALSE,
   reads |-> InstrAt(ins).op = "call" /\ InstrAt(ins).reads]
HBTrace == [n \in DOMAIN RWIns |-> [m \in DOMAIN RWIns[n] |-> HBIns(RWIns[n][m].ins)]]

HB == INSTANCE HBGraph WITH Traces <- {}, ChannelComm <- TRUE,
                            trace <- HBTrace, at <- hbAt, h <- hb
-----------------------------------------------------------------------------
(***************************************************************************)
(* Call stacks from main on.  The code compares pointers to stack entries: *)
(* an entry belongs to the goroutine whose traversal pushed it, and the    *)
(* last one of goStack[g] was made by insGo for g alone.                   *)
(***************************************************************************)
Entries(stack, owner) == [n \in DOMAIN stack |-> [call |-> stack[n], of |-> owner]]
SpawnStack(g) == SubSeq(goStack[g + 1], 1, Len(goStack[g + 1]) - 1)
GoEntry(g) == [call |-> goStack[g + 1][Len(goStack[g + 1])], of |-> -g]

\* g and its ancestors, root first
PathTo[g \in {0} \cup DOMAIN goCaller] ==
  IF g = 0 THEN <<>> ELSE Append(PathTo[goCaller[g]], g)

\* The stacks in f of the goroutines of a path, one after the other
Along(f, path) ==
  LET join(s, g) == s \o f[g]
  IN ForEach(join, <<>>, path)
ParallelStack(g) ==
  Along([n \in DOMAIN goCaller |-> Append(Entries(SpawnStack(n), goCaller[n]), GoEntry(n))], PathTo[g])
AccessStack(g, r) ==
  Along([n \in DOMAIN goCaller |-> Entries(SpawnStack(n), goCaller[n])], PathTo[g]) \o Entries(r.stack, g)

\* The first place where two stacks differ, the entry function aside
CommonEnd(s, t) == IF Len(s) < Len(t) THEN Len(s) ELSE Len(t)
Diverge(s, t) ==
  LET ds == {d \in 2..CommonEnd(s, t) : s[d] # t[d]}
  IN IF ds = {} THEN 0 ELSE CHOOSE d \in ds : \A e \in ds : d <= e

\* BasicBlock.Dominates, for the blocks of a function without nested
\* statements and without else branches that return
SideBlocks == {"if.then", "if.else", "for.body", "rangeindex.body", "rangeiter.body"}
Dominates(b, c) == b = c \/ (b[2] < c[2] /\ prog[b[1]][b[2]].comment \notin SideBlocks)
Unordered(b, c) == ~Dominates(b, c) /\ ~Dominates(c, b)
BlockID(ins) == <<ins[1], ins[2]>>

CanRunInParallel(i, j) ==
  LET s == ParallelStack(i)
      t == ParallelStack(j)
      d == Diverge(s, t)
      b1 == BlockID(s[d].call.ins)
      b2 == BlockID(t[d].call.ins)
  IN d # 0 /\ b1[1] = s[d - 1].call.fn /\ b2[1] = s[d - 1].call.fn => ~Unordered(b1, b2)
-----------------------------------------------------------------------------
(***************************************************************************)
(* mutuallyExcluded                                                        *)
(***************************************************************************)
\* deferToRet: the next rundefers after a defer; there may be none.
RunDefersAfter(ins) ==
  LET blocks == prog[ins[1]] IN
  {p \in UNION {{<<ins[1], b, i>> : i \in DOMAIN blocks[b].instrs} : b \in DOMAIN blocks} :
     /\ InstrAt(p).op = "rundefers"
     /\ p[2] > ins[2] \/ (p[2] = ins[2] /\ p[3] > ins[3])}
FirstIn(S) == CHOOSE p \in S : \A q \in S : p[2] < q[2] \/ (p[2] = q[2] /\ p[3] <= q[3])
DeferToRet(ins) == IF RunDefersAfter(ins) = {} THEN NoIns ELSE FirstIn(RunDefersAfter(ins))
IsDefer(e) == e.call.ins # NoIns /\ InstrAt(e.call.ins).op = "defer"
NeverRun(e) == IsDefer(e) /\ DeferToRet(e.call.ins) = NoIns
Site(e) == BlockID(IF IsDefer(e) /\ ~NeverRun(e) THEN DeferToRet(e.call.ins) ELSE e.call.ins)

\* Where two accesses part: the index of the function and the two blocks in it
Parting(s, ins1, t, ins2) ==
  LET d == Diverge(s, t)
      part(at, b1, b2) == [at |-> at, b1 |-> b1, b2 |-> b2]
  IN CASE d # 0 -> part(d - 1, Site(s[d]), Site(t[d]))
       [] d = 0 /\ Len(s) < Len(t) -> part(Len(s), BlockID(ins1), Site(t[Len(s) + 1]))
       [] d = 0 /\ Len(s) > Len(t) -> part(Len(t), Site(s[Len(t) + 1]), BlockID(ins2))
       [] OTHER -> part(0, <<>>, <<>>)

NoGoAfterFn(s, n) ==
  \A k \in n..Len(s) : k = 1 \/ s[k].call.ins = NoIns \/ InstrAt(s[k].call.ins).op # "go"
StackContainsDefer(s) == \E k \in DOMAIN s : IsDefer(s[k])

\* A branch that returns, with the other access behind it
ReturnsBefore(b, c, s) ==
  /\ prog[b[1]][b[2]].comment \in {"if.then", "if.else"}
  /\ LastOf(prog[b[1]][b[2]]).op = "return"
  /\ Dominates(b, c)
  /\ ~StackContainsDefer(s)

\* Mutant: two branches of an if statement do not exclude each other.
ExcludedByReturn(r1, g1, r2, g2) ==
  LET s == AccessStack(g1, r1)
      t == AccessStack(g2, r2)
      p == Parting(s, r1.ins, t, r2.ins)
  IN p.at # 0 /\ (ReturnsBefore(p.b1, p.b2, s) \/ ReturnsBefore(p.b2, p.b1, t))

MutuallyExcluded(r1, g1, r2, g2) ==
  LET s == AccessStack(g1, r1)
      t == AccessStack(g2, r2)
      p == Parting(s, r1.ins, t, r2.ins)
  IN /\ p.at # 0
     /\ \/ /\ p.b1[1] = s[p.at].call.fn /\ p.b2[1] = s[p.at].call.fn
           /\ \/ Unordered(p.b1, p.b2)
              \/ NoGoAfterFn(s, p.at) /\ p.b1 # p.b2 /\ Dominates(p.b1, p.b2)
        \/ ReturnsBefore(p.b1, p.b2, s)
        \/ ReturnsBefore(p.b2, p.b1, t)

\* a.deferToRet[deferIns].Block() of a defer that no rundefers runs: nil
NilBlock(r1, g1, r2, g2) ==
  LET s == AccessStack(g1, r1)
      t == AccessStack(g2, r2)
      d == Diverge(s, t)
  IN d # 0 /\ d < Len(s) /\ d < Len(t) /\ NeverRun(s[d])
-----------------------------------------------------------------------------
(***************************************************************************)
(* checkRacyPairs                                                          *)
(***************************************************************************)
IsWriteIns(ins) == InstrAt(ins).op \in {"write", "store", "changetype"}
IsReadIns(ins) == InstrAt(ins).op = "read" \/ (InstrAt(ins).op = "call" /\ InstrAt(ins).reads)

\* insAddress; calls and type changes have none
NoAddr == "-"
Address(ins) == IF InstrAt(ins).op \in {"read", "write", "store"} THEN InstrAt(ins).arg ELSE NoAddr

\* lockSetsIntersect: locks that may alias or have the same source position
\* (mutant: any two locks)
LocksOf(m, ins) == {Get(m, ins, <<>>)[n] : n \in DOMAIN Get(m, ins, <<>>)}
LocksAt(ins) == LocksOf(lockMap, ins) \cup IF IsReadIns(ins) THEN LocksOf(RlockMap, ins) ELSE {}
LockSetsNotEmpty(ins1, ins2) == LocksAt(ins1) # {} /\ LocksAt(ins2) # {}
LockSetsIntersect(ins1, ins2) ==
  \E l \in LocksAt(ins1), m \in LocksAt(ins2) :
     <<l, m>> \in SameAddr \/ SrcPosOf[l] = SrcPosOf[m]

\* reachable
Closure(E, n) ==
  LET step(S) == S \cup {e[2] : e \in {e \in E : e[1] \in S}}
      after[k \in 0..Cardinality(E)] == IF k = 0 THEN {n} ELSE step(after[k - 1])
  IN after[Cardinality(E)]
\* (mutant: the search stops at the neighbors of the first access)
ReachableAtOnce(ins1, g1, ins2, g2) ==
  LET from == <<ins1, g1>>
      to == <<ins2, g2>>
  IN /\ from \in DOMAIN hb.RWinsMap /\ to \in DOMAIN hb.RWinsMap
     /\ <<hb.RWinsMap[from], hb.RWinsMap[to]>> \in hb.edges
Reachable(ins1, g1, ins2, g2) ==
  LET from == <<ins1, g1>>
      to == <<ins2, g2>>
  IN /\ from \in DOMAIN hb.RWinsMap /\ to \in DOMAIN hb.RWinsMap
     /\ hb.RWinsMap[to] \in Closure(hb.edges, hb.RWinsMap[from])

Conflict(ins1, ins2) ==
  \/ IsWriteIns(ins1) /\ (IsWriteIns(ins2) \/ IsReadIns(ins2))
  \/ IsReadIns(ins1) /\ IsWriteIns(ins2)

Compared(i, n, j, m) ==
  LET ins1 == RWIns[i + 1][n].ins
      ins2 == RWIns[j + 1][m].ins
  IN /\ ~(i = 0 /\ n - 1 < insMono)
     /\ BlockID(ins1) \notin hb.omitComm /\ BlockID(ins2) \notin hb.omitComm
     /\ Conflict(ins1, ins2)
     /\ Address(ins1) # NoAddr /\ Address(ins1) = Address(ins2)

\* Every condition of checkRacyPairs but strictSliceContains and mutuallyExcluded
Racy(i, n, j, m) ==
  LET ins1 == RWIns[i + 1][n].ins
      ins2 == RWIns[j + 1][m].ins
  IN /\ Compared(i, n, j, m)
     /\ ~LockSetsIntersect(ins1, ins2)
     /\ ~Reachable(ins1, i, ins2, j) /\ ~Reachable(ins2, j, ins1, i)

\* strictSliceContains (mutant: it looks at the last race only)
LastKnown(R, ins1, ins2) ==
  R # <<>> /\ {R[Len(R)].addrs[1], R[Len(R)].addrs[2]} = {Address(ins1), Address(ins2)}
Known(R, ins1, ins2) ==
  \E k \in DOMAIN R : {R[k].addrs[1], R[k].addrs[2]} = {Address(ins1), Address(ins2)}

Suspected(R, i, n, j, m) ==
  Racy(i, n, j, m) /\ ~Known(R, RWIns[i + 1][n].ins, RWIns[j + 1][m].ins)

RaceInfo(i, n, j, m) ==
  [goIDs |-> <<i, j>>, insInd |-> <<n, m>>,
   addrs |-> <<Address(RWIns[i + 1][n].ins), Address(RWIns[j + 1][m].ins)>>]

\* What the last conditions make of two accesses
Verdict(i, n, j, m) ==
  LET r1 == RWIns[i + 1][n]
      r2 == RWIns[j + 1][m]
  IN CASE ~Suspected(races, i, n, j, m) -> "none"
       [] Suspected(races, i, n, j, m) /\ NilBlock(r1, i, r2, j) -> "panic"
       [] OTHER -> IF MutuallyExcluded(r1, i, r2, j) THEN "none" ELSE "race"

Traversed == cs = <<>> /\ status = "run"
OnlyMain == Traversed /\ Len(RWIns) = 1   \* runChecker returns
HBDone == Traversed /\ HB!Built
MorePairs == pair[1] < Len(RWIns) - 1
NextPair == IF pair[2] < Len(RWIns) - 1 THEN <<pair[1], pair[2] + 1>>
                                        ELSE <<pair[1] + 1, pair[1] + 2>>
MoreAccesses == access[1] <= Len(RWIns[pair[1] + 1]) /\ access[2] <= Len(RWIns[pair[2] + 1])
NextAccess == IF access[2] < Len(RWIns[pair[2] + 1]) THEN <<access[1], access[2] + 1>>
                                                    ELSE <<access[1] + 1, 1>>

Traverse == Next /\ ~(cs = <<>> \/ status = "panic") /\ UNCHANGED <<hbAt, hb, raceVars>>

BuildHB == Traversed /\ ~OnlyMain /\ ~HB!Built /\ UNCHANGED <<vars, raceVars>> /\ HB!Next

Checking == HBDone /\ MorePairs /\ checking = "run" /\ UNCHANGED <<vars, hbAt, hb>>

NotParallel ==
  /\ Checking /\ access = <<1, 1>>
  /\ ~CanRunInParallel(pair[1], pair[2])
  /\ pair' = NextPair
  /\ UNCHANGED <<access, races, checking>>

\* One round of the two inner loops
CheckAccess ==
  /\ Checking /\ MoreAccesses
  /\ CanRunInParallel(pair[1], pair[2])
  /\ LET v == Verdict(pair[1], access[1], pair[2], access[2]) IN
       /\ races' = IF v = "race" THEN Append(races, RaceInfo(pair[1], access[1], pair[2], access[2]))
                                 ELSE races
       /\ checking' = IF v = "panic" THEN "panic" ELSE "run"
  /\ access' = NextAccess
  /\ UNCHANGED pair

PairChecked ==
  /\ Checking /\ ~MoreAccesses
  /\ CanRunInParallel(pair[1], pair[2])
  /\ pair' = NextPair
  /\ access' = <<1, 1>>
  /\ UNCHANGED <<races, checking>>

Checked == OnlyMain \/ (HBDone /\ (~MorePairs \/ checking = "panic"))
Stopped == (Checked \/ status = "panic") /\ UNCHANGED allVars

RaceInit ==
  /\ Init
  /\ hbAt = <<0, 1>>
  /\ hb = HB!Empty
  /\ pair = <<0, 1>>
  /\ access = <<1, 1>>
  /\ races = <<>>
  /\ checking = "run"

RaceNext == Traverse \/ BuildHB \/ NotParallel \/ CheckAccess \/ PairChecked \/ Stopped

RaceSpec == RaceInit /\ [][RaceNext]_allVars
-----------------------------------------------------------------------------
\* What is to be reported: recorded accesses of goroutines that can run in
\* parallel, of one address and one of them a write, with no common lock and no
\* path between them in the graph.
IsAccess(i, n) == i \in 0..(Len(RWIns) - 1) /\ n \in DOMAIN RWIns[i + 1]
Candidate(i, n, j, m) ==
  /\ IsAccess(i, n) /\ IsAccess(j, m) /\ i < j
  /\ CanRunInParallel(i, j)
  /\ Racy(i, n, j, m) /\ ~MutuallyExcluded(RWIns[i + 1][n], i, RWIns[j + 1][m], j)

\* strictSliceContains drops a pair of accesses whose addresses are those of a
\* race found before, and nothing else is lost or reported twice: the races
\* are candidates with different addresses, and in the end every candidate has
\* its addresses among theirs.
Addrs(k) == {races[k].addrs[1], races[k].addrs[2]}
RacesExact ==
  /\ \A k \in DOMAIN races :
       LET g == races[k].goIDs
           at == races[k].insInd
       IN Candidate(g[1], at[1], g[2], at[2]) /\ races[k] = RaceInfo(g[1], at[1], g[2], at[2])
  /\ \A k, l \in DOMAIN races : Addrs(k) = Addrs(l) => k = l
  /\ HBDone /\ ~MorePairs /\ checking = "run" =>
       \A i, j \in 0..(Len(RWIns) - 1) :
         \A n \in DOMAIN RWIns[i + 1], m \in DOMAIN RWIns[j + 1] :
           Candidate(i, n, j, m) =>
             \E k \in DOMAIN races :
               Addrs(k) = {Address(RWIns[i + 1][n].ins), Address(RWIns[j + 1][m].ins)}

\* No record of goroutine g after its ath and up to its bth begins a branch.
Straight(g, a, b) == \A k \in (a + 1)..b : IfOf(RWIns[g + 1][k].ins) = <<>>

\* i starts j by a go statement that is recorded once, and executes its nth
\* access only before that, each time in straight-line code, and so does j from
\* its beginning to its mth access.
BeforeSpawn(i, n, j, m) ==
  LET insOf(g, k) == RWIns[g + 1][k].ins IN
  \E q \in DOMAIN RWIns[i + 1] :
    /\ insOf(i, q) = insOf(j, 1)
    /\ \A g \in 0..(j - 1) : \A p \in DOMAIN RWIns[g + 1] : insOf(g, p) = insOf(j, 1) => g = i /\ p = q
    /\ \A p \in DOMAIN RWIns[i + 1] : insOf(i, p) = insOf(i, n) => p < q /\ Straight(i, p, q)
    /\ \A p \in DOMAIN RWIns[j + 1] : insOf(j, p) = insOf(j, m) => Straight(j, 0, p)

\* No race is reported between what a goroutine does before it starts another
\* one and what that one does: the path that buildHB lays through the go
\* statement (goCaller), along what both record, is found by reachable.
SpawnRespected ==
  \A k \in DOMAIN races :
    ~BeforeSpawn(races[k].goIDs[1], races[k].insInd[1], races[k].goIDs[2], races[k].insInd[2])
=============================================================================
