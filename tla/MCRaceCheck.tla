---------------------------- MODULE MCRaceCheck ----------------------------
(***************************************************************************)
(* Programs for RaceCheck, and what their goroutines can really do.        *)
(***************************************************************************)
EXTENDS RaceCheck

Exec == INSTANCE GoExec WITH Traces <- {}, ChannelComm <- TRUE,
                             trace <- HBTrace, at <- hbAt, h <- hb

Fns == {"main", "f", "g"}
Names == [f \in Fns \cup {"Wait", "Done"} |-> f]
LockPos == [l \in {"A", "B"} |-> IF l = "A" THEN 1 ELSE 2]
FieldPos == [l \in {"A", "B", "nil"} |-> CASE l = "A" -> 11 [] l = "B" -> 12 [] OTHER -> 0]
GlobalPos == [l \in {"A", "B", "nil"} |-> 0]
Same == {<<"A", "A">>, <<"B", "B">>}

I(op, arg) == Instr(op, arg, FALSE)
Rd(x) == I("read", x)
Wr(x) == I("write", x)
Ret == I("return", "-")
If == I("if", "-")
Jump == I("jump", "-")
Call1(f) == I("call", f)
Spawn(f) == I("go", f)
Wait == I("wait", "Wait")
DoneWg == I("done", "Done")
Lk(l) == I("lock", l)
Ul(l) == I("unlock", l)
Deferred(kind, x) == I("defer", [kind |-> kind, of |-> x])
RunDef == I("rundefers", "-")
Entry1(s) == <<Block("entry", s \o <<Ret>>)>>
Branch(s, t, u) == <<Block("entry", Append(s, If)), Block("if.then", Append(t, Jump)),
                     Block("if.done", Append(u, Ret))>>
Branches(s, t, e, u) == <<Block("entry", Append(s, If)), Block("if.then", Append(t, Jump)),
                          Block("if.else", Append(e, Jump)), Block("if.done", Append(u, Ret))>>
Early(s, t, u) == <<Block("entry", Append(s, If)), Block("if.then", Append(t, Ret)),
                    Block("if.done", Append(u, Ret))>>
Looping(s, t, u) == <<Block("entry", Append(s, Jump)), Block("for.body", Append(t, Jump)),
                      Block("for.done", Append(u, Ret))>>

Mains ==
  {Entry1(<<Call1("f"), Wr("x")>>),
   Entry1(<<Wr("x"), Spawn("f"), Rd("x")>>),
   Entry1(<<Spawn("f"), Wait, Wr("x")>>),
   Entry1(<<Spawn("f"), Wr("y"), Spawn("g")>>),
   Entry1(<<Spawn("f"), Call1("g"), Wait, Wr("y")>>),
   Entry1(<<Spawn("f"), Spawn("g"), Lk("A"), Wr("x"), Ul("A"), Wait, Rd("y")>>),
   Branch(<<Wr("x"), Spawn("g")>>, <<Spawn("f"), Wr("y")>>, <<>>),
   Branches(<<>>, <<Spawn("f")>>, <<Spawn("g")>>, <<>>),
   Branches(<<>>, <<Spawn("f")>>, <<Wr("x")>>, <<>>),
   Branches(<<Spawn("f")>>, <<Wr("x")>>, <<Rd("y")>>, <<Wait, Wr("x")>>),
   Early(<<Spawn("f")>>, <<Wr("x")>>, <<Wait, Wr("x")>>),
   Early(<<>>, <<Wr("x")>>, <<Spawn("f"), Wr("y")>>),
   Looping(<<Wr("x")>>, <<Spawn("f"), Rd("y")>>, <<Wait>>)}
FBodies ==
  {Entry1(<<Wr("x"), DoneWg>>),
   Entry1(<<Lk("A"), Wr("x"), Ul("A"), DoneWg, Rd("y")>>),
   Entry1(<<Lk("A"), Deferred("unlock", "A"), Deferred("done", "Done"), Rd("x"), RunDef>>),
   Entry1(<<Call1("g"), Wr("y"), DoneWg>>),
   Entry1(<<Spawn("g"), Lk("B"), Wr("x"), Ul("B"), DoneWg>>),
   Entry1(<<Deferred("call", "g"), Wr("y"), RunDef>>),
   Branch(<<>>, <<Wr("x")>>, <<DoneWg, Wr("y")>>),
   Early(<<Wr("y")>>, <<Rd("x"), DoneWg>>, <<Call1("g"), DoneWg>>)}
GBodies ==
  {Entry1(<<Wr("x")>>), Entry1(<<Rd("y"), Wr("x")>>),
   Entry1(<<Lk("A"), Wr("x"), Ul("A"), Rd("y")>>),
   Branches(<<>>, <<Wr("x")>>, <<Wr("y")>>, <<>>)}
RacePrograms ==
  {[x \in Fns |-> CASE x = "main" -> m [] x = "f" -> f [] x = "g" -> g] :
     m \in Mains, f \in FBodies, g \in GBodies}
-----------------------------------------------------------------------------
\* The data races of a program: accesses of a variable by two goroutines, one
\* a write, that can be made at the same time with no lock in common.
InsOf(n) == RWIns[n[1] + 1][n[2]].ins
TrueRaces ==
  {p \in Exec!CoEnabled(HBTrace) :
     LET ins1 == InsOf(p[1])
         ins2 == InsOf(p[2])
     IN /\ Address(ins1) = Address(ins2)
        /\ IsWriteIns(ins1) \/ IsWriteIns(ins2)
        /\ seen[<<p[1][1], ins1>>] \cap seen[<<p[2][1], ins2>>] = {}}

\* Every variable with a data race is reported.
NoRaceMissed ==
  Checked => \A p \in TrueRaces : \E k \in DOMAIN races : races[k].addrs[1] = Address(InsOf(p[1]))

\* Only data races are reported, but for one case: an access in a branch that
\* runs on to the end of its if statement is not ordered before a later Done,
\* and so not before what follows the Wait.
RunsOn(n) == LastOf(BlockOf(InsOf(n))).op = "jump"
HasWaited(n) == \E k \in 1..n[2] : InstrAt(InsOf(<<n[1], k>>)).op = "wait"
NoFalseRace ==
  Checked => \A k \in DOMAIN races :
     LET n == <<races[k].goIDs[1], races[k].insInd[1]>>
         m == <<races[k].goIDs[2], races[k].insInd[2]>>
     IN <<n, m>> \in TrueRaces \/ (HasWaited(n) /\ RunsOn(m))

\* "protected by the same set of locks": accesses that lockSetsIntersect takes
\* for protected have a lock in common.
SameLock ==
  \A ins1, ins2 \in DOMAIN lockMap : LockSetsIntersect(ins1, ins2) =>
     \E l \in LocksAt(ins1) \ {NoLock}, m \in LocksAt(ins2) \ {NoLock} : <<l, m>> \in SameAddr
=============================================================================
