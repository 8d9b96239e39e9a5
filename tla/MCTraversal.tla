---------------------------- MODULE MCTraversal ----------------------------
(***************************************************************************)
(* Programs for Traversal.  Functions: main, f, g, h; lib is a library     *)
(* function that calls g, fmt one in an excluded package that does.        *)
(***************************************************************************)
EXTENDS Traversal

Fns == {"main", "f", "g", "h", "lib", "fmt"}
Names == [f \in Fns \cup {"Wait", "Done"} |-> f]

I(op, arg) == Instr(op, arg, FALSE)
Acc == I("read", "x")
Wr == I("write", "x")
Ret == I("return", "-")
Call1(f) == I("call", f)
Call2(f) == Instr("call", f, TRUE)
Spawn(f) == I("go", f)
Deferred(kind, x) == I("defer", [kind |-> kind, of |-> x])
Entry1(s) == <<Block("entry", s \o <<Ret>>)>>
Looping(s, t) == <<Block("entry", Append(s, I("other", "-"))), Block("for.body", t),
                   Block("for.done", <<Ret>>)>>

LibBody == Entry1(<<Call1("g")>>)
Program(m, f, g, h) ==
  [x \in Fns |-> CASE x = "main" -> m [] x = "f" -> f [] x = "g" -> g
                   [] x = "h" -> h [] OTHER -> LibBody]

-----------------------------------------------------------------------------
\* Calls, spawns, recursion, loops and library functions.
MainMenu == {Spawn("f"), Spawn("g"), Call1("f"), Call2("g"), Call1("lib"), Acc}
FMenu == {Spawn("g"), Spawn("f"), Call1("g"), Call2("f"), Spawn(NoFn), Call1("fmt"), I("store", "g")}
GMenu == {<<Wr>>, <<Spawn("f")>>, <<Call1("f"), Acc>>}
SpawnPrograms ==
  {Program(m, Entry1(f), Entry1(g), Entry1(<<>>)) :
     m \in {Entry1(<<a, b, Spawn("f")>>) : a \in MainMenu, b \in MainMenu}
       \cup {Looping(<<a>>, <<b>>) : a \in MainMenu, b \in {Spawn("f"), Call1("g")}},
     f \in {<<a>> : a \in FMenu} \cup {<<Spawn("g"), Call1("g")>>, <<Call1("g"), Spawn("f")>>},
     g \in GMenu}

-----------------------------------------------------------------------------
\* Locks A and B are globals.
LockPos == [l \in {"A", "B"} |-> IF l = "A" THEN 1 ELSE 2]
Lk(l) == I("lock", l)
Ul(l) == I("unlock", l)
RunDef == I("rundefers", "-")

\* What a function that calls c does with its locks.
Bodies(c) ==
  {Entry1(<<Lk("A"), Acc, Ul("A"), Acc>>),
   Entry1(<<Lk("A"), Deferred("unlock", "A"), Acc, RunDef>>),
   Entry1(<<Lk("A"), Lk("B"), Ul("A"), Wr, Ul("B"), Wr>>),
   <<Block("entry", <<Lk("A"), I("other", "-")>>), Block("if.then", <<Ul("A"), Acc, Ret>>),
     Block("if.done", <<Acc, Ul("A"), Acc, Ret>>)>>,
   <<Block("entry", <<Deferred("unlock", "A"), Lk("A"), I("other", "-")>>),
     Block("for.body", <<Acc, I("other", "-")>>)>>,
   Entry1(<<I("changetype", c), Acc>>),
   Entry1(<<Lk("A"), Deferred("call", c), Deferred("done", "Done"), Acc, RunDef>>),
   Entry1(<<I("rlock", "B"), Lk("A"), Call2(c), I("runlock", "B"), Ul("A"), Acc>>),
   Entry1(<<I("rlock", "B"), Deferred("runlock", "B"), Lk("A"), Call1(c), Acc, RunDef>>)}
Helpers ==
  {Entry1(<<Wr>>), Entry1(<<Lk("B"), Acc>>), Entry1(<<Ul("A"), Acc>>),
   Entry1(<<Lk("B"), Deferred("unlock", "B"), Acc, RunDef>>)}

\* main spawns f before its own code; f calls g, main calls h.
Spawning(blocks, gos) == [blocks EXCEPT ![1].instrs = gos \o @]
LockPrograms ==
  {Program(Spawning(m, <<Spawn("f")>>), f, g, h) :
     m \in Bodies("h"), f \in Bodies("g"), g \in Helpers, h \in Helpers}

-----------------------------------------------------------------------------
Both == SpawnPrograms \cup LockPrograms

\* Single programs: three goroutines with the same function, ...
ThreeSpawns ==
  {Program(Entry1(<<Spawn("f"), Spawn("f"), Spawn("f")>>), Entry1(<<Acc>>),
           Entry1(<<>>), Entry1(<<>>))}
\* ... and a function that defers two unlocks, called before an access.
TwoDeferredUnlocks ==
  {Program(Entry1(<<Spawn("g"), Call1("f"), Acc>>),
           Entry1(<<Lk("A"), Deferred("unlock", "A"), Lk("B"), Deferred("unlock", "B"),
                    Acc, RunDef>>), Entry1(<<Acc>>), Entry1(<<>>))}
=============================================================================
