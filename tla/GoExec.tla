------------------------------- MODULE GoExec -------------------------------
(***************************************************************************)
(* What the program under analysis can do: the interleavings of its        *)
(* goroutines, for programs given as the recorded instructions of each     *)
(* goroutine (see HBGraph).  Channels are unbuffered; a Wait returns when  *)
(* no Done of its WaitGroup is ahead of a goroutine.                       *)
(***************************************************************************)
EXTENDS HBGraph

InsOf(tr, n) == tr[n[1] + 1][n[2]]
Later(tr, n) == {m \in NodesOf(tr) : m[1] = n[1] /\ m[2] > n[2]}
First(S) == CHOOSE m \in S : \A k \in S : m[2] <= k[2]
Rank(S, n) == Cardinality({m \in S : m[1] < n[1] \/ (m[1] = n[1] /\ m[2] < n[2])})

\* The go statements of a program and the goroutines they start: the nth
\* record of a statement starts the nth goroutine of that statement, or the nth
\* pair of twins, which stand for the goroutines of a loop.  The
\* instructions of a goroutine begin with records of its go statement.
IsStart(tr, n) == n[1] # 0 /\ InsOf(tr, n).ins = tr[n[1] + 1][1].ins
Starts(tr, ins) == {n \in NodesOf(tr) : n[2] = 1 /\ InsOf(tr, n).ins = ins /\ IsStart(tr, n)}
GoStmts(tr, ins) == {n \in NodesOf(tr) : InsOf(tr, n).ins = ins /\ ~IsStart(tr, n)}
Children(tr, n) ==
  LET ins == InsOf(tr, n).ins
      each == Cardinality(Starts(tr, ins)) \div Cardinality(GoStmts(tr, ins))
  IN {c[1] : c \in {c \in Starts(tr, ins) : Rank(Starts(tr, ins), c) \div each = Rank(GoStmts(tr, ins), n)}}
FirstIndex(tr, g) == Cardinality({n \in NodesOf(tr) : n[1] = g /\ IsStart(tr, n)}) + 1

\* Where control goes from n, which is not a select.
Ahead(tr, n, cmts) == {m \in Later(tr, n) : InsOf(tr, m).cmt \in cmts}
IfTarget(tr, n) == First(Ahead(tr, n, {"if.else", "if.done"}))
JumpTarget(tr, n) == First(Ahead(tr, n, {"if.done", "for.done", "select.done"}))
Finals(tr, n) == {m \in Later(tr, n) : InsOf(tr, m).final}
Succs(tr, n) ==
  LET x == InsOf(tr, n)
      next == n[2] + 1
  IN CASE x.op = "if" /\ InsOf(tr, <<n[1], next>>).cmt = "if.then" -> {next, IfTarget(tr, n)[2]}
       [] x.op = "jump" /\ x.cmt # "entry" -> {JumpTarget(tr, n)[2]}
       [] x.op = "return" /\ x.succEnd /\ ~x.final /\ Finals(tr, n) # {} ->
            {First(Finals(tr, n))[2]}
       [] OTHER -> {next}

(***************************************************************************)
(* Configurations: c[g + 1] is where goroutine g is, 0 before it starts.   *)
(***************************************************************************)
Start(tr) == [n \in DOMAIN tr |-> IF n = 1 THEN 1 ELSE 0]

Enabled(tr, c, ops) ==
  {n \in NodesOf(tr) : c[n[1] + 1] = n[2] /\ InsOf(tr, n).op \in ops}
Goto(c, n, i) == [c EXCEPT ![n[1] + 1] = i]
CaseOf(tr, n, ch) == {m \in Later(tr, n) : InsOf(tr, m).caseOf = ch}

Local(tr, c) ==
  UNION {{Goto(c, n, i) : i \in Succs(tr, n)} :
           n \in Enabled(tr, c, {"read", "write", "load", "done", "if", "jump", "return", "other"})}
Spawned(tr, c) ==
  {[k \in DOMAIN c |-> IF k - 1 \in Children(tr, n) THEN FirstIndex(tr, k - 1)
                       ELSE IF k - 1 = n[1] THEN n[2] + 1 ELSE c[k]] :
      n \in Enabled(tr, c, {"go"})}
Waited(tr, c) ==
  {Goto(c, n, n[2] + 1) :
     n \in {w \in Enabled(tr, c, {"wait"}) :
              \A d \in NodesOf(tr) :
                 InsOf(tr, d).op = "done" /\ InsOf(tr, d).arg = InsOf(tr, w).arg => c[d[1] + 1] > d[2]}}
Rendezvous(tr, c) ==
  UNION {{Goto(Goto(c, s, s[2] + 1), r, r[2] + 1) :
            r \in {r \in Enabled(tr, c, {"recv"}) : InsOf(tr, r).arg = InsOf(tr, s).arg}}
         \cup UNION {{Goto(Goto(c, s, s[2] + 1), r, m[2]) :
                        m \in CaseOf(tr, r, InsOf(tr, s).arg)} : r \in {r \in Enabled(tr, c, {"select"}) : InsOf(tr, r).sel.sends = {}}} :
         s \in Enabled(tr, c, {"send"})}
SentBySelect(tr, c) ==
  UNION {UNION {{Goto(Goto(c, r, r[2] + 1), s, m[2]) : m \in CaseOf(tr, s, InsOf(tr, r).arg)} :
                  s \in {s \in Enabled(tr, c, {"select"}) : InsOf(tr, s).sel.sends # {}}} :
           r \in Enabled(tr, c, {"recv"})}
Default(tr, c) ==
  UNION {{Goto(c, n, m[2]) : m \in CaseOf(tr, n, "defaultCase")} :
           n \in {r \in Enabled(tr, c, {"select"}) :
                    \A s \in Enabled(tr, c, {"send"}) : CaseOf(tr, r, InsOf(tr, s).arg) = {}}}

Steps(tr, c) ==
  Local(tr, c) \cup Spawned(tr, c) \cup Waited(tr, c)
    \cup Rendezvous(tr, c) \cup SentBySelect(tr, c) \cup Default(tr, c)

RECURSIVE Explore(_, _, _)
Explore(tr, seen, frontier) ==
  IF frontier = {} THEN seen
  ELSE LET next == UNION {Steps(tr, c) : c \in frontier}
           all == seen \cup frontier
       IN Explore(tr, all, next \ all)
Configs(tr) == Explore(tr, {}, {Start(tr)})

\* Pairs of accesses of two goroutines that can be made at the same time
Accesses(tr) == {n \in NodesOf(tr) : InsOf(tr, n).op \in {"read", "write"}}
CoEnabled(tr) ==
  UNION {LET en == Enabled(tr, c, {"read", "write"}) IN {p \in en \X en : p[1][1] < p[2][1]} :
           c \in Configs(tr)}

\* Every run ends: no goroutine is left waiting for ever.
Ends(tr) ==
  \A c \in Configs(tr) : Steps(tr, c) = {} =>
     \A n \in DOMAIN tr : c[n] > Len(tr[n])
=============================================================================
