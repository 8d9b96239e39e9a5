----------------------------- MODULE MCHBGraph -----------------------------
(***************************************************************************)
(* Programs for HBGraph: main and up to two more goroutines, with an       *)
(* access before and after every operation.                                *)
(***************************************************************************)
EXTENDS GoExec

At1(g, i, op, arg) == Instr(<<g, i>>, op, arg)
Wr(g, i) == At1(g, i, "write", "x")
Jump(g, i) == At1(g, i, "jump", "-")
GoStmt(w) == Instr(<<-1, w>>, "go", "-")

\* Parts of a goroutine g, from its ith instruction on
Succ(x, cmt, ifOf, blk) == [x EXCEPT !.cmt = cmt, !.ifOf = ifOf, !.blk = blk]
IfPart(g, i, els) ==
  LET if == <<g, i>>
      branch(cmt, k) == <<Succ(Wr(g, k), cmt, if, <<g, k>>),
                          Succ(Jump(g, k + 1), cmt, NoIns, <<g, k>>)>>
      k == IF els THEN i + 5 ELSE i + 3
  IN <<At1(g, i, "if", "-")>> \o branch("if.then", i + 1)
     \o (IF els THEN branch("if.else", i + 3) ELSE <<>>)
     \o <<Succ(Wr(g, k), "if.done", if, <<g, k>>)>>

\* A call of a function that returns in a branch and at its end
CallPart(g, i) ==
  LET if == <<g, i + 1>>
      ret(k, fin) == [At1(g, k, "return", "-") EXCEPT !.succEnd = TRUE, !.final = fin]
  IN <<At1(g, i, "other", "-"), At1(g, i + 1, "if", "-"),
       Succ(Wr(g, i + 2), "if.then", if, <<g, i + 2>>),
       [ret(i + 3, FALSE) EXCEPT !.blk = <<g, i + 2>>],
       Succ(Wr(g, i + 4), "if.done", if, <<g, i + 4>>), ret(i + 5, TRUE)>>

\* A select on the channels chs, with a default case or without.  Its cases are
\* dispatched by Ifs; without a default case, "matched no case" is the last one.
CasePart(g, i, ch) ==
  <<[Wr(g, i) EXCEPT !.caseOf = ch, !.cmt = "select.body"],
    [Jump(g, i + 1) EXCEPT !.caseEnd = ch, !.cmt = "select.body"]>>
Dispatch(g, i) == [At1(g, i, "if", "-") EXCEPT !.cmt = "select.next"]
NoCase(g, i) == [At1(g, i, "other", "-") EXCEPT !.cmt = "select.next"]
AfterSelect(g, i) == [Wr(g, i) EXCEPT !.selDone = TRUE, !.cmt = "select.done"]
SelectPart(g, i, chs, default) ==
  LET n == Len(chs)
      loads == [k \in 1..n |-> At1(g, i + k - 1, "load", chs[k])]
      sel == [At1(g, i + n, "select", "-") EXCEPT !.sel.ready = chs]
      s1 == loads \o <<sel, Dispatch(g, i + n + 1)>>
      s2 == s1 \o CasePart(g, i + Len(s1), chs[1])
      s3 == IF n = 1 THEN s2
            ELSE s2 \o <<Dispatch(g, i + Len(s2))>> \o CasePart(g, i + Len(s2) + 1, chs[2])
      s4 == s3 \o (IF default THEN CasePart(g, i + Len(s3), "defaultCase")
                   ELSE <<NoCase(g, i + Len(s3))>>)
  IN Append(s4, AfterSelect(g, i + Len(s4)))

\* A select that sends on a and b, which are parameters; a worker that receives
SelectSendPart(g, i) ==
  <<[At1(g, i, "select", "-") EXCEPT
       !.sel = [ready |-> <<"a", "b">>, sends |-> {1, 2}, unknown |-> TRUE]],
    Dispatch(g, i + 1)>>
  \o CasePart(g, i + 2, "a") \o <<Dispatch(g, i + 4)>> \o CasePart(g, i + 5, "b")
  \o <<NoCase(g, i + 7), AfterSelect(g, i + 8)>>
Receiver(g, ch) == <<GoStmt(g), GoStmt(g), At1(g, 3, "recv", ch), Wr(g, 4)>>

\* A branch that sends on a channel, and the other one
SendPart(g, i, ch) ==
  LET if == <<g, i>>
      begin == [Succ(At1(g, i + 1, "send", ch), "if.then", if, <<g, i + 1>>) EXCEPT !.comm = TRUE]
  IN <<At1(g, i, "if", "-"), begin, Succ(Jump(g, i + 2), "if.then", NoIns, <<g, i + 1>>),
       Succ(Wr(g, i + 3), "if.else", if, <<g, i + 3>>),
       Succ(Jump(g, i + 4), "if.else", NoIns, <<g, i + 3>>),
       Succ(Wr(g, i + 5), "if.done", if, <<g, i + 5>>)>>

Part(p, g, i) ==
  CASE p[1] = "go" -> <<GoStmt(p[2])>>
    [] p[1] = "loop" -> <<GoStmt(p[2]), GoStmt(p[2])>>
    [] p[1] = "if" -> IfPart(g, i, FALSE)
    [] p[1] = "ifelse" -> IfPart(g, i, TRUE)
    [] p[1] = "call" -> CallPart(g, i)
    [] p[1] = "ifsend" -> SendPart(g, i, p[2])
    [] p[1] = "select" -> SelectPart(g, i, p[2], FALSE)
    [] p[1] = "default" -> SelectPart(g, i, p[2], TRUE)
    [] OTHER -> <<At1(g, i, p[1], p[2])>>

RECURSIVE Parts(_, _, _)
Parts(ps, g, sofar) ==
  IF ps = <<>> THEN sofar
  ELSE LET s == sofar \o Part(Head(ps), g, Len(sofar) + 1)
       IN Parts(Tail(ps), g, Append(s, Wr(g, Len(s) + 1)))

Main(ps) == Parts(ps, 0, <<Wr(0, 1)>>)
Worker(g, w, ps) == Parts(ps, g, <<GoStmt(w), GoStmt(w), Wr(g, 3)>>)
-----------------------------------------------------------------------------
P(op, x) == <<op, x>>
Uses(prog, op, x) ==
  {<<n, k>> \in (DOMAIN prog) \X (1..4) :
     /\ k \in DOMAIN prog[n]
     /\ \/ prog[n][k] = P(op, x)
        \/ op = "send" /\ prog[n][k] = P("ifsend", x)
        \/ op = "recv" /\ prog[n][k][1] \in {"select", "default"}
                       /\ x \in RangeOf(prog[n][k][2])}

\* At most one statement with blocks in a function (CaseNotes shows why: the
\* blocks of two are not recorded in their order).
Blocks == {"if", "ifelse", "ifsend", "select", "default"}
OneStatement(part) == Cardinality({k \in DOMAIN part : part[k][1] \in Blocks}) <= 1

\* One send and one receive of a channel, in different goroutines; Waits only
\* in goroutines with smaller IDs than those that call Done
WellFormed(prog) ==
  /\ \A n \in DOMAIN prog : OneStatement(prog[n])
  /\ \A ch \in {"a", "b"} :
        LET snd == Uses(prog, "send", ch)
            rcv == Uses(prog, "recv", ch)
        IN /\ Cardinality(snd) = Cardinality(rcv) /\ Cardinality(snd) <= 1
           /\ \A s \in snd, r \in rcv : s[1] # r[1]
           /\ ch = "b" /\ snd # {} => Uses(prog, "send", "a") # {}
  /\ LET done == Uses(prog, "done", "wg")
         wait == Uses(prog, "wait", "wg")
     IN (done = {} <=> wait = {}) /\ \A d \in done, w \in wait : w[1] < d[1]
TraceOf(prog) ==
  LET twins == prog[1][1] = P("loop", 1) IN
  [n \in DOMAIN prog |-> IF n = 1 THEN Main(prog[1])
                         ELSE Worker(n - 1, IF twins THEN 1 ELSE n - 1, prog[n])]

\* Channel b is only used by programs that use a.
SyncOps == {P("send", "a"), P("recv", "a"), P("send", "b"), P("recv", "b"),
            P("wait", "wg"), P("done", "wg")}
Branches == {P("if", 0), P("ifelse", 0), P("call", 0)}
Selects == {P("select", <<"a", "b">>), P("default", <<"a", "b">>)}
Ops == SyncOps \cup Branches
Seqs(S, n) == UNION {[1..k -> S] : k \in 0..n}
Go1 == P("go", 1)
Go2 == P("go", 2)
OneWorker == {<<<<Go1>> \o m, w>> : m \in Seqs(SyncOps \cup {P("if", 0)}, 2), w \in Seqs(Ops, 2)}
TwoWorkers == {<<<<Go1, Go2>> \o m, w1, w2>> :
                 m \in Seqs(SyncOps, 2) \cup Seqs(Selects \cup Branches, 1),
                 w1 \in Seqs(Ops, 1), w2 \in Seqs(Ops, 1)}
\* A branch communicates with a select; a go statement in a loop.
Awaited == {<<<<Go1, Go2, s>>, <<P("ifsend", "a")>>, <<P("send", "b")>>>> : s \in Selects}
Looped == {<<<<P("loop", 1)>> \o m, w, w>> : m \in Seqs({P("wait", "wg")}, 1), w \in Seqs(Ops, 1)}
Nested == {<<<<Go1>> \o m, <<Go2>> \o w1, w2>> :
                 m \in Seqs(Ops \cup Selects, 1), w1 \in Seqs(Ops, 1), w2 \in Seqs(Ops, 1)}
SendingSelect ==
  <<<<Wr(0, 1), GoStmt(1), GoStmt(2), Wr(0, 4)>> \o SelectSendPart(0, 5),
    Receiver(1, "a"), Receiver(2, "b")>>
SyncTraces == {SendingSelect} \cup
  {TraceOf(p) : p \in {q \in OneWorker \cup TwoWorkers \cup Nested \cup Awaited \cup Looped : WellFormed(q)}}
-----------------------------------------------------------------------------
RECURSIVE ReachedFrom(_, _)
ReachedFrom(E, S) ==
  LET T == S \cup {e[2] : e \in {e \in E : e[1] \in S}}
  IN IF T = S THEN S ELSE ReachedFrom(E, T)

NodeFor(n) == h.RWinsMap[<<InsOf(trace, n).ins, n[1]>>]
Ordered(n, m) == NodeFor(m) \in ReachedFrom(h.edges, {NodeFor(n)})

\* The graph orders no two accesses that the program can make at the same
\* time: such a race would not be reported.
SoundOrder ==
  Built => \A p \in CoEnabled(trace) : ~Ordered(p[1], p[2]) /\ ~Ordered(p[2], p[1])

\* Two accesses that cannot be made at the same time are ordered, unless one
\* is in a branch that control leaves by a jump (what follows an if statement
\* is linked to the If only), or in a case of a select.
InBranch(n) ==
  LET x == InsOf(trace, n)
      y == InsOf(trace, <<n[1], n[2] + 1>>)
  IN x.op # "jump" /\ n[2] < Len(trace[n[1] + 1]) /\ y.op = "jump"
HasSelect == \E x \in AllIns : x.op = "select"
NoOrderLost ==
  Built /\ ~HasSelect /\ Ends(trace) =>
    LET co == CoEnabled(trace)
        acc == {n \in Accesses(trace) : ~InBranch(n)}
    IN \A n, m \in acc : n[1] < m[1] /\ <<n, m>> \notin co => Ordered(n, m) \/ Ordered(m, n)
=============================================================================
