----------------------------- MODULE SSABlocks -----------------------------
(***************************************************************************)
(* The control-flow graph that the traversal is given: how the SSA builder *)
(* (gopta/go/ssa) lays out if, for and select statements in basic blocks,  *)
(* which of these its optimiser merges or deletes, and their order in the  *)
(* dominator tree.  Only TLC uses this module (RECURSIVE).                 *)
(*                                                                         *)
(* A block has a comment, <<statement, part>>, and an instruction a         *)
(* number.  For the properties, a block also names the statement it        *)
(* belongs to, and an If that dispatches on a select its case.             *)
(***************************************************************************)
EXTENDS Integers, Sequences, FiniteSets, SequencesExt

Entry == <<"entry", "">>
Unreachable == <<"unreachable", "">>
Block(cmt, of) == [cmt |-> cmt, of |-> of, ins |-> <<>>, succs |-> <<>>]
NilBlock == Block(<<"nil", "">>, 0)

\* The function under construction: its blocks, the current one, and the
\* number of instructions emitted.
StartBody == [blocks |-> <<Block(Entry, 0)>>, cur |-> 1, n |-> 0]
NewBlock(B, cmt, of) == [B EXCEPT !.blocks = Append(@, Block(cmt, of))]
SetCurrent(B, b) == [B EXCEPT !.cur = b]
Emit(B, op, arg) ==
  [B EXCEPT !.n = @ + 1,
            !.blocks[B.cur].ins = Append(@, [n |-> B.n + 1, op |-> op, arg |-> arg])]
EmitTo(B, op, arg, succs) == [Emit(B, op, arg) EXCEPT !.blocks[B.cur].succs = succs]
EmitJump(B, target) == EmitTo(B, "jump", "", <<target>>)
EmitIf(B, arg, t, f) == EmitTo(B, "if", arg, <<t, f>>)
AfterEnd(B) ==
  LET B1 == NewBlock(B, Unreachable, 0) IN SetCurrent(B1, Len(B1.blocks))

RECURSIVE StmtList(_, _)

\* The number of the If is the statement's name.
IfStmt(B, s) ==
  LET then == Len(B.blocks) + 1
      done == then + 1
      els == IF s.hasElse THEN done + 1 ELSE done
      of == B.n + 1
      B1 == NewBlock(NewBlock(B, <<"if", "then">>, of), <<"if", "done">>, of)
      B2 == EmitIf(IF s.hasElse THEN NewBlock(B1, <<"if", "else">>, of) ELSE B1, <<>>, then, els)
      B3 == EmitJump(StmtList(SetCurrent(B2, then), s.then), done)
      B4 == IF s.hasElse THEN EmitJump(StmtList(SetCurrent(B3, els), s.els), done)
            ELSE B3
  IN SetCurrent(B4, done)

\* for, with or without a condition and a post statement, no break or continue
ForStmt(B, s) ==
  LET body == Len(B.blocks) + 1
      done == body + 1
      loop == IF s.cond THEN done + 1 ELSE body
      B1 == NewBlock(NewBlock(B, <<"for", "body">>, 0), <<"for", "done">>, 0)
      B2 == IF s.cond THEN NewBlock(B1, <<"for", "loop">>, 0) ELSE B1
      B3 == IF s.post # <<>> THEN NewBlock(B2, <<"for", "post">>, 0) ELSE B2
      cont == IF s.post # <<>> THEN Len(B3.blocks) ELSE loop
      B4 == SetCurrent(EmitJump(B3, loop), loop)
      B5 == IF s.cond THEN SetCurrent(EmitIf(B4, <<>>, body, done), body) ELSE B4
      B6 == EmitJump(StmtList(B5, s.body), cont)
      B7 == IF s.post # <<>> THEN EmitJump(StmtList(SetCurrent(B6, cont), s.post), loop)
            ELSE B6
  IN SetCurrent(B7, done)

\* What evaluates the channel of a case: a variable is loaded, time.After is
\* called, a parameter or a register is there.
ChanExpr(B, c) ==
  CASE c.kind = "var" -> Emit(B, "load", c.ch)
    [] c.kind = "timeout" -> Emit(B, "call", "")
    [] OTHER -> B

\* A select of a single case is a plain receive.
SingleCase(B, s) ==
  LET c == s.cases[1]
      done == Len(B.blocks) + 1
      B1 == NewBlock(Emit(ChanExpr(B, c), "recv", c.ch), <<"select", "done">>, s.id)
  IN SetCurrent(EmitJump(StmtList(B1, c.body), done), done)

\* "We dispatch on the (fair) result of Select using a sequential if-else
\* chain"
RECURSIVE Clauses(_, _, _, _)
Clauses(B, s, i, done) ==
  IF i > Len(s.cases) THEN B
  ELSE LET c == s.cases[i]
           body == Len(B.blocks) + 1
           B1 == NewBlock(NewBlock(B, <<"select", "body">>, s.id), <<"select", "next">>, s.id)
           B2 == SetCurrent(EmitIf(Emit(B1, "binop", ""), <<s.id, i>>, body, body + 1), body)
           B3 == IF c.assign THEN Emit(B2, "extract", "") ELSE B2
           B4 == EmitJump(StmtList(B3, c.body), done)
       IN Clauses(SetCurrent(B4, body + 1), s, i + 1, done)

SelectStmt(B, s) ==
  LET blocking == s.default = <<>>
      B1 == FoldLeft(LAMBDA acc, c : ChanExpr(acc, c), B, s.cases)
      B2 == Emit(Emit(B1, "select", [id |-> s.id, cases |-> s.cases, blocking |-> blocking]),
                 "extract", "")
      done == Len(B2.blocks) + 1
      B3 == Clauses(NewBlock(B2, <<"select", "done">>, s.id), s, 1, done)
      B4 == IF blocking THEN EmitJump(AfterEnd(Emit(B3, "panic", "")), done)
            ELSE EmitJump(StmtList(B3, s.default[1]), done)
  IN IF blocking /\ Len(s.cases) = 1 THEN SingleCase(B, s) ELSE SetCurrent(B4, done)

Stmt(B, s) ==
  CASE s.k = "if" -> IfStmt(B, s)
    [] s.k = "for" -> ForStmt(B, s)
    [] s.k = "select" -> SelectStmt(B, s)
    [] s.k = "send" -> Emit(Emit(B, "load", s.ch), "send", s.ch)
    [] s.k = "return" -> AfterEnd(Emit(B, "return", ""))
    [] OTHER -> Emit(B, s.k, "")

StmtList(B, stmts) == FoldLeft(LAMBDA acc, s : Stmt(acc, s), B, stmts)

\* buildFunction: a return at the end, if control gets there
Preds(bl, b) ==
  {<<a, k>> \in (DOMAIN bl) \X (1..2) : k \in DOMAIN bl[a].succs /\ bl[a].succs[k] = b}
BuildFunction(stmts) ==
  LET B == StmtList(StartBody, stmts)
  IN IF B.cur = 1 \/ Preds(B.blocks, B.cur) # {} THEN Emit(B, "return", "").blocks
     ELSE B.blocks
-----------------------------------------------------------------------------
(***************************************************************************)
(* optimizeBlocks                                                          *)
(***************************************************************************)
RECURSIVE ReachAvoiding(_, _, _)
ReachAvoiding(bl, S, avoid) ==
  LET T == S \cup ((UNION {ToSet(bl[b].succs) : b \in S}) \ avoid)
  IN IF T = S THEN S ELSE ReachAvoiding(bl, T, avoid)

DeleteUnreachable(bl) ==
  LET live == ReachAvoiding(bl, {1}, {})
  IN [b \in DOMAIN bl |-> IF b \in live THEN bl[b] ELSE NilBlock]

CanFuse(bl, a) == Len(bl[a].succs) = 1 /\ Cardinality(Preds(bl, bl[a].succs[1])) = 1
FuseBlocks(bl, a) ==
  LET b == bl[a].succs[1]
  IN [bl EXCEPT ![a].ins = Front(@) \o bl[b].ins, ![a].succs = bl[b].succs, ![b] = NilBlock]

CanThread(bl, b) ==
  /\ b # 1
  /\ bl[b].ins # <<>>
  /\ bl[b].ins[1].op = "jump"
  /\ bl[b].succs[1] # b
\* An If whose two successors have become one is replaced by a Jump.
JumpThreading(bl, b) ==
  LET c == bl[b].succs[1]
      redirect(a) ==
        LET succs == [k \in DOMAIN bl[a].succs |-> IF bl[a].succs[k] = b THEN c ELSE bl[a].succs[k]]
        IN IF succs = <<c, c>>
           THEN [bl[a] EXCEPT !.succs = <<c>>, !.ins[Len(bl[a].ins)].op = "jump"]
           ELSE [bl[a] EXCEPT !.succs = succs]
  IN [a \in DOMAIN bl |-> IF a = b THEN NilBlock ELSE redirect(a)]

OptimizeBlock(bl, b) ==
  LET fused == IF CanFuse(bl, b) THEN FuseBlocks(bl, b) ELSE bl
  IN IF CanThread(fused, b) THEN JumpThreading(fused, b) ELSE fused
RECURSIVE OptimizeBlocks(_)
OptimizeBlocks(bl) ==
  LET once == FoldLeft(OptimizeBlock, bl, [b \in DOMAIN bl |-> b])
  IN IF once = bl THEN bl ELSE OptimizeBlocks(once)
-----------------------------------------------------------------------------
(***************************************************************************)
(* DomPreorder: blocks with the same immediate dominator come in the       *)
(* depth-first preorder of the control-flow graph.                         *)
(***************************************************************************)
RECURSIVE Dfs(_, _, _)
Dfs(bl, seen, v) ==
  FoldLeft(LAMBDA acc, w : IF w \in ToSet(acc) THEN acc ELSE Dfs(bl, acc, w),
           Append(seen, v), bl[v].succs)

Doms(bl, w) ==
  {d \in ReachAvoiding(bl, {1}, {}) : d = w \/ w \notin ReachAvoiding(bl, {1} \ {d}, {d})}
Idom(doms, w) ==
  CHOOSE d \in doms[w] \ {w} : doms[w] \ {w} \subseteq doms[d]

RECURSIVE TreeFrom(_, _, _)
TreeFrom(pre, idom, v) ==
  FoldLeft(LAMBDA acc, w : acc \o TreeFrom(pre, idom, w),
           <<v>>, SelectSeq(pre, LAMBDA w : w # 1 /\ idom[w] = v))
DomPreorder(bl) ==
  LET pre == Dfs(bl, <<>>, 1)
      doms == [b \in ToSet(pre) |-> Doms(bl, b)]
      idom == [b \in ToSet(pre) \ {1} |-> Idom(doms, b)]
  IN TreeFrom(pre, idom, 1)

\* A function as the traversal sees it
Compile(stmts) == OptimizeBlocks(DeleteUnreachable(BuildFunction(stmts)))
=============================================================================
