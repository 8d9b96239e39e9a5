----------------------------- MODULE CaseNotes -----------------------------
(***************************************************************************)
(* What visitAllInstructions notes about the select and if statements of   *)
(* one function, for buildHB and the race check: the order in which it     *)
(* visits the blocks (bVisit) and the tables selectCaseBegin, selectDone,  *)
(* ifSuccBegin ...  HBGraph takes these notes as given.                    *)
(*                                                                         *)
(* The traversal does not see statements, only blocks in dominator order   *)
(* and their comments: it counts the blocks "select.body" to tell which    *)
(* case it is in, and takes the last If or Select for the one a block      *)
(* belongs to.                                                             *)
(***************************************************************************)
EXTENDS SSABlocks, TLC

CONSTANTS
  Programs,    \* function bodies, sequences of statements
  Token        \* chanToken: the register of a channel -> its variable, or ""

VARIABLES
  fn,          \* the blocks, bVisit, and the dominators (for the properties)
  at,          \* <<b, i>>: instruction i of the bth block of bVisit, 0 on entry
  st           \* the local variables and the tables

vars == <<fn, at, st>>

NoChan == ""
NoIns == 0
NoReg == "none"       \* the pointer analysis finds no channel for a parameter
IfParts == {<<"if", "then">>, <<"if", "else">>, <<"if", "done">>}

(***************************************************************************)
(* The order of the visit: blocks .done are kept back until a block of     *)
(* another kind of statement, or the end.                                  *)
(***************************************************************************)
KeepBack(bl, order) ==
  LET step(acc, i) ==
        LET b == order[i]
            flush == acc.back # <<>> /\ bl[b].cmt[1] # acc.statement
            out == IF flush THEN acc.out \o acc.back ELSE acc.out
            back == IF flush THEN <<>> ELSE acc.back
        IN IF bl[b].cmt[2] = "done" /\ i < Len(order)
           THEN [out |-> out, back |-> Append(back, b), statement |-> bl[b].cmt[1]]
           ELSE [out |-> Append(out, b), back |-> back, statement |-> acc.statement]
  IN FoldLeft(step, [out |-> <<>>, back |-> <<>>, statement |-> ""], [i \in DOMAIN order |-> i])

\* Mutant: nothing is kept back.
NotKeptBack(bl, order) == order

BVisit(bl, order) == LET end == KeepBack(bl, order) IN end.out \o end.back

FnOf(stmts) ==
  LET bl == Compile(stmts)
      order == DomPreorder(bl)
  IN [blocks |-> bl, bVisit |-> BVisit(bl, order),
      doms |-> [b \in ToSet(order) |-> Doms(bl, b)]]

Locals ==
  [readyChans |-> <<>>, selIns |-> NoIns, blocking |-> TRUE, selCount |-> 0,
   activeCase |-> FALSE, defCase |-> FALSE, selDone |-> FALSE,
   ifIns |-> NoIns, ifEnds |-> {}]
Tables ==
  [RWIns |-> <<>>, selectCaseBegin |-> <<>>, selectCaseEnd |-> <<>>, selectCaseBody |-> <<>>,
   selectDone |-> <<>>, ifSuccBegin |-> <<>>, ifSuccEnd |-> {}, ifFnReturn |-> NoIns,
   commIfSucc |-> {}, selReady |-> <<>>, selUnknown |-> <<>>,
   sent |-> {}, received |-> {}, chanName |-> NoChan]

Init ==
  /\ \E p \in Programs : fn = FnOf(p)
  /\ at = <<1, 0>>
  /\ st = [status |-> "visit"] @@ Locals @@ Tables
-----------------------------------------------------------------------------
More == st.status = "visit" /\ at[1] <= Len(fn.bVisit)
Blk == fn.blocks[fn.bVisit[at[1]]]
First(b) == b.ins[1].n
Final(b) == b.ins[Len(b.ins)].n
NextBlock == <<at[1] + 1, 0>>

Panic(s) == [s EXCEPT !.status = "panic"]
\* readyChans[selCount]
Current(s) == s.readyChans[s.selCount + 1]
InRange(s) == s.selCount < Len(s.readyChans)
Record(s, x) == [s EXCEPT !.RWIns = Append(@, x.n)]

(***************************************************************************)
(* At the beginning of a block.                                            *)
(***************************************************************************)
AtBody == Blk.cmt = <<"select", "body">> /\ InRange(st)
SkipCase ==
  /\ More /\ at[2] = 0
  /\ AtBody /\ Current(st) = NoChan
  /\ at' = NextBlock
  /\ st' = [st EXCEPT !.activeCase = FALSE, !.selDone = FALSE, !.selCount = @ + 1]
  /\ UNCHANGED fn

NoteDone(s, b) ==
  IF b.cmt = <<"select", "done">>
  THEN [s EXCEPT !.selectDone = (First(b) :> s.selIns) @@ @, !.selDone = TRUE] ELSE s

AtNext(s, b) == s.selIns # NoIns /\ b.cmt = <<"select", "next">> /\ ~s.blocking
NoteDefault(s, b) ==
  IF AtNext(s, b) /\ Current(s) = "defaultCase"
  THEN [s EXCEPT !.selectCaseBegin = (First(b) :> "defaultCase") @@ @,
                 !.selectCaseEnd = (Final(b) :> "defaultCase") @@ @,
                 !.defCase = TRUE]
  ELSE s

NoteSucc(s, b) ==
  IF s.ifIns # NoIns /\ b.cmt \in IfParts
  THEN [s EXCEPT !.ifSuccBegin = (First(b) :> s.ifIns) @@ @,
                 !.ifEnds = IF b.succs = <<>> THEN @ \cup {Final(b)} ELSE @]
  ELSE s

EnterBlock ==
  /\ More /\ at[2] = 0
  /\ ~(AtBody /\ Current(st) = NoChan)
  /\ LET s == NoteDone([st EXCEPT !.activeCase = AtBody, !.selDone = FALSE], Blk)
     IN st' = IF AtNext(s, Blk) /\ ~InRange(s) THEN Panic(s)
              ELSE NoteSucc(NoteDefault(s, Blk), Blk)
  /\ at' = <<at[1], 1>>
  /\ UNCHANGED fn
-----------------------------------------------------------------------------
(***************************************************************************)
(* insSelect: the name of the ready channel of each case.  Channels in     *)
(* variables are ready; one that is a parameter is unknown and looked up   *)
(* by the pointer analysis, which leaves chanName alone if it finds none.  *)
(***************************************************************************)
Places(sel) == Len(sel.cases) + (IF sel.blocking THEN 0 ELSE 1)

TokenOf(reg) == IF reg \in DOMAIN Token THEN Token[reg] ELSE NoChan
SetAt(seq, i, x) == [seq EXCEPT ![i] = x]

VarCase(s, x, i, ch) ==
  [s EXCEPT !.readyChans[i] = ch,
            !.received = @ \cup {ch},
            !.selReady[x.n] = IF ch \in ToSet(@) THEN @ ELSE Append(@, ch)]

\* selUnknown is made when the first parameter is met, with a place for every
\* case and for a default case that is still counted.
ParamCase(s, x, i, reg, default) ==
  LET name == IF reg = NoReg THEN s.chanName ELSE reg
      size == Len(x.arg.cases) + default
      unknown == IF x.n \in DOMAIN s.selUnknown THEN s.selUnknown[x.n]
                 ELSE [k \in 1..size |-> NoChan]
      s1 == [s EXCEPT !.chanName = name,
                      !.readyChans[i] = TokenOf(name),
                      !.selReady[x.n] = Append(@, TokenOf(name))]
  IN IF i > Len(unknown) THEN Panic(s1)
     ELSE [s1 EXCEPT !.selUnknown = (x.n :> SetAt(unknown, i, name)) @@ @]

InsSelect(s, x) ==
  LET sel == x.arg
      case(acc, i) ==
        LET c == sel.cases[i]
        IN CASE c.kind = "var" -> [acc EXCEPT !.s = VarCase(@, x, i, c.ch)]
             [] c.kind = "param" -> [acc EXCEPT !.s = ParamCase(@, x, i, c.ch, acc.default)]
             [] c.kind = "timeout" -> [s |-> [acc.s EXCEPT !.readyChans[i] = "timeOut"],
                                       default |-> IF sel.blocking THEN acc.default ELSE acc.default - 1]
             [] OTHER -> acc
      s0 == [s EXCEPT !.readyChans = [i \in 1..Places(sel) |-> NoChan],
                      !.selReady = (x.n :> <<>>) @@ @,
                      !.selCount = 0, !.selIns = x.n, !.blocking = sel.blocking]
      end == FoldLeft(case, [s |-> s0, default |-> IF sel.blocking THEN 0 ELSE 1],
                      [i \in DOMAIN sel.cases |-> i])
  IN IF end.default > 0
     THEN [end.s EXCEPT !.readyChans[Len(end.s.readyChans)] = "defaultCase"]
     ELSE end.s

\* insSend: a send in a branch that a select waits for
InsSend(s, x) ==
  LET awaited == \E sel \in DOMAIN s.selReady : x.arg \in ToSet(s.selReady[sel])
  IN [s EXCEPT !.sent = @ \cup {x.arg},
               !.commIfSucc = IF awaited /\ Blk.cmt \in IfParts THEN @ \cup {First(Blk)} ELSE @]

(***************************************************************************)
(* After each instruction: the case it is in.                              *)
(***************************************************************************)
OnChannel(s) == s.activeCase /\ Current(s) \notin {"defaultCase", "timeOut"}

RecordOnce(s, x) == IF Last(s.RWIns) # x.n THEN Record(s, x) ELSE s
\* Mutants: the beginning and the end are not recorded; the end is missed by one.
BodyUnrecorded(s, x) ==
  LET s1 == IF at[2] = 1
            THEN [s EXCEPT !.selectCaseBegin = (x.n :> Current(s)) @@ @]
            ELSE IF at[2] = Len(Blk.ins)
            THEN [s EXCEPT !.selectCaseEnd = (x.n :> Current(s)) @@ @]
            ELSE s
  IN [s1 EXCEPT !.selectCaseBody = (x.n :> s.selIns) @@ @]
BodyOffByOne(s, x) ==
  LET s1 == IF at[2] = 1
            THEN [RecordOnce(s, x) EXCEPT !.selectCaseBegin = (x.n :> Current(s)) @@ @]
            ELSE IF at[2] = Len(Blk.ins) - 1
            THEN [RecordOnce(s, x) EXCEPT !.selectCaseEnd = (x.n :> Current(s)) @@ @]
            ELSE s
  IN [s1 EXCEPT !.selectCaseBody = (x.n :> s.selIns) @@ @]
NoteBody(s, x) ==
  LET s1 == IF at[2] = 1
            THEN [RecordOnce(s, x) EXCEPT !.selectCaseBegin = (x.n :> Current(s)) @@ @]
            ELSE IF at[2] = Len(Blk.ins)
            THEN [RecordOnce(s, x) EXCEPT !.selectCaseEnd = (x.n :> Current(s)) @@ @]
            ELSE s
  IN [s1 EXCEPT !.selectCaseBody = (x.n :> s.selIns) @@ @]
NoteDefaultBody(s, x) ==
  IF s.defCase THEN [s EXCEPT !.selectCaseBody = (x.n :> s.selIns) @@ @] ELSE s
RecordDone(s, x) ==
  IF s.selDone /\ at[2] = 1 /\ x.n \notin ToSet(s.RWIns) THEN Record(s, x) ELSE s

After(s, x) ==
  IF s.activeCase /\ ~InRange(s) THEN Panic(s)
  ELSE RecordDone(NoteDefaultBody(IF OnChannel(s) THEN NoteBody(s, x) ELSE s, x), x)

Here == Blk.ins[at[2]]
AtOp(ops) == More /\ at[2] \in 1..Len(Blk.ins) /\ Here.op \in ops
Examine(s) == st' = After(s, Here) /\ at' = <<at[1], at[2] + 1>> /\ UNCHANGED fn

Select == AtOp({"select"}) /\ Examine(InsSelect(Record(st, Here), Here))
Send == AtOp({"send"}) /\ Examine(InsSend(Record(st, Here), Here))
Receive == AtOp({"recv"}) /\ Examine([Record(st, Here) EXCEPT !.received = @ \cup {Here.arg}])
\* Mutant: an If in a case does not replace the one of the select.
FirstIf == AtOp({"if"}) /\ Examine([Record(st, Here) EXCEPT !.ifIns = IF @ = NoIns THEN Here.n ELSE @])
If == AtOp({"if"}) /\ Examine([Record(st, Here) EXCEPT !.ifIns = Here.n])
Return ==
  /\ AtOp({"return"})
  /\ Examine([Record(st, Here) EXCEPT !.ifFnReturn = IF Blk.cmt \in IfParts THEN Here.n ELSE @])
\* make(chan) is not recorded.
MakeChan == AtOp({"make"}) /\ Examine(st)
Visit == AtOp({"access", "load", "call", "extract", "binop", "jump", "panic"})
         /\ Examine(Record(st, Here))
-----------------------------------------------------------------------------
\* Mutants: every block counts as a case; none does.
NoCount(s) == s
CountBlock(s) == [s EXCEPT !.selCount = @ + 1]
CountCase(s) == IF OnChannel(s) THEN [s EXCEPT !.selCount = @ + 1] ELSE s
NoteEnds(s) ==
  IF at[1] = Len(fn.bVisit) /\ s.ifEnds # {}
  THEN [s EXCEPT !.ifSuccEnd = @ \cup s.ifEnds] ELSE s

LeaveBlock ==
  /\ More /\ at[2] > Len(Blk.ins)
  /\ st' = IF st.activeCase /\ ~InRange(st) THEN Panic(st) ELSE NoteEnds(CountCase(st))
  /\ at' = NextBlock
  /\ UNCHANGED fn

(***************************************************************************)
(* runChecker, before buildHB: "confirm channel readiness for unknown      *)
(* select cases".  The place i of a case is used as a place in selReady,   *)
(* which has none for some cases.                                          *)
(***************************************************************************)
NotConfirmed(s, ch) ==
  ch # NoChan /\ ch \notin s.sent \cup s.received /\ TokenOf(ch) = NoChan
\* Mutant: the place before it.
WithdrawnNext(s, sel, i) ==
  i - 1 \in DOMAIN s.selUnknown[sel] /\ NotConfirmed(s, s.selUnknown[sel][i - 1])
Withdrawn(s, sel, i) ==
  i \in DOMAIN s.selUnknown[sel] /\ NotConfirmed(s, s.selUnknown[sel][i])
Confirm ==
  /\ st.status = "visit" /\ at[1] > Len(fn.bVisit)
  /\ st' = [st EXCEPT !.status = "done",
              !.selReady = [sel \in DOMAIN st.selReady |->
                 IF sel \notin DOMAIN st.selUnknown THEN st.selReady[sel]
                 ELSE [i \in DOMAIN st.selReady[sel] |->
                         IF Withdrawn(st, sel, i) THEN NoChan ELSE st.selReady[sel][i]]]]
  /\ UNCHANGED <<fn, at>>

Finished == st.status \in {"done", "panic"} /\ UNCHANGED vars

Next ==
  \/ SkipCase \/ EnterBlock \/ LeaveBlock
  \/ Select \/ Send \/ Receive \/ If \/ Return \/ MakeChan \/ Visit
  \/ Confirm \/ Finished

Spec == Init /\ [][Next]_vars
-----------------------------------------------------------------------------
(***************************************************************************)
(* Properties.                                                             *)
(***************************************************************************)
Live == {b \in DOMAIN fn.blocks : fn.blocks[b].ins # <<>>}
Instrs == UNION {ToSet(fn.blocks[b].ins) : b \in Live}
ByNumber(n) == CHOOSE x \in Instrs : x.n = n
BlockOf(n) == CHOOSE b \in Live : \E x \in ToSet(fn.blocks[b].ins) : x.n = n
Selects == {x \in Instrs : x.op = "select"}
Cases == UNION {{<<x.arg.id, i>> : i \in DOMAIN x.arg.cases} : x \in Selects}
SelectOf(id) == CHOOSE x \in Selects : x.arg.id = id
KindOf(c) == SelectOf(c[1]).arg.cases[c[2]].kind
DefaultsOf == {<<x.arg.id, 0>> : x \in {y \in Selects : ~y.arg.blocking}}
\* The block that is entered when case c is chosen, and only then; and the
\* instructions that are executed only when it is.
Dispatch(c) ==
  {b \in Live : LET x == Last(fn.blocks[b].ins)
                IN x.op = "if" /\ x.arg = <<c[1], IF c[2] = 0 THEN Len(SelectOf(c[1]).arg.cases) ELSE c[2]>>}
CaseEntry(c) ==
  {e \in {fn.blocks[b].succs[IF c[2] = 0 THEN 2 ELSE 1] : b \in Dispatch(c)} :
     Cardinality(Preds(fn.blocks, e)) = 1}
InCase(n, c) == CaseEntry(c) \cap fn.doms[BlockOf(n)] # {}
ChanOf(c) ==
  IF c[2] = 0 THEN "defaultCase"
  ELSE LET case == SelectOf(c[1]).arg.cases[c[2]]
       IN IF case.kind = "param" THEN TokenOf(case.ch) ELSE case.ch
Done == st.status = "done"
Position(n) == CHOOSE k \in DOMAIN st.RWIns : st.RWIns[k] = n
Recorded == ToSet(st.RWIns)

\* The type invariant: every block is visited, no instruction is recorded twice,
\* and readyChans is never indexed out of range: selCount stays within the cases
\* of the current select, also at the blocks of the default case.
TypeOK ==
  /\ at[1] \in 1..(Len(fn.bVisit) + 1)
  /\ st.status \in {"visit", "done"}   \* no panic
  /\ ToSet(fn.bVisit) = Live
  /\ Recorded \subseteq {x.n : x \in Instrs}
  /\ Len(st.RWIns) = Cardinality(Recorded)
  /\ DOMAIN st.selReady \subseteq {x.n : x \in Selects}

\* An instruction noted as the beginning or the end of the case of a channel is
\* executed only if that case is chosen.  One that is noted as in the body of a
\* select is executed only if one of its cases is (in a select with a default
\* case, everything after it counts as its body).
OwnCase ==
  /\ \A n \in DOMAIN st.selectCaseBegin :
        \E c \in Cases \cup DefaultsOf : ChanOf(c) = st.selectCaseBegin[n] /\ InCase(n, c)
  /\ \A n \in DOMAIN st.selectCaseEnd :
        \E c \in Cases \cup DefaultsOf : ChanOf(c) = st.selectCaseEnd[n] /\ InCase(n, c)
  /\ \A n \in DOMAIN st.selectCaseBody :
        LET x == ByNumber(st.selectCaseBody[n])
        IN x.arg.blocking => \E c \in Cases : c[1] = x.arg.id /\ InCase(n, c)

\* Every case whose channel is known to be ready, and that has a block, is
\* noted: its beginning, and its end unless it is the same instruction.
CasesNoted ==
  Done => \A c \in Cases : \A e \in CaseEntry(c) :
    KindOf(c) \in {"var", "param"} /\ ChanOf(c) # NoChan =>
      /\ First(fn.blocks[e]) \in DOMAIN st.selectCaseBegin
      /\ Len(fn.blocks[e].ins) > 1 => Final(fn.blocks[e]) \in DOMAIN st.selectCaseEnd

\* A branch of an if, and the block after it, are noted for the If they belong
\* to, also where a select or a loop has dispatched with Ifs of its own.
OwnStatement ==
  \A n \in DOMAIN st.ifSuccBegin : st.ifSuccBegin[n] = fn.blocks[BlockOf(n)].of

\* buildHB looks the notes up for the instructions that are recorded: every
\* noted one is.
NotedRecorded ==
  Done => DOMAIN st.selectCaseBegin \cup DOMAIN st.selectCaseEnd \cup DOMAIN st.selectDone
            \cup DOMAIN st.ifSuccBegin \cup st.ifSuccEnd \subseteq Recorded

\* buildHB needs the cases of a select before the block that follows it, and
\* whatever is always executed first before what follows it.
InOrder ==
  Done =>
    /\ \A n, m \in Recorded :
          BlockOf(n) # BlockOf(m) /\ BlockOf(n) \in fn.doms[BlockOf(m)] =>
            Position(n) < Position(m)
    /\ \A n \in DOMAIN st.selectDone : \A m \in Recorded :
          (\E c \in Cases : c[1] = fn.blocks[BlockOf(n)].of /\ InCase(m, c)) =>
            Position(m) < Position(n)

\* "confirm channel readiness for unknown select cases": a channel in a variable
\* stays ready, also next to a parameter that is not confirmed, if every case
\* before it has a place in selReady.
Placed(x, i) == \A j \in 1..i : x.arg.cases[j].kind \in {"var", "param"}
OnlyUnknownWithdrawn ==
  Done => \A x \in Selects : x.n \in DOMAIN st.selReady =>
    \A i \in DOMAIN x.arg.cases :
       x.arg.cases[i].kind = "var" /\ Placed(x, i) =>
         x.arg.cases[i].ch \in ToSet(st.selReady[x.n])
=============================================================================
