----------------------------- MODULE Traversal -----------------------------
(***************************************************************************)
(* The traversal of the program under analysis (gorace: analysisTools.go   *)
(* and insCall, insGo of ssaInstructions.go).  Starting at the entry       *)
(* function, it walks through every function it has not seen often enough  *)
(* in the current context, records the instructions of each goroutine in   *)
(* RWIns with the call stack, keeps the active locksets, and puts spawned  *)
(* goroutines on a worklist that is drained once the call stack storeFns   *)
(* is empty.                                                               *)
(*                                                                         *)
(* The Go functions visitAllInstructions, traverseFn, visitGo and          *)
(* newGoroutine call each other; cs is the stack of their activations.     *)
(***************************************************************************)
EXTENDS LockSet, FiniteSets, TLC

CONSTANTS
  Programs,     \* programs under analysis: function -> sequence of blocks,
                \* in the order they are visited
  Entry,        \* the entry function
  NameOf,       \* NameOf[f]: f's name; other functions may have Entry's name
  LibFns,       \* functions that are not from packages of interest
  ExcludedPkg,  \* those of them that are in excluded packages
  ExcludedFns,  \* excluded functions
  NoFn,         \* the callee of a go statement that is not statically known
  TrieLimit,    \* trieLimit
  Efficiency    \* a.efficiency

VARIABLES
  prog,         \* the program under analysis
  cs,           \* activations of visitAllInstructions, the current one last
  status,       \* "run", or "panic" after an index out of range or nil
  storeFns,     \* a.storeFns, top last
  workList,     \* a.workList
  goStack, goCaller, goCalls, loopIDs, twinGoID,  \* goroutines, by goID
  RWIns,        \* RWIns[g + 1]: the instructions of goroutine g
  trieMap,      \* a.trieMap: how often a function was met in a context
  insMono,      \* a.insMono
  inLoop,       \* a.inLoop
  locks,        \* a.lockSet and a.RlockSet
  lockMap, RlockMap,
  held,         \* history: the locks the program itself holds
  seen          \* history: those it held at each access of each goroutine

goVars == <<workList, goStack, goCaller, loopIDs, twinGoID, insMono>>
vars == <<prog, cs, status, storeFns, goVars, goCalls, RWIns, trieMap, inLoop,
          locks, lockMap, RlockMap, held, seen>>
-----------------------------------------------------------------------------
(***************************************************************************)
(* Programs.  arg is the lock, the callee, or what is deferred; reads says *)
(* that an argument of a call reads shared memory (isReadIns).             *)
(***************************************************************************)
Block(comment, instrs) == [comment |-> comment, instrs |-> instrs]
Instr(op, arg, reads) == [op |-> op, arg |-> arg, reads |-> reads]

\* A call of a function with a body; a store or a conversion of a function.
Traversing == {"call", "store", "changetype"}

(***************************************************************************)
(* The programs the traversal is made for.  Every function has a block,    *)
(* and every block an instruction.  The entry function is of interest, and *)
(* nobody calls it.  A go statement of a known function spawns one of      *)
(* interest: a library function is visited without being pushed, and       *)
(* visitAllInstructions then looks for the top of an empty call stack.     *)
(* Names tell the entry function from all others and library functions     *)
(* from those of interest, as the code compares functions by their names.  *)
(***************************************************************************)
Callable(p) == DOMAIN p \ {Entry}
InstrPlain(p, i) ==
  /\ i.op \in Traversing => i.arg \in Callable(p)
  /\ i.op = "go" /\ i.arg # NoFn => i.arg \in Callable(p) \ LibFns
  /\ i.op = "defer" => (i.arg.kind = "call" => i.arg.of \in Callable(p))
PlainProgram(p) ==
  /\ Entry \in DOMAIN p \ LibFns
  /\ \A f \in DOMAIN p :
       /\ Len(p[f]) \in Nat \ {0} /\ DOMAIN p[f] = 1..Len(p[f])
       /\ \A b \in DOMAIN p[f] :
            LET instrs == p[f][b].instrs
            IN /\ Len(instrs) \in Nat \ {0} /\ DOMAIN instrs = 1..Len(instrs)
               /\ \A i \in DOMAIN instrs : InstrPlain(p, instrs[i])
  /\ \A f \in Callable(p) : NameOf[f] # NameOf[Entry]
  /\ \A f \in DOMAIN p \cap LibFns : \A h \in DOMAIN p \ LibFns : NameOf[f] # NameOf[h]
ASSUME ProgramsAssumption ==
  /\ \A p \in Programs : PlainProgram(p)
  /\ ExcludedPkg \subseteq LibFns

NoIns == <<"none", 0, 0>>
InstrAt(ins) == prog[ins[1]][ins[2]].instrs[ins[3]]

\* Maps with a default, as Go's
Get(m, x, default) == IF x \in DOMAIN m THEN m[x] ELSE default
Put(m, x, v) == [y \in DOMAIN m \cup {x} |-> IF y = x THEN v ELSE m[y]]

(***************************************************************************)
(* Activations of visitAllInstructions, with its local variables.  at says *)
(* what comes next: "enter", "instr", "defers" (in the loop of rundefers), *)
(* "back" (in insCall, after traverseFn), "final" (after the last block)   *)
(* or "visit" (in visitGo).  skipped is a history variable: what the       *)
(* current branch of an if statement has unlocked.                         *)
(***************************************************************************)
Activation(f, g) ==
  [fn |-> f, goID |-> g, b |-> 1, i |-> 1, at |-> "enter", size |-> 0,
   toDefer |-> <<>>, run |-> <<>>, toUnlock |-> <<>>, toRUnlock |-> <<>>,
   skipped |-> <<>>]

top == cs[Len(cs)]
rest == SubSeq(cs, 1, Len(cs) - 1)
Ins(fr) == <<fr.fn, fr.b, fr.i>>
Code(fr) == InstrAt(Ins(fr))
Caller(g) == Get(goCaller, g, 0)

(***************************************************************************)
(* History: the program's own view of its locks, a bag for each goroutine. *)
(* At the end of a block if.then or if.else the path around it is          *)
(* followed, on which what was unlocked in the block is still held, as in  *)
(* the code's thaw.  A Lock in a branch is not undone.  So the history is  *)
(* the program's own only if branches are single blocks that lock nothing  *)
(* and not both branches of an if unlock, as in the programs of the runs.  *)
(***************************************************************************)
Count(H, g, l) == Get(Get(H, g, <<>>), l, 0)
SetCount(H, g, l, n) == Put(H, g, Put(Get(H, g, <<>>), l, n))
Acquire(H, g, l) == SetCount(H, g, l, Count(H, g, l) + 1)
Release(H, g, l) == IF Count(H, g, l) = 0 THEN H ELSE SetCount(H, g, l, Count(H, g, l) - 1)
HeldBy(g) == {l \in Locks : Count(held, g, l) > 0}
Saw(g, ins) ==
  seen' = Put(seen, <<g, ins>>, Get(seen, <<g, ins>>, Locks) \cap HeldBy(g))
-----------------------------------------------------------------------------
\* recordIns: the instruction with a copy of the call stack
Record(R, g, ins, stack) ==
  [R EXCEPT ![g + 1] = Append(@, [ins |-> ins, stack |-> stack])]

\* updateLockMap and updateRLockMap
UpdateLockMap(g, ins) == lockMap' = Put(lockMap, ins, Snapshot(locks, "W", g))
UpdateRLockMap(g, ins) == RlockMap' = Put(RlockMap, ins, Snapshot(locks, "R", g))

IsLoopBody(comment) == comment \in {"for.body", "rangeindex.body", "rangeiter.body"}

\* The end of an instruction: at the end of a block unlocked locks thaw, and
\* the next block may be a loop body.  rangeiter.body leaves inLoop set.
AfterInstr(fr, L, H) ==
  LET blocks == prog[fr.fn]
      last == fr.i = Len(blocks[fr.b].instrs)
      next == [fr EXCEPT !.b = IF last THEN @ + 1 ELSE @,
                         !.i = IF last THEN 1 ELSE @ + 1,
                         !.at = IF last /\ fr.b = Len(blocks) THEN "final" ELSE "instr",
                         !.toUnlock = IF last THEN <<>> ELSE @,
                         !.toRUnlock = IF last /\ fr.toUnlock = <<>> THEN <<>> ELSE @,
                         !.skipped = IF last THEN <<>> ELSE @]
      resume(M, l) == Acquire(M, fr.goID, l)
  IN /\ held' = IF last THEN ForEach(resume, H, fr.skipped) ELSE H
     /\ locks' = IF ~last THEN L
                 ELSE IF fr.toUnlock # <<>> THEN Thaw(L, "W", fr.toUnlock, fr.goID)
                 ELSE Thaw(L, "R", fr.toRUnlock, fr.goID)
     /\ cs' = Append(rest, next)
     /\ inLoop' = IF ~last THEN inLoop
                  ELSE \/ fr.b < Len(blocks) /\ IsLoopBody(blocks[fr.b + 1].comment)
                       \/ inLoop /\ blocks[fr.b].comment \notin {"for.body", "rangeindex.body"}
-----------------------------------------------------------------------------
(***************************************************************************)
(* exploredFunction                                                        *)
(***************************************************************************)
\* insToCallStack: the callees of recorded calls without a recorded return.
\* WaitGroup operations are calls, too.
CallStack(recs) ==
  LET step(stack, r) ==
        CASE InstrAt(r.ins).op \in {"call", "wait", "done"} ->
               Append(stack, InstrAt(r.ins).arg)
          [] InstrAt(r.ins).op = "return" /\ stack # <<>> ->
               SubSeq(stack, 1, Len(stack) - 1)
          [] OTHER -> stack
  IN ForEach(step, <<>>, recs)

\* The context is the concatenation of the names on the call stack; the names
\* of an instance are such that it determines the sequence of the names.
ContextStr(stack) == [n \in DOMAIN stack |-> NameOf[stack[n]]]

\* sliceContainsInsInfoAt: recorded as a call, not as the read of a parameter
CallRecorded(recs, ins) ==
  \E n \in DOMAIN recs : /\ recs[n].ins = ins
                         /\ recs[n].stack # <<>>
                         /\ recs[n].stack[Len(recs[n].stack)].ins = ins

Explored(R, f, g, ins) ==
  LET stack == CallStack(R[g + 1]) IN
  \/ f \in ExcludedFns
  \/ CallRecorded(R[g + 1], ins)
  \/ Efficiency /\ \E n \in DOMAIN storeFns : storeFns[n] = [fn |-> f, ins |-> ins]
  \/ Cardinality({n \in DOMAIN stack : stack[n] = f}) > TrieLimit

\* sliceContainsFnCall reads the position of the instruction that called the
\* entry function, which is nil.
NilPos(R, f, g, ins) ==
  /\ Efficiency
  /\ f \notin ExcludedFns /\ ~CallRecorded(R[g + 1], ins)
  /\ storeFns # <<>> /\ storeFns[1] = [fn |-> f, ins |-> NoIns]

\* visitLibFnInstructions visits a library function once for every call of
\* interest in it.
CallsOfInterest(f) ==
  Cardinality({p \in UNION {{b} \X DOMAIN prog[f][b].instrs : b \in DOMAIN prog[f]} :
                 LET i == prog[f][p[1]].instrs[p[2]]
                 IN i.op = "call" /\ i.arg \notin LibFns})

(***************************************************************************)
(* traverseFn(f, g, ins), called from an activation that leaves the stack  *)
(* as frames and the recorded instructions as R.                           *)
(***************************************************************************)
TraverseFn(R, f, g, ins, frames) ==
  LET key == <<f, ContextStr(CallStack(R[g + 1]))>>
      budget == Get(trieMap, key, 0) + 1
      pushed == Append(storeFns, [fn |-> f, ins |-> ins])
  IN IF NilPos(R, f, g, ins)
     THEN /\ status' = "panic"
          /\ UNCHANGED <<cs, storeFns, RWIns, trieMap>>
     ELSE
       /\ status' = status
       /\ trieMap' = IF Explored(R, f, g, ins) THEN trieMap ELSE Put(trieMap, key, budget)
       /\ IF Explored(R, f, g, ins) \/ budget > TrieLimit
          THEN /\ cs' = frames
               /\ RWIns' = R
               /\ UNCHANGED storeFns
          ELSE IF f \in LibFns
          THEN /\ cs' = frames \o [n \in 1..CallsOfInterest(f) |-> Activation(f, g)]
               /\ RWIns' = R
               /\ UNCHANGED storeFns
          ELSE /\ cs' = Append(frames, Activation(f, g))
               /\ RWIns' = Record(R, g, ins, pushed)
               /\ storeFns' = pushed
-----------------------------------------------------------------------------
Init ==
  /\ prog \in Programs
  /\ cs = <<Activation(Entry, 0)>>
  /\ status = "run"
  /\ storeFns = <<[fn |-> Entry, ins |-> NoIns]>>
  /\ workList = <<>>
  /\ goStack = <<>>
  /\ goCaller = <<>>
  /\ goCalls = <<>>
  /\ loopIDs = <<>>
  /\ twinGoID = <<>>
  /\ RWIns = <<>>
  /\ trieMap = Put(<<>>, <<Entry, <<>>>>, 1)
  /\ insMono = -1
  /\ inLoop = FALSE
  /\ locks = NoLocks
  /\ lockMap = <<>>
  /\ RlockMap = <<>>
  /\ held = <<>>
  /\ seen = <<>>

At(where) == status = "run" /\ cs # <<>> /\ top.at = where
AtOp(ops) == At("instr") /\ Code(top).op \in ops

\* Start of visitAllInstructions, for a function with some blocks
Start(f) ==
  /\ cs' = Append(rest, [top EXCEPT !.at = "instr", !.size = Size(locks, "W", top.goID)])
  /\ inLoop' = (inLoop \/ IsLoopBody(prog[f][1].comment))

EnterFirst ==
  /\ At("enter")
  /\ NameOf[top.fn] = NameOf[Entry]
  /\ top.goID = 0 /\ Len(storeFns) = 1
  /\ Start(top.fn)
  /\ loopIDs' = Put(loopIDs, 0, 0)
  /\ goStack' = Append(goStack, <<>>)
  /\ RWIns' = Append(RWIns, <<>>)
  /\ UNCHANGED <<prog, status, storeFns, workList, goCaller, twinGoID, insMono,
                 goCalls, trieMap, locks, lockMap, RlockMap, held, seen>>

\* "revisiting entry-point": return without popping the function; so does a
\* function of an excluded package, which was not pushed.
EnterReturn ==
  /\ At("enter")
  /\ \/ NameOf[top.fn] = NameOf[Entry] /\ ~(top.goID = 0 /\ Len(storeFns) = 1)
     \/ NameOf[top.fn] # NameOf[Entry] /\ top.fn \in ExcludedPkg
  /\ cs' = rest
  /\ UNCHANGED <<prog, status, storeFns, goVars, goCalls, RWIns, trieMap,
                 inLoop, locks, lockMap, RlockMap, held, seen>>

Enter ==
  /\ At("enter")
  /\ NameOf[top.fn] # NameOf[Entry]
  /\ top.fn \notin ExcludedPkg
  /\ Start(top.fn)
  /\ UNCHANGED <<prog, status, storeFns, goVars, goCalls, RWIns, trieMap,
                 locks, lockMap, RlockMap, held, seen>>
-----------------------------------------------------------------------------
\* insUnOp, insFieldAddr, insLookUp: a read of shared memory; insStore,
\* insMapUpdate: a write, which keeps no read locks
Access ==
  /\ AtOp({"read", "write"})
  /\ RWIns' = Record(RWIns, top.goID, Ins(top), storeFns)
  /\ UpdateLockMap(top.goID, Ins(top))
  /\ IF Code(top).op = "read" THEN UpdateRLockMap(top.goID, Ins(top))
                              ELSE UNCHANGED RlockMap
  /\ Saw(top.goID, Ins(top))
  /\ AfterInstr(top, locks, held)
  /\ UNCHANGED <<prog, status, storeFns, goVars, goCalls, trieMap>>

\* Instructions that are only recorded: returns, WaitGroup operations, others
RecordOnly ==
  /\ AtOp({"return", "wait", "done", "if", "jump", "other"})
  /\ RWIns' = Record(RWIns, top.goID, Ins(top), storeFns)
  /\ AfterInstr(top, locks, held)
  /\ UNCHANGED <<prog, status, storeFns, goVars, goCalls, trieMap, lockMap,
                 RlockMap, seen>>

\* strings.Contains(theIns.Block().Comment, "if"); the last is the block after
\* the if statement
InIf(fr) == prog[fr.fn][fr.b].comment \in {"if.then", "if.else", "if.done"}
OnBranch(fr) == prog[fr.fn][fr.b].comment \in {"if.then", "if.else"}

\* insCall for the methods of sync.Mutex and sync.RWMutex
LockOp ==
  /\ AtOp({"lock", "unlock", "rlock", "runlock"})
  /\ LET l == Code(top).arg
         g == top.goID
         op == Code(top).op
         frozen == op = "unlock" /\ InIf(top) /\ Holds(locks, "W", l, g)
         fr == [top EXCEPT
                  !.toUnlock = IF frozen THEN Append(@, l) ELSE @,
                  !.toRUnlock = IF op = "runlock" THEN Append(@, l) ELSE @,
                  !.skipped = IF op \in {"unlock", "runlock"} /\ OnBranch(top)
                                 /\ l \in HeldBy(g) THEN Append(@, l) ELSE @]
     IN AfterInstr(fr, CASE op = "lock"    -> AppendLock(locks, "W", g, l)
                         [] op = "unlock"  -> Unlock(locks, l, g, InIf(top))
                         [] op = "rlock"   -> RLock(locks, l, g)
                         [] op = "runlock" -> RUnlock(locks, l, g, Caller(g)),
                   IF op \in {"lock", "rlock"} THEN Acquire(held, g, l)
                                               ELSE Release(held, g, l))
  /\ UNCHANGED <<prog, status, storeFns, goVars, goCalls, RWIns, trieMap,
                 lockMap, RlockMap, seen>>
-----------------------------------------------------------------------------
(***************************************************************************)
(* insCall for a function with a body, whose arguments are read first;     *)
(* insStore of a function value, a write; insChangeType of a closure.  All *)
(* of them traverse the function.                                          *)
(***************************************************************************)
AccessBefore(i) == i.op = "store" \/ (i.op = "call" /\ i.reads)
AccessAfter(i) == i.op # "call" \/ i.reads

Call ==
  /\ AtOp(Traversing)
  /\ LET R == IF AccessBefore(Code(top))
              THEN Record(RWIns, top.goID, Ins(top), storeFns) ELSE RWIns
     IN TraverseFn(R, Code(top).arg, top.goID, Ins(top),
                   Append(rest, [top EXCEPT !.at = "back"]))
  /\ IF AccessBefore(Code(top)) THEN UpdateLockMap(top.goID, Ins(top)) /\ Saw(top.goID, Ins(top))
                                ELSE UNCHANGED <<lockMap, seen>>
  /\ IF Code(top).reads THEN UpdateRLockMap(top.goID, Ins(top)) ELSE UNCHANGED RlockMap
  /\ UNCHANGED <<prog, goVars, goCalls, inLoop, locks, held>>

\* The end of traverseFn: "isWriteIns(theIns) || a.isReadIns(theIns)"
Back ==
  /\ At("back")
  /\ IF AccessAfter(Code(top))
     THEN /\ UpdateLockMap(top.goID, Ins(top))
          /\ UpdateRLockMap(top.goID, Ins(top))
          /\ Saw(top.goID, Ins(top))
     ELSE UNCHANGED <<lockMap, RlockMap, seen>>
  /\ AfterInstr(top, locks, held)
  /\ UNCHANGED <<prog, status, storeFns, goVars, goCalls, RWIns, trieMap>>

\* A deferred call is put on a stack ...
Defer ==
  /\ AtOp({"defer"})
  /\ AfterInstr([top EXCEPT !.toDefer = <<Ins(top)>> \o @], locks, held)
  /\ UNCHANGED <<prog, status, storeFns, goVars, goCalls, RWIns, trieMap,
                 lockMap, RlockMap, seen>>

\* ... which rundefers works off, recorded before and after.
RunDefers ==
  /\ AtOp({"rundefers"})
  /\ RWIns' = Record(RWIns, top.goID, Ins(top), storeFns)
  /\ cs' = Append(rest, [top EXCEPT !.at = "defers", !.run = top.toDefer, !.toDefer = <<>>])
  /\ UNCHANGED <<prog, status, storeFns, goVars, goCalls, trieMap, inLoop,
                 locks, lockMap, RlockMap, held, seen>>

DefersDone ==
  /\ At("defers")
  /\ top.run = <<>>
  /\ RWIns' = Record(RWIns, top.goID, Ins(top), storeFns)
  /\ AfterInstr(top, locks, held)
  /\ UNCHANGED <<prog, status, storeFns, goVars, goCalls, trieMap, lockMap,
                 RlockMap, seen>>

\* One deferred call, of rundefers or left over at the end of the function:
\* there an Unlock takes effect at once, and again at the very end.
NextDeferred == IF top.at = "defers" THEN top.run ELSE top.toDefer
DeferredIns == Head(NextDeferred)
DeferredArg == InstrAt(DeferredIns).arg
Popped == IF top.at = "defers" THEN [top EXCEPT !.run = Tail(@)]
                               ELSE [top EXCEPT !.toDefer = Tail(@)]
AtDeferred(kind) ==
  /\ At("defers") \/ At("final")
  /\ NextDeferred # <<>>
  /\ DeferredArg.kind = kind

DeferredCall ==
  /\ AtDeferred("call")
  /\ TraverseFn(RWIns, DeferredArg.of, top.goID, DeferredIns, Append(rest, Popped))
  /\ UNCHANGED <<prog, goVars, goCalls, inLoop, locks, lockMap, RlockMap, held, seen>>

DeferredUnlock ==
  /\ AtDeferred("unlock")
  /\ cs' = Append(rest, [Popped EXCEPT !.toUnlock = Append(@, DeferredArg.of)])
  /\ locks' = IF top.at = "final" THEN Remove(locks, "W", DeferredArg.of, top.goID)
                                  ELSE locks
  /\ held' = Release(held, top.goID, DeferredArg.of)
  /\ UNCHANGED <<prog, status, storeFns, goVars, goCalls, RWIns, trieMap,
                 inLoop, lockMap, RlockMap, seen>>

DeferredRUnlock ==
  /\ AtDeferred("runlock")
  /\ cs' = Append(rest, [Popped EXCEPT !.toRUnlock = Append(@, DeferredArg.of)])
  /\ held' = Release(held, top.goID, DeferredArg.of)
  /\ UNCHANGED <<prog, status, storeFns, goVars, goCalls, RWIns, trieMap,
                 inLoop, locks, lockMap, RlockMap, seen>>

DeferredDone ==
  /\ AtDeferred("done")
  /\ cs' = Append(rest, Popped)
  /\ RWIns' = Record(RWIns, top.goID, DeferredIns, storeFns)
  /\ UNCHANGED <<prog, status, storeFns, goVars, goCalls, trieMap, inLoop,
                 locks, lockMap, RlockMap, held, seen>>
-----------------------------------------------------------------------------
(***************************************************************************)
(* insGo.  The goroutines known are G = [work, stack, caller, loops]; the  *)
(* new one gets the ID after the last one on the worklist.                 *)
(***************************************************************************)
\* Mutants: the worklist is not looked at; no call stack for the new goroutine.
NewGoIDFromParent(work, g) == g + 1
InsGoNoStack(G, g, ins, f, loopID) ==
  LET id == IF G.work = <<>> THEN g + 1 ELSE G.work[Len(G.work)].goID + 1
  IN [work |-> Append(G.work, [ins |-> ins, fn |-> f, goID |-> id]),
      stack |-> G.stack,
      caller |-> Put(G.caller, id, g),
      loops |-> Put(G.loops, id, loopID)]

NewGoID(work, g) == IF work = <<>> THEN g + 1 ELSE work[Len(work)].goID + 1

InsGo(G, g, ins, f, loopID) ==
  LET id == NewGoID(G.work, g)
      call == [fn |-> f, ins |-> ins]
  IN [work |-> Append(G.work, [ins |-> ins, fn |-> f, goID |-> id]),
      stack |-> [Append(G.stack, <<>>) EXCEPT ![id + 1] = @ \o Append(storeFns, call)],
      caller |-> Put(G.caller, id, g),
      loops |-> Put(G.loops, id, loopID)]

\* "this is first *ssa.Go instruction in main goroutine", the nth record
\* (mutant: the last one).
LastGoInMain(g, n) == IF g = 0 THEN n ELSE insMono
FirstGoInMain(g, n) == IF g = 0 /\ insMono = -1 THEN n ELSE insMono

\* A go statement in a loop spawns two goroutines.
Go ==
  /\ AtOp({"go"})
  /\ Code(top).arg # NoFn
  /\ LET g == top.goID
         ins == Ins(top)
         f == Code(top).arg
         G == [work |-> workList, stack |-> goStack, caller |-> goCaller,
               loops |-> loopIDs]
         G1 == InsGo(G, g, ins, f, IF inLoop THEN 1 ELSE 0)
         G2 == IF inLoop THEN InsGo(G1, g, ins, f, 2) ELSE G1
         R1 == Record(RWIns, g, ins, storeFns)
     IN /\ workList' = G2.work
        /\ goStack' = G2.stack
        /\ goCaller' = G2.caller
        /\ loopIDs' = G2.loops
        /\ twinGoID' = IF inLoop /\ ins \notin DOMAIN twinGoID
                       THEN Put(twinGoID, ins, <<NewGoID(workList, g), NewGoID(G1.work, g)>>)
                       ELSE twinGoID
        /\ RWIns' = IF inLoop THEN Record(R1, g, ins, storeFns) ELSE R1
        /\ insMono' = FirstGoInMain(g, Len(R1[1]))
  /\ AfterInstr(top, locks, held)
  /\ UNCHANGED <<prog, status, storeFns, goCalls, trieMap, lockMap, RlockMap, seen>>

GoUnknown ==
  /\ AtOp({"go"})
  /\ Code(top).arg = NoFn
  /\ AfterInstr(top, locks, held)
  /\ UNCHANGED <<prog, status, storeFns, goVars, goCalls, RWIns, trieMap,
                 lockMap, RlockMap, seen>>
-----------------------------------------------------------------------------
\* The end of visitAllInstructions: deferred unlocks, one at a time ...
FinalUnlock ==
  /\ At("final")
  /\ top.toDefer = <<>>
  /\ top.toUnlock # <<>>
  /\ LET l == Head(top.toUnlock)
         g == top.goID
     IN IF UnlockPanics(locks, l, g, Caller(g))
        THEN status' = "panic" /\ UNCHANGED <<cs, locks>>
        ELSE /\ locks' = UnlockOwnOrCaller(locks, l, g, Caller(g))
             /\ cs' = Append(rest, [top EXCEPT !.toUnlock = Tail(@)])
             /\ status' = status
  /\ UNCHANGED <<prog, storeFns, goVars, goCalls, RWIns, trieMap, inLoop,
                 lockMap, RlockMap, held, seen>>

\* The call stack is popped if its top has this function's name (mutant:
\* always).
AlwaysPopped(f) == SubSeq(storeFns, 1, Len(storeFns) - 1)
PoppedFns(f) == IF NameOf[storeFns[Len(storeFns)].fn] = NameOf[f]
                THEN SubSeq(storeFns, 1, Len(storeFns) - 1) ELSE storeFns

\* ... then deferred RUnlocks, the locks this function has not released, and
\* the call stack.
Pop ==
  /\ At("final")
  /\ top.toDefer = <<>>
  /\ top.toUnlock = <<>>
  /\ LET g == top.goID
         unlock(L, l) == Remove(L, "R", l, g)
     IN locks' = DropUnreleased(ForEach(unlock, locks, top.toRUnlock), g, top.size)
  /\ IF storeFns = <<>>
     THEN status' = "panic" /\ UNCHANGED <<cs, storeFns>>
     ELSE /\ status' = status
          /\ cs' = Append(rest, [top EXCEPT !.at = "visit"])
          /\ storeFns' = PoppedFns(top.fn)
  /\ UNCHANGED <<prog, goVars, goCalls, RWIns, trieMap, inLoop, lockMap,
                 RlockMap, held, seen>>

\* Mutants: the last goroutine is left on the worklist; the loop does not
\* look at the worklist.
VisitDoneEarly ==
  /\ At("visit")
  /\ storeFns # <<>> \/ Len(workList) <= 1
  /\ cs' = rest
  /\ UNCHANGED <<prog, status, storeFns, goVars, goCalls, RWIns, trieMap,
                 inLoop, locks, lockMap, RlockMap, held, seen>>
VisitSpins ==
  /\ At("visit")
  /\ storeFns # <<>>
  /\ cs' = rest
  /\ UNCHANGED <<prog, status, storeFns, goVars, goCalls, RWIns, trieMap,
                 inLoop, locks, lockMap, RlockMap, held, seen>>

\* visitGo: the loop is over
VisitDone ==
  /\ At("visit")
  /\ storeFns # <<>> \/ workList = <<>>
  /\ cs' = rest
  /\ UNCHANGED <<prog, status, storeFns, goVars, goCalls, RWIns, trieMap,
                 inLoop, locks, lockMap, RlockMap, held, seen>>

\* visitGo and newGoroutine: the head of the worklist is traversed.
NewGoroutine ==
  /\ At("visit")
  /\ storeFns = <<>>
  /\ workList # <<>>
  /\ LET info == Head(workList)
         parent == Caller(info.goID)
         R == IF info.goID >= Len(RWIns) THEN Append(RWIns, <<>>) ELSE RWIns
     IN /\ workList' = Tail(workList)
        /\ IF parent \in DOMAIN goCalls /\ goCalls[parent] = info.ins
           THEN /\ RWIns' = R   \* recursive spawning of the same goroutine
                /\ UNCHANGED <<cs, status, storeFns, trieMap, goCalls, locks>>
           ELSE /\ goCalls' = Put(goCalls, info.goID, info.ins)
                /\ locks' = CarryOver(locks, info.goID, parent)
                /\ TraverseFn(Record(R, info.goID, info.ins, storeFns),
                              info.fn, info.goID, info.ins, cs)
  /\ UNCHANGED <<prog, goStack, goCaller, loopIDs, twinGoID, insMono, inLoop,
                 lockMap, RlockMap, held, seen>>

Finished == (cs = <<>> \/ status = "panic") /\ UNCHANGED vars

Next ==
  \/ EnterFirst \/ EnterReturn \/ Enter
  \/ Access \/ RecordOnly \/ LockOp \/ Call \/ Back \/ Go \/ GoUnknown
  \/ Defer \/ RunDefers \/ DefersDone
  \/ DeferredCall \/ DeferredUnlock \/ DeferredRUnlock \/ DeferredDone
  \/ FinalUnlock \/ Pop \/ VisitDone \/ NewGoroutine
  \/ Finished

Spec == Init /\ [][Next]_vars
FairSpec == Spec /\ WF_vars(Next)
-----------------------------------------------------------------------------
(***************************************************************************)
(* Properties.                                                             *)
(***************************************************************************)
Frames == {"enter", "instr", "defers", "back", "final", "visit"}
IsInsn(ins) == /\ ins[1] \in DOMAIN prog
               /\ ins[2] \in DOMAIN prog[ins[1]]
               /\ ins[3] \in DOMAIN prog[ins[1]][ins[2]].instrs
GoIDs == 0..(Len(goStack) - 1)

\* The type invariant: every index the traversal uses is in range, and it has
\* not panicked for one that was not.
TypeOK ==
  /\ status = "run"
  /\ \A n \in DOMAIN cs : cs[n].at \in Frames /\ cs[n].goID < Len(RWIns) + (IF RWIns = <<>> THEN 1 ELSE 0)
  /\ \A n \in DOMAIN storeFns : storeFns[n].fn \in DOMAIN prog /\ (storeFns[n].ins = NoIns \/ IsInsn(storeFns[n].ins))
  /\ Len(RWIns) <= Len(goStack)
  /\ \A n \in DOMAIN RWIns : \A m \in DOMAIN RWIns[n] : IsInsn(RWIns[n][m].ins)
  /\ \A k \in {"W", "R"} : \A g \in DOMAIN locks.set[k] :
        /\ g \in GoIDs
        /\ \A i \in 1..Size(locks, k, g) : InfoAt(locks, k, g, i) \in DOMAIN locks.infos

\* insGo numbers goroutines densely and uniquely although it only looks at
\* the current goroutine and the end of the worklist, and a parent always has
\* the smaller number (buildHB and canRunInParallel rely on it).
GoIDsDense ==
  /\ \A n \in 1..(Len(workList) - 1) : workList[n + 1].goID = workList[n].goID + 1
  /\ workList # <<>> => workList[Len(workList)].goID = Len(goStack) - 1
  /\ DOMAIN goCaller = GoIDs \ {0}
  /\ \A g \in DOMAIN goCaller : goCaller[g] < g

Twins(g, t) ==
  t = g + 1 /\ loopIDs[g] = 1 /\ loopIDs[t] = 2 /\ goCaller[g] = goCaller[t]

\* The first record of a goroutine is the go statement that spawned it, which
\* its parent has recorded as well: buildHB links the two.  Two goroutines of
\* one go statement in a loop are twins: consecutive, with loop IDs 1 and 2,
\* and the same parent.
SpawnRecorded ==
  \A g \in 1..(Len(RWIns) - 1) : RWIns[g + 1] # <<>> =>
     LET ins == RWIns[g + 1][1].ins IN
     /\ InstrAt(ins).op = "go"
     /\ \E n \in DOMAIN RWIns[goCaller[g] + 1] : RWIns[goCaller[g] + 1][n].ins = ins
     /\ goStack[g + 1] # <<>>
     /\ goStack[g + 1][Len(goStack[g + 1])].ins = ins
     /\ ins \in DOMAIN twinGoID /\ twinGoID[ins][1] = g => Twins(g, twinGoID[ins][2])

\* The call stack storeFns is exactly the functions of interest being visited,
\* so that visitGo starts no goroutine in the middle of another.
Pushed(fr) == fr.fn \notin LibFns /\ fr.at # "visit"
Live(frames) == {n \in DOMAIN frames : Pushed(frames[n])}
Rank(frames, n) == Cardinality({m \in Live(frames) : m <= n})
BalancedCalls ==
  /\ Cardinality(Live(cs)) = Len(storeFns)
  /\ \A n \in Live(cs) : cs[n].fn = storeFns[Rank(cs, n)].fn
  /\ storeFns = <<>> => \A n \in DOMAIN cs : cs[n].at = "visit"

\* Every spawned goroutine is taken off the worklist ("let's visit all
\* goroutines except main").
AllVisited == cs = <<>> => /\ workList = <<>>
                           /\ Len(RWIns) = Len(goStack)

\* Before insMono main has spawned no goroutine.
SingleThreadedBefore ==
  RWIns # <<>> =>
    LET gos == {n \in DOMAIN RWIns[1] : InstrAt(RWIns[1][n].ins).op = "go"} IN
    IF gos = {} THEN insMono = -1
    ELSE insMono \in gos /\ \A n \in gos : insMono <= n

\* The lockset recorded for an access, and that of its read locks, hold only
\* locks that every goroutine making the access holds: otherwise races are
\* missed.
Recorded(m) == {m[i] : i \in DOMAIN m} \ {NoLock}
LockMapSound ==
  \A a \in DOMAIN seen : /\ Recorded(lockMap[a[2]]) \subseteq seen[a]
                         /\ Recorded(Get(RlockMap, a[2], <<>>)) \subseteq seen[a]

\* "for go call, skip the checking of budget": a goroutine is traversed unless
\* it is a recursive spawn of its parent's own go statement.
GoNotBudgeted ==
  cs = <<>> => \A g \in 1..(Len(RWIns) - 1) : RWIns[g + 1] # <<>> =>
                  \E n \in DOMAIN RWIns[g + 1] : n > 1

\* The traversal ends.
Terminates == <>(cs = <<>>)
=============================================================================
