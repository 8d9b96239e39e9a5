------------------------------- MODULE Solver -------------------------------
(***************************************************************************)
(* The inclusion-constraint solver of the pointer analysis                 *)
(* (gopta/go/pointer/solve.go): Andersen-style propagation with a          *)
(* worklist, difference propagation (prevPTS), copy edges that are added   *)
(* while solving, functions whose constraints are generated while solving, *)
(* and the optional limit on the size of a points-to set.                  *)
(*                                                                         *)
(* solve() runs in one goroutine.  Its loops are cut into steps: one for   *)
(* processNewConstraints, one for taking a node off the worklist, one for  *)
(* each label a complex constraint is applied to, and one for the copy     *)
(* edges of the node.  The order in which the labels of one delta are      *)
(* treated is left open.                                                   *)
(***************************************************************************)
EXTENDS Constraints

VARIABLES
  base,         \* the constraints the generator handed over
  skipNewFn,    \* a.skipNewFn: too many constraints to generate more
  reflection,   \* a.config.Reflection
  constraints,  \* a.constraints: added, not yet part of the graph
  genned,       \* function instances generated so far
  pts, prevPTS, copyTo, complex,  \* node.solve
  work,         \* a.work
  skipIDs,      \* a.skipIDs
  stale,        \* stale nodes of this round not yet reprocessed
  phase,        \* where the main loop is
  ret,          \* where solveConstraints returns to
  cur, delta,   \* the arguments of solveConstraints
  ops           \* its rule applications still to be made

vars == <<base, skipNewFn, reflection, constraints, genned, pts, prevPTS, copyTo,
          complex, work, skipIDs, stale, phase, ret, cur, delta, ops>>
graph == <<pts, copyTo, work>>
-----------------------------------------------------------------------------
\* Every constraint generated up to now.
AllConstraints == base \cup UNION {FnBody[f] : f \in genned}

\* The generator has already generated some of the shared functions.
Init ==
  /\ base \in Systems
  /\ skipNewFn \in {b \in BOOLEAN : b => PtsLimit > 0}
  /\ reflection \in BOOLEAN
  /\ genned \in SUBSET Shared
  /\ constraints = AllConstraints
  /\ pts = [n \in Nodes |-> {}]
  /\ prevPTS = [n \in Nodes |-> {}]
  /\ copyTo = [n \in Nodes |-> {}]
  /\ complex = [n \in Nodes |-> {}]
  /\ work = {}
  /\ skipIDs = {}
  /\ stale = {}
  /\ phase = "new"
  /\ ret = "new"
  /\ cur = 0
  /\ delta = {}
  /\ ops = {}

(***************************************************************************)
(* processNewConstraints, up to its last loop: base constraints first,     *)
(* then the other constraints are attached; a node that has labels goes to *)
(* the worklist, and is stale if some labels were already propagated.      *)
(***************************************************************************)
ProcessNewConstraints ==
  /\ phase = "new"
  /\ LET addrs == {c \in constraints : c.kind = "addr"}
         fresh == constraints \ addrs
         attached == {n \in Nodes : /\ pts'[n] # {}
                                    /\ \E c \in fresh : c.ptr = n}
     IN /\ pts' = [n \in Nodes |->
                     pts[n] \cup {c.arg : c \in {a \in addrs : a.ptr = n}}]
        /\ copyTo' = [n \in Nodes |-> copyTo[n] \cup
              {c.arg : c \in {e \in fresh : e.kind = "copy" /\ e.ptr = n}}]
        /\ complex' = [n \in Nodes |-> complex[n] \cup
              {c \in fresh : IsComplex(c) /\ c.ptr = n}]
        /\ work' = work \cup attached \cup
              {n \in Nodes : /\ copyTo[n] # {} \/ complex[n] # {}
                             /\ \E a \in addrs : a.ptr = n}
        /\ stale' = {n \in attached : prevPTS[n] # {}}
  /\ constraints' = {}
  /\ phase' = "loop"
  /\ UNCHANGED <<base, skipNewFn, reflection, genned, prevPTS, skipIDs, ret, cur, delta,
                 ops>>

\* Mutant: stale nodes are forgotten.
ForgetStale ==
  /\ phase = "loop"
  /\ \E n \in stale : stale' = stale \ {n}
  /\ UNCHANGED <<base, skipNewFn, reflection, constraints, genned, pts, prevPTS, copyTo,
                 complex, work, skipIDs, phase, ret, cur, delta, ops>>

\* typeFilterConstraint.solve with Reflection: its type is an interface and
\* never a pointer, so it returns at the first label that passes the filter,
\* and passes none on.
Filtered(c) == reflection /\ c.kind = "typeFilter"
Applied(c, k) == IF Filtered(c) THEN {} ELSE OpsOf(c, k)

\* The call solveConstraints(n, d), which will return to phase back.
SolveConstraints(n, d, back) ==
  /\ phase' = "solve"
  /\ ret' = back
  /\ cur' = n
  /\ delta' = d
  /\ ops' = UNION {Applied(c, k) : c \in complex[n], k \in d}

\* The last loop of processNewConstraints: new constraints meet old labels.
SolveStale ==
  /\ phase = "loop"
  /\ \E n \in stale :
        /\ \A m \in stale : n <= m
        /\ stale' = stale \ {n}
        /\ SolveConstraints(n, prevPTS[n], "loop")
  /\ UNCHANGED <<base, skipNewFn, reflection, constraints, genned, pts, prevPTS, copyTo,
                 complex, work, skipIDs>>
-----------------------------------------------------------------------------
\* Mutants: TakeMin leaves the node on the worklist; the limit is off by one;
\* a node at the limit is passed over without a record.
TakeMinKept(n) ==
  /\ phase = "loop"
  /\ stale = {}
  /\ n \in work
  /\ \A m \in work : n <= m
  /\ work' = work
AtLimitEarly(n) == PtsLimit > 0 /\ Cardinality(pts[n]) >= PtsLimit - 1
SkippedBySize(n) == PtsLimit > 0 /\ Cardinality(pts[n]) >= PtsLimit

\* work.TakeMin
TakeMin(n) ==
  /\ phase = "loop"
  /\ stale = {}
  /\ n \in work
  /\ \A m \in work : n <= m
  /\ work' = work \ {n}

\* solveLimit: a node that has reached the limit is never solved again.
Skipped(n) == PtsLimit > 0 /\ n \in skipIDs
AtLimit(n) == PtsLimit > 0 /\ Cardinality(pts[n]) >= PtsLimit

TakeNothingToDo(n) ==
  /\ TakeMin(n)
  /\ Skipped(n) \/ pts[n] \subseteq prevPTS[n]
  /\ phase' = "new"
  /\ UNCHANGED <<base, skipNewFn, reflection, constraints, genned, pts, prevPTS, copyTo,
                 complex, skipIDs, stale, ret, cur, delta, ops>>

TakeAtLimit(n) ==
  /\ TakeMin(n)
  /\ ~Skipped(n)
  /\ ~(pts[n] \subseteq prevPTS[n])
  /\ AtLimit(n)
  /\ skipIDs' = skipIDs \cup {n}
  /\ prevPTS' = [prevPTS EXCEPT ![n] = {}]
  /\ phase' = "new"
  /\ UNCHANGED <<base, skipNewFn, reflection, constraints, genned, pts, copyTo, complex,
                 stale, ret, cur, delta, ops>>

\* Mutant: prevPTS is not brought up to date.
TakeNotCopied(n) ==
  /\ TakeMin(n)
  /\ ~Skipped(n)
  /\ ~(pts[n] \subseteq prevPTS[n])
  /\ ~AtLimit(n)
  /\ prevPTS' = prevPTS
  /\ SolveConstraints(n, pts[n] \ prevPTS[n], "new")
  /\ UNCHANGED <<base, skipNewFn, reflection, constraints, genned, pts, copyTo, complex,
                 skipIDs, stale>>

TakeAndSolve(n) ==
  /\ TakeMin(n)
  /\ ~Skipped(n)
  /\ ~(pts[n] \subseteq prevPTS[n])
  /\ ~AtLimit(n)
  /\ prevPTS' = [prevPTS EXCEPT ![n] = pts[n]]
  /\ SolveConstraints(n, pts[n] \ prevPTS[n], "new")
  /\ UNCHANGED <<base, skipNewFn, reflection, constraints, genned, pts, copyTo, complex,
                 skipIDs, stale>>
-----------------------------------------------------------------------------
\* Mutants: no addWork; onlineCopy with dst and src swapped.
GrowQuietly(n, labels) ==
  /\ pts' = [pts EXCEPT ![n] = @ \cup labels]
  /\ work' = work
OnlineCopySwapped(o) ==
  /\ phase = "solve"
  /\ o \in ops
  /\ o.op = "copy"
  /\ copyTo' = [copyTo EXCEPT ![o.dst] = @ \cup {o.src}]
  /\ pts' = [pts EXCEPT ![o.src] = @ \cup pts[o.dst]]
  /\ work' = work \cup {o.src}
  /\ ops' = ops \ {o}
  /\ UNCHANGED <<base, skipNewFn, reflection, constraints, genned, prevPTS, complex,
                 skipIDs, stale, phase, ret, cur, delta>>

\* addWork(n) if pts(n) grew
Grow(n, labels) ==
  /\ pts' = [pts EXCEPT ![n] = @ \cup labels]
  /\ work' = IF labels \subseteq pts[n] THEN work ELSE work \cup {n}

\* onlineCopy and its caller's addWork
OnlineCopy(o) ==
  /\ phase = "solve"
  /\ o \in ops
  /\ o.op = "copy"
  /\ IF o.dst # o.src /\ o.dst \notin copyTo[o.src]
     THEN /\ copyTo' = [copyTo EXCEPT ![o.src] = @ \cup {o.dst}]
          /\ Grow(o.dst, pts[o.src])
     ELSE UNCHANGED graph
  /\ ops' = ops \ {o}
  /\ UNCHANGED <<base, skipNewFn, reflection, constraints, genned, prevPTS, complex,
                 skipIDs, stale, phase, ret, cur, delta>>

\* offsetAddrConstraint.solve and typeFilterConstraint.solve
AddLabel(o) ==
  /\ phase = "solve"
  /\ o \in ops
  /\ o.op = "label"
  /\ Grow(o.dst, {o.src})
  /\ ops' = ops \ {o}
  /\ UNCHANGED <<base, skipNewFn, reflection, constraints, genned, prevPTS, copyTo,
                 complex, skipIDs, stale, phase, ret, cur, delta>>

\* eachSolve adds the target of a call without addWork
AddTarget(o) ==
  /\ phase = "solve"
  /\ o \in ops
  /\ o.op = "target"
  /\ pts' = [pts EXCEPT ![o.dst] = @ \cup {o.src}]
  /\ ops' = ops \ {o}
  /\ UNCHANGED <<base, skipNewFn, reflection, constraints, genned, prevPTS, copyTo,
                 complex, work, skipIDs, stale, phase, ret, cur, delta>>

(***************************************************************************)
(* invokeConstraint.solve for one label.  Only a shared function is found  *)
(* in a.globalobj; any other one goes through genMissingFn, which          *)
(* generates the instance unless it exists and adds its body to            *)
(* a.constraints.  With skipNewFn genMissingFn is not called, and the rest *)
(* of the delta is given up.                                               *)
(***************************************************************************)
InGlobalObj(f) == f \in Shared /\ f \in genned

InvokeOutOfScope(o) ==
  /\ phase = "solve"
  /\ o \in ops
  /\ o.op = "invoke"
  /\ Callee(o.dst, o.src) = NoFn
  /\ ~skipNewFn
  /\ ops' = ops \ {o}
  /\ UNCHANGED <<base, skipNewFn, reflection, constraints, genned, pts, prevPTS, copyTo,
                 complex, work, skipIDs, stale, phase, ret, cur, delta>>

InvokeGiveUp(o) ==
  /\ phase = "solve"
  /\ o \in ops
  /\ o.op = "invoke"
  /\ ~InGlobalObj(Callee(o.dst, o.src))
  /\ skipNewFn
  /\ ops' = {r \in ops : ~(r.op = "invoke" /\ r.dst = o.dst)}
  /\ UNCHANGED <<base, skipNewFn, reflection, constraints, genned, pts, prevPTS, copyTo,
                 complex, work, skipIDs, stale, phase, ret, cur, delta>>

InvokeMethod(o) ==
  /\ phase = "solve"
  /\ o \in ops
  /\ o.op = "invoke"
  /\ Callee(o.dst, o.src) # NoFn
  /\ InGlobalObj(Callee(o.dst, o.src)) \/ ~skipNewFn
  /\ LET f == Callee(o.dst, o.src) IN
       /\ constraints' = IF f \in genned THEN constraints
                         ELSE constraints \cup FnBody[f]
       /\ genned' = genned \cup {f}
       /\ ops' = (ops \ {o}) \cup InvokeOps(o.dst, o.src, f)
  /\ UNCHANGED <<base, skipNewFn, reflection, pts, prevPTS, copyTo, complex, work,
                 skipIDs, stale, phase, ret, cur, delta>>

\* The second loop of solveConstraints: delta along the copy edges of cur,
\* those that the complex constraints have just added included.
CopyEdges ==
  /\ phase = "solve"
  /\ ops = {}
  /\ pts' = [n \in Nodes |-> IF n \in copyTo[cur] THEN pts[n] \cup delta
                             ELSE pts[n]]
  /\ work' = work \cup {n \in copyTo[cur] : ~(delta \subseteq pts[n])}
  /\ phase' = ret
  /\ UNCHANGED <<base, skipNewFn, reflection, constraints, genned, prevPTS, copyTo,
                 complex, skipIDs, stale, ret, cur, delta, ops>>
-----------------------------------------------------------------------------
\* Empty worklist: the loop ends, solve() releases the working state.  It
\* panics if pts(0) is nonempty; the model would be stuck here.
Finish ==
  /\ phase = "loop"
  /\ stale = {}
  /\ work = {}
  /\ pts[0] = {}
  /\ phase' = "done"
  /\ complex' = [n \in Nodes |-> {}]
  /\ copyTo' = [n \in Nodes |-> {}]
  /\ prevPTS' = [n \in Nodes |-> {}]
  /\ UNCHANGED <<base, skipNewFn, reflection, constraints, genned, pts, work, skipIDs,
                 stale, ret, cur, delta, ops>>

Returned == phase = "done" /\ UNCHANGED vars

Next ==
  \/ ProcessNewConstraints
  \/ SolveStale
  \/ \E n \in Nodes : \/ TakeNothingToDo(n)
                      \/ TakeAtLimit(n)
                      \/ TakeAndSolve(n)
  \/ \E o \in ops : \/ OnlineCopy(o)
                    \/ AddLabel(o)
                    \/ AddTarget(o)
                    \/ InvokeOutOfScope(o)
                    \/ InvokeGiveUp(o)
                    \/ InvokeMethod(o)
  \/ CopyEdges
  \/ Finish
  \/ Returned

Spec == Init /\ [][Next]_vars
FairSpec == Spec /\ WF_vars(Next)
-----------------------------------------------------------------------------
(***************************************************************************)
(* Properties.                                                             *)
(***************************************************************************)
\* The type invariant.  Points-to sets respect the static types, so no rule
\* application ever computes a node outside the object it starts from.
TypeOK ==
  /\ base \in Systems
  /\ skipNewFn \in BOOLEAN
  /\ reflection \in BOOLEAN
  /\ \A c \in constraints : GoodConstraint(c)
  /\ genned \subseteq Fns
  /\ DOMAIN pts = Nodes /\ \A n \in Nodes : pts[n] \subseteq LabelsAt[n]
  /\ DOMAIN prevPTS = Nodes /\ \A n \in Nodes : prevPTS[n] \subseteq pts[n]
  /\ copyTo \in [Nodes -> SUBSET Nodes]
  /\ \A s \in Nodes : \A d \in copyTo[s] : LabelsAt[s] \subseteq LabelsAt[d]
  /\ DOMAIN complex = Nodes
  /\ \A n \in Nodes : \A c \in complex[n] :
        GoodConstraint(c) /\ IsComplex(c) /\ c.ptr = n
  /\ work \subseteq Nodes
  /\ skipIDs \subseteq Nodes
  /\ stale \subseteq work
  /\ phase \in {"new", "loop", "solve", "done"}
  /\ ret \in {"new", "loop"}
  /\ cur \in Nodes
  /\ phase = "solve" => delta \subseteq prevPTS[cur]
  /\ \A o \in ops : GoodOp(o)

\* With skipNewFn some labels of a call may have been given up, and with
\* Reflection what a type filter lets pass.
GivenUp(c) == (skipNewFn /\ c.kind = "invoke") \/ Filtered(c)

\* When solve() returns, the points-to sets satisfy every constraint, those
\* generated while solving included; only what flows out of a node given up
\* at the limit may be missing, with skipNewFn what the calls demand, and with
\* Reflection what the type assertions to an interface demand.
Solved ==
  phase = "done" =>
     \A c \in AllConstraints : GivenUp(c) \/ Satisfies(pts, c, skipIDs)

\* solve() returns.
Terminates == <>(phase = "done")
-----------------------------------------------------------------------------
(***************************************************************************)
(* The invariant behind Solved: nothing that was generated is ever lost.   *)
(***************************************************************************)
\* The labels of n that its constraints have seen: while n is being solved,
\* its copy edges have not seen delta yet.
InFlight(n) == IF phase = "solve" /\ n = cur THEN delta ELSE {}

\* A copy edge has carried every label, or its source will be taken again.
EdgesKept ==
  \A s \in Nodes \ skipIDs : \A d \in copyTo[s] :
     /\ s \in stale \/ prevPTS[s] \ InFlight(s) \subseteq pts[d]
     /\ s \in work \/ pts[s] \ InFlight(s) \subseteq pts[d]

\* A rule application has taken effect: the copy edge or the label exists.
EffectBasic(o) == IF o.op = "copy" THEN o.dst = o.src \/ o.dst \in copyTo[o.src]
                                   ELSE o.src \in pts[o.dst]
Effect(o) ==
  IF o.op = "invoke"
  THEN Callee(o.dst, o.src) # NoFn =>
         \A r \in InvokeOps(o.dst, o.src, Callee(o.dst, o.src)) :
            r \in ops \/ EffectBasic(r)
  ELSE EffectBasic(o)

\* A complex constraint was applied to every label of its node, or the
\* application is pending, or the node will be taken again, or the constraint
\* is given up.
ComplexKept ==
  \A n \in Nodes \ skipIDs : \A c \in complex[n] :
     /\ \/ n \in stale
        \/ GivenUp(c)
        \/ \A k \in prevPTS[n] : \A o \in OpsOf(c, k) : o \in ops \/ Effect(o)
     /\ n \in work \/ pts[n] = prevPTS[n]

\* Every constraint is still in a.constraints or has been attached.
ConstraintsKept ==
  \A c \in AllConstraints :
     \/ c \in constraints
     \/ c.kind = "addr" /\ c.arg \in pts[c.ptr]
     \/ c.kind = "copy" /\ c.arg \in copyTo[c.ptr]
     \/ IsComplex(c) /\ c \in complex[c.ptr]

\* The head of a call site's block has no constraints attached, so that
\* eachSolve need not put it on the worklist.
BlocksBare == \A b \in CallBlocks : copyTo[b] = {} /\ complex[b] = {}

\* Constraints generated while stale nodes were reprocessed are seen again:
\* the loop cannot end before processNewConstraints has run once more.
LoopGoesOn ==
  /\ phase \in {"new", "loop"} => ops = {}
  /\ phase = "new" \/ (phase = "solve" /\ ret = "new") => stale = {}
  /\ phase = "loop" /\ constraints # {} => work # {}
  /\ phase = "solve" /\ ret = "loop" => cur \in work

\* Before solve() returns, no constraint, edge or label is lost.
NothingLost ==
  phase # "done" =>
     EdgesKept /\ ComplexKept /\ ConstraintsKept /\ BlocksBare /\ LoopGoesOn

-----------------------------------------------------------------------------
\* S satisfies every constraint generated up to now that Reflection does not
\* leave out, and contains the points-to sets computed up to now.
Solution(S) == \A c \in AllConstraints : Filtered(c) \/ Satisfies(S, c, {})
Below(S) == \A n \in Nodes : pts[n] \subseteq S[n]
-----------------------------------------------------------------------------
\* The solver implements PointsTo: every step of the worklist algorithm adds
\* only labels and functions that are demanded, and it returns only when
\* nothing is, but for the three exceptions of Solved.
PT == INSTANCE PointsTo WITH skip <- skipNewFn, done <- (phase = "done")
ImplementsPointsTo == PT!Spec
=============================================================================
