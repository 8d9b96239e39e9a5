---------------------------- MODULE SolverProofs ----------------------------
(***************************************************************************)
(* Proofs about Solver, for every constraint system, node table and limit. *)
(***************************************************************************)
EXTENDS Solver, TLAPS

\* Every rule application of a well-typed constraint to a label its node may
\* hold is well typed.
LEMMA OpsGood ==
  ASSUME NEW c, GoodConstraint(c), IsComplex(c), NEW k \in LabelsAt[c.ptr],
         NEW o \in OpsOf(c, k)
  PROVE  GoodOp(o) /\ o.op # "target"
BY DEF GoodConstraint

\* What solveConstraints applies is what the constraint demands, unless
\* Reflection leaves the constraint out.
LEMMA AppliedOps ==
  ASSUME NEW c, NEW k, NEW o
  PROVE  /\ o \in Applied(c, k) => o \in OpsOf(c, k) /\ ~Filtered(c)
         /\ ~GivenUp(c) /\ o \in OpsOf(c, k) => o \in Applied(c, k)
BY DEF Applied, GivenUp

\* The rule applications of one call of solveConstraints are well typed.
LEMMA SolveOpsGood ==
  ASSUME TypeOK, NEW n \in Nodes, NEW d, d \subseteq LabelsAt[n],
         NEW o \in UNION {Applied(c, k) : c \in complex[n], k \in d}
  PROVE  GoodOp(o)
<1>1. PICK c \in complex[n], k \in d : o \in OpsOf(c, k)
  BY AppliedOps
<1>2. GoodConstraint(c) /\ IsComplex(c) /\ c.ptr = n
  BY DEF TypeOK
<1>. QED  BY <1>1, <1>2, OpsGood

\* The points-to sets stay within the static types when a node grows.
LEMMA GrowTyped ==
  ASSUME TypeOK, NEW n \in Nodes, NEW L, L \subseteq LabelsAt[n], Grow(n, L)
  PROVE  /\ DOMAIN pts' = Nodes
         /\ \A m \in Nodes : pts'[m] \subseteq LabelsAt[m] /\ pts[m] \subseteq pts'[m]
         /\ work' \subseteq Nodes
         /\ work \subseteq work'
BY DEF TypeOK, Grow

\* What processNewConstraints does to each node.
LEMMA NewEffects ==
  ASSUME TypeOK, ProcessNewConstraints
  PROVE  /\ pts' = [n \in Nodes |-> pts'[n]]
         /\ copyTo' = [n \in Nodes |-> copyTo'[n]]
         /\ complex' = [n \in Nodes |-> complex'[n]]
         /\ \A n \in Nodes : \A l : l \in pts'[n] <=>
               \/ l \in pts[n]
               \/ \E c \in constraints : c.kind = "addr" /\ c.ptr = n /\ c.arg = l
         /\ \A n \in Nodes : \A l : l \in copyTo'[n] <=>
               \/ l \in copyTo[n]
               \/ \E c \in constraints : c.kind = "copy" /\ c.ptr = n /\ c.arg = l
         /\ \A n \in Nodes : \A c : c \in complex'[n] <=>
               \/ c \in complex[n]
               \/ c \in constraints /\ IsComplex(c) /\ c.ptr = n
         /\ work \subseteq work' /\ work' \subseteq Nodes /\ stale' \subseteq work'
         /\ \A c \in constraints : c.kind # "addr" /\ pts'[c.ptr] # {} =>
               c.ptr \in work' /\ (prevPTS[c.ptr] # {} => c.ptr \in stale')
         /\ \A c \in constraints :
               c.kind = "addr" /\ (copyTo[c.ptr] # {} \/ complex[c.ptr] # {})
                 => c.ptr \in work'
<1>. DEFINE addrs == {c \in constraints : c.kind = "addr"}
            fresh == constraints \ addrs
            attached == {n \in Nodes : /\ pts'[n] # {}
                                       /\ \E c \in fresh : c.ptr = n}
<1>1. /\ pts' = [n \in Nodes |->
                   pts[n] \cup {c.arg : c \in {a \in addrs : a.ptr = n}}]
      /\ copyTo' = [n \in Nodes |-> copyTo[n] \cup
            {c.arg : c \in {e \in fresh : e.kind = "copy" /\ e.ptr = n}}]
      /\ complex' = [n \in Nodes |-> complex[n] \cup
            {c \in fresh : IsComplex(c) /\ c.ptr = n}]
      /\ work' = work \cup attached \cup
            {n \in Nodes : /\ copyTo[n] # {} \/ complex[n] # {}
                           /\ \E a \in addrs : a.ptr = n}
      /\ stale' = {n \in attached : prevPTS[n] # {}}
  BY DEF ProcessNewConstraints
<1>2. \A c \in constraints : c.ptr \in Nodes
  BY DEF TypeOK, GoodConstraint
<1>3. work \subseteq Nodes
  BY DEF TypeOK
<1>4. \A n \in Nodes : \A l : l \in pts'[n] <=>
               \/ l \in pts[n]
               \/ \E c \in constraints : c.kind = "addr" /\ c.ptr = n /\ c.arg = l
  BY <1>1
<1>5. \A n \in Nodes : \A l : l \in copyTo'[n] <=>
               \/ l \in copyTo[n]
               \/ \E c \in constraints : c.kind = "copy" /\ c.ptr = n /\ c.arg = l
  BY <1>1
<1>6. \A n \in Nodes : \A c : c \in complex'[n] <=>
               \/ c \in complex[n]
               \/ c \in constraints /\ IsComplex(c) /\ c.ptr = n
  BY <1>1 DEF IsComplex
<1>7. \A c \in constraints : c.kind # "addr" /\ pts'[c.ptr] # {} =>
               c.ptr \in work' /\ (prevPTS[c.ptr] # {} => c.ptr \in stale')
  BY <1>1, <1>2
<1>. HIDE DEF addrs, fresh
<1>8. work \subseteq work' /\ work' \subseteq Nodes /\ stale' \subseteq work'
  BY <1>1, <1>3
<1>9. \A c \in constraints :
               c.kind = "addr" /\ (copyTo[c.ptr] # {} \/ complex[c.ptr] # {})
                 => c.ptr \in work'
  BY <1>1, <1>2 DEF addrs
<1>10. /\ pts' = [n \in Nodes |-> pts'[n]]
       /\ copyTo' = [n \in Nodes |-> copyTo'[n]]
       /\ complex' = [n \in Nodes |-> complex'[n]]
  BY <1>1
<1>. QED  BY <1>4, <1>5, <1>6, <1>7, <1>8, <1>9, <1>10

\* Init establishes the type invariant.
LEMMA TypeInit == Init => TypeOK
BY NodesAssumption, SystemsAssumption, FnsAssumption
   DEF Init, TypeOK, AllConstraints

\* Every step preserves the type invariant.
LEMMA TypeNext == TypeOK /\ [Next]_vars => TypeOK'
<1>. SUFFICES ASSUME TypeOK, [Next]_vars PROVE TypeOK'
  OBVIOUS
<1>1. CASE ProcessNewConstraints
  <2>1. \A c \in constraints : GoodConstraint(c)
    BY DEF TypeOK
  <2>2. DOMAIN pts' = Nodes /\ \A n \in Nodes : pts'[n] \subseteq LabelsAt[n]
                            /\ pts[n] \subseteq pts'[n]
    BY <1>1, <2>1, NewEffects DEF TypeOK, GoodConstraint
  <2>3. /\ copyTo' \in [Nodes -> SUBSET Nodes]
        /\ \A s \in Nodes : \A d \in copyTo'[s] : LabelsAt[s] \subseteq LabelsAt[d]
    <3>1. \A s \in Nodes : \A d \in copyTo'[s] :
             d \in Nodes /\ LabelsAt[s] \subseteq LabelsAt[d]
      <4>. SUFFICES ASSUME NEW s \in Nodes, NEW d \in copyTo'[s]
                    PROVE  d \in Nodes /\ LabelsAt[s] \subseteq LabelsAt[d]
        OBVIOUS
      <4>1. \/ d \in copyTo[s]
            \/ \E c \in constraints : c.kind = "copy" /\ c.ptr = s /\ c.arg = d
        BY <1>1, NewEffects
      <4>2. CASE d \in copyTo[s]
        BY <4>2 DEF TypeOK
      <4>3. CASE \E c \in constraints : c.kind = "copy" /\ c.ptr = s /\ c.arg = d
        BY <4>3, <2>1 DEF GoodConstraint
      <4>. QED  BY <4>1, <4>2, <4>3
    <3>2. copyTo' = [n \in Nodes |-> copyTo'[n]]
      BY <1>1, NewEffects
    <3>. QED  BY <3>1, <3>2
  <2>4. DOMAIN complex' = Nodes /\ \A n \in Nodes : \A c \in complex'[n] :
          GoodConstraint(c) /\ IsComplex(c) /\ c.ptr = n
    BY <1>1, <2>1, NewEffects DEF TypeOK
  <2>. QED
    BY <1>1, <2>2, <2>3, <2>4, NewEffects DEF ProcessNewConstraints, TypeOK
<1>2. CASE SolveStale
  <2>1. PICK n \in stale : SolveConstraints(n, prevPTS[n], "loop")
                           /\ stale' = stale \ {n}
    BY <1>2 DEF SolveStale
  <2>2. n \in Nodes /\ prevPTS[n] \subseteq LabelsAt[n]
    BY DEF TypeOK
  <2>3. \A o \in ops' : GoodOp(o)
    BY <2>1, <2>2, SolveOpsGood DEF SolveConstraints
  <2>. QED  BY <1>2, <2>1, <2>2, <2>3 DEF SolveStale, SolveConstraints, TypeOK
<1>3. ASSUME NEW n \in Nodes, TakeNothingToDo(n) PROVE TypeOK'
  BY <1>3 DEF TakeNothingToDo, TakeMin, TypeOK
<1>4. ASSUME NEW n \in Nodes, TakeAtLimit(n) PROVE TypeOK'
  BY <1>4 DEF TakeAtLimit, TakeMin, TypeOK
<1>5. ASSUME NEW n \in Nodes, TakeAndSolve(n) PROVE TypeOK'
  <2>1. pts[n] \ prevPTS[n] \subseteq LabelsAt[n]
    BY DEF TypeOK
  <2>2. \A o \in ops' : GoodOp(o)
    BY <1>5, <2>1, SolveOpsGood DEF TakeAndSolve, SolveConstraints
  <2>. QED
    BY <1>5, <2>2 DEF TakeAndSolve, TakeMin, SolveConstraints, TypeOK
<1>6. ASSUME NEW o \in ops, OnlineCopy(o) PROVE TypeOK'
  <2>1. o.dst \in Nodes /\ o.src \in Nodes /\ pts[o.src] \subseteq LabelsAt[o.dst]
    BY <1>6 DEF OnlineCopy, TypeOK, GoodOp, OpType
  <2>a. LabelsAt[o.src] \subseteq LabelsAt[o.dst]
    BY <1>6 DEF OnlineCopy, TypeOK, GoodOp
  <2>2. CASE o.dst # o.src /\ o.dst \notin copyTo[o.src]
    BY <1>6, <2>1, <2>a, <2>2, GrowTyped DEF OnlineCopy, TypeOK
  <2>3. CASE ~(o.dst # o.src /\ o.dst \notin copyTo[o.src])
    BY <1>6, <2>3 DEF OnlineCopy, TypeOK, graph
  <2>. QED  BY <2>2, <2>3
<1>7. ASSUME NEW o \in ops, AddLabel(o) PROVE TypeOK'
  <2>1. o.dst \in Nodes /\ {o.src} \subseteq LabelsAt[o.dst]
    BY <1>7, ZenonT(30) DEF AddLabel, TypeOK, GoodOp, OpType
  <2>. QED  BY <1>7, <2>1, GrowTyped DEF AddLabel, TypeOK
<1>8. ASSUME NEW o \in ops, AddTarget(o) PROVE TypeOK'
  <2>1. o.dst \in Nodes /\ o.src \in LabelsAt[o.dst]
    BY <1>8 DEF AddTarget, TypeOK, GoodOp, OpType
  <2>. QED  BY <1>8, <2>1 DEF AddTarget, TypeOK
<1>9. ASSUME NEW o \in ops, InvokeOutOfScope(o) PROVE TypeOK'
  BY <1>9 DEF InvokeOutOfScope, TypeOK
<1>10. ASSUME NEW o \in ops, InvokeGiveUp(o) PROVE TypeOK'
  BY <1>10 DEF InvokeGiveUp, TypeOK
<1>11. ASSUME NEW o \in ops, InvokeMethod(o) PROVE TypeOK'
  <2>. DEFINE f == Callee(o.dst, o.src)
  <2>1. /\ o.dst \in CallBlocks /\ o.src \in Nodes
        /\ <<o.dst, o.src>> \in DOMAIN CalleeOf /\ f # NoFn
    BY <1>11 DEF InvokeMethod, TypeOK, GoodOp, OpType
  <2>2. f \in Fns
    BY <2>1, FnsAssumption
  <2>3. \A r \in InvokeOps(o.dst, o.src, f) : GoodOp(r)
    BY <2>1, FnsAssumption
  <2>4. \A c \in FnBody[f] : GoodConstraint(c)
    BY <2>2, FnsAssumption
  <2>. QED
    BY <1>11, <2>2, <2>3, <2>4 DEF InvokeMethod, TypeOK
<1>12. CASE CopyEdges
  <2>1. \A n \in copyTo[cur] : delta \subseteq LabelsAt[n]
    BY <1>12 DEF CopyEdges, TypeOK
  <2>2. DOMAIN pts' = Nodes /\ \A n \in Nodes : pts'[n] \subseteq LabelsAt[n]
                            /\ pts[n] \subseteq pts'[n]
    BY <1>12, <2>1 DEF CopyEdges, TypeOK
  <2>. QED  BY <1>12, <2>2 DEF CopyEdges, TypeOK
<1>13. CASE Finish
  BY <1>13 DEF Finish, TypeOK
<1>14. CASE UNCHANGED vars
  BY <1>14 DEF vars, TypeOK
<1>. QED
  BY <1>1, <1>2, <1>3, <1>4, <1>5, <1>6, <1>7, <1>8, <1>9, <1>10, <1>11,
     <1>12, <1>13, <1>14 DEF Next, Returned

\* Type correctness of the solver (solve.go): points-to sets respect the
\* static types in every reachable state, whatever the constraint system.
THEOREM TypeCorrect == Spec => []TypeOK
BY TypeInit, TypeNext, PTL DEF Spec
-----------------------------------------------------------------------------
(***************************************************************************)
(* Nothing is lost.                                                        *)
(***************************************************************************)
Kept == EdgesKept /\ ComplexKept /\ ConstraintsKept /\ BlocksBare /\ LoopGoesOn

\* The rule applications of a resolved call are copies and one target.
LEMMA InvokeOpsBasic ==
  ASSUME NEW p, NEW k, NEW f, NEW r \in InvokeOps(p, k, f)
  PROVE  r.op \in {"copy", "target"}
BY DEF InvokeOps, Op

\* A rule application that has taken effect keeps it while the graph grows.
LEMMA EffectMono ==
  ASSUME \A n \in Nodes : pts[n] \subseteq pts'[n] /\ copyTo[n] \subseteq copyTo'[n],
         \A o \in ops : o \in ops' \/ Effect(o)',
         NEW o, GoodOp(o), Effect(o)
  PROVE  Effect(o)'
<1>1. CASE o.op # "invoke"
  BY <1>1 DEF Effect, EffectBasic, GoodOp, OpType
<1>2. CASE o.op = "invoke"
  <2>. SUFFICES ASSUME Callee(o.dst, o.src) # NoFn,
                       NEW r \in InvokeOps(o.dst, o.src, Callee(o.dst, o.src))
                PROVE  r \in ops' \/ EffectBasic(r)'
    BY <1>2 DEF Effect
  <2>1. r.op # "invoke"
    BY InvokeOpsBasic
  <2>2. r \in ops \/ EffectBasic(r)
    BY <1>2 DEF Effect
  <2>3. CASE r \in ops
    BY <2>1, <2>3 DEF Effect
  <2>4. CASE EffectBasic(r)
    <3>1. GoodOp(r)
      BY <1>2, FnsAssumption DEF GoodOp, OpType
    <3>. QED  BY <2>4, <3>1 DEF EffectBasic, GoodOp, OpType
  <2>. QED  BY <2>2, <2>3, <2>4
<1>. QED  BY <1>1, <1>2

\* A step inside solveConstraints keeps everything if the graph only grows,
\* a node that grows goes to the worklist (or has nothing attached), a new
\* copy edge starts complete, and a finished application took effect.
LEMMA OpStepKept ==
  ASSUME TypeOK, Kept, phase = "solve",
         UNCHANGED <<skipNewFn, reflection, prevPTS, complex, skipIDs, stale, phase,
                     ret, cur, delta>>,
         \A n \in Nodes : pts[n] \subseteq pts'[n] /\ copyTo[n] \subseteq copyTo'[n],
         work \subseteq work',
         \A n \in Nodes : pts'[n] = pts[n] \/ n \in work' \/ n \in CallBlocks,
         \A o \in ops : o \in ops' \/ Effect(o)',
         \A s \in Nodes : \A d \in copyTo'[s] :
            d \in copyTo[s] \/ (pts[s] \subseteq pts'[d] /\ s \notin CallBlocks)
  PROVE  EdgesKept' /\ ComplexKept' /\ BlocksBare' /\ LoopGoesOn'
<1>1. BlocksBare'
  BY NodesAssumption DEF Kept, BlocksBare
<1>2. LoopGoesOn'
  BY DEF Kept, LoopGoesOn
<1>3. EdgesKept'
  <2>. SUFFICES ASSUME NEW s \in Nodes, s \notin skipIDs, NEW d \in copyTo'[s]
                PROVE  /\ s \in stale \/ prevPTS[s] \ InFlight(s) \subseteq pts'[d]
                       /\ s \in work' \/ pts'[s] \ InFlight(s) \subseteq pts'[d]
    BY DEF EdgesKept, InFlight
  <2>1. s \notin CallBlocks
    BY <1>1 DEF BlocksBare
  <2>2. pts'[s] = pts[s] \/ s \in work'
    BY <2>1
  <2>3. CASE d \in copyTo[s]
    <3>1. d \in Nodes
      BY <2>3 DEF TypeOK
    <3>. QED  BY <2>2, <2>3, <3>1 DEF Kept, EdgesKept
  <2>4. CASE pts[s] \subseteq pts'[d]
    <3>1. prevPTS[s] \subseteq pts[s]
      BY DEF TypeOK
    <3>. QED  BY <2>2, <2>4, <3>1
  <2>. QED  BY <2>3, <2>4
<1>4. ComplexKept'
  <2>. SUFFICES ASSUME NEW n \in Nodes, n \notin skipIDs, NEW c \in complex[n]
                PROVE  /\ \/ n \in stale \/ GivenUp(c)
                          \/ \A k \in prevPTS[n] : \A o \in OpsOf(c, k) :
                                o \in ops' \/ Effect(o)'
                       /\ n \in work' \/ pts'[n] = prevPTS[n]
    BY DEF ComplexKept, GivenUp, Filtered
  <2>1. n \notin CallBlocks
    BY DEF Kept, BlocksBare
  <2>2. n \in work' \/ pts'[n] = prevPTS[n]
    BY <2>1 DEF Kept, ComplexKept
  <2>3. ASSUME n \notin stale, ~GivenUp(c), NEW k \in prevPTS[n], NEW o \in OpsOf(c, k)
        PROVE  o \in ops' \/ Effect(o)'
    <3>1. o \in ops \/ Effect(o)
      BY <2>3 DEF Kept, ComplexKept
    <3>2. CASE o \in ops
      BY <3>2
    <3>3. CASE Effect(o)
      <4>1. GoodOp(o)
        <5>1. GoodConstraint(c) /\ IsComplex(c) /\ k \in LabelsAt[c.ptr]
          BY <2>3 DEF TypeOK
        <5>. QED  BY <2>3, <5>1, OpsGood
      <4>. QED  BY <3>3, <4>1, EffectMono
    <3>. QED  BY <3>1, <3>2, <3>3
  <2>. QED  BY <2>2, <2>3
<1>. QED  BY <1>1, <1>2, <1>3, <1>4

\* Constraints stay attached while the graph grows.
LEMMA ConstraintsGrow ==
  ASSUME TypeOK, Kept, UNCHANGED <<base, constraints, genned, complex>>,
         \A n \in Nodes : pts[n] \subseteq pts'[n] /\ copyTo[n] \subseteq copyTo'[n]
  PROVE  ConstraintsKept'
<1>1. \A c \in AllConstraints : c.ptr \in Nodes
  BY SystemsAssumption, FnsAssumption DEF AllConstraints, TypeOK, GoodConstraint
<1>2. AllConstraints' = AllConstraints
  BY DEF AllConstraints
<1>. QED  BY <1>1, <1>2 DEF Kept, ConstraintsKept

\* Nothing pending: an application took effect in this state for good.
LEMMA EffectSame ==
  ASSUME UNCHANGED <<pts, copyTo>>, ops = {}, NEW o, Effect(o)
  PROVE  Effect(o)'
BY DEF Effect, EffectBasic

\* Nothing is detached by a step that leaves the graph alone.
LEMMA ConstraintsSame ==
  ASSUME Kept, UNCHANGED <<base, constraints, genned, pts, copyTo, complex>>
  PROVE  ConstraintsKept' /\ BlocksBare'
BY DEF Kept, ConstraintsKept, BlocksBare, AllConstraints

\* One lemma per action shows that Kept is preserved.  First: a new copy edge
\* carries at once what its source has.
LEMMA OnlineCopyKept ==
  ASSUME TypeOK, Kept, NEW o \in ops, OnlineCopy(o) PROVE Kept'
<1>1. /\ o.dst \in Nodes /\ o.src \in Nodes /\ o.src \notin CallBlocks
      /\ o.op = "copy" /\ phase = "solve"
  BY DEF OnlineCopy, TypeOK, GoodOp, OpType
<1>2. CASE o.dst # o.src /\ o.dst \notin copyTo[o.src]
  <2>1. /\ copyTo' = [copyTo EXCEPT ![o.src] = @ \cup {o.dst}]
        /\ pts' = [pts EXCEPT ![o.dst] = @ \cup pts[o.src]]
        /\ work' = IF pts[o.src] \subseteq pts[o.dst] THEN work
                   ELSE work \cup {o.dst}
        /\ ops' = ops \ {o}
    BY <1>2 DEF OnlineCopy, Grow
  <2>2. /\ \A n \in Nodes : pts[n] \subseteq pts'[n] /\ copyTo[n] \subseteq copyTo'[n]
        /\ work \subseteq work'
    BY <1>1, <2>1 DEF TypeOK
  <2>3. \A n \in Nodes : pts'[n] = pts[n] \/ n \in work'
    BY <1>1, <2>1 DEF TypeOK
  <2>4. \A r \in ops : r \in ops' \/ Effect(r)'
    BY <1>1, <2>1 DEF TypeOK, Effect, EffectBasic
  <2>5. \A s \in Nodes : \A d \in copyTo'[s] :
           d \in copyTo[s] \/ (pts[s] \subseteq pts'[d] /\ s \notin CallBlocks)
    BY <1>1, <2>1 DEF TypeOK
  <2>6. EdgesKept' /\ ComplexKept' /\ BlocksBare' /\ LoopGoesOn'
    BY <1>1, <2>2, <2>3, <2>4, <2>5, OpStepKept DEF OnlineCopy
  <2>7. ConstraintsKept'
    BY <2>2, ConstraintsGrow DEF OnlineCopy
  <2>. QED  BY <2>6, <2>7 DEF Kept
<1>3. CASE ~(o.dst # o.src /\ o.dst \notin copyTo[o.src])
  <2>1. UNCHANGED <<pts, copyTo, work>> /\ ops' = ops \ {o}
    BY <1>3 DEF OnlineCopy, graph
  <2>2. \A r \in ops : r \in ops' \/ Effect(r)'
    BY <1>1, <1>3, <2>1 DEF Effect, EffectBasic
  <2>3. EdgesKept' /\ ComplexKept' /\ BlocksBare' /\ LoopGoesOn'
    BY <1>1, <2>1, <2>2, OpStepKept DEF OnlineCopy
  <2>4. ConstraintsKept'
    BY <2>1, ConstraintsGrow DEF OnlineCopy
  <2>. QED  BY <2>3, <2>4 DEF Kept
<1>. QED  BY <1>2, <1>3

\* An added label is lost neither by its node's constraints nor its edges.
LEMMA AddLabelKept ==
  ASSUME TypeOK, Kept, NEW o \in ops, AddLabel(o) PROVE Kept'
<1>1. /\ o.dst \in Nodes /\ o.op = "label" /\ phase = "solve"
  BY DEF AddLabel, TypeOK, GoodOp, OpType
<1>2. /\ pts' = [pts EXCEPT ![o.dst] = @ \cup {o.src}]
      /\ work' = IF {o.src} \subseteq pts[o.dst] THEN work ELSE work \cup {o.dst}
      /\ ops' = ops \ {o}
      /\ copyTo' = copyTo
  BY DEF AddLabel, Grow
<1>3. /\ \A n \in Nodes : pts[n] \subseteq pts'[n] /\ copyTo[n] \subseteq copyTo'[n]
      /\ work \subseteq work'
      /\ \A n \in Nodes : pts'[n] = pts[n] \/ n \in work'
  BY <1>1, <1>2 DEF TypeOK
<1>4. \A r \in ops : r \in ops' \/ Effect(r)'
  BY <1>1, <1>2 DEF TypeOK, Effect, EffectBasic
<1>5. EdgesKept' /\ ComplexKept' /\ BlocksBare' /\ LoopGoesOn'
  BY <1>1, <1>2, <1>3, <1>4, OpStepKept DEF AddLabel
<1>6. ConstraintsKept'
  BY <1>3, ConstraintsGrow DEF AddLabel
<1>. QED  BY <1>5, <1>6 DEF Kept

\* A call target needs no worklist entry: its node has nothing attached.
LEMMA AddTargetKept ==
  ASSUME TypeOK, Kept, NEW o \in ops, AddTarget(o) PROVE Kept'
<1>1. /\ o.dst \in Nodes /\ o.dst \in CallBlocks /\ o.op = "target"
      /\ phase = "solve"
  BY DEF AddTarget, TypeOK, GoodOp, OpType
<1>2. /\ pts' = [pts EXCEPT ![o.dst] = @ \cup {o.src}]
      /\ ops' = ops \ {o}
      /\ UNCHANGED <<copyTo, work>>
  BY DEF AddTarget
<1>3. /\ \A n \in Nodes : pts[n] \subseteq pts'[n] /\ copyTo[n] \subseteq copyTo'[n]
      /\ \A n \in Nodes : pts'[n] = pts[n] \/ n \in CallBlocks
  BY <1>1, <1>2 DEF TypeOK
<1>4. \A r \in ops : r \in ops' \/ Effect(r)'
  BY <1>1, <1>2 DEF TypeOK, Effect, EffectBasic
<1>5. EdgesKept' /\ ComplexKept' /\ BlocksBare' /\ LoopGoesOn'
  BY <1>1, <1>2, <1>3, <1>4, OpStepKept DEF AddTarget
<1>6. ConstraintsKept'
  BY <1>3, ConstraintsGrow DEF AddTarget
<1>. QED  BY <1>5, <1>6 DEF Kept

\* A label without a method in scope has nothing to lose.
LEMMA InvokeOutOfScopeKept ==
  ASSUME TypeOK, Kept, NEW o \in ops, InvokeOutOfScope(o) PROVE Kept'
<1>1. \A r \in ops : r \in ops' \/ Effect(r)'
  BY DEF InvokeOutOfScope, Effect
<1>2. EdgesKept' /\ ComplexKept' /\ BlocksBare' /\ LoopGoesOn'
  BY <1>1, OpStepKept DEF InvokeOutOfScope
<1>3. ConstraintsKept'
  BY ConstraintsGrow DEF InvokeOutOfScope
<1>. QED  BY <1>2, <1>3 DEF Kept

\* Only calls are given up: the other constraints keep their pending
\* applications.
LEMMA InvokeGiveUpKept ==
  ASSUME TypeOK, Kept, NEW o \in ops, InvokeGiveUp(o) PROVE Kept'
<1>1. /\ UNCHANGED <<base, skipNewFn, reflection, constraints, genned, pts, prevPTS, copyTo, complex,
                     work, skipIDs, stale, phase, ret, cur, delta>>
      /\ skipNewFn /\ phase = "solve"
      /\ \A r \in ops : r.op # "invoke" => r \in ops'
  BY DEF InvokeGiveUp
<1>2. ComplexKept'
  <2>. SUFFICES ASSUME NEW n \in Nodes, n \notin skipIDs, NEW c \in complex[n],
                       n \notin stale, ~GivenUp(c), NEW k \in prevPTS[n],
                       NEW r \in OpsOf(c, k)
                PROVE  r \in ops' \/ Effect(r)'
    BY <1>1 DEF Kept, ComplexKept, GivenUp, Filtered
  <2>1. c.kind \in Kinds /\ c.kind \notin {"addr", "copy", "invoke"}
    BY <1>1 DEF TypeOK, GoodConstraint, IsComplex, GivenUp, Filtered
  <2>2. r.op # "invoke"
    BY <2>1 DEF OpsOf, Op, Kinds
  <2>3. r \in ops \/ Effect(r)
    BY DEF Kept, ComplexKept
  <2>. QED  BY <1>1, <2>2, <2>3 DEF Effect, EffectBasic
<1>3. EdgesKept'
  BY <1>1 DEF Kept, EdgesKept, InFlight
<1>4. LoopGoesOn'
  BY <1>1 DEF Kept, LoopGoesOn
<1>. QED  BY <1>1, <1>2, <1>3, <1>4, ConstraintsSame DEF Kept

\* Resolving a call keeps the body of a newly generated method.
LEMMA InvokeMethodKept ==
  ASSUME TypeOK, Kept, NEW o \in ops, InvokeMethod(o) PROVE Kept'
<1>. DEFINE f == Callee(o.dst, o.src)
<1>1. \A r \in ops : r \in ops' \/ Effect(r)'
  BY DEF InvokeMethod, Effect
<1>2. EdgesKept' /\ ComplexKept' /\ BlocksBare' /\ LoopGoesOn'
  BY <1>1, OpStepKept DEF InvokeMethod
<1>3. ConstraintsKept'
  <2>. SUFFICES ASSUME NEW c \in AllConstraints', c \notin constraints'
                PROVE  \/ c.kind = "addr" /\ c.arg \in pts[c.ptr]
                       \/ c.kind = "copy" /\ c.arg \in copyTo[c.ptr]
                       \/ IsComplex(c) /\ c \in complex[c.ptr]
    BY DEF ConstraintsKept, InvokeMethod
  <2>1. /\ genned' = genned \cup {f} /\ base' = base
        /\ constraints' = IF f \in genned THEN constraints
                          ELSE constraints \cup FnBody[f]
    BY DEF InvokeMethod
  <2>2. c \in AllConstraints /\ c \notin constraints
    BY <2>1 DEF AllConstraints
  <2>. QED  BY <2>2 DEF Kept, ConstraintsKept
<1>. QED  BY <1>2, <1>3 DEF Kept

\* The constraints the generator added are all attached, and a node whose
\* constraints have not seen its labels is stale or on the worklist.
LEMMA ProcessNewKept ==
  ASSUME TypeOK, Kept, ProcessNewConstraints PROVE Kept'
<1>1. /\ stale = {} /\ ops = {} /\ phase' = "loop" /\ constraints' = {}
      /\ UNCHANGED <<base, skipNewFn, reflection, genned, prevPTS, skipIDs, ops>> /\ phase = "new"
  BY DEF ProcessNewConstraints, Kept, LoopGoesOn
<1>2. \A n \in Nodes : pts[n] \subseteq pts'[n] /\ copyTo[n] \subseteq copyTo'[n]
  BY NewEffects
<1>3. \A c \in constraints : GoodConstraint(c)
  BY DEF TypeOK
<1>4. work \subseteq work'
  BY NewEffects
<1>5. ASSUME NEW n \in Nodes, copyTo[n] # {} \/ complex[n] # {}
      PROVE  n \in work' \/ pts'[n] = pts[n]
  <2>1. CASE \E c \in constraints : c.kind = "addr" /\ c.ptr = n
    BY <1>5, <2>1, NewEffects
  <2>2. CASE ~\E c \in constraints : c.kind = "addr" /\ c.ptr = n
    <3>1. \A l : l \in pts'[n] <=> l \in pts[n]
      BY <2>2, NewEffects
    <3>. QED  BY <3>1
  <2>. QED  BY <2>1, <2>2
<1>6. EdgesKept'
  <2>. SUFFICES ASSUME NEW s \in Nodes, s \notin skipIDs, NEW d \in copyTo'[s]
                PROVE  /\ s \in stale' \/ prevPTS[s] \subseteq pts'[d]
                       /\ s \in work' \/ pts'[s] \subseteq pts'[d]
    BY <1>1 DEF EdgesKept, InFlight
  <2>1. CASE d \in copyTo[s]
    <3>1. d \in Nodes
      BY <2>1 DEF TypeOK
    <3>2. prevPTS[s] \subseteq pts[d] /\ (s \in work \/ pts[s] \subseteq pts[d])
      BY <1>1, <2>1 DEF Kept, EdgesKept, InFlight
    <3>. QED  BY <1>2, <1>4, <1>5, <2>1, <3>1, <3>2
  <2>2. CASE d \notin copyTo[s]
    <3>1. PICK c \in constraints : c.kind = "copy" /\ c.ptr = s
      BY <2>2, NewEffects
    <3>2. pts'[s] # {} => s \in work' /\ (prevPTS[s] # {} => s \in stale')
      BY <3>1, NewEffects
    <3>3. prevPTS[s] \subseteq pts'[s]
      BY <1>2 DEF TypeOK
    <3>. QED  BY <3>2, <3>3
  <2>. QED  BY <2>1, <2>2
<1>7. ComplexKept'
  <2>. SUFFICES ASSUME NEW n \in Nodes, n \notin skipIDs, NEW c \in complex'[n]
                PROVE  /\ \/ n \in stale' \/ GivenUp(c)
                          \/ \A k \in prevPTS[n] : \A o \in OpsOf(c, k) : Effect(o)'
                       /\ n \in work' \/ pts'[n] = prevPTS[n]
    BY <1>1 DEF ComplexKept, GivenUp, Filtered
  <2>1. CASE c \in complex[n]
    <3>1. n \in work' \/ pts'[n] = prevPTS[n]
      BY <1>4, <1>5, <2>1 DEF Kept, ComplexKept
    <3>2. ASSUME ~GivenUp(c), NEW k \in prevPTS[n], NEW o \in OpsOf(c, k)
          PROVE  Effect(o)'
      <4>1. Effect(o)
        BY <1>1, <2>1, <3>2 DEF Kept, ComplexKept
      <4>2. GoodOp(o)
        <5>1. GoodConstraint(c) /\ IsComplex(c) /\ k \in LabelsAt[c.ptr]
          BY <2>1 DEF TypeOK
        <5>. QED  BY <3>2, <5>1, OpsGood
      <4>. QED  BY <1>1, <1>2, <4>1, <4>2, EffectMono
    <3>. QED  BY <3>1, <3>2
  <2>2. CASE c \notin complex[n]
    <3>1. c \in constraints /\ IsComplex(c) /\ c.ptr = n
      BY <2>2, NewEffects
    <3>2. c.kind # "addr"
      BY <3>1 DEF IsComplex
    <3>3. pts'[n] # {} => n \in work' /\ (prevPTS[n] # {} => n \in stale')
      BY <3>1, <3>2, NewEffects
    <3>4. prevPTS[n] \subseteq pts'[n]
      BY <1>2 DEF TypeOK
    <3>. QED  BY <3>3, <3>4
  <2>. QED  BY <2>1, <2>2
<1>8. ConstraintsKept'
  <2>. SUFFICES ASSUME NEW c \in AllConstraints
                PROVE  \/ c.kind = "addr" /\ c.arg \in pts'[c.ptr]
                       \/ c.kind = "copy" /\ c.arg \in copyTo'[c.ptr]
                       \/ IsComplex(c) /\ c \in complex'[c.ptr]
    BY <1>1 DEF ConstraintsKept, AllConstraints
  <2>1. c.ptr \in Nodes
    BY SystemsAssumption, FnsAssumption DEF AllConstraints, TypeOK, GoodConstraint
  <2>2. CASE c \in constraints
    BY <2>1, <2>2, NewEffects DEF IsComplex
  <2>3. CASE c \notin constraints
    BY <1>2, <2>1, <2>3, NewEffects DEF Kept, ConstraintsKept
  <2>. QED  BY <2>2, <2>3
<1>9. BlocksBare'
  <2>. SUFFICES ASSUME NEW b \in CallBlocks
                PROVE  copyTo'[b] = {} /\ complex'[b] = {}
    BY DEF BlocksBare
  <2>1. b \in Nodes /\ copyTo[b] = {} /\ complex[b] = {}
    BY NodesAssumption DEF Kept, BlocksBare
  <2>2. \A c \in constraints : c.ptr = b => c.kind = "addr"
    BY <1>3 DEF GoodConstraint
  <2>. QED  BY <2>1, <2>2, NewEffects DEF IsComplex
<1>10. LoopGoesOn'
  BY <1>1 DEF LoopGoesOn
<1>. QED  BY <1>6, <1>7, <1>8, <1>9, <1>10 DEF Kept

\* A stale node meets its new constraints with the labels it has already
\* propagated.
LEMMA SolveStaleKept ==
  ASSUME TypeOK, Kept, SolveStale PROVE Kept'
<1>1. PICK n \in stale : SolveConstraints(n, prevPTS[n], "loop") /\ stale' = stale \ {n}
  BY DEF SolveStale
<1>2. /\ UNCHANGED <<base, skipNewFn, reflection, constraints, genned, pts, prevPTS, copyTo, complex,
                     work, skipIDs>>
      /\ phase = "loop" /\ ops = {} /\ n \in work
  BY DEF SolveStale, TypeOK, Kept, LoopGoesOn
<1>3. phase' = "solve" /\ ret' = "loop" /\ cur' = n /\ delta' = prevPTS[n]
  BY <1>1 DEF SolveConstraints
<1>4. EdgesKept'
  BY <1>1, <1>2, <1>3 DEF Kept, EdgesKept, InFlight
<1>5. ComplexKept'
  <2>. SUFFICES ASSUME NEW m \in Nodes, m \notin skipIDs, NEW c \in complex[m]
                PROVE  /\ \/ m \in stale' \/ GivenUp(c)
                          \/ \A k \in prevPTS[m] : \A o \in OpsOf(c, k) :
                                o \in ops' \/ Effect(o)'
                       /\ m \in work \/ pts[m] = prevPTS[m]
    BY <1>2 DEF ComplexKept, GivenUp, Filtered
  <2>1. CASE m = n
    BY <1>1, <1>2, <2>1, AppliedOps DEF SolveConstraints
  <2>2. CASE m # n
    BY <1>1, <1>2, <2>2, EffectSame DEF Kept, ComplexKept
  <2>. QED  BY <2>1, <2>2
<1>6. LoopGoesOn'
  BY <1>2, <1>3 DEF LoopGoesOn
<1>. QED  BY <1>2, <1>4, <1>5, <1>6, ConstraintsSame DEF Kept

\* A node with nothing new to propagate may leave the worklist.
LEMMA TakeNothingToDoKept ==
  ASSUME TypeOK, Kept, NEW n \in Nodes, TakeNothingToDo(n) PROVE Kept'
<1>1. /\ UNCHANGED <<base, skipNewFn, reflection, constraints, genned, pts, prevPTS, copyTo, complex,
                     skipIDs, stale, ops>>
      /\ phase = "loop" /\ phase' = "new" /\ ops = {} /\ stale = {}
      /\ work' = work \ {n}
      /\ n \in skipIDs \/ pts[n] \subseteq prevPTS[n]
  BY DEF TakeNothingToDo, TakeMin, Skipped, Kept, LoopGoesOn
<1>2. \A m \in Nodes : prevPTS[m] \subseteq pts[m]
  BY DEF TypeOK
<1>3. EdgesKept'
  BY <1>1, <1>2 DEF Kept, EdgesKept, InFlight
<1>4. ComplexKept'
  BY <1>1, <1>2, EffectSame DEF Kept, ComplexKept, GivenUp, Filtered
<1>5. LoopGoesOn'
  BY <1>1 DEF LoopGoesOn
<1>. QED  BY <1>1, <1>3, <1>4, <1>5, ConstraintsSame DEF Kept

\* A node given up at the limit is exempt from then on.
LEMMA TakeAtLimitKept ==
  ASSUME TypeOK, Kept, NEW n \in Nodes, TakeAtLimit(n) PROVE Kept'
<1>1. /\ UNCHANGED <<base, skipNewFn, reflection, constraints, genned, pts, copyTo, complex, stale, ops>>
      /\ phase = "loop" /\ phase' = "new" /\ ops = {} /\ stale = {}
      /\ work' = work \ {n}
      /\ skipIDs' = skipIDs \cup {n}
      /\ \A m \in Nodes : m # n => prevPTS'[m] = prevPTS[m]
  BY DEF TakeAtLimit, TakeMin, Kept, LoopGoesOn, TypeOK
<1>2. EdgesKept'
  BY <1>1 DEF Kept, EdgesKept, InFlight
<1>3. ComplexKept'
  BY <1>1, EffectSame DEF Kept, ComplexKept, GivenUp, Filtered
<1>4. LoopGoesOn'
  BY <1>1 DEF LoopGoesOn
<1>. QED  BY <1>1, <1>2, <1>3, <1>4, ConstraintsSame DEF Kept

\* The labels of delta are pending in the rule applications and in flight for
\* the copy edges of the node taken.
LEMMA TakeAndSolveKept ==
  ASSUME TypeOK, Kept, NEW n \in Nodes, TakeAndSolve(n) PROVE Kept'
<1>1. /\ UNCHANGED <<base, skipNewFn, reflection, constraints, genned, pts, copyTo, complex, skipIDs, stale>>
      /\ phase = "loop" /\ ops = {} /\ stale = {} /\ work' = work \ {n}
      /\ prevPTS'[n] = pts[n]
      /\ \A m \in Nodes : m # n => prevPTS'[m] = prevPTS[m]
  BY DEF TakeAndSolve, TakeMin, Kept, LoopGoesOn, TypeOK
<1>2. /\ phase' = "solve" /\ ret' = "new" /\ cur' = n
      /\ delta' = pts[n] \ prevPTS[n]
      /\ ops' = UNION {Applied(c, k) : c \in complex[n], k \in pts[n] \ prevPTS[n]}
  BY DEF TakeAndSolve, SolveConstraints
<1>3. EdgesKept'
  <2>. SUFFICES ASSUME NEW s \in Nodes, s \notin skipIDs, NEW d \in copyTo[s]
                PROVE  /\ prevPTS'[s] \ InFlight(s)' \subseteq pts[d]
                       /\ s \in work' \/ pts[s] \ InFlight(s)' \subseteq pts[d]
    BY <1>1 DEF EdgesKept
  <2>1. prevPTS[s] \subseteq pts[d] /\ (s \in work \/ pts[s] \subseteq pts[d])
    BY <1>1 DEF Kept, EdgesKept, InFlight
  <2>2. CASE s = n
    BY <1>1, <1>2, <2>1, <2>2 DEF InFlight
  <2>3. CASE s # n
    BY <1>1, <1>2, <2>1, <2>3 DEF InFlight
  <2>. QED  BY <2>2, <2>3
<1>4. ComplexKept'
  <2>. SUFFICES ASSUME NEW m \in Nodes, m \notin skipIDs, NEW c \in complex[m]
                PROVE  /\ \/ GivenUp(c)
                          \/ \A k \in prevPTS'[m] : \A o \in OpsOf(c, k) :
                                o \in ops' \/ Effect(o)'
                       /\ m \in work' \/ pts[m] = prevPTS'[m]
    BY <1>1 DEF ComplexKept, GivenUp, Filtered
  <2>1. /\ GivenUp(c) \/ \A k \in prevPTS[m] : \A o \in OpsOf(c, k) : Effect(o)'
        /\ m \in work \/ pts[m] = prevPTS[m]
    BY <1>1, EffectSame DEF Kept, ComplexKept
  <2>2. CASE m = n
    BY <1>1, <1>2, <2>1, <2>2, AppliedOps
  <2>3. CASE m # n
    BY <1>1, <2>1, <2>3
  <2>. QED  BY <2>2, <2>3
<1>5. LoopGoesOn'
  BY <1>1, <1>2 DEF LoopGoesOn
<1>. QED  BY <1>1, <1>3, <1>4, <1>5, ConstraintsSame DEF Kept

\* The copy edges of the node receive delta, and the nodes that grow by it go
\* to the worklist.
LEMMA CopyEdgesKept ==
  ASSUME TypeOK, Kept, CopyEdges PROVE Kept'
<1>1. /\ UNCHANGED <<base, skipNewFn, reflection, constraints, genned, prevPTS, copyTo, complex, skipIDs,
                     stale, ret, ops>>
      /\ phase = "solve" /\ ops = {} /\ phase' = ret /\ ret \in {"new", "loop"}
      /\ pts' = [n \in Nodes |-> IF n \in copyTo[cur] THEN pts[n] \cup delta
                                  ELSE pts[n]]
      /\ work' = work \cup {n \in copyTo[cur] : ~(delta \subseteq pts[n])}
      /\ cur \in Nodes /\ delta \subseteq pts[cur]
  BY DEF CopyEdges, TypeOK
<1>2. /\ \A n \in Nodes : pts[n] \subseteq pts'[n]
      /\ \A n \in Nodes : pts'[n] = pts[n] \/ n \in work'
      /\ work \subseteq work'
  BY <1>1
<1>3. EdgesKept'
  <2>. SUFFICES ASSUME NEW s \in Nodes, s \notin skipIDs, NEW d \in copyTo[s]
                PROVE  /\ s \in stale \/ prevPTS[s] \subseteq pts'[d]
                       /\ s \in work' \/ pts'[s] \subseteq pts'[d]
    BY <1>1 DEF EdgesKept, InFlight
  <2>1. d \in Nodes
    BY DEF TypeOK
  <2>2. /\ s \in stale \/ prevPTS[s] \ InFlight(s) \subseteq pts[d]
        /\ s \in work \/ pts[s] \ InFlight(s) \subseteq pts[d]
    BY DEF Kept, EdgesKept
  <2>3. CASE s = cur
    <3>1. InFlight(s) = delta /\ pts'[d] = pts[d] \cup delta
      BY <1>1, <2>1, <2>3 DEF InFlight
    <3>. QED  BY <1>2, <2>2, <3>1
  <2>4. CASE s # cur
    <3>1. InFlight(s) = {}
      BY <2>4 DEF InFlight
    <3>. QED  BY <1>2, <2>1, <2>2, <3>1
  <2>. QED  BY <2>3, <2>4
<1>4. ComplexKept'
  <2>. SUFFICES ASSUME NEW n \in Nodes, n \notin skipIDs, NEW c \in complex[n]
                PROVE  /\ \/ n \in stale \/ GivenUp(c)
                          \/ \A k \in prevPTS[n] : \A o \in OpsOf(c, k) : Effect(o)'
                       /\ n \in work' \/ pts'[n] = prevPTS[n]
    BY <1>1 DEF ComplexKept, GivenUp, Filtered
  <2>1. n \in work' \/ pts'[n] = prevPTS[n]
    BY <1>2 DEF Kept, ComplexKept
  <2>2. ASSUME n \notin stale, ~GivenUp(c), NEW k \in prevPTS[n], NEW o \in OpsOf(c, k)
        PROVE  Effect(o)'
    <3>1. Effect(o)
      BY <1>1, <2>2 DEF Kept, ComplexKept
    <3>2. GoodOp(o)
      <4>1. GoodConstraint(c) /\ IsComplex(c) /\ k \in LabelsAt[c.ptr]
        BY <2>2 DEF TypeOK
      <4>. QED  BY <2>2, <4>1, OpsGood
    <3>. QED  BY <1>1, <1>2, <3>1, <3>2, EffectMono
  <2>. QED  BY <2>1, <2>2
<1>5. ConstraintsKept'
  BY <1>1, <1>2, ConstraintsGrow
<1>6. BlocksBare'
  BY <1>1 DEF Kept, BlocksBare
<1>7. LoopGoesOn'
  BY <1>1, <1>2 DEF Kept, LoopGoesOn
<1>. QED  BY <1>3, <1>4, <1>5, <1>6, <1>7 DEF Kept

\* At an empty worklist the points-to sets satisfy every rule application
\* that took effect, except for what flows out of a node given up.
LEMMA EffectSatisfied ==
  ASSUME TypeOK, EdgesKept, phase = "loop", work = {}, ops = {},
         NEW o, GoodOp(o), Effect(o)
  PROVE  SatOp(pts, o, skipIDs)
<1>1. ASSUME NEW r, GoodOp(r), EffectBasic(r) PROVE SatBasic(pts, r, skipIDs)
  <2>1. CASE r.op = "copy"
    <3>1. r.src \in Nodes
      BY <1>1 DEF GoodOp, OpType
    <3>. QED  BY <1>1, <2>1, <3>1 DEF EffectBasic, SatBasic, EdgesKept, InFlight
  <2>2. CASE r.op # "copy"
    BY <1>1, <2>2 DEF EffectBasic, SatBasic
  <2>. QED  BY <2>1, <2>2
<1>2. CASE o.op # "invoke"
  BY <1>1, <1>2 DEF Effect, SatOp
<1>3. CASE o.op = "invoke"
  <2>. SUFFICES ASSUME Callee(o.dst, o.src) # NoFn,
                       NEW r \in InvokeOps(o.dst, o.src, Callee(o.dst, o.src))
                PROVE  SatBasic(pts, r, skipIDs)
    BY <1>3 DEF SatOp
  <2>1. EffectBasic(r)
    BY <1>3 DEF Effect
  <2>2. GoodOp(r)
    BY <1>3, FnsAssumption DEF GoodOp, OpType
  <2>. QED  BY <1>1, <2>1, <2>2
<1>. QED  BY <1>2, <1>3

\* When solve() returns, the points-to sets are a solution.
LEMMA FinishSolved ==
  ASSUME TypeOK, Kept, Finish PROVE Solved'
<1>1. /\ phase = "loop" /\ stale = {} /\ work = {} /\ ops = {} /\ constraints = {}
      /\ UNCHANGED <<base, skipNewFn, reflection, genned, pts, skipIDs>>
  BY DEF Finish, Kept, LoopGoesOn
<1>. SUFFICES ASSUME NEW c \in AllConstraints, ~GivenUp(c)
              PROVE  Satisfies(pts, c, skipIDs)
  BY <1>1 DEF Solved, AllConstraints, GivenUp, Filtered
<1>2. GoodConstraint(c)
  BY SystemsAssumption, FnsAssumption DEF AllConstraints, TypeOK
<1>3. c.ptr \in Nodes
  BY <1>2 DEF GoodConstraint
<1>4. CASE c.kind = "addr" /\ c.arg \in pts[c.ptr]
  BY <1>4 DEF Satisfies
<1>5. CASE c.kind = "copy" /\ c.arg \in copyTo[c.ptr]
  BY <1>1, <1>3, <1>5 DEF Satisfies, Kept, EdgesKept, InFlight
<1>6. CASE IsComplex(c) /\ c \in complex[c.ptr]
  <2>1. CASE c.ptr \in skipIDs
    BY <1>6, <2>1 DEF Satisfies, IsComplex
  <2>2. ASSUME c.ptr \notin skipIDs, NEW k \in pts[c.ptr], NEW o \in OpsOf(c, k)
        PROVE  SatOp(pts, o, skipIDs)
    <3>1. pts[c.ptr] = prevPTS[c.ptr]
      BY <1>1, <1>3, <1>6, <2>2 DEF Kept, ComplexKept
    <3>2. Effect(o)
      BY <1>1, <1>3, <1>6, <2>2, <3>1 DEF Kept, ComplexKept
    <3>3. GoodOp(o)
      <4>1. k \in LabelsAt[c.ptr]
        BY <1>3, <2>2 DEF TypeOK
      <4>. QED  BY <1>2, <1>6, <2>2, <4>1, OpsGood
    <3>. QED  BY <1>1, <3>2, <3>3, EffectSatisfied DEF Kept
  <2>. QED  BY <1>6, <2>1, <2>2 DEF Satisfies, IsComplex
<1>. QED  BY <1>1, <1>4, <1>5, <1>6 DEF Kept, ConstraintsKept

\* Initially nothing is attached and every constraint is pending.
LEMMA LostInit == Init => NothingLost /\ Solved
<1>. SUFFICES ASSUME Init PROVE Kept /\ phase = "new"
  BY DEF NothingLost, Solved, Kept
<1>. QED
  BY NodesAssumption
     DEF Init, Kept, EdgesKept, ComplexKept, ConstraintsKept, BlocksBare,
         LoopGoesOn, AllConstraints

\* Every step keeps what was generated, and the last one leaves a solution.
LEMMA LostNext ==
  TypeOK /\ NothingLost /\ Solved /\ [Next]_vars => NothingLost' /\ Solved'
<1>. SUFFICES ASSUME TypeOK, NothingLost, Solved, [Next]_vars
              PROVE  NothingLost' /\ Solved'
  OBVIOUS
<1>1. CASE UNCHANGED vars
  <2>1. NothingLost'
    BY <1>1 DEF vars, NothingLost, EdgesKept, ComplexKept, ConstraintsKept,
                BlocksBare, LoopGoesOn, InFlight, Effect, EffectBasic,
                GivenUp, Filtered, AllConstraints
  <2>2. Solved'
    BY <1>1 DEF vars, Solved, GivenUp, Filtered, AllConstraints
  <2>. QED  BY <2>1, <2>2
<1>2. CASE phase # "done" /\ Next /\ ~Returned
  <2>1. Kept
    BY <1>2 DEF NothingLost, Kept
  <2>2. CASE Finish
    BY <2>1, <2>2, FinishSolved DEF Finish, NothingLost
  <2>3. CASE ~Finish
    <3>1. phase' # "done"
      <4>1. ret # "done"
        BY DEF TypeOK
      <4>2. SolveStale => phase' # "done"
        BY DEF SolveStale, SolveConstraints
      <4>3. \A n \in Nodes :
               (TakeNothingToDo(n) \/ TakeAtLimit(n) \/ TakeAndSolve(n))
                 => phase' # "done"
        BY DEF TakeNothingToDo, TakeAtLimit, TakeAndSolve, SolveConstraints
      <4>. QED
        BY <1>2, <2>3, <4>1, <4>2, <4>3
           DEF Next, ProcessNewConstraints, OnlineCopy, AddLabel, AddTarget,
               InvokeOutOfScope, InvokeGiveUp, InvokeMethod, CopyEdges
    <3>2. Kept'
      BY <1>2, <2>1, <2>3, ProcessNewKept, SolveStaleKept,
         TakeNothingToDoKept, TakeAtLimitKept, TakeAndSolveKept, OnlineCopyKept,
         AddLabelKept, AddTargetKept, InvokeOutOfScopeKept, InvokeGiveUpKept,
         InvokeMethodKept, CopyEdgesKept DEF Next
    <3>. QED  BY <3>1, <3>2 DEF Kept, NothingLost, Solved
  <2>. QED  BY <2>2, <2>3
<1>3. CASE phase = "done" /\ Next
  <2>1. Returned
    BY <1>3
       DEF Next, ProcessNewConstraints, SolveStale, TakeNothingToDo, TakeAtLimit,
           TakeAndSolve, TakeMin, OnlineCopy, AddLabel, AddTarget,
           InvokeOutOfScope, InvokeGiveUp, InvokeMethod, CopyEdges, Finish
  <2>. QED  BY <1>1, <2>1 DEF Returned
<1>. QED  BY <1>1, <1>2, <1>3 DEF Returned

\* Difference propagation loses nothing (solve.go, solveConstraints with
\* prevPTS and processNewConstraints with stale): in every reachable state
\* each constraint is pending, or attached and either up to date with the
\* labels of its node, due to be applied again, or given up.
THEOREM NothingLostCorrect == Spec => []NothingLost
<1>1. TypeOK /\ NothingLost /\ Solved /\ [Next]_vars => (TypeOK /\ NothingLost /\ Solved)'
  BY TypeNext, LostNext
<1>. QED  BY TypeInit, LostInit, <1>1, PTL DEF Spec

\* When solve() returns, the points-to sets satisfy every constraint, those
\* generated while solving included, for every constraint system: but for the
\* nodes given up at the limit, the calls with skipNewFn, and with Reflection
\* the type filters.
THEOREM SolvedCorrect == Spec => []Solved
<1>1. TypeOK /\ NothingLost /\ Solved /\ [Next]_vars => (TypeOK /\ NothingLost /\ Solved)'
  BY TypeNext, LostNext
<1>. QED  BY TypeInit, LostInit, <1>1, PTL DEF Spec
-----------------------------------------------------------------------------
(***************************************************************************)
(* Nothing is invented: the points-to sets lie below every solution.       *)
(***************************************************************************)
Justified(S) ==
  /\ Below(S)
  /\ \A s \in Nodes : \A d \in copyTo[s] : S[s] \subseteq S[d]
  /\ \A o \in ops : SatOp(S, o, {})
  /\ constraints \subseteq AllConstraints
  /\ \A n \in Nodes : complex[n] \subseteq AllConstraints

\* A solution admits every rule application of its constraints.
LEMMA SolutionOps ==
  ASSUME NEW S, TypeOK, Solution(S), Justified(S), NEW n \in Nodes,
         NEW d, d \subseteq pts[n],
         NEW o \in UNION {Applied(c, k) : c \in complex[n], k \in d}
  PROVE  SatOp(S, o, {})
<1>1. PICK c \in complex[n], k \in d : o \in OpsOf(c, k) /\ ~Filtered(c)
  BY AppliedOps
<1>2. c \in AllConstraints /\ k \in S[n]
  BY DEF Justified, Below
<1>3. IsComplex(c) /\ c.ptr = n
  BY DEF TypeOK
<1>. QED  BY <1>1, <1>2, <1>3 DEF Solution, Satisfies, IsComplex

\* The constraints generated never disappear, and the configuration is fixed:
\* a solution of what is generated later solves what is generated now.
LEMMA AllGrows ==
  ASSUME TypeOK, [Next]_vars
  PROVE  AllConstraints \subseteq AllConstraints' /\ reflection' = reflection
<1>1. base' = base /\ genned \subseteq genned' /\ reflection' = reflection
  BY DEF Next, ProcessNewConstraints, SolveStale, TakeNothingToDo, TakeAtLimit,
         TakeAndSolve, OnlineCopy, AddLabel, AddTarget, InvokeOutOfScope,
         InvokeGiveUp, InvokeMethod, CopyEdges, Finish, Returned, vars
<1>. QED  BY <1>1 DEF AllConstraints

\* Every step stays below every solution.
LEMMA JustifiedNext ==
  ASSUME NEW S, TypeOK, Solution(S), Justified(S), [Next]_vars
  PROVE  Justified(S)'
<1>. USE DEF Below
<1>0. AllConstraints \subseteq AllConstraints'
  BY AllGrows
<1>1. CASE ProcessNewConstraints
  <2>1. \A c \in constraints : c.ptr \in Nodes /\ c \in AllConstraints
    BY DEF TypeOK, GoodConstraint, Justified
  <2>2. Below(S)'
    <3>1. \A c \in constraints : c.kind = "addr" => c.arg \in S[c.ptr]
      BY <2>1 DEF Solution, Filtered, Satisfies
    <3>. QED  BY <1>1, <3>1, NewEffects DEF Justified
  <2>3. \A s \in Nodes : \A d \in copyTo'[s] : S[s] \subseteq S[d]
    <3>1. \A c \in constraints : c.kind = "copy" => S[c.ptr] \subseteq S[c.arg]
      BY <2>1 DEF Solution, Filtered, Satisfies, IsComplex
    <3>. SUFFICES ASSUME NEW s \in Nodes, NEW d \in copyTo'[s]
                  PROVE  S[s] \subseteq S[d]
      OBVIOUS
    <3>2. \/ d \in copyTo[s]
          \/ \E c \in constraints : c.kind = "copy" /\ c.ptr = s /\ c.arg = d
      BY <1>1, NewEffects
    <3>. QED  BY <3>1, <3>2 DEF Justified
  <2>4. \A n \in Nodes : complex'[n] \subseteq AllConstraints
    BY <1>1, <2>1, NewEffects DEF Justified
  <2>. QED  BY <1>0, <1>1, <2>2, <2>3, <2>4 DEF ProcessNewConstraints, Justified
<1>2. CASE SolveStale
  <2>1. PICK n \in stale : SolveConstraints(n, prevPTS[n], "loop")
    BY <1>2 DEF SolveStale
  <2>2. n \in Nodes /\ prevPTS[n] \subseteq pts[n]
    BY DEF TypeOK
  <2>3. \A o \in ops' : SatOp(S, o, {})
    BY <2>1, <2>2, SolutionOps DEF SolveConstraints
  <2>. QED  BY <1>0, <1>2, <2>3 DEF SolveStale, Justified
<1>3. ASSUME NEW n \in Nodes, TakeNothingToDo(n) PROVE Justified(S)'
  BY <1>0, <1>3 DEF TakeNothingToDo, Justified
<1>4. ASSUME NEW n \in Nodes, TakeAtLimit(n) PROVE Justified(S)'
  BY <1>0, <1>4 DEF TakeAtLimit, Justified
<1>5. ASSUME NEW n \in Nodes, TakeAndSolve(n) PROVE Justified(S)'
  <2>1. \A o \in ops' : SatOp(S, o, {})
    BY <1>5, SolutionOps DEF TakeAndSolve, SolveConstraints
  <2>. QED  BY <1>0, <1>5, <2>1 DEF TakeAndSolve, Justified
<1>6. ASSUME NEW o \in ops, OnlineCopy(o) PROVE Justified(S)'
  <2>1. S[o.src] \subseteq S[o.dst] /\ o.src \in Nodes /\ o.dst \in Nodes
    BY <1>6 DEF OnlineCopy, Justified, SatOp, SatBasic, TypeOK, GoodOp, OpType
  <2>2. CASE o.dst # o.src /\ o.dst \notin copyTo[o.src]
    <3>1. /\ copyTo' = [copyTo EXCEPT ![o.src] = @ \cup {o.dst}]
          /\ pts' = [pts EXCEPT ![o.dst] = @ \cup pts[o.src]]
      BY <1>6, <2>2 DEF OnlineCopy, Grow
    <3>2. Below(S)'
      BY <2>1, <3>1 DEF TypeOK, Justified
    <3>3. \A s \in Nodes : \A d \in copyTo'[s] : S[s] \subseteq S[d]
      BY <2>1, <3>1 DEF TypeOK, Justified
    <3>. QED  BY <1>0, <1>6, <3>2, <3>3 DEF OnlineCopy, Justified
  <2>3. CASE ~(o.dst # o.src /\ o.dst \notin copyTo[o.src])
    BY <1>0, <1>6, <2>3 DEF OnlineCopy, graph, Justified
  <2>. QED  BY <2>2, <2>3
<1>7. ASSUME NEW o \in ops, AddLabel(o) PROVE Justified(S)'
  <2>1. o.src \in S[o.dst] /\ o.dst \in Nodes
    BY <1>7 DEF AddLabel, Justified, SatOp, SatBasic, TypeOK, GoodOp, OpType
  <2>2. Below(S)'
    BY <1>7, <2>1 DEF AddLabel, Grow, TypeOK, Justified
  <2>. QED  BY <1>0, <1>7, <2>2 DEF AddLabel, Justified
<1>8. ASSUME NEW o \in ops, AddTarget(o) PROVE Justified(S)'
  <2>1. o.src \in S[o.dst] /\ o.dst \in Nodes
    BY <1>8 DEF AddTarget, Justified, SatOp, SatBasic, TypeOK, GoodOp, OpType
  <2>2. Below(S)'
    BY <1>8, <2>1 DEF AddTarget, TypeOK, Justified
  <2>. QED  BY <1>0, <1>8, <2>2 DEF AddTarget, Justified
<1>9. ASSUME NEW o \in ops, InvokeOutOfScope(o) PROVE Justified(S)'
  BY <1>0, <1>9 DEF InvokeOutOfScope, Justified
<1>10. ASSUME NEW o \in ops, InvokeGiveUp(o) PROVE Justified(S)'
  BY <1>0, <1>10 DEF InvokeGiveUp, Justified
<1>11. ASSUME NEW o \in ops, InvokeMethod(o) PROVE Justified(S)'
  <2>1. \A r \in InvokeOps(o.dst, o.src, Callee(o.dst, o.src)) : SatOp(S, r, {})
    BY <1>11, InvokeOpsBasic DEF InvokeMethod, Justified, SatOp
  <2>2. constraints' \subseteq AllConstraints'
    BY <1>0, <1>11 DEF InvokeMethod, Justified, AllConstraints
  <2>. QED  BY <1>0, <1>11, <2>1, <2>2 DEF InvokeMethod, Justified
<1>12. CASE CopyEdges
  <2>1. delta \subseteq S[cur] /\ cur \in Nodes
    BY <1>12 DEF CopyEdges, TypeOK, Justified
  <2>2. Below(S)'
    BY <1>12, <2>1 DEF CopyEdges, Justified
  <2>. QED  BY <1>0, <1>12, <2>2 DEF CopyEdges, Justified
<1>13. CASE Finish
  BY <1>0, <1>13 DEF Finish, Justified
<1>14. CASE UNCHANGED vars
  BY <1>0, <1>14 DEF vars, Justified
<1>. QED
  BY <1>1, <1>2, <1>3, <1>4, <1>5, <1>6, <1>7, <1>8, <1>9, <1>10, <1>11,
     <1>12, <1>13, <1>14 DEF Next, Returned

\* The solver is precise (solve.go): whatever the order of the worklist and
\* of the labels, it never puts a label into a points-to set that some
\* solution of the generated constraints leaves out; with Reflection, of those
\* that are no type filters.  With SolvedCorrect, the result without a limit is
\* the least solution of these constraints.
THEOREM LeastSolution ==
  ASSUME NEW CONSTANT S
  PROVE  Spec => [](Solution(S) => Below(S))
<1>1. Init => (Solution(S) => Justified(S))
  BY NodesAssumption DEF Init, Justified, Below, AllConstraints
<1>2. TypeOK /\ (Solution(S) => Justified(S)) /\ [Next]_vars
        => (Solution(S) => Justified(S))'
  <2>. SUFFICES ASSUME TypeOK, Solution(S) => Justified(S), [Next]_vars, Solution(S)'
                PROVE  Justified(S)'
    OBVIOUS
  <2>1. Solution(S)
    BY AllGrows DEF Solution, Filtered
  <2>. QED  BY <2>1, JustifiedNext
<1>3. (Solution(S) => Justified(S)) => (Solution(S) => Below(S))
  BY DEF Justified
<1>. QED  BY <1>1, <1>2, <1>3, TypeCorrect, PTL DEF Spec
=============================================================================
