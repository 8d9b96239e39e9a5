--------------------------- MODULE SolverRefines ---------------------------
(***************************************************************************)
(* Proof that Solver implements PointsTo, for every constraint system,     *)
(* node table and limit.                                                   *)
(***************************************************************************)
EXTENDS SolverProofs, FiniteSetTheorems

\* The operators that PointsTo takes from Constraints are those of Solver.
LEMMA SameDemanded ==
  ASSUME NEW C, NEW S
  PROVE  PT!Demanded(C, S) = Demanded(C, S)
BY DEF PT!Demanded, Demanded, PT!OpsOf, OpsOf, PT!InvokeOps, InvokeOps, PT!Op, Op,
       PT!Callee, Callee, PT!IsComplex, IsComplex

LEMMA SameSatisfies ==
  ASSUME NEW S, NEW c, NEW X
  PROVE  PT!Satisfies(S, c, X) = Satisfies(S, c, X)
BY DEF PT!Satisfies, Satisfies, PT!SatOp, SatOp, PT!SatBasic, SatBasic,
       PT!OpsOf, OpsOf, PT!InvokeOps, InvokeOps, PT!Op, Op,
       PT!Callee, Callee, PT!IsComplex, IsComplex

LEMMA SameCarried ==
  ASSUME NEW o, NEW S
  PROVE  PT!Carried(o, S) = Carried(o, S)
BY DEF PT!Carried, Carried

LEMMA SameCardinality ==
  ASSUME NEW S
  PROVE  PT!Cardinality(S) = Cardinality(S)
BY DEF PT!Cardinality, Cardinality, PT!IsFiniteSet, IsFiniteSet

\* What Demanded holds, rule by rule.
DirectOp(C, S, o) ==
  \E c \in C : IsComplex(c) /\ \E k \in S[c.ptr] : o \in OpsOf(c, k)
LEMMA DemandedMember ==
  ASSUME NEW C, NEW S, NEW o
  PROVE  o \in Demanded(C, S) <=>
           \/ DirectOp(C, S, o) /\ o.op # "invoke"
           \/ \E q : /\ DirectOp(C, S, q)
                     /\ q.op = "invoke"
                     /\ Callee(q.dst, q.src) # NoFn
                     /\ o \in InvokeOps(q.dst, q.src, Callee(q.dst, q.src))
           \/ \E c \in C : c.kind = "copy" /\ o = Op("copy", c.arg, c.ptr)
           \/ \E c \in C : c.kind = "addr" /\ o = Op("label", c.ptr, c.arg)
<1>. DEFINE direct == UNION {UNION {OpsOf(c, k) : k \in S[c.ptr]} : c \in {c \in C : IsComplex(c)}}
            calls == {q \in direct : q.op = "invoke" /\ Callee(q.dst, q.src) # NoFn}
<1>1. \A q : q \in direct <=> DirectOp(C, S, q)
  BY DEF DirectOp
<1>. DEFINE A == {q \in direct : q.op # "invoke"}
            B == UNION {InvokeOps(q.dst, q.src, Callee(q.dst, q.src)) : q \in calls}
            E == {Op("copy", c.arg, c.ptr) : c \in {c \in C : c.kind = "copy"}}
            L == {Op("label", c.ptr, c.arg) : c \in {c \in C : c.kind = "addr"}}
<1>2. o \in Demanded(C, S) <=> o \in A \/ o \in B \/ o \in E \/ o \in L
  BY DEF Demanded
<1>3. o \in A <=> DirectOp(C, S, o) /\ o.op # "invoke"
  BY <1>1
<1>4. \A q : q \in calls <=> /\ DirectOp(C, S, q)
                             /\ q.op = "invoke"
                             /\ Callee(q.dst, q.src) # NoFn
  BY <1>1
<1>. HIDE DEF direct, calls
<1>5. o \in B <=>
        \E q : q \in calls /\ o \in InvokeOps(q.dst, q.src, Callee(q.dst, q.src))
  OBVIOUS
<1>6. o \in E <=> \E c \in C : c.kind = "copy" /\ o = Op("copy", c.arg, c.ptr)
  OBVIOUS
<1>7. o \in L <=> \E c \in C : c.kind = "addr" /\ o = Op("label", c.ptr, c.arg)
  OBVIOUS
<1>. HIDE DEF A, B, E, L
<1>8. o \in B <=> \E q : /\ DirectOp(C, S, q)
                         /\ q.op = "invoke"
                         /\ Callee(q.dst, q.src) # NoFn
                         /\ o \in InvokeOps(q.dst, q.src, Callee(q.dst, q.src))
  BY <1>4, <1>5
<1>. QED  BY <1>3, <1>6, <1>7, <1>2, <1>8

\* Demand only grows with the constraints and the points-to sets.
LEMMA DemandedMono ==
  ASSUME NEW C, NEW D, NEW S, NEW T, C \subseteq D,
         \A c \in C : S[c.ptr] \subseteq T[c.ptr]
  PROVE  Demanded(C, S) \subseteq Demanded(D, T)
<1>1. \A q : DirectOp(C, S, q) => DirectOp(D, T, q)
  BY DEF DirectOp
<1>. QED  BY <1>1, DemandedMember
-----------------------------------------------------------------------------
(***************************************************************************)
(* The invariant behind the refinement: whatever the solver still has to   *)
(* do, and every copy edge it follows, is demanded by the constraints      *)
(* generated and the labels found so far.                                  *)
(***************************************************************************)
Pending(o) ==
  IF o.op = "invoke"
  THEN \E c \in AllConstraints :
          c.kind = "invoke" /\ c.arg = o.dst /\ o.src \in pts[c.ptr]
  ELSE o \in Demanded(AllConstraints, pts)

NothingInvented ==
  /\ constraints \subseteq AllConstraints
  /\ \A n \in Nodes : complex[n] \subseteq AllConstraints
  /\ \A o \in ops : Pending(o)
  /\ \A s \in Nodes : \A d \in copyTo[s] :
        Op("copy", d, s) \in Demanded(AllConstraints, pts)
  /\ skipIDs \subseteq PT!AtLimit

\* Everything generated is well typed.
LEMMA AllGood ==
  ASSUME TypeOK PROVE \A c \in AllConstraints : GoodConstraint(c) /\ c.ptr \in Nodes
BY SystemsAssumption, FnsAssumption DEF AllConstraints, TypeOK, GoodConstraint

\* Points-to sets only grow.
LEMMA PtsGrow ==
  ASSUME TypeOK, [Next]_vars PROVE \A n \in Nodes : pts[n] \subseteq pts'[n]
<1>1. CASE ProcessNewConstraints
  BY <1>1, NewEffects
<1>2. ASSUME NEW o \in ops, OnlineCopy(o) \/ AddLabel(o) \/ AddTarget(o)
      PROVE  \A n \in Nodes : pts[n] \subseteq pts'[n]
  <2>1. o.dst \in Nodes
    BY DEF TypeOK, GoodOp, OpType
  <2>. QED  BY <1>2, <2>1 DEF OnlineCopy, AddLabel, AddTarget, Grow, graph, TypeOK
<1>3. CASE CopyEdges
  BY <1>3 DEF CopyEdges
<1>4. CASE UNCHANGED pts
  BY <1>4
<1>. QED
  BY <1>1, <1>2, <1>3, <1>4
     DEF Next, SolveStale, TakeNothingToDo, TakeAtLimit, TakeAndSolve,
         InvokeOutOfScope, InvokeGiveUp, InvokeMethod, Finish, Returned, vars

\* What is demanded stays demanded.
LEMMA DemandKept ==
  ASSUME TypeOK, [Next]_vars
  PROVE  /\ Demanded(AllConstraints, pts) \subseteq Demanded(AllConstraints, pts)'
         /\ \A o : Pending(o) => Pending(o)'
<1>1. AllConstraints \subseteq AllConstraints'
  BY AllGrows
<1>2. \A c \in AllConstraints : pts[c.ptr] \subseteq pts'[c.ptr]
  BY AllGood, PtsGrow
<1>3. Demanded(AllConstraints, pts) \subseteq Demanded(AllConstraints', pts')
  BY <1>1, <1>2, DemandedMono
<1>4. ASSUME NEW o, Pending(o) PROVE Pending(o)'
  BY <1>1, <1>2, <1>3, <1>4 DEF Pending
<1>. QED  BY <1>3, <1>4

\* The calls among the rule applications are those of invoke constraints.
LEMMA InvokeOf ==
  ASSUME NEW c, GoodConstraint(c), NEW k, NEW o
  PROVE  o \in OpsOf(c, k) /\ IsComplex(c) /\ o.op = "invoke" <=>
           c.kind = "invoke" /\ o = Op("invoke", c.arg, k)
<1>1. c.kind \in Kinds
  BY DEF GoodConstraint
<1>. QED  BY <1>1 DEF Kinds, OpsOf, Op, IsComplex

\* A call of solveConstraints starts with rule applications that are demanded.
LEMMA SolvePending ==
  ASSUME TypeOK, NothingInvented, NEW n \in Nodes, NEW d, d \subseteq pts[n],
         NEW o \in UNION {Applied(c, k) : c \in complex[n], k \in d}
  PROVE  Pending(o)
<1>1. PICK c \in complex[n], k \in d : o \in OpsOf(c, k)
  BY AppliedOps
<1>2. c \in AllConstraints /\ IsComplex(c) /\ c.ptr = n /\ GoodConstraint(c)
  BY DEF NothingInvented, TypeOK
<1>3. CASE o.op = "invoke"
  <2>1. c.kind = "invoke" /\ o = Op("invoke", c.arg, k)
    BY <1>1, <1>2, <1>3, InvokeOf
  <2>2. o.dst = c.arg /\ o.src = k
    BY <2>1 DEF Op
  <2>. QED  BY <1>2, <1>3, <2>1, <2>2 DEF Pending
<1>4. CASE o.op # "invoke"
  <2>1. DirectOp(AllConstraints, pts, o)
    BY <1>1, <1>2 DEF DirectOp
  <2>. QED  BY <1>4, <2>1, DemandedMember DEF Pending
<1>. QED  BY <1>3, <1>4

\* The parts of a resolved call are demanded.
LEMMA InvokePending ==
  ASSUME TypeOK, NEW o \in ops, o.op = "invoke", Pending(o),
         Callee(o.dst, o.src) # NoFn,
         NEW r \in InvokeOps(o.dst, o.src, Callee(o.dst, o.src))
  PROVE  Pending(r)
<1>1. PICK c \in AllConstraints :
        c.kind = "invoke" /\ c.arg = o.dst /\ o.src \in pts[c.ptr]
  BY DEF Pending
<1>2. GoodConstraint(c)
  BY AllGood
<1>3. o = Op("invoke", c.arg, o.src)
  BY <1>1 DEF TypeOK, GoodOp, OpType, Op
<1>4. o \in OpsOf(c, o.src) /\ IsComplex(c)
  BY <1>1, <1>2, <1>3, InvokeOf
<1>5. DirectOp(AllConstraints, pts, o)
  BY <1>1, <1>4 DEF DirectOp
<1>6. r \in Demanded(AllConstraints, pts)
  BY <1>5, DemandedMember
<1>7. r.op # "invoke"
  BY InvokeOpsBasic
<1>. QED  BY <1>6, <1>7 DEF Pending

\* A node that has reached the limit stays at it.
LEMMA LimitKept ==
  ASSUME TypeOK, [Next]_vars PROVE PT!AtLimit \subseteq PT!AtLimit'
<1>1. TypeOK'
  BY TypeNext
<1>. SUFFICES ASSUME NEW n \in PT!AtLimit PROVE n \in PT!AtLimit'
  OBVIOUS
<1>0. n \in Nodes /\ PtsLimit > 0 /\ Cardinality(pts[n]) >= PtsLimit
  BY SameCardinality DEF PT!AtLimit
<1>2. pts'[n] \subseteq Nodes
  BY <1>0, <1>1, NodesAssumption DEF TypeOK
<1>3. IsFiniteSet(pts'[n])
  BY <1>2, FS_Subset, NodesAssumption
<1>4. pts[n] \subseteq pts'[n]
  BY <1>0, PtsGrow
<1>5. IsFiniteSet(pts[n]) /\ Cardinality(pts[n]) <= Cardinality(pts'[n])
  BY <1>3, <1>4, FS_Subset
<1>6. Cardinality(pts[n]) \in Nat /\ Cardinality(pts'[n]) \in Nat
  BY <1>3, <1>5, FS_CardinalityType
<1>7. Cardinality(pts'[n]) >= PtsLimit
  BY <1>0, <1>5, <1>6, FlagsAssumption
<1>8. PT!Cardinality(pts'[n]) = Cardinality(pts'[n])
  BY SameCardinality
<1>. QED  BY <1>0, <1>7, <1>8 DEF PT!AtLimit

\* Initially there is nothing to justify.
LEMMA InventedInit == Init => NothingInvented
BY NodesAssumption DEF Init, NothingInvented, AllConstraints

\* Every step keeps the invariant.
LEMMA InventedNext ==
  TypeOK /\ NothingInvented /\ [Next]_vars => NothingInvented'
<1>. SUFFICES ASSUME TypeOK, NothingInvented, [Next]_vars PROVE NothingInvented'
  OBVIOUS
<1>0. /\ AllConstraints \subseteq AllConstraints'
      /\ PT!AtLimit \subseteq PT!AtLimit'
  BY AllGrows, LimitKept
<1>1. CASE ProcessNewConstraints
  <2>1. \A s \in Nodes : \A d \in copyTo'[s] :
           Op("copy", d, s) \in Demanded(AllConstraints, pts)
    <3>. SUFFICES ASSUME NEW s \in Nodes, NEW d \in copyTo'[s]
                  PROVE  Op("copy", d, s) \in Demanded(AllConstraints, pts)
      OBVIOUS
    <3>1. CASE d \in copyTo[s]
      BY <3>1 DEF NothingInvented
    <3>2. CASE \E c \in constraints : c.kind = "copy" /\ c.ptr = s /\ c.arg = d
      BY <3>2, DemandedMember DEF NothingInvented
    <3>. QED  BY <1>1, <3>1, <3>2, NewEffects
  <2>2. \A n \in Nodes : complex'[n] \subseteq AllConstraints
    BY <1>1, NewEffects DEF NothingInvented
  <2>3. ops' = ops /\ constraints' = {} /\ skipIDs' = skipIDs
    BY <1>1 DEF ProcessNewConstraints
  <2>. QED  BY <1>0, <2>1, <2>2, <2>3, DemandKept DEF NothingInvented
<1>2. CASE SolveStale
  <2>1. PICK n \in stale : SolveConstraints(n, prevPTS[n], "loop")
    BY <1>2 DEF SolveStale
  <2>2. n \in Nodes /\ prevPTS[n] \subseteq pts[n]
    BY DEF TypeOK
  <2>3. \A o \in ops' : Pending(o)
    BY <2>1, <2>2, SolvePending DEF SolveConstraints
  <2>. QED  BY <1>0, <1>2, <2>3, DemandKept DEF SolveStale, NothingInvented
<1>3. ASSUME NEW n \in Nodes, TakeNothingToDo(n) PROVE NothingInvented'
  BY <1>0, <1>3, DemandKept DEF TakeNothingToDo, NothingInvented
<1>4. ASSUME NEW n \in Nodes, TakeAtLimit(n) PROVE NothingInvented'
  <2>1. n \in PT!AtLimit
    BY <1>4, SameCardinality DEF TakeAtLimit, AtLimit, PT!AtLimit
  <2>. QED  BY <1>0, <1>4, <2>1, DemandKept DEF TakeAtLimit, NothingInvented
<1>5. ASSUME NEW n \in Nodes, TakeAndSolve(n) PROVE NothingInvented'
  <2>1. \A o \in ops' : Pending(o)
    BY <1>5, SolvePending DEF TakeAndSolve, SolveConstraints
  <2>. QED  BY <1>0, <1>5, <2>1, DemandKept DEF TakeAndSolve, NothingInvented
<1>6. ASSUME NEW o \in ops, OnlineCopy(o) PROVE NothingInvented'
  <2>1. \A s \in Nodes : \A d \in copyTo'[s] :
           Op("copy", d, s) \in Demanded(AllConstraints, pts)
    <3>1. o = Op("copy", o.dst, o.src) /\ o.src \in Nodes
      BY <1>6 DEF OnlineCopy, TypeOK, GoodOp, OpType, Op
    <3>2. o \in Demanded(AllConstraints, pts)
      BY <1>6 DEF OnlineCopy, NothingInvented, Pending
    <3>3. \A s \in Nodes : \A d \in copyTo'[s] :
             d \in copyTo[s] \/ (s = o.src /\ d = o.dst)
      BY <1>6, <3>1 DEF OnlineCopy, graph, TypeOK
    <3>. QED  BY <3>1, <3>2, <3>3 DEF NothingInvented
  <2>. QED  BY <1>0, <1>6, <2>1, DemandKept DEF OnlineCopy, NothingInvented
<1>7. ASSUME NEW o \in ops, AddLabel(o) PROVE NothingInvented'
  BY <1>0, <1>7, DemandKept DEF AddLabel, NothingInvented
<1>8. ASSUME NEW o \in ops, AddTarget(o) PROVE NothingInvented'
  BY <1>0, <1>8, DemandKept DEF AddTarget, NothingInvented
<1>9. ASSUME NEW o \in ops, InvokeOutOfScope(o) PROVE NothingInvented'
  BY <1>0, <1>9, DemandKept DEF InvokeOutOfScope, NothingInvented
<1>10. ASSUME NEW o \in ops, InvokeGiveUp(o) PROVE NothingInvented'
  BY <1>0, <1>10, DemandKept DEF InvokeGiveUp, NothingInvented
<1>11. ASSUME NEW o \in ops, InvokeMethod(o) PROVE NothingInvented'
  <2>1. \A r \in InvokeOps(o.dst, o.src, Callee(o.dst, o.src)) : Pending(r)
    BY <1>11, InvokePending DEF InvokeMethod, NothingInvented
  <2>2. \A r \in ops' : Pending(r)
    BY <1>11, <2>1 DEF InvokeMethod, NothingInvented
  <2>3. constraints' \subseteq AllConstraints'
    BY <1>0, <1>11 DEF InvokeMethod, NothingInvented, AllConstraints
  <2>. QED  BY <1>0, <1>11, <2>2, <2>3, DemandKept DEF InvokeMethod, NothingInvented
<1>12. CASE CopyEdges
  BY <1>0, <1>12, DemandKept DEF CopyEdges, NothingInvented
<1>13. CASE Finish
  BY <1>0, <1>13, DemandKept DEF Finish, NothingInvented
<1>14. CASE UNCHANGED vars
  BY <1>0, <1>14, DemandKept DEF vars, NothingInvented
<1>. QED
  BY <1>1, <1>2, <1>3, <1>4, <1>5, <1>6, <1>7, <1>8, <1>9, <1>10, <1>11,
     <1>12, <1>13, <1>14 DEF Next, Returned
-----------------------------------------------------------------------------
(***************************************************************************)
(* Every step of the solver is a step of PointsTo or leaves it unchanged.  *)
(***************************************************************************)
\* Exempting more nodes only weakens what a constraint demands.
LEMMA SatisfiesMono ==
  ASSUME NEW S, NEW c, NEW X, NEW Y, X \subseteq Y, Satisfies(S, c, X)
  PROVE  Satisfies(S, c, Y)
<1>1. ASSUME NEW o, SatBasic(S, o, X) PROVE SatBasic(S, o, Y)
  BY <1>1 DEF SatBasic
<1>2. ASSUME NEW o, SatOp(S, o, X) PROVE SatOp(S, o, Y)
  BY <1>1, <1>2 DEF SatOp
<1>. QED  BY <1>2 DEF Satisfies

\* A step that adds only labels that are demanded is a Derive step.
LEMMA Derived ==
  ASSUME phase # "done", phase' # "done", UNCHANGED <<base, skipNewFn, reflection, genned>>,
         DOMAIN pts' = Nodes,
         \A n \in Nodes : pts[n] \subseteq pts'[n],
         \A n \in Nodes : \A l \in pts'[n] :
            \/ l \in pts[n]
            \/ \E o \in Demanded(AllConstraints, pts) : o.dst = n /\ l \in Carried(o, pts)
  PROVE  PT!Derive
<1>1. PT!Known = AllConstraints
  BY DEF PT!Known, AllConstraints
<1>2. PT!Demanded(PT!Known, pts) = Demanded(AllConstraints, pts)
  BY <1>1, SameDemanded
<1>. DEFINE O == PT!Demanded(PT!Known, pts)
<1>3. ASSUME NEW n \in Nodes
      PROVE  pts'[n] \subseteq
               pts[n] \cup UNION {PT!Carried(o, pts) : o \in {o \in O : o.dst = n}}
  <2>. SUFFICES ASSUME NEW l \in pts'[n], l \notin pts[n]
                PROVE  l \in UNION {PT!Carried(o, pts) : o \in {o \in O : o.dst = n}}
    OBVIOUS
  <2>1. PICK o \in O : o.dst = n /\ l \in Carried(o, pts)
    BY <1>2
  <2>. HIDE DEF O
  <2>. QED  BY <2>1, SameCarried
<1>. QED  BY <1>3 DEF PT!Derive

\* The labels that one rule application adds are demanded.
LEMMA OpDerived ==
  ASSUME TypeOK, NothingInvented, NEW o \in ops, o.op # "invoke",
         phase = "solve", phase' = phase, UNCHANGED <<base, skipNewFn, reflection, genned>>,
         pts' = [pts EXCEPT ![o.dst] = @ \cup Carried(o, pts)]
  PROVE  PT!Derive
<1>1. o.dst \in Nodes /\ DOMAIN pts = Nodes
  BY DEF TypeOK, GoodOp, OpType
<1>2. o \in Demanded(AllConstraints, pts)
  BY DEF NothingInvented, Pending
<1>3. /\ DOMAIN pts' = Nodes
      /\ \A n \in Nodes : pts[n] \subseteq pts'[n]
      /\ \A n \in Nodes : \A l \in pts'[n] :
            l \in pts[n] \/ (o.dst = n /\ l \in Carried(o, pts))
  BY <1>1
<1>. QED  BY <1>2, <1>3, Derived

LEMMA StepRefines ==
  TypeOK /\ NothingLost /\ NothingInvented /\ [Next]_vars => [PT!Next]_(PT!vars)
<1>. SUFFICES ASSUME TypeOK, NothingLost, NothingInvented, [Next]_vars
              PROVE  [PT!Next]_(PT!vars)
  OBVIOUS
<1>1. CASE ProcessNewConstraints
  <2>1. DOMAIN pts' = Nodes /\ \A n \in Nodes : pts[n] \subseteq pts'[n]
    BY <1>1, NewEffects
  <2>2. \A n \in Nodes : \A l \in pts'[n] :
            \/ l \in pts[n]
            \/ \E o \in Demanded(AllConstraints, pts) : o.dst = n /\ l \in Carried(o, pts)
    <3>. SUFFICES ASSUME NEW n \in Nodes, NEW l \in pts'[n], l \notin pts[n]
                  PROVE  \E o \in Demanded(AllConstraints, pts) :
                            o.dst = n /\ l \in Carried(o, pts)
      OBVIOUS
    <3>1. PICK c \in constraints : c.kind = "addr" /\ c.ptr = n /\ c.arg = l
      BY <1>1, NewEffects
    <3>2. Op("label", n, l) \in Demanded(AllConstraints, pts)
      BY <3>1, DemandedMember DEF NothingInvented
    <3>3. Op("label", n, l).dst = n /\ l \in Carried(Op("label", n, l), pts)
      BY DEF Op, Carried
    <3>. QED  BY <3>2, <3>3
  <2>3. phase # "done" /\ phase' # "done" /\ UNCHANGED <<base, skipNewFn, reflection, genned>>
    BY <1>1 DEF ProcessNewConstraints
  <2>. QED  BY <2>1, <2>2, <2>3, Derived DEF PT!Next
<1>2. ASSUME NEW o \in ops, OnlineCopy(o) PROVE [PT!Next]_(PT!vars)
  <2>1. CASE o.dst # o.src /\ o.dst \notin copyTo[o.src]
    <3>1. pts' = [pts EXCEPT ![o.dst] = @ \cup Carried(o, pts)]
      BY <1>2, <2>1 DEF OnlineCopy, Grow, Carried
    <3>. QED  BY <1>2, <3>1, OpDerived DEF OnlineCopy, PT!Next
  <2>2. CASE ~(o.dst # o.src /\ o.dst \notin copyTo[o.src])
    BY <1>2, <2>2 DEF OnlineCopy, graph, PT!vars
  <2>. QED  BY <2>1, <2>2
<1>3. ASSUME NEW o \in ops, AddLabel(o) PROVE [PT!Next]_(PT!vars)
  <2>1. pts' = [pts EXCEPT ![o.dst] = @ \cup Carried(o, pts)]
    BY <1>3 DEF AddLabel, Grow, Carried
  <2>. QED  BY <1>3, <2>1, OpDerived DEF AddLabel, PT!Next
<1>4. ASSUME NEW o \in ops, AddTarget(o) PROVE [PT!Next]_(PT!vars)
  <2>1. pts' = [pts EXCEPT ![o.dst] = @ \cup Carried(o, pts)]
    BY <1>4 DEF AddTarget, Carried
  <2>. QED  BY <1>4, <2>1, OpDerived DEF AddTarget, PT!Next
<1>5. ASSUME NEW o \in ops, InvokeMethod(o) PROVE [PT!Next]_(PT!vars)
  <2>1. PICK c \in AllConstraints :
          c.kind = "invoke" /\ c.arg = o.dst /\ o.src \in pts[c.ptr]
    BY <1>5 DEF InvokeMethod, NothingInvented, Pending
  <2>2. /\ phase = "solve" /\ UNCHANGED <<base, skipNewFn, reflection, pts, phase>>
        /\ Callee(o.dst, o.src) # NoFn
        /\ genned' = genned \cup {Callee(o.dst, o.src)}
    BY <1>5 DEF InvokeMethod
  <2>3. CASE skipNewFn
    <3>1. Callee(o.dst, o.src) \in genned
      BY <1>5, <2>3 DEF InvokeMethod, InGlobalObj
    <3>2. UNCHANGED genned
      BY <2>2, <3>1
    <3>. QED  BY <2>2, <3>2 DEF PT!vars
  <2>4. CASE ~skipNewFn
    <3>1. PT!Known = AllConstraints
      BY DEF PT!Known, AllConstraints
    <3>2. PT!Callee(c.arg, o.src) = Callee(o.dst, o.src)
      BY <2>1 DEF PT!Callee, Callee
    <3>3. PT!Generate
      BY <2>1, <2>2, <2>4, <3>1, <3>2 DEF PT!Generate
    <3>. QED  BY <3>3 DEF PT!Next
  <2>. QED  BY <2>3, <2>4
<1>6. CASE CopyEdges
  <2>1. cur \in Nodes /\ delta \subseteq pts[cur] /\ ret # "done"
    BY <1>6 DEF CopyEdges, TypeOK
  <2>2. \A n \in Nodes : \A l \in pts'[n] :
            \/ l \in pts[n]
            \/ \E o \in Demanded(AllConstraints, pts) : o.dst = n /\ l \in Carried(o, pts)
    <3>. SUFFICES ASSUME NEW n \in Nodes, NEW l \in pts'[n], l \notin pts[n]
                  PROVE  \E o \in Demanded(AllConstraints, pts) :
                            o.dst = n /\ l \in Carried(o, pts)
      OBVIOUS
    <3>1. n \in copyTo[cur] /\ l \in pts[cur]
      BY <1>6, <2>1 DEF CopyEdges
    <3>2. Op("copy", n, cur) \in Demanded(AllConstraints, pts)
      BY <2>1, <3>1 DEF NothingInvented
    <3>3. Op("copy", n, cur).dst = n /\ l \in Carried(Op("copy", n, cur), pts)
      BY <3>1 DEF Op, Carried
    <3>. QED  BY <3>2, <3>3
  <2>3. /\ phase # "done" /\ phase' # "done"
        /\ UNCHANGED <<base, skipNewFn, reflection, genned>>
        /\ DOMAIN pts' = Nodes /\ \A n \in Nodes : pts[n] \subseteq pts'[n]
    BY <1>6, <2>1 DEF CopyEdges
  <2>. QED  BY <2>2, <2>3, Derived DEF PT!Next
<1>7. CASE Finish
  <2>1. /\ phase = "loop" /\ phase' = "done"
        /\ UNCHANGED <<base, skipNewFn, reflection, genned, pts, skipIDs>>
    BY <1>7 DEF Finish
  <2>2. Kept
    BY <2>1 DEF NothingLost, Kept
  <2>3. \A c \in AllConstraints : GivenUp(c) \/ Satisfies(pts, c, skipIDs)
    BY <1>7, <2>1, <2>2, FinishSolved DEF Solved, GivenUp, Filtered, AllConstraints
  <2>4. PT!Known = AllConstraints
    BY DEF PT!Known, AllConstraints
  <2>5. \A c \in PT!Known : \/ PT!Satisfies(pts, c, PT!AtLimit)
                            \/ skipNewFn /\ c.kind = "invoke"
                            \/ reflection /\ c.kind = "typeFilter"
    BY <2>3, <2>4, SatisfiesMono, SameSatisfies DEF NothingInvented, GivenUp, Filtered
  <2>6. PT!Finish
    BY <2>1, <2>5 DEF PT!Finish
  <2>. QED  BY <2>6 DEF PT!Next
<1>8. ASSUME phase # "done", phase' # "done", UNCHANGED <<base, skipNewFn, reflection, genned, pts>>
      PROVE  [PT!Next]_(PT!vars)
  BY <1>8 DEF PT!vars
<1>9. CASE SolveStale
  BY <1>8, <1>9 DEF SolveStale, SolveConstraints
<1>10. ASSUME NEW n \in Nodes, TakeNothingToDo(n) \/ TakeAtLimit(n) \/ TakeAndSolve(n)
       PROVE  [PT!Next]_(PT!vars)
  BY <1>8, <1>10 DEF TakeNothingToDo, TakeAtLimit, TakeAndSolve, TakeMin, SolveConstraints
<1>11. ASSUME NEW o \in ops, InvokeOutOfScope(o) \/ InvokeGiveUp(o)
       PROVE  [PT!Next]_(PT!vars)
  BY <1>8, <1>11 DEF InvokeOutOfScope, InvokeGiveUp
<1>12. CASE UNCHANGED vars
  BY <1>12 DEF vars, PT!vars
<1>. QED
  BY <1>1, <1>2, <1>3, <1>4, <1>5, <1>6, <1>7, <1>9, <1>10, <1>11, <1>12
     DEF Next, Returned

\* The worklist solver of solve.go, with its difference propagation, its copy
\* edges, its online generation of functions and its limit, implements the
\* abstract specification of the points-to analysis: a label is added only
\* when a constraint demands it, a function is generated only when a call
\* reaches it, and solve() returns only when nothing is demanded but by nodes
\* at the limit, calls with skipNewFn and, with Reflection, type filters.
THEOREM Refinement == Spec => ImplementsPointsTo
<1>1. Init => PT!Init
  BY DEF Init, PT!Init
<1>2. TypeOK /\ NothingLost /\ NothingInvented /\ [Next]_vars => [PT!Next]_(PT!vars)
  BY StepRefines
<1>3. Spec => []NothingInvented
  BY InventedInit, InventedNext, TypeCorrect, PTL DEF Spec
<1>. QED
  BY <1>1, <1>2, <1>3, TypeCorrect, NothingLostCorrect, PTL
     DEF Spec, ImplementsPointsTo, PT!Spec
=============================================================================
