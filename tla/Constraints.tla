---------------------------- MODULE Constraints ----------------------------
(***************************************************************************)
(* The inclusion constraints of the pointer analysis                       *)
(* (gopta/go/pointer/constraint.go, and the solve methods of solve.go):    *)
(* what each kind demands of the points-to sets.                           *)
(***************************************************************************)
EXTENDS Integers, FiniteSets

CONSTANTS
  Nodes,        \* the nodeids in use, 0 included
  LabelsAt,     \* LabelsAt[n]: the objects the static type of n admits
  Systems,      \* the sets of constraints the generator may hand over
  Fns,          \* methods whose bodies are generated on demand
  NoFn,         \* "out of scope": genMissingFn returned 0
  Shared,       \* those with one shared contour, kept in a.globalobj
  CalleeOf,     \* CalleeOf[p, k]: the instance of the method LookupMethod finds
                \* for label k in the context of the call site with block p
  FnObj,        \* FnObj[f]: the function object; its P/R block follows it
  FnBody,       \* FnBody[f]: the constraints genFunc adds for f
  CallBlocks,   \* heads of the P/R blocks of the invoke call sites
  PtsLimit      \* flags.PTSLimit; 0 means no limit

-----------------------------------------------------------------------------
(***************************************************************************)
(* Constraints.  ptr is the node a constraint is attached to, arg the      *)
(* other node.  A type is represented by the set of labels whose dynamic   *)
(* type passes the test (AssignableTo or Identical).                       *)
(***************************************************************************)
Constraint(kind, ptr, arg, off, sel) ==
  [kind |-> kind, ptr |-> ptr, arg |-> arg, off |-> off, sel |-> sel]

Addr(dst, src)            == Constraint("addr", dst, src, 0, {})
Copy(dst, src)            == Constraint("copy", src, dst, 0, {})
Load(dst, src, off)       == Constraint("load", src, dst, off, {})
Store(dst, off, src)      == Constraint("store", dst, src, off, {})
OffsetAddr(dst, src, off) == Constraint("offsetAddr", src, dst, off, {})
TypeFilter(dst, src, typ) == Constraint("typeFilter", src, dst, 0, typ)
Untag(dst, src, typ)      == Constraint("untag", src, dst, 0, typ)
Invoke(iface, params)     == Constraint("invoke", iface, params, 0, {})

IsComplex(c) == c.kind \notin {"addr", "copy"}

(***************************************************************************)
(* What a complex constraint c demands for one label k of its node, as     *)
(* constraint.go says: a copy edge, a label, or the resolution of a call.  *)
(* taggedValue: the payload of a tagged object is the node after it.       *)
(***************************************************************************)
Op(kind, dst, src) == [op |-> kind, dst |-> dst, src |-> src]

OpsOf(c, k) ==
  CASE c.kind = "load"       -> {Op("copy", c.arg, k + c.off)}
    [] c.kind = "store"      -> {Op("copy", k + c.off, c.arg)}
    [] c.kind = "offsetAddr" -> {Op("label", c.arg, k + c.off)}
    [] c.kind = "typeFilter" -> IF k \in c.sel
                                THEN {Op("label", c.arg, k)} ELSE {}
    [] c.kind = "untag"      -> IF k \in c.sel
                                THEN {Op("copy", c.arg, k + 1)} ELSE {}
    [] c.kind = "invoke"     -> {Op("invoke", c.arg, k)}

\* The method that label k selects at the call site with block p, or NoFn.
Callee(p, k) == CalleeOf[<<p, k>>]

\* eachSolve, for a method with one parameter and one result: the function
\* object becomes a target of the call site, then receiver, parameter and
\* result are copied between the block of the call site and that of f.
InvokeOps(params, k, f) ==
  {Op("target", params, FnObj[f]),
   Op("copy", FnObj[f] + 1, k + 1),
   Op("copy", FnObj[f] + 2, params + 1),
   Op("copy", params + 2, FnObj[f] + 3)}

-----------------------------------------------------------------------------
(***************************************************************************)
(* Assumptions on the constants.  Go's static types bound what a node may  *)
(* point to, and every constraint respects them: without this k + offset   *)
(* could leave the object, or the node table.  No constraint reads the     *)
(* head of a call site's block (solve.go: "it never has attached           *)
(* constraints").                                                          *)
(***************************************************************************)
Labels == UNION {LabelsAt[n] : n \in Nodes}

OpType == [op : {"copy", "label", "target", "invoke"}, dst : Nodes, src : Nodes]

GoodOp(o) ==
  /\ o \in OpType
  /\ o.op = "copy" => /\ o.src \notin CallBlocks
                      /\ LabelsAt[o.src] \subseteq LabelsAt[o.dst]
  /\ o.op \in {"label", "target"} => o.src \in LabelsAt[o.dst]
  /\ o.op \in {"target", "invoke"} => o.dst \in CallBlocks
  /\ o.op = "invoke" => <<o.dst, o.src>> \in DOMAIN CalleeOf

Kinds == {"addr", "copy", "load", "store", "offsetAddr", "typeFilter",
          "untag", "invoke"}

GoodConstraint(c) ==
  /\ c.kind \in Kinds
  /\ c.ptr \in Nodes
  /\ c.arg \in Nodes
  /\ c.kind = "addr" => c.arg \in LabelsAt[c.ptr]
  /\ c.kind # "addr" => c.ptr \notin CallBlocks
  /\ c.kind = "copy" => LabelsAt[c.ptr] \subseteq LabelsAt[c.arg]
  /\ IsComplex(c) => \A k \in LabelsAt[c.ptr] : \A o \in OpsOf(c, k) :
                        GoodOp(o) /\ o.op # "target"

ASSUME NodesAssumption ==
  /\ Nodes \subseteq Nat
  /\ IsFiniteSet(Nodes)
  /\ 0 \in Nodes
  /\ CallBlocks \subseteq Nodes
  /\ LabelsAt \in [Nodes -> SUBSET Nodes]
  /\ LabelsAt[0] = {}
ASSUME FlagsAssumption == PtsLimit \in Nat
ASSUME SystemsAssumption ==
  \A C \in Systems : \A c \in C : GoodConstraint(c)
ASSUME FnsAssumption ==
  /\ NoFn \notin Fns
  /\ Shared \subseteq Fns
  /\ \A f \in Fns : \A c \in FnBody[f] : GoodConstraint(c)
  /\ \A p \in CallBlocks, k \in Nodes :
        <<p, k>> \in DOMAIN CalleeOf /\ Callee(p, k) # NoFn =>
          /\ Callee(p, k) \in Fns
          /\ \A o \in InvokeOps(p, k, Callee(p, k)) :
                GoodOp(o) /\ o.op \in {"copy", "target"}
-----------------------------------------------------------------------------
(***************************************************************************)
(* S satisfies a rule application, and a constraint: the inclusions        *)
(* written above each constraint type in constraint.go.  What flows out of *)
(* a node in X is exempt.                                                  *)
(***************************************************************************)
SatBasic(S, o, X) ==
  IF o.op = "copy" THEN o.src \in X \/ S[o.src] \subseteq S[o.dst]
                   ELSE o.src \in S[o.dst]
SatOp(S, o, X) ==
  IF o.op = "invoke"
  THEN Callee(o.dst, o.src) # NoFn =>
         \A r \in InvokeOps(o.dst, o.src, Callee(o.dst, o.src)) : SatBasic(S, r, X)
  ELSE SatBasic(S, o, X)
Satisfies(S, c, X) ==
  IF c.kind = "addr" THEN c.arg \in S[c.ptr]
  ELSE \/ c.ptr \in X
       \/ c.kind = "copy" /\ S[c.ptr] \subseteq S[c.arg]
       \/ IsComplex(c) /\ \A k \in S[c.ptr] : \A o \in OpsOf(c, k) :
                              SatOp(S, o, X)

(***************************************************************************)
(* The rule applications that constraints C demand of points-to sets S,    *)
(* calls resolved, and the labels one of them carries.                     *)
(***************************************************************************)
Demanded(C, S) ==
  LET direct == UNION {UNION {OpsOf(c, k) : k \in S[c.ptr]} : c \in {c \in C : IsComplex(c)}}
      calls == {o \in direct : o.op = "invoke" /\ Callee(o.dst, o.src) # NoFn}
  IN {o \in direct : o.op # "invoke"} \cup
     (UNION {InvokeOps(o.dst, o.src, Callee(o.dst, o.src)) : o \in calls}) \cup
     {Op("copy", c.arg, c.ptr) : c \in {c \in C : c.kind = "copy"}} \cup
     {Op("label", c.ptr, c.arg) : c \in {c \in C : c.kind = "addr"}}
Carried(o, S) == IF o.op = "copy" THEN S[o.src] ELSE {o.src}
=============================================================================
