------------------------------ MODULE MCSolver ------------------------------
(***************************************************************************)
(* Instances of Solver for TLC.                                            *)
(*                                                                         *)
(* Pointers: 51 and 52 point to structs, 53 to a struct's field.  The      *)
(* struct objects are 54 (field 55) and 56 (field 57); a field holds a     *)
(* struct pointer.  Calls: 1 and 2 are interface variables; 10, 12 and 14 are     *)
(* tagged objects (payloads 11, 13, 15) whose methods are f, g and an      *)
(* out-of-scope function; 20 and 24 are the blocks of two invoke call      *)
(* sites, 30 and 40 the function objects of f and g.                       *)
(***************************************************************************)
EXTENDS Solver

CONSTANT MaxConstraints  \* size of the constraint systems TLC enumerates

S == {54, 56}   \* the struct objects
F == {55, 57}   \* their fields
PointerNodes == 51..57

Menu == {Addr(51, 54), Addr(52, 56), Addr(53, 55), Copy(52, 51), Copy(51, 52),
         Load(52, 51, 1), Store(51, 1, 52), Load(51, 53, 0), Store(53, 0, 51),
         OffsetAddr(53, 51, 1), OffsetAddr(53, 52, 1),
         TypeFilter(52, 51, {54}), Untag(52, 51, {56})}

PointerSystems == {C \in SUBSET Menu : Cardinality(C) <= MaxConstraints}

-----------------------------------------------------------------------------
\* The call instance.  f reads variable 2, which is already solved when the
\* constraints of f are generated, and calls through it; g reads variable 1.
Tagged == {10, 12, 14}
CallNodes == {0, 1, 2} \cup (10..15) \cup (20..26) \cup (30..33) \cup (40..43)
AllNodes == CallNodes \cup PointerNodes
AllLabelsAt == [n \in AllNodes |->
  CASE n \in {51, 52, 55, 57} -> S [] n = 53 -> F [] n \in {0, 54, 56} -> {}
    [] n \in {20, 24} -> {30, 40} [] OTHER -> Tagged]
CallCalleeOf == [pk \in {20, 24} \X Tagged |->
  CASE pk[2] = 10 -> "f" [] pk[2] = 12 -> "g" [] pk[2] = 14 -> "none"]
CallFnObj == [f \in {"f", "g"} |-> IF f = "f" THEN 30 ELSE 40]
CallFnBody == [f \in {"f", "g"} |->
  IF f = "f" THEN {Copy(33, 31), Copy(33, 32), Invoke(2, 24)}
             ELSE {Copy(43, 1), Addr(42, 14)}]
CallSystems ==
  {{Addr(1, 10), Invoke(1, 20)} \cup C : C \in SUBSET
     {Addr(2, 12), Addr(11, 14), Copy(21, 2), Copy(1, 22),
      Store(1, 1, 2), Untag(2, 1, {10}), TypeFilter(2, 1, {10, 14})}}
AllSystems == CallSystems \cup PointerSystems

-----------------------------------------------------------------------------
\* One round of applying every constraint of C to T, without a worklist.
Round(C, T) ==
  LET O == Demanded(C, T) IN
  [n \in Nodes |-> T[n] \cup UNION {Carried(o, T) : o \in {o \in O : o.dst = n}}]

RECURSIVE Iterate(_, _)
Iterate(C, T) == LET U == Round(C, T) IN IF U = T THEN T ELSE Iterate(C, U)

NaiveSolution(C) == Iterate(C, [n \in Nodes |-> {}])

\* The worklist algorithm with difference propagation and online constraint
\* generation (solveDefault) computes exactly the least solution that naive
\* iteration over the same constraints computes, with Reflection over those
\* that are not type filters.
MatchesNaive ==
  phase = "done" => pts = NaiveSolution({c \in AllConstraints : ~Filtered(c)})
=============================================================================
