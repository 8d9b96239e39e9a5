------------------------------ MODULE PointsTo ------------------------------
(***************************************************************************)
(* What the constraint solver promises, however it orders its work: labels *)
(* are only added when a constraint demands them, the constraints of a     *)
(* function are only added when a call reaches it, and the end is declared *)
(* only when nothing is demanded any more.                                 *)
(***************************************************************************)
EXTENDS Constraints

VARIABLES
  base,    \* the constraints the generator handed over
  skip,    \* no more functions are generated
  reflection, \* type assertions to an interface may be left out
  genned,  \* function instances generated so far
  pts,     \* the points-to sets
  done     \* solve() has returned

vars == <<base, skip, reflection, genned, pts, done>>

Known == base \cup UNION {FnBody[f] : f \in genned}

Init ==
  /\ base \in Systems
  /\ skip \in BOOLEAN
  /\ reflection \in BOOLEAN
  /\ genned \in SUBSET Shared
  /\ pts = [n \in Nodes |-> {}]
  /\ done = FALSE

\* Some of the labels that are demanded are added.
Derive ==
  /\ ~done
  /\ DOMAIN pts' = Nodes
  /\ LET O == Demanded(Known, pts) IN
       \A n \in Nodes :
          /\ pts[n] \subseteq pts'[n]
          /\ pts'[n] \subseteq pts[n] \cup UNION {Carried(o, pts) : o \in {o \in O : o.dst = n}}
  /\ UNCHANGED <<base, skip, reflection, genned, done>>

\* The method that a label selects at a call is generated.
Generate ==
  /\ ~done /\ ~skip
  /\ \E c \in {c \in Known : c.kind = "invoke"} : \E k \in pts[c.ptr] :
        Callee(c.arg, k) # NoFn /\ genned' = genned \cup {Callee(c.arg, k)}
  /\ UNCHANGED <<base, skip, reflection, pts, done>>

\* The constraints are satisfied; with a limit, what flows out of a node that
\* has reached it may be missing, what calls demand if no functions are
\* generated any more, and with reflection what type filters demand.
AtLimit == {n \in Nodes : PtsLimit > 0 /\ Cardinality(pts[n]) >= PtsLimit}
Finish ==
  /\ ~done
  /\ \A c \in Known : \/ Satisfies(pts, c, AtLimit)
                      \/ skip /\ c.kind = "invoke"
                      \/ reflection /\ c.kind = "typeFilter"
  /\ done' = TRUE
  /\ UNCHANGED <<base, skip, reflection, genned, pts>>

Next == Derive \/ Generate \/ Finish

Spec == Init /\ [][Next]_vars
=============================================================================
