-------------------------- MODULE TraversalProofs --------------------------
(***************************************************************************)
(* What the traversal keeps, for all plain programs, limits and names: the *)
(* numbering of the goroutines, their go statements, the call stack, the   *)
(* worklist and insMono.                                                   *)
(*                                                                         *)
(* None of the five properties is inductive.  insGo numbers a goroutine    *)
(* after the last one on the worklist, or after the current one when the   *)
(* worklist is empty, which is right only because the goroutine being      *)
(* visited is always the last one met; visitGo takes the next one only     *)
(* when the call stack is empty, and that says that nothing is being       *)
(* visited only if library functions, which are not on it, stand on        *)
(* functions that are.  The invariant Inv ties the activations, the call   *)
(* stack, the records and the worklist together.                           *)
(*                                                                         *)
(* A sequence of the state has elements of no particular set: IsSeq.       *)
(***************************************************************************)
EXTENDS Traversal, TLAPS, FiniteSetTheorems, SequenceTheorems

IsSeq(s) == \E S : s \in Seq(S)

(***************************************************************************)
(* The inductive invariant, part by part, as predicates of what it relates.*)
(***************************************************************************)
Insn(p, ins) == p[ins[1]][ins[2]].instrs[ins[3]]
HasInsn(p, ins) ==
  /\ ins[1] \in DOMAIN p
  /\ ins[2] \in DOMAIN p[ins[1]]
  /\ ins[3] \in DOMAIN p[ins[1]][ins[2]].instrs
AllDefers(p, s) ==
  /\ IsSeq(s)
  /\ \A n \in 1..Len(s) : HasInsn(p, s[n]) /\ Insn(p, s[n]).op = "defer"

\* An activation is in range, and what it records goes to the goroutine that
\* was met last, which has recorded its go statement.
Fields == {"fn", "goID", "b", "i", "at", "size", "toDefer", "run", "toUnlock",
           "toRUnlock", "skipped"}
Local(fr, p) ==
  /\ DOMAIN fr = Fields
  /\ fr.fn \in DOMAIN p
  /\ fr.at \in Frames
  /\ fr.at = "enter" => fr.b = 1 /\ fr.i = 1 /\ fr.fn # Entry
  /\ fr.at \in {"instr", "back", "defers"} => HasInsn(p, Ins(fr))
  /\ fr.at = "defers" => Insn(p, Ins(fr)).op = "rundefers"
  /\ AllDefers(p, fr.toDefer) /\ AllDefers(p, fr.run)
InLast(fr, R) ==
  fr.at # "visit" => /\ fr.goID = Len(R) - 1
                     /\ fr.goID > 0 => R[Len(R)] # <<>>

\* BalancedCalls, and why the call stack is not empty in a library function.
Balanced(frames, fns) ==
  /\ Cardinality(Live(frames)) = Len(fns)
  /\ \A n \in Live(frames) : frames[n].fn = fns[Rank(frames, n)].fn
  /\ \A n \in DOMAIN frames :
       frames[n].fn \in LibFns /\ frames[n].at # "visit" => \E m \in Live(frames) : m < n

\* The goroutines met and those on the worklist are all there are, in order.
Numbered(R, work, stack, caller) ==
  /\ Len(R) + Len(work) = Len(stack)
  /\ \A n \in 1..Len(work) : work[n].goID = Len(R) + n - 1
  /\ DOMAIN caller = 1..(Len(stack) - 1)
  /\ \A g \in DOMAIN caller : caller[g] \in 0..(g - 1) /\ caller[g] < Len(R)

\* The go statement of every goroutine, met or not, is the last on its call
\* stack, recorded by its parent, and the first of its own records.
SpawnIns(stack, g) == stack[g + 1][Len(stack[g + 1])].ins
Spawned(p, R, stack, caller) ==
  \A g \in 1..(Len(stack) - 1) :
    /\ stack[g + 1] # <<>>
    /\ Insn(p, SpawnIns(stack, g)).op = "go"
    /\ \E n \in 1..Len(R[caller[g] + 1]) : R[caller[g] + 1][n].ins = SpawnIns(stack, g)
    /\ g < Len(R) /\ R[g + 1] # <<>> => R[g + 1][1].ins = SpawnIns(stack, g)
Waiting(p, work, stack) ==
  \A n \in 1..Len(work) : /\ work[n].ins = SpawnIns(stack, work[n].goID)
                          /\ work[n].fn \in Callable(p) \ LibFns

Twinned(twin, loops, stack, caller) ==
  \A ins \in DOMAIN twin :
    LET g == twin[ins][1]
        t == twin[ins][2]
    IN /\ g \in 1..(Len(stack) - 2) /\ t = g + 1
       /\ g \in DOMAIN loops /\ t \in DOMAIN loops
       /\ loops[g] = 1 /\ loops[t] = 2
       /\ caller[g] = caller[t]

GosOf(p, recs) == {n \in 1..Len(recs) : Insn(p, recs[n].ins).op = "go"}
FirstGo(p, recs, mono) ==
  IF GosOf(p, recs) = {} THEN mono = -1
  ELSE mono \in GosOf(p, recs) /\ \A n \in GosOf(p, recs) : mono <= n

Recs(R) == IsSeq(R) /\ R # <<>> /\ \A g \in 1..Len(R) : IsSeq(R[g])

\* The activations and the call stack they stand on; R is recorded.
CallsFit(p, frames, fns, R) ==
  /\ IsSeq(frames) /\ IsSeq(fns) /\ Recs(R)
  /\ \A n \in 1..Len(frames) : Local(frames[n], p) /\ InLast(frames[n], R)
  /\ Balanced(frames, fns)

\* The goroutines.
SpawnsFit(p, R, work, stack, caller, loops, twin) ==
  /\ IsSeq(work) /\ IsSeq(stack)
  /\ Numbered(R, work, stack, caller)
  /\ Spawned(p, R, stack, caller)
  /\ Waiting(p, work, stack)
  /\ Twinned(twin, loops, stack, caller)

\* Before the entry function is entered.
Before ==
  /\ prog \in Programs
  /\ cs = <<Activation(Entry, 0)>>
  /\ storeFns = <<[fn |-> Entry, ins |-> NoIns]>>
  /\ workList = <<>> /\ goStack = <<>> /\ goCaller = <<>> /\ loopIDs = <<>>
  /\ twinGoID = <<>> /\ RWIns = <<>> /\ insMono = -1

During ==
  /\ prog \in Programs
  /\ CallsFit(prog, cs, storeFns, RWIns)
  /\ SpawnsFit(prog, RWIns, workList, goStack, goCaller, loopIDs, twinGoID)
  /\ FirstGo(prog, RWIns[1], insMono)
  /\ cs = <<>> => workList = <<>>

Inv == Before \/ During
-----------------------------------------------------------------------------
LEMMA BelowLast ==
  ASSUME NEW k \in Nat
  PROVE  \A n \in 1..k : n # k => n \in 1..(k - 1)
OBVIOUS

LEMMA SeqFacts ==
  ASSUME NEW s, IsSeq(s)
  PROVE  /\ Len(s) \in Nat /\ DOMAIN s = 1..Len(s)
         /\ s = <<>> <=> Len(s) = 0
BY DEF IsSeq

LEMMA SeqEmpty == IsSeq(<<>>) /\ Len(<<>>) = 0
<1>1. <<>> \in Seq({})
  OBVIOUS
<1> QED
  BY <1>1 DEF IsSeq

LEMMA SeqAppend ==
  ASSUME NEW s, IsSeq(s), NEW x
  PROVE  LET t == Append(s, x)
         IN /\ IsSeq(t) /\ Len(t) = Len(s) + 1 /\ t[Len(s) + 1] = x
            /\ \A n \in 1..Len(s) : t[n] = s[n]
<1>1. PICK S : s \in Seq(S)
  BY DEF IsSeq
<1>2. s \in Seq(S \cup {x}) /\ x \in S \cup {x}
  BY <1>1
<1> QED
  BY <1>2 DEF IsSeq

LEMMA SeqOne ==
  ASSUME NEW x
  PROVE  LET t == Append(<<>>, x)
         IN IsSeq(t) /\ Len(t) = 1 /\ t[1] = x /\ t = <<x>>
<1>1. <<>> \in Seq({x}) /\ x \in {x}
  OBVIOUS
<1>2. Append(<<>>, x) = <<x>>
  BY <1>1
<1>3. <<x>> \in Seq({x}) /\ Len(<<x>>) = 1 /\ <<x>>[1] = x
  OBVIOUS
<1> QED
  BY <1>2, <1>3 DEF IsSeq

LEMMA SeqFront ==
  ASSUME NEW s, IsSeq(s), s # <<>>
  PROVE  LET t == SubSeq(s, 1, Len(s) - 1)
         IN /\ IsSeq(t) /\ Len(t) = Len(s) - 1
            /\ \A n \in 1..(Len(s) - 1) : t[n] = s[n]
<1>1. PICK S : s \in Seq(S)
  BY DEF IsSeq
<1>2. Len(s) \in Nat \ {0}
  BY <1>1
<1> DEFINE m == Len(s) - 1
<1>3. m \in Nat /\ \A i \in 1..m : s[i] \in S
  BY <1>1, <1>2
<1>4. /\ SubSeq(s, 1, m) \in Seq(S)
      /\ Len(SubSeq(s, 1, m)) = IF 1 <= m THEN m - 1 + 1 ELSE 0
      /\ \A i \in 1..(m - 1 + 1) : SubSeq(s, 1, m)[i] = s[1 + i - 1]
  <2> HIDE DEF m
  <2> QED
    BY <1>3, SubSeqProperties
<1>5. /\ SubSeq(s, 1, m) \in Seq(S)
      /\ Len(SubSeq(s, 1, m)) = m
      /\ \A i \in 1..m : SubSeq(s, 1, m)[i] = s[i]
  <2> HIDE DEF m
  <2>1. m - 1 + 1 = m /\ (~(1 <= m) => m = 0)
    BY <1>3
  <2>2. \A i \in 1..m : 1 + i - 1 = i
    BY <1>3
  <2> QED
    BY <1>4, <2>1, <2>2
<1> QED
  BY <1>5 DEF IsSeq

LEMMA SeqTail ==
  ASSUME NEW s, IsSeq(s), s # <<>>
  PROVE  LET t == Tail(s)
         IN /\ IsSeq(t) /\ Len(t) = Len(s) - 1 /\ Head(s) = s[1]
            /\ \A n \in 1..(Len(s) - 1) : t[n] = s[n + 1]
BY DEF IsSeq

LEMMA SeqConcat ==
  ASSUME NEW s, IsSeq(s), NEW t, IsSeq(t)
  PROVE  /\ IsSeq(s \o t) /\ Len(s \o t) = Len(s) + Len(t)
         /\ \A n \in 1..Len(s) : (s \o t)[n] = s[n]
         /\ \A n \in 1..Len(t) : (s \o t)[Len(s) + n] = t[n]
<1>1. PICK S, T : s \in Seq(S) /\ t \in Seq(T)
  BY DEF IsSeq
<1>2. s \in Seq(S \cup T) /\ t \in Seq(S \cup T)
  BY <1>1
<1> QED
  BY <1>2 DEF IsSeq

LEMMA SeqExcept ==
  ASSUME NEW s, IsSeq(s), NEW n \in 1..Len(s), NEW x
  PROVE  LET t == [s EXCEPT ![n] = x]
         IN /\ IsSeq(t) /\ Len(t) = Len(s) /\ t[n] = x
            /\ \A m \in 1..Len(s) : m # n => t[m] = s[m]
<1>1. PICK S : s \in Seq(S)
  BY DEF IsSeq
<1>2. s \in Seq(S \cup {x}) /\ x \in S \cup {x}
  BY <1>1
<1> QED
  BY <1>2 DEF IsSeq

LEMMA SeqConst ==
  ASSUME NEW k \in Nat, NEW x
  PROVE  LET t == [n \in 1..k |-> x]
         IN IsSeq(t) /\ Len(t) = k
<1>1. [n \in 1..k |-> x] \in Seq({x}) /\ Len([n \in 1..k |-> x]) = k
  OBVIOUS
<1> QED
  BY <1>1 DEF IsSeq
-----------------------------------------------------------------------------
(***************************************************************************)
(* The call stack.                                                         *)
(***************************************************************************)
LEMMA LiveFinite ==
  ASSUME NEW s, IsSeq(s)
  PROVE  /\ IsFiniteSet(Live(s)) /\ Live(s) \subseteq 1..Len(s)
         /\ \A n : IsFiniteSet({m \in Live(s) : m <= n})
<1>1. Len(s) \in Nat /\ DOMAIN s = 1..Len(s)
  BY SeqFacts
<1>2. Live(s) \subseteq 1..Len(s)
  BY <1>1 DEF Live
<1>3. IsFiniteSet(1..Len(s))
  BY <1>1, FS_Interval
<1> QED
  BY <1>2, <1>3, FS_Subset

LEMMA LeastNat ==
  ASSUME NEW S, S \subseteq Nat, S # {}
  PROVE  \E d \in S : \A e \in S : d <= e
<1> DEFINE R == OpToRel(<, Nat)
<1>1. \A d, e \in Nat : <<e, d>> \in R <=> e < d
  BY DEF OpToRel
<1>2. IsWellFoundedOn(R, Nat)
  BY NatLessThanWellFounded
<1> HIDE DEF R
<1>3. PICK d \in S : \A e \in S : ~(<<e, d>> \in R)
  BY <1>2, WFMin
<1>4. ASSUME NEW e \in S PROVE d <= e
  <2>1. d \in Nat /\ e \in Nat /\ ~(<<e, d>> \in R)
    BY <1>3
  <2>2. ~(e < d)
    BY <1>1, <2>1
  <2> QED
    BY <2>1, <2>2
<1> QED
  BY <1>4

LEMMA LastIn ==
  ASSUME NEW k \in Nat, NEW S, S \subseteq 1..k, S # {}
  PROVE  \E m \in S : \A n \in S : n <= m
<1>1. PICK a \in S : TRUE
  OBVIOUS
<1> DEFINE gap == {k - n : n \in S}
<1>2. gap \subseteq Nat /\ k - a \in gap
  BY <1>1
<1>3. PICK d \in gap : \A e \in gap : d <= e
  <2> HIDE DEF gap
  <2> QED
    BY <1>2, LeastNat
<1>4. PICK m \in S : d = k - m
  BY <1>3
<1>5. ASSUME NEW n \in S PROVE n <= m
  <2>1. d <= k - n
    BY <1>3
  <2> QED
    BY <1>4, <2>1
<1> QED
  BY <1>4, <1>5

\* Activations that differ in nothing that counts.
LEMMA BalancedSame ==
  ASSUME NEW s, NEW t, NEW fns, IsSeq(s), IsSeq(t), Len(t) = Len(s), Balanced(s, fns),
         \A n \in 1..Len(s) : t[n].fn = s[n].fn /\ (t[n].at = "visit" <=> s[n].at = "visit")
  PROVE  Balanced(t, fns)
<1>1. DOMAIN s = 1..Len(s) /\ DOMAIN t = 1..Len(s)
  BY SeqFacts
<1>2. Live(t) = Live(s)
  BY <1>1 DEF Live, Pushed
<1>3. \A n : Rank(t, n) = Rank(s, n)
  BY <1>2 DEF Rank
<1>4. Live(s) \subseteq 1..Len(s)
  BY <1>1 DEF Live
<1> QED
  BY <1>1, <1>2, <1>3, <1>4 DEF Balanced

\* More or fewer activations that are not on the call stack.
LEMMA BalancedOthers ==
  ASSUME NEW s, NEW t, NEW fns, IsSeq(s), IsSeq(t), Balanced(s, fns),
         \A n \in 1..Len(s) : n <= Len(t) => t[n] = s[n],
         \A n \in 1..Len(s) : n > Len(t) => ~Pushed(s[n]),
         \A n \in 1..Len(t) : n > Len(s) =>
            ~Pushed(t[n]) /\ (t[n].at # "visit" => Live(s) # {})
  PROVE  Balanced(t, fns)
<1>1. /\ DOMAIN s = 1..Len(s) /\ DOMAIN t = 1..Len(t)
      /\ Len(s) \in Nat /\ Len(t) \in Nat
  BY SeqFacts
<1>2. Live(t) = Live(s)
  <2>1. ASSUME NEW n \in Live(t) PROVE n \in Live(s)
    BY <1>1, <2>1 DEF Live
  <2>2. ASSUME NEW n \in Live(s) PROVE n \in Live(t)
    BY <1>1, <2>2 DEF Live
  <2> QED
    BY <2>1, <2>2
<1>3. \A n : Rank(t, n) = Rank(s, n)
  BY <1>2 DEF Rank
<1>4. Live(s) \subseteq 1..Len(s) /\ Live(t) \subseteq 1..Len(t)
  BY <1>1 DEF Live
<1>5. \A n \in Live(t) : t[n] = s[n]
  BY <1>1, <1>2, <1>4
<1>6. ASSUME NEW n \in DOMAIN t, t[n].fn \in LibFns, t[n].at # "visit"
      PROVE  \E m \in Live(t) : m < n
  <2>1. CASE n <= Len(s)
    <3>1. t[n] = s[n] /\ n \in DOMAIN s
      BY <1>1, <2>1
    <3> QED
      BY <1>2, <1>6, <3>1 DEF Balanced
  <2>2. CASE n > Len(s)
    <3>1. PICK m \in Live(s) : TRUE
      BY <1>1, <1>6, <2>2
    <3>2. m < n
      BY <1>1, <1>4, <2>2
    <3> QED
      BY <1>2, <3>1, <3>2
  <2> QED
    BY <1>1, <2>1, <2>2
<1> QED
  BY <1>2, <1>3, <1>5, <1>6 DEF Balanced

\* The topmost one has the last place on the call stack.
LEMMA TopRank ==
  ASSUME NEW s, IsSeq(s), NEW n \in Live(s), \A m \in Live(s) : m <= n
  PROVE  Rank(s, n) = Cardinality(Live(s))
<1>1. {m \in Live(s) : m <= n} = Live(s)
  OBVIOUS
<1> QED
  BY <1>1 DEF Rank

LEMMA RankRange ==
  ASSUME NEW s, IsSeq(s), NEW n \in Live(s)
  PROVE  Rank(s, n) \in 1..Cardinality(Live(s))
<1> DEFINE below == {m \in Live(s) : m <= n}
<1>1. IsFiniteSet(Live(s)) /\ IsFiniteSet(below) /\ n \in Int
  BY LiveFinite
<1>2. below \subseteq Live(s) /\ n \in below
  BY <1>1
<1>3. Rank(s, n) = Cardinality(below)
  BY DEF Rank
<1> HIDE DEF below
<1>4. Cardinality(below) \in Nat /\ Cardinality(below) <= Cardinality(Live(s))
  BY <1>1, <1>2, FS_Subset, FS_CardinalityType
<1>5. Cardinality(below) # 0
  BY <1>1, <1>2, FS_EmptySet
<1>6. Cardinality(Live(s)) \in Nat
  BY <1>1, FS_CardinalityType
<1> QED
  BY <1>3, <1>4, <1>5, <1>6

\* A call of a function of interest.
LEMMA BalancedPush ==
  ASSUME NEW s, NEW fns, NEW x, NEW c, IsSeq(s), IsSeq(fns), Balanced(s, fns),
         Pushed(x), c.fn = x.fn
  PROVE  Balanced(Append(s, x), Append(fns, c))
<1> DEFINE t == Append(s, x)
           k == Len(s) + 1
<1>1. /\ IsSeq(t) /\ Len(t) = k /\ t[k] = x
      /\ \A n \in 1..Len(s) : t[n] = s[n]
  BY SeqAppend
<1>2. /\ Len(Append(fns, c)) = Len(fns) + 1 /\ Append(fns, c)[Len(fns) + 1] = c
      /\ \A n \in 1..Len(fns) : Append(fns, c)[n] = fns[n]
  BY SeqAppend
<1>3. /\ DOMAIN s = 1..Len(s) /\ DOMAIN t = 1..k /\ Len(s) \in Nat /\ Len(fns) \in Nat
  BY <1>1, SeqFacts
<1> HIDE DEF t
<1>4. Live(t) = Live(s) \cup {k}
  <2>1. ASSUME NEW n \in Live(t) PROVE n \in Live(s) \cup {k}
    BY <1>1, <1>3, <2>1 DEF Live
  <2>2. ASSUME NEW n \in Live(s) PROVE n \in Live(t)
    BY <1>1, <1>3, <2>2 DEF Live
  <2>3. k \in Live(t)
    BY <1>1, <1>3 DEF Live
  <2> QED
    BY <2>1, <2>2, <2>3
<1>5. IsFiniteSet(Live(s)) /\ Live(s) \subseteq 1..Len(s) /\ k \notin Live(s)
  BY <1>3, LiveFinite
<1>6. Cardinality(Live(t)) = Len(fns) + 1
  BY <1>4, <1>5, FS_AddElement DEF Balanced
<1>7. ASSUME NEW n \in Live(s)
      PROVE  Rank(t, n) = Rank(s, n) /\ Rank(s, n) \in 1..Len(fns)
  <2>1. {m \in Live(t) : m <= n} = {m \in Live(s) : m <= n}
    BY <1>3, <1>4, <1>5
  <2>2. Rank(s, n) \in 1..Cardinality(Live(s))
    BY RankRange
  <2> QED
    BY <2>1, <2>2 DEF Rank, Balanced
<1>8. Rank(t, k) = Len(fns) + 1
  <2>1. \A m \in Live(t) : m <= k
    BY <1>3, <1>4, <1>5
  <2> QED
    BY <1>1, <1>4, <1>6, <2>1, TopRank
<1>9. ASSUME NEW n \in Live(t) PROVE t[n].fn = Append(fns, c)[Rank(t, n)].fn
  <2>1. CASE n \in Live(s)
    BY <1>1, <1>2, <1>5, <1>7, <2>1 DEF Balanced
  <2>2. CASE n = k
    BY <1>1, <1>2, <1>8, <2>2
  <2> QED
    BY <1>4, <2>1, <2>2
<1>10. ASSUME NEW n \in DOMAIN t, t[n].fn \in LibFns, t[n].at # "visit"
       PROVE  \E m \in Live(t) : m < n
  <2>1. n # k
    BY <1>1, <1>10 DEF Pushed
  <2> QED
    BY <1>1, <1>3, <1>4, <1>10, <2>1 DEF Balanced
<1> QED
  BY <1>2, <1>6, <1>9, <1>10 DEF Balanced, t

\* The end of a function of interest.
LEMMA BalancedEnd ==
  ASSUME NEW s, NEW fns, NEW x, IsSeq(s), IsSeq(fns), Balanced(s, fns), s # <<>>,
         Pushed(s[Len(s)]), x.at = "visit"
  PROVE  /\ fns # <<>> /\ fns[Len(fns)].fn = s[Len(s)].fn
         /\ Balanced(Append(SubSeq(s, 1, Len(s) - 1), x), SubSeq(fns, 1, Len(fns) - 1))
<1> DEFINE r == SubSeq(s, 1, Len(s) - 1)
           t == Append(r, x)
           k == Len(s)
<1>1. /\ IsSeq(r) /\ Len(r) = k - 1 /\ \A n \in 1..(k - 1) : r[n] = s[n]
  BY SeqFront
<1>2. /\ DOMAIN s = 1..k /\ k \in Nat \ {0} /\ Len(fns) \in Nat
      /\ fns = <<>> <=> Len(fns) = 0
  BY SeqFacts
<1> HIDE DEF r
<1>3. /\ IsSeq(t) /\ Len(t) = k /\ t[k] = x
      /\ \A n \in 1..(k - 1) : t[n] = s[n]
  <2>1. /\ IsSeq(t) /\ Len(t) = Len(r) + 1 /\ t[Len(r) + 1] = x
        /\ \A n \in 1..Len(r) : t[n] = r[n]
    BY <1>1, SeqAppend
  <2> QED
    BY <1>1, <1>2, <2>1
<1>4. DOMAIN t = 1..k
  BY <1>3, SeqFacts
<1> HIDE DEF t
<1>5. k \in Live(s) /\ Live(t) = Live(s) \ {k}
  <2>1. k \in Live(s)
    BY <1>2 DEF Live
  <2>2. ASSUME NEW n \in Live(t) PROVE n \in Live(s) \ {k}
    BY <1>2, <1>3, <1>4, <2>2 DEF Live, Pushed
  <2>3. ASSUME NEW n \in Live(s), n # k PROVE n \in Live(t)
    BY <1>2, <1>3, <1>4, <2>3 DEF Live
  <2> QED
    BY <2>1, <2>2, <2>3
<1>6. IsFiniteSet(Live(s)) /\ Live(s) \subseteq 1..k /\ Live(t) \subseteq 1..k
  BY <1>3, LiveFinite
<1>7. Rank(s, k) = Len(fns) /\ Len(fns) # 0
  <2>1. \A m \in Live(s) : m <= k
    BY <1>2, <1>6
  <2>2. Rank(s, k) = Cardinality(Live(s))
    BY <1>5, <2>1, TopRank
  <2>3. Rank(s, k) \in 1..Cardinality(Live(s))
    BY <1>5, RankRange
  <2> QED
    BY <1>2, <2>2, <2>3 DEF Balanced
<1>8. fns # <<>> /\ fns[Len(fns)].fn = s[k].fn
  BY <1>2, <1>5, <1>7 DEF Balanced
<1> DEFINE u == SubSeq(fns, 1, Len(fns) - 1)
<1>9. Len(u) = Len(fns) - 1 /\ \A n \in 1..(Len(fns) - 1) : u[n] = fns[n]
  BY <1>8, SeqFront
<1> HIDE DEF u
<1>10. Cardinality(Live(t)) = Len(u)
  BY <1>5, <1>6, <1>9, FS_RemoveElement DEF Balanced
<1>11. ASSUME NEW n \in Live(t) PROVE t[n].fn = u[Rank(t, n)].fn
  <2>1. {m \in Live(t) : m <= n} = {m \in Live(s) : m <= n}
    BY <1>2, <1>5, <1>6
  <2>2. Rank(t, n) = Rank(s, n)
    BY <2>1 DEF Rank
  <2>3. Rank(t, n) \in 1..Len(u)
    BY <1>3, <1>10, RankRange
  <2>4. t[n] = s[n] /\ s[n].fn = fns[Rank(s, n)].fn
    BY <1>2, <1>3, <1>5, <1>6 DEF Balanced
  <2> QED
    BY <1>9, <2>2, <2>3, <2>4
<1>12. ASSUME NEW n \in DOMAIN t, t[n].fn \in LibFns, t[n].at # "visit"
       PROVE  \E m \in Live(t) : m < n
  <2>1. n # k /\ n \in DOMAIN s /\ t[n] = s[n]
    BY <1>2, <1>3, <1>4, <1>12
  <2>2. PICK m \in Live(s) : m < n
    BY <1>12, <2>1 DEF Balanced
  <2>3. m # k
    BY <1>2, <1>6, <2>1, <2>2
  <2> QED
    BY <1>5, <2>2, <2>3
<1>13. Balanced(t, u)
  BY <1>10, <1>11, <1>12 DEF Balanced
<1> QED
  BY <1>8, <1>13 DEF t, r, u

\* The end of a library function: the last of the call stack is of interest.
LEMMA BalancedEndLib ==
  ASSUME NEW s, NEW fns, NEW x, IsSeq(s), IsSeq(fns), Balanced(s, fns), s # <<>>,
         s[Len(s)].fn \in LibFns, s[Len(s)].at # "visit", x.fn = s[Len(s)].fn,
         x.at = "visit"
  PROVE  /\ fns # <<>>
         /\ \E n \in Live(s) : fns[Len(fns)].fn = s[n].fn
         /\ Balanced(Append(SubSeq(s, 1, Len(s) - 1), x), fns)
<1> DEFINE r == SubSeq(s, 1, Len(s) - 1)
           t == Append(r, x)
           k == Len(s)
<1>1. /\ IsSeq(r) /\ Len(r) = k - 1 /\ \A n \in 1..(k - 1) : r[n] = s[n]
  BY SeqFront
<1>2. /\ DOMAIN s = 1..k /\ k \in Nat \ {0} /\ Len(fns) \in Nat
      /\ fns = <<>> <=> Len(fns) = 0
  BY SeqFacts
<1>3. PICK m \in Live(s) : \A n \in Live(s) : n <= m
  <2>1. Live(s) # {} /\ IsFiniteSet(Live(s)) /\ Live(s) \subseteq 1..k
    BY <1>2, LiveFinite DEF Balanced
  <2>2. \E m \in Live(s) : \A n \in Live(s) : n <= m
    BY <1>2, <2>1, LastIn
  <2> QED
    BY <2>2
<1>4. Rank(s, m) = Len(fns) /\ Len(fns) # 0
  <2>1. Rank(s, m) = Cardinality(Live(s))
    BY <1>3, TopRank
  <2>2. Rank(s, m) \in 1..Cardinality(Live(s))
    BY <1>3, RankRange
  <2> QED
    BY <1>2, <2>1, <2>2 DEF Balanced
<1>5. fns # <<>> /\ fns[Len(fns)].fn = s[m].fn
  BY <1>2, <1>3, <1>4 DEF Balanced
<1> HIDE DEF r
<1>6. Balanced(r, fns)
  <2>1. ~Pushed(s[k])
    BY DEF Pushed
  <2> QED
    BY <1>1, <1>2, <2>1, BalancedOthers
<1>7. /\ IsSeq(t) /\ Len(t) = Len(r) + 1 /\ t[Len(r) + 1] = x
      /\ \A n \in 1..Len(r) : t[n] = r[n]
  BY <1>1, SeqAppend
<1> HIDE DEF t
<1>8. Balanced(t, fns)
  <2>1. ~Pushed(x)
    BY DEF Pushed
  <2>2. Len(r) \in Nat /\ Len(t) \in Nat
    BY <1>1, <1>7, SeqFacts
  <2>3. \A n \in 1..Len(t) : n > Len(r) => t[n] = x
    BY <1>7, <2>2
  <2>4. \A n \in 1..Len(r) : ~(n > Len(t))
    BY <1>7, <2>2
  <2> QED
    BY <1>1, <1>6, <1>7, <2>1, <2>3, <2>4, BalancedOthers
<1> QED
  BY <1>3, <1>5, <1>8 DEF t, r

\* When the call stack is empty, everything under way is visiting goroutines.
LEMMA BalancedEmpty ==
  ASSUME NEW s, IsSeq(s), Balanced(s, <<>>)
  PROVE  \A n \in 1..Len(s) : s[n].at = "visit"
<1>1. IsFiniteSet(Live(s)) /\ Cardinality(Live(s)) = 0
  BY LiveFinite, SeqEmpty DEF Balanced
<1>2. Live(s) = {}
  BY <1>1, FS_EmptySet
<1>3. DOMAIN s = 1..Len(s)
  BY SeqFacts
<1> QED
  BY <1>2, <1>3 DEF Balanced, Live, Pushed
-----------------------------------------------------------------------------
(***************************************************************************)
(* Records.                                                                *)
(***************************************************************************)
Grown(R, S) ==
  /\ Recs(S) /\ Len(S) = Len(R)
  /\ \A h \in 1..Len(R) : /\ Len(R[h]) <= Len(S[h])
                          /\ \A n \in 1..Len(R[h]) : S[h][n] = R[h][n]

LEMMA GrownSame ==
  ASSUME NEW R, Recs(R)
  PROVE  Grown(R, R)
<1>1. \A h \in 1..Len(R) : Len(R[h]) \in Nat
  BY SeqFacts DEF Recs
<1> QED
  BY <1>1 DEF Grown

LEMMA RecordGrows ==
  ASSUME NEW R, Recs(R), NEW g \in 0..(Len(R) - 1), NEW ins, NEW stack
  PROVE  LET S == Record(R, g, ins, stack)
             r == [ins |-> ins, stack |-> stack]
         IN /\ Grown(R, S)
            /\ S[g + 1] = Append(R[g + 1], r)
            /\ Len(S[g + 1]) = Len(R[g + 1]) + 1
            /\ S[g + 1][Len(R[g + 1]) + 1] = r
            /\ \A h \in 1..Len(R) : h # g + 1 => S[h] = R[h]
<1> DEFINE r == [ins |-> ins, stack |-> stack]
           S == Record(R, g, ins, stack)
           t == Append(R[g + 1], r)
<1>1. Len(R) \in Nat \ {0} /\ g + 1 \in 1..Len(R) /\ DOMAIN R = 1..Len(R)
  BY SeqFacts DEF Recs
<1>2. S = [R EXCEPT ![g + 1] = t]
  BY DEF Record
<1>3. /\ IsSeq(t) /\ Len(t) = Len(R[g + 1]) + 1 /\ t[Len(R[g + 1]) + 1] = r
      /\ \A n \in 1..Len(R[g + 1]) : t[n] = R[g + 1][n]
  BY <1>1, SeqAppend DEF Recs
<1> HIDE DEF S, t
<1>4. /\ IsSeq(S) /\ Len(S) = Len(R) /\ S[g + 1] = t
      /\ \A h \in 1..Len(R) : h # g + 1 => S[h] = R[h]
  BY <1>1, <1>2, SeqExcept DEF Recs
<1>5. Recs(S)
  <2>1. S # <<>>
    BY <1>1, <1>4, SeqEmpty
  <2>2. ASSUME NEW h \in 1..Len(S) PROVE IsSeq(S[h])
    BY <1>3, <1>4 DEF Recs
  <2> QED
    BY <1>4, <2>1, <2>2 DEF Recs
<1>6. ASSUME NEW h \in 1..Len(R)
      PROVE  Len(R[h]) <= Len(S[h]) /\ \A n \in 1..Len(R[h]) : S[h][n] = R[h][n]
  <2>1. Len(R[h]) \in Nat
    BY SeqFacts DEF Recs
  <2>2. CASE h = g + 1
    BY <1>3, <1>4, <2>1, <2>2
  <2>3. CASE h # g + 1
    BY <1>4, <2>1, <2>3
  <2> QED
    BY <2>2, <2>3
<1>7. Grown(R, S)
  BY <1>4, <1>5, <1>6 DEF Grown
<1> QED
  BY <1>3, <1>4, <1>7 DEF S, t

\* What is spawned stays so when something is recorded.
LEMMA SpawnsGrown ==
  ASSUME NEW p, NEW R, NEW S, NEW work, NEW stack, NEW caller, NEW loops, NEW twin,
         Recs(R), Grown(R, S), SpawnsFit(p, R, work, stack, caller, loops, twin),
         \A h \in 2..Len(R) : R[h] = <<>> => S[h] = <<>>
  PROVE  SpawnsFit(p, S, work, stack, caller, loops, twin)
<1>1. Numbered(S, work, stack, caller)
  BY DEF SpawnsFit, Numbered, Grown
<1>2. Spawned(p, S, stack, caller)
  <2> SUFFICES ASSUME NEW g \in 1..(Len(stack) - 1)
               PROVE  /\ stack[g + 1] # <<>>
                      /\ Insn(p, SpawnIns(stack, g)).op = "go"
                      /\ \E n \in 1..Len(S[caller[g] + 1]) :
                           S[caller[g] + 1][n].ins = SpawnIns(stack, g)
                      /\ g < Len(S) /\ S[g + 1] # <<>> => S[g + 1][1].ins = SpawnIns(stack, g)
    BY DEF Spawned
  <2> DEFINE c == caller[g] + 1
  <2>0. Len(R) \in Nat /\ Len(stack) \in Nat
    BY SeqFacts DEF Recs, SpawnsFit
  <2>1. Len(R) \in Nat /\ Len(stack) \in Nat /\ c \in 1..Len(R)
    <3>1. g \in DOMAIN caller
      BY DEF SpawnsFit, Numbered
    <3>2. caller[g] \in 0..(g - 1) /\ caller[g] < Len(R)
      BY <3>1 DEF SpawnsFit, Numbered
    <3> QED
      BY <2>0, <3>2
  <2>2. /\ stack[g + 1] # <<>> /\ Insn(p, SpawnIns(stack, g)).op = "go"
        /\ \E n \in 1..Len(R[c]) : R[c][n].ins = SpawnIns(stack, g)
        /\ g < Len(R) /\ R[g + 1] # <<>> => R[g + 1][1].ins = SpawnIns(stack, g)
    BY DEF SpawnsFit, Spawned
  <2> HIDE DEF c
  <2>3. \E n \in 1..Len(S[c]) : S[c][n].ins = SpawnIns(stack, g)
    <3>1. PICK n \in 1..Len(R[c]) : R[c][n].ins = SpawnIns(stack, g)
      BY <2>2
    <3>2. Len(R[c]) \in Nat /\ Len(S[c]) \in Nat
      BY <2>1, SeqFacts DEF Recs, Grown
    <3>3. n \in 1..Len(S[c]) /\ S[c][n] = R[c][n]
      BY <2>1, <3>1, <3>2 DEF Grown
    <3> QED
      BY <3>1, <3>3
  <2>4. ASSUME g < Len(S), S[g + 1] # <<>> PROVE S[g + 1][1].ins = SpawnIns(stack, g)
    <3>1. g < Len(R) /\ g + 1 \in 2..Len(R) /\ g + 1 \in 1..Len(R)
      BY <2>1, <2>4 DEF Grown
    <3>2. R[g + 1] # <<>>
      BY <2>4, <3>1
    <3>3. Len(R[g + 1]) \in Nat \ {0}
      BY <3>1, <3>2, SeqFacts DEF Recs
    <3>4. S[g + 1][1] = R[g + 1][1]
      BY <3>1, <3>3, SMTT(30) DEF Grown
    <3> QED
      BY <2>2, <3>1, <3>2, <3>4
  <2> QED
    BY <2>2, <2>3, <2>4 DEF c
<1> QED
  BY <1>1, <1>2 DEF SpawnsFit

\* The first go statement of main.
LEMMA FirstGoOther ==
  ASSUME NEW p, NEW recs, NEW r, NEW mono, IsSeq(recs), Insn(p, r.ins).op # "go",
         FirstGo(p, recs, mono)
  PROVE  FirstGo(p, Append(recs, r), mono)
<1>1. /\ Len(Append(recs, r)) = Len(recs) + 1 /\ Append(recs, r)[Len(recs) + 1] = r
      /\ \A n \in 1..Len(recs) : Append(recs, r)[n] = recs[n]
  BY SeqAppend
<1>2. Len(recs) \in Nat
  BY SeqFacts
<1>3. GosOf(p, Append(recs, r)) = GosOf(p, recs)
  BY <1>1, <1>2 DEF GosOf
<1> QED
  BY <1>3 DEF FirstGo

LEMMA FirstGoGo ==
  ASSUME NEW p, NEW recs, NEW r, NEW mono, IsSeq(recs), Insn(p, r.ins).op = "go",
         FirstGo(p, recs, mono)
  PROVE  FirstGo(p, Append(recs, r), IF mono = -1 THEN Len(recs) + 1 ELSE mono)
<1> DEFINE t == Append(recs, r)
<1>1. /\ Len(t) = Len(recs) + 1 /\ t[Len(recs) + 1] = r
      /\ \A n \in 1..Len(recs) : t[n] = recs[n]
  BY SeqAppend
<1>2. Len(recs) \in Nat
  BY SeqFacts
<1> HIDE DEF t
<1>3. GosOf(p, t) = GosOf(p, recs) \cup {Len(recs) + 1}
  BY <1>1, <1>2 DEF GosOf
<1>4. GosOf(p, recs) \subseteq 1..Len(recs)
  BY DEF GosOf
<1>5. CASE GosOf(p, recs) = {}
  BY <1>2, <1>3, <1>5 DEF FirstGo, t
<1>6. CASE GosOf(p, recs) # {}
  <2>1. mono \in GosOf(p, recs) /\ mono # -1
    BY <1>2, <1>4, <1>6 DEF FirstGo
  <2> QED
    BY <1>2, <1>3, <1>4, <1>6, <2>1 DEF FirstGo, t
<1> QED
  BY <1>5, <1>6

(***************************************************************************)
(* insGo.                                                                  *)
(***************************************************************************)
LEMMA NewIDFits ==
  ASSUME NEW R, NEW work, NEW stack, NEW caller, IsSeq(R), IsSeq(work),
         Numbered(R, work, stack, caller)
  PROVE  NewGoID(work, Len(R) - 1) = Len(stack)
<1>1. Len(R) \in Nat /\ Len(work) \in Nat /\ (work = <<>> <=> Len(work) = 0)
  BY SeqFacts
<1>2. CASE work = <<>>
  BY <1>1, <1>2 DEF NewGoID, Numbered
<1>3. CASE work # <<>>
  BY <1>1, <1>3 DEF NewGoID, Numbered
<1> QED
  BY <1>2, <1>3

\* g is the goroutine that was met last.
Current(R, g) == g = Len(R) - 1

\* A goroutine is spawned by ins, which g has recorded.
Spawns(p, R, G, g, ins, f, twin) ==
  /\ Recs(R) /\ Current(R, g)
  /\ SpawnsFit(p, R, G.work, G.stack, G.caller, G.loops, twin)
  /\ IsSeq(storeFns)
  /\ \E n \in 1..Len(R[Len(R)]) : R[Len(R)][n].ins = ins
  /\ Insn(p, ins).op = "go" /\ f \in Callable(p) \ LibFns

LEMMA InsGoFits ==
  ASSUME NEW p, NEW R, NEW G, NEW g, NEW ins, NEW f, NEW twin, NEW loopID,
         Spawns(p, R, G, g, ins, f, twin)
  PROVE  LET G1 == InsGo(G, g, ins, f, loopID)
             k == Len(G.stack)
         IN /\ SpawnsFit(p, R, G1.work, G1.stack, G1.caller, G1.loops, twin)
            /\ k \in Nat \ {0} /\ Len(G1.stack) = k + 1
            /\ G1.caller[k] = g /\ k \in DOMAIN G1.loops /\ G1.loops[k] = loopID
            /\ \A h \in 1..(k - 1) : G1.caller[h] = G.caller[h]
            /\ \A h \in DOMAIN G.loops : h \in DOMAIN G1.loops /\ (h # k => G1.loops[h] = G.loops[h])
<1> DEFINE work == G.work
           stack == G.stack
           caller == G.caller
           loops == G.loops
           G1 == InsGo(G, g, ins, f, loopID)
<1>0. /\ Recs(R) /\ g = Len(R) - 1
      /\ SpawnsFit(p, R, work, stack, caller, loops, twin)
      /\ IsSeq(storeFns)
      /\ \E n \in 1..Len(R[Len(R)]) : R[Len(R)][n].ins = ins
      /\ Insn(p, ins).op = "go" /\ f \in Callable(p) \ LibFns
      /\ G.work = work /\ G.stack = stack /\ G.caller = caller /\ G.loops = loops
  BY DEF Spawns, Current
<1> HIDE DEF work, stack, caller, loops
<1> USE <1>0
<1> DEFINE k == Len(stack)
           call == [fn |-> f, ins |-> ins]
           w == Append(work, [ins |-> ins, fn |-> f, goID |-> k])
           e == <<>> \o Append(storeFns, call)
           st == [Append(stack, <<>>) EXCEPT ![k + 1] = @ \o Append(storeFns, call)]
           ca == Put(caller, k, Len(R) - 1)
           lo == Put(loops, k, loopID)
<1>1. /\ Len(R) \in Nat \ {0} /\ Len(work) \in Nat /\ k \in Nat
  BY SeqFacts DEF Recs, SpawnsFit
<1>2. /\ Len(R) + Len(work) = k /\ DOMAIN caller = 1..(k - 1)
      /\ \A n \in 1..Len(work) : work[n].goID = Len(R) + n - 1
      /\ \A h \in 1..(k - 1) : caller[h] \in 0..(h - 1) /\ caller[h] < Len(R)
  BY DEF SpawnsFit, Numbered
<1>3. k \in Nat \ {0}
  BY <1>1, <1>2
<1>4. NewGoID(work, Len(R) - 1) = k
  BY NewIDFits DEF SpawnsFit, Recs
<1>5. G1 = [work |-> w, stack |-> st, caller |-> ca, loops |-> lo]
  BY <1>4 DEF InsGo
<1>6. /\ IsSeq(w) /\ Len(w) = Len(work) + 1
      /\ w[Len(work) + 1] = [ins |-> ins, fn |-> f, goID |-> k]
      /\ \A n \in 1..Len(work) : w[n] = work[n]
  BY SeqAppend DEF SpawnsFit
<1>7. e # <<>> /\ e[Len(e)].ins = ins
  <2> DEFINE a == Append(storeFns, call)
  <2>1. IsSeq(a) /\ Len(a) = Len(storeFns) + 1 /\ a[Len(storeFns) + 1] = call
    BY SeqAppend
  <2>2. Len(storeFns) \in Nat
    BY SeqFacts
  <2> HIDE DEF a
  <2>3. /\ IsSeq(<<>> \o a) /\ Len(<<>> \o a) = Len(<<>>) + Len(a)
        /\ \A n \in 1..Len(a) : (<<>> \o a)[Len(<<>>) + n] = a[n]
    BY <2>1, SeqEmpty, SeqConcat
  <2>4. Len(<<>> \o a) = Len(storeFns) + 1 /\ (<<>> \o a)[Len(storeFns) + 1] = call
    BY <2>1, <2>2, <2>3, SeqEmpty
  <2>5. e = <<>> \o a
    BY DEF a
  <2> QED
    BY <2>2, <2>4, <2>5, SeqEmpty
<1>8. /\ IsSeq(st) /\ Len(st) = k + 1 /\ st[k + 1] = e
      /\ \A n \in 1..k : st[n] = stack[n]
  <2> DEFINE a == Append(stack, <<>>)
  <2>1. /\ IsSeq(a) /\ Len(a) = k + 1 /\ a[k + 1] = <<>>
        /\ \A n \in 1..k : a[n] = stack[n]
    BY SeqAppend DEF SpawnsFit
  <2>2. DOMAIN a = 1..(k + 1)
    BY <2>1, SeqFacts
  <2>3. st = [a EXCEPT ![k + 1] = e]
    BY <1>3, <2>1, <2>2
  <2>4. k + 1 \in 1..(k + 1) /\ \A n \in 1..k : n \in 1..(k + 1) /\ n # k + 1
    BY <1>3
  <2> HIDE DEF a, st, e
  <2>5. /\ IsSeq([a EXCEPT ![k + 1] = e]) /\ Len([a EXCEPT ![k + 1] = e]) = Len(a)
        /\ [a EXCEPT ![k + 1] = e][k + 1] = e
        /\ \A n \in 1..Len(a) : n # k + 1 => [a EXCEPT ![k + 1] = e][n] = a[n]
    <3> HIDE DEF k
    <3>1. k + 1 \in 1..Len(a)
      BY <2>1, <2>4
    <3>2. IsSeq(a)
      BY <2>1
    <3> QED
      BY <3>1, <3>2, SeqExcept, SMTT(30)
  <2> QED
    BY <2>1, <2>3, <2>4, <2>5
<1>9. /\ DOMAIN ca = 1..k /\ ca[k] = Len(R) - 1
      /\ \A h \in 1..(k - 1) : ca[h] = caller[h]
  BY <1>2, <1>3 DEF Put
<1>10. /\ k \in DOMAIN lo /\ lo[k] = loopID
       /\ \A h \in DOMAIN loops : h \in DOMAIN lo /\ (h # k => lo[h] = loops[h])
  BY DEF Put
<1> HIDE DEF w, e, st, ca, lo
<1>11. /\ SpawnIns(st, k) = ins
       /\ \A h \in 1..(k - 1) : SpawnIns(st, h) = SpawnIns(stack, h) /\ st[h + 1] = stack[h + 1]
  BY <1>3, <1>7, <1>8 DEF SpawnIns
<1>12. Numbered(R, w, st, ca)
  <2>1. ASSUME NEW n \in 1..Len(w) PROVE w[n].goID = Len(R) + n - 1
    <3>1. CASE n \in 1..Len(work)
      BY <1>2, <1>6, <3>1
    <3>2. CASE n = Len(work) + 1
      <4>1. w[n].goID = k
        BY <1>6, <3>2
      <4>2. k = Len(R) + n - 1
        BY <1>1, <1>2, <3>2
      <4> QED
        BY <4>1, <4>2
    <3> QED
      BY <1>1, <1>6, <3>1, <3>2
  <2>2. ASSUME NEW h \in 1..k PROVE ca[h] \in 0..(h - 1) /\ ca[h] < Len(R)
    <3>1. CASE h \in 1..(k - 1)
      BY <1>2, <1>9, <3>1
    <3>2. CASE h = k
      <4>1. ca[h] = Len(R) - 1
        BY <1>9, <3>2
      <4>2. Len(R) - 1 \in 0..(h - 1) /\ Len(R) - 1 < Len(R)
        BY <1>1, <1>2, <3>2
      <4> QED
        BY <4>1, <4>2
    <3> QED
      BY <1>1, <3>1, <3>2
  <2>3. Len(st) - 1 = k
    BY <1>3, <1>8
  <2>4. Len(R) + Len(w) = Len(st)
    <3>1. Len(w) = Len(work) + 1 /\ Len(st) = k + 1 /\ Len(R) + Len(work) = k
      BY <1>2, <1>6, <1>8
    <3>2. Len(R) \in Nat /\ Len(work) \in Nat /\ Len(w) \in Nat /\ Len(st) \in Nat
      BY <1>1, <1>6, <1>8, SeqFacts
    <3> QED
      BY <3>1, <3>2
  <2> QED
    BY <1>9, <2>1, <2>2, <2>3, <2>4 DEF Numbered
<1>13. Spawned(p, R, st, ca)
  <2> SUFFICES ASSUME NEW h \in 1..k
               PROVE  /\ st[h + 1] # <<>> /\ Insn(p, SpawnIns(st, h)).op = "go"
                      /\ \E n \in 1..Len(R[ca[h] + 1]) : R[ca[h] + 1][n].ins = SpawnIns(st, h)
                      /\ h < Len(R) /\ R[h + 1] # <<>> => R[h + 1][1].ins = SpawnIns(st, h)
    BY <1>3, <1>8, SMTT(30) DEF Spawned
  <2>1. CASE h = k
    <3>1. ca[h] + 1 = Len(R) /\ ~(h < Len(R))
      BY <1>1, <1>2, <1>9, <2>1
    <3>2. st[h + 1] # <<>> /\ SpawnIns(st, h) = ins
      BY <1>7, <1>8, <1>11, <2>1
    <3> QED
      BY <3>1, <3>2
  <2>2. CASE h # k
    <3>1. h \in 1..(k - 1)
      BY <1>3, <2>2
    <3>2. ca[h] = caller[h] /\ SpawnIns(st, h) = SpawnIns(stack, h) /\ st[h + 1] = stack[h + 1]
      BY <1>9, <1>11, <3>1
    <3> QED
      BY <3>1, <3>2 DEF SpawnsFit, Spawned
  <2> QED
    BY <2>1, <2>2
<1>14. Waiting(p, w, st)
  <2> SUFFICES ASSUME NEW n \in 1..Len(w)
               PROVE  w[n].ins = SpawnIns(st, w[n].goID) /\ w[n].fn \in Callable(p) \ LibFns
    BY DEF Waiting
  <2>1. CASE n = Len(work) + 1
    BY <1>6, <1>11, <2>1
  <2>2. CASE n # Len(work) + 1
    <3>1. n \in 1..Len(work)
      BY <1>1, <1>6, <2>2
    <3>2. work[n].goID \in 1..(k - 1) /\ w[n] = work[n]
      BY <1>1, <1>2, <1>6, <3>1, SMTT(30)
    <3> QED
      BY <1>11, <3>1, <3>2 DEF SpawnsFit, Waiting
  <2> QED
    BY <2>1, <2>2
<1>15. Twinned(twin, lo, st, ca)
  <2> SUFFICES ASSUME NEW i \in DOMAIN twin
               PROVE  /\ twin[i][1] \in 1..(k - 1) /\ twin[i][2] = twin[i][1] + 1
                      /\ twin[i][1] \in DOMAIN lo /\ twin[i][2] \in DOMAIN lo
                      /\ lo[twin[i][1]] = 1 /\ lo[twin[i][2]] = 2
                      /\ ca[twin[i][1]] = ca[twin[i][2]]
    BY <1>3, <1>8 DEF Twinned
  <2>1. /\ twin[i][1] \in 1..(k - 2) /\ twin[i][2] = twin[i][1] + 1
        /\ twin[i][1] \in DOMAIN loops /\ twin[i][2] \in DOMAIN loops
        /\ loops[twin[i][1]] = 1 /\ loops[twin[i][2]] = 2
        /\ caller[twin[i][1]] = caller[twin[i][2]]
    BY DEF SpawnsFit, Twinned
  <2> DEFINE x == twin[i][1]
             y == twin[i][2]
  <2>2. x \in 1..(k - 1) /\ y \in 1..(k - 1) /\ x # k /\ y # k
    <3>1. x \in 1..(k - 2) /\ y = x + 1 /\ k \in Nat
      BY <1>3, <2>1
    <3> HIDE DEF x, y, k
    <3> QED
      BY ONLY <3>1
  <2>3. x \in DOMAIN loops /\ y \in DOMAIN loops /\ x # k /\ y # k
    BY <2>1, <2>2
  <2>4. ca[x] = caller[x] /\ ca[y] = caller[y]
    BY <1>9, <2>2
  <2> HIDE DEF x, y
  <2>5. /\ x \in DOMAIN lo /\ y \in DOMAIN lo
        /\ lo[x] = loops[x] /\ lo[y] = loops[y]
    BY <1>10, <2>3
  <2> QED
    BY <2>1, <2>2, <2>4, <2>5 DEF x, y
<1>16. SpawnsFit(p, R, w, st, ca, lo, twin)
  BY <1>6, <1>8, <1>12, <1>13, <1>14, <1>15 DEF SpawnsFit
<1>17. G1.work = w /\ G1.stack = st /\ G1.caller = ca /\ G1.loops = lo
  BY <1>5
<1> QED
  BY <1>3, <1>8, <1>9, <1>10, <1>16, <1>17
-----------------------------------------------------------------------------
(***************************************************************************)
(* Activations.                                                            *)
(***************************************************************************)
LEMMA InLastGrown ==
  ASSUME NEW R, NEW S, NEW fr, Recs(R), Grown(R, S), InLast(fr, R)
  PROVE  InLast(fr, S)
<1>1. Len(R) \in Nat \ {0} /\ Len(S) = Len(R)
  BY SeqFacts DEF Recs, Grown
<1>2. R[Len(R)] # <<>> => S[Len(R)] # <<>>
  <2>1. IsSeq(R[Len(R)]) /\ IsSeq(S[Len(R)]) /\ Len(R[Len(R)]) <= Len(S[Len(R)])
    BY <1>1 DEF Recs, Grown
  <2> QED
    BY <2>1, SeqFacts
<1> QED
  BY <1>1, <1>2 DEF InLast

LEMMA CallsGrown ==
  ASSUME NEW p, NEW s, NEW fns, NEW R, NEW S, CallsFit(p, s, fns, R), Grown(R, S)
  PROVE  CallsFit(p, s, fns, S)
<1>1. Recs(R) /\ Recs(S)
  BY DEF CallsFit, Grown
<1>2. \A n \in 1..Len(s) : InLast(s[n], S)
  BY <1>1, InLastGrown DEF CallsFit
<1> QED
  BY <1>1, <1>2 DEF CallsFit

\* The current activation goes on.
LEMMA CallsReplace ==
  ASSUME NEW p, NEW s, NEW fns, NEW R, NEW S, NEW x, CallsFit(p, s, fns, R), Grown(R, S),
         s # <<>>, s[Len(s)].at # "visit", Local(x, p), x.at # "visit",
         x.fn = s[Len(s)].fn, x.goID = s[Len(s)].goID
  PROVE  LET t == Append(SubSeq(s, 1, Len(s) - 1), x)
         IN CallsFit(p, t, fns, S) /\ t # <<>> /\ (Pushed(x) <=> Pushed(s[Len(s)]))
            /\ Live(t) = Live(s)
<1> DEFINE r == SubSeq(s, 1, Len(s) - 1)
           t == Append(r, x)
           k == Len(s)
<1>1. /\ IsSeq(s) /\ IsSeq(fns) /\ Recs(R) /\ Balanced(s, fns)
      /\ \A n \in 1..k : Local(s[n], p) /\ InLast(s[n], R)
  BY DEF CallsFit
<1>2. k \in Nat \ {0} /\ DOMAIN s = 1..k
  BY <1>1, SeqFacts
<1>3. IsSeq(r) /\ Len(r) = k - 1 /\ \A n \in 1..(k - 1) : r[n] = s[n]
  BY <1>1, SeqFront
<1> HIDE DEF r
<1>4. /\ IsSeq(t) /\ Len(t) = Len(r) + 1 /\ t[Len(r) + 1] = x
      /\ \A n \in 1..Len(r) : t[n] = r[n]
  BY <1>3, SeqAppend
<1> HIDE DEF t
<1>5. Len(t) = k /\ t[k] = x /\ \A n \in 1..(k - 1) : t[n] = s[n]
  <2>1. Len(r) + 1 = k
    BY <1>2, <1>3
  <2> QED
    BY <1>3, <1>4, <2>1
<1>6. \A n \in 1..k : n # k => n \in 1..(k - 1)
  BY <1>2, BelowLast
<1>7. InLast(x, S)
  <2>1. InLast(s[k], R)
    BY <1>1, <1>2
  <2>2. InLast(x, R)
    BY <2>1 DEF InLast
  <2> QED
    BY <1>1, <2>2, InLastGrown
<1>8. \A n \in 1..k : Local(t[n], p) /\ InLast(t[n], S)
  <2> SUFFICES ASSUME NEW n \in 1..k PROVE Local(t[n], p) /\ InLast(t[n], S)
    OBVIOUS
  <2>1. CASE n = k
    BY <1>5, <1>7, <2>1
  <2>2. CASE n # k
    BY <1>1, <1>5, <1>6, <2>2, InLastGrown
  <2> QED
    BY <2>1, <2>2
<1>9. \A n \in 1..k : t[n].fn = s[n].fn /\ (t[n].at = "visit" <=> s[n].at = "visit")
  BY <1>5, <1>6
<1>10. Balanced(t, fns)
  BY <1>1, <1>4, <1>5, <1>9, BalancedSame
<1>11. CallsFit(p, t, fns, S)
  BY <1>1, <1>4, <1>5, <1>8, <1>10 DEF CallsFit, Grown
<1>12. t # <<>> /\ (Pushed(x) <=> Pushed(s[k]))
  BY <1>2, <1>5, SeqEmpty DEF Pushed
<1>13. Live(t) = Live(s)
  <2>1. DOMAIN t = 1..k
    BY <1>4, <1>5, SeqFacts
  <2> QED
    BY <1>2, <1>9, <2>1 DEF Live, Pushed
<1> QED
  BY <1>11, <1>12, <1>13 DEF t, r

LEMMA NoDefers == ASSUME NEW p PROVE AllDefers(p, <<>>)
BY SeqEmpty DEF AllDefers

LEMMA NewActivation ==
  ASSUME NEW p, NEW f \in DOMAIN p, f # Entry, NEW g
  PROVE  LET a == Activation(f, g)
         IN Local(a, p) /\ a.fn = f /\ a.goID = g /\ a.at = "enter"
<1> DEFINE a == Activation(f, g)
<1>1. /\ DOMAIN a = Fields /\ a.fn = f /\ a.goID = g /\ a.b = 1 /\ a.i = 1
      /\ a.at = "enter" /\ a.toDefer = <<>> /\ a.run = <<>>
  BY DEF Activation, Fields
<1> HIDE DEF a
<1>2. Local(a, p)
  BY <1>1, NoDefers DEF Local, Frames
<1> QED
  BY <1>1, <1>2 DEF a

\* The end of an instruction.
LEMMA AfterFits ==
  ASSUME prog \in Programs, NEW fr, NEW L, NEW H, AfterInstr(fr, L, H),
         DOMAIN fr = Fields, fr.fn \in DOMAIN prog, HasInsn(prog, Ins(fr)),
         AllDefers(prog, fr.toDefer), AllDefers(prog, fr.run)
  PROVE  \E x : /\ cs' = Append(rest, x) /\ Local(x, prog)
                /\ x.fn = fr.fn /\ x.goID = fr.goID /\ x.at # "visit"
<1> DEFINE blocks == prog[fr.fn]
           last == fr.i = Len(blocks[fr.b].instrs)
           x == [fr EXCEPT !.b = IF last THEN @ + 1 ELSE @,
                           !.i = IF last THEN 1 ELSE @ + 1,
                           !.at = IF last /\ fr.b = Len(blocks) THEN "final" ELSE "instr",
                           !.toUnlock = IF last THEN <<>> ELSE @,
                           !.toRUnlock = IF last /\ fr.toUnlock = <<>> THEN <<>> ELSE @,
                           !.skipped = IF last THEN <<>> ELSE @]
<1>1. cs' = Append(rest, x)
  BY DEF AfterInstr
<1>2. /\ DOMAIN x = Fields /\ x.fn = fr.fn /\ x.goID = fr.goID
      /\ x.b = (IF last THEN fr.b + 1 ELSE fr.b)
      /\ x.i = (IF last THEN 1 ELSE fr.i + 1)
      /\ x.at = (IF last /\ fr.b = Len(blocks) THEN "final" ELSE "instr")
      /\ x.toDefer = fr.toDefer /\ x.run = fr.run
  BY DEF Fields
<1> HIDE DEF x
<1>3. /\ Len(blocks) \in Nat \ {0} /\ DOMAIN blocks = 1..Len(blocks)
      /\ \A b \in DOMAIN blocks : /\ Len(blocks[b].instrs) \in Nat \ {0}
                                  /\ DOMAIN blocks[b].instrs = 1..Len(blocks[b].instrs)
  BY ProgramsAssumption DEF PlainProgram
<1>4. /\ fr.b \in DOMAIN blocks /\ fr.i \in DOMAIN blocks[fr.b].instrs
  BY DEF HasInsn, Ins
<1>5. HasInsn(prog, Ins(x)) <=> x.b \in DOMAIN blocks /\ x.i \in DOMAIN blocks[x.b].instrs
  BY <1>2 DEF HasInsn, Ins
<1> HIDE DEF blocks
<1>6. x.at # "final" => HasInsn(prog, Ins(x))
  <2>1. CASE last /\ fr.b # Len(blocks)
    <3>1. fr.b + 1 \in DOMAIN blocks
      BY <1>3, <1>4, <2>1
    <3>2. 1 \in DOMAIN blocks[fr.b + 1].instrs
      BY <1>3, <3>1
    <3> QED
      BY <1>2, <1>5, <2>1, <3>1, <3>2
  <2>2. CASE ~last
    <3>1. fr.i + 1 \in DOMAIN blocks[fr.b].instrs
      BY <1>3, <1>4, <2>2
    <3> QED
      BY <1>2, <1>4, <1>5, <2>2, <3>1
  <2> QED
    BY <1>2, <2>1, <2>2
<1>7. x.at \in {"instr", "final"}
  BY <1>2
<1>8. Local(x, prog)
  BY <1>2, <1>6, <1>7 DEF Local, Frames
<1> QED
  BY <1>1, <1>2, <1>7, <1>8

LEMMA CallsNat ==
  ASSUME prog \in Programs, NEW f \in DOMAIN prog
  PROVE  CallsOfInterest(f) \in Nat
<1> DEFINE at(b) == {b} \X DOMAIN prog[f][b].instrs
           all == UNION {at(b) : b \in DOMAIN prog[f]}
<1>1. /\ Len(prog[f]) \in Nat /\ DOMAIN prog[f] = 1..Len(prog[f])
      /\ \A b \in DOMAIN prog[f] : /\ Len(prog[f][b].instrs) \in Nat
                                   /\ DOMAIN prog[f][b].instrs = 1..Len(prog[f][b].instrs)
  BY ProgramsAssumption DEF PlainProgram
<1>2. ASSUME NEW b \in DOMAIN prog[f] PROVE IsFiniteSet(at(b))
  <2>1. IsFiniteSet({b})
    BY FS_Singleton
  <2>2. IsFiniteSet(1..Len(prog[f][b].instrs))
    <3>1. Len(prog[f][b].instrs) \in Nat
      BY <1>1
    <3> QED
      BY <3>1, FS_Interval
  <2>3. DOMAIN prog[f][b].instrs = 1..Len(prog[f][b].instrs)
    BY <1>1
  <2> QED
    BY <2>1, <2>2, <2>3, FS_Product
<1>3. IsFiniteSet({at(b) : b \in DOMAIN prog[f]})
  <2>1. IsFiniteSet(DOMAIN prog[f])
    BY <1>1, FS_Interval
  <2> DEFINE T == {at(b) : b \in DOMAIN prog[f]}
             F == [b \in DOMAIN prog[f] |-> at(b)]
  <2> HIDE DEF at
  <2>2. F \in Surjection(DOMAIN prog[f], T)
    BY DEF Surjection
  <2> HIDE DEF F, T
  <2>3. IsFiniteSet(T)
    BY <2>1, <2>2, FS_Surjection
  <2> QED
    BY <2>3 DEF T
<1>4. IsFiniteSet(all)
  <2> HIDE DEF at
  <2>1. \A S \in {at(b) : b \in DOMAIN prog[f]} : IsFiniteSet(S)
    BY <1>2
  <2> QED
    BY <1>3, <2>1, FS_UNION
<1>5. PICK C : C \subseteq all /\ CallsOfInterest(f) = Cardinality(C)
  <2> DEFINE C == {p \in all : LET i == prog[f][p[1]].instrs[p[2]]
                               IN i.op = "call" /\ i.arg \notin LibFns}
  <2>1. CallsOfInterest(f) = Cardinality(C)
    BY DEF CallsOfInterest
  <2>2. C \subseteq all
    OBVIOUS
  <2> HIDE DEF C, all
  <2> QED
    BY <2>1, <2>2
<1> HIDE DEF all
<1> QED
  BY <1>4, <1>5, FS_Subset, FS_CardinalityType

\* traverseFn
LEMMA TraverseFits ==
  ASSUME prog \in Programs, NEW R, NEW f, NEW g, NEW ins, NEW frames,
         TraverseFn(R, f, g, ins, frames),
         CallsFit(prog, cs, storeFns, RWIns), CallsFit(prog, frames, storeFns, R),
         cs # <<>>, frames # <<>>,
         f \in Callable(prog), f \in LibFns => Live(frames) # {},
         g = Len(R) - 1, g > 0 => R[Len(R)] # <<>>
  PROVE  /\ CallsFit(prog, cs', storeFns', RWIns') /\ cs' # <<>>
         /\ \/ storeFns # <<>> /\ RWIns' = RWIns
            \/ RWIns' = R
            \/ \E stack : RWIns' = Record(R, g, ins, stack)
<1> DEFINE a == Activation(f, g)
           pushed == Append(storeFns, [fn |-> f, ins |-> ins])
<1>1. /\ IsSeq(frames) /\ IsSeq(storeFns) /\ Recs(R) /\ Balanced(frames, storeFns)
      /\ \A n \in 1..Len(frames) : Local(frames[n], prog) /\ InLast(frames[n], R)
  BY DEF CallsFit
<1>2. f \in DOMAIN prog /\ f # Entry
  BY DEF Callable
<1>3. Local(a, prog) /\ a.fn = f /\ a.goID = g /\ a.at = "enter"
  BY <1>2, NewActivation
<1>4. Len(frames) \in Nat \ {0} /\ Len(R) \in Nat \ {0} /\ g \in 0..(Len(R) - 1)
  BY <1>1, SeqFacts DEF Recs
<1>5. InLast(a, R)
  BY <1>3, <1>4 DEF InLast
<1> HIDE DEF a
<1>6. CASE NilPos(R, f, g, ins)
  <2>1. cs' = cs /\ storeFns' = storeFns /\ RWIns' = RWIns
    BY <1>6 DEF TraverseFn
  <2>2. storeFns # <<>>
    BY <1>6 DEF NilPos
  <2> QED
    BY <2>1, <2>2
<1>7. CASE cs' = frames /\ RWIns' = R /\ storeFns' = storeFns
  BY <1>7
<1>8. CASE /\ f \in LibFns /\ RWIns' = R /\ storeFns' = storeFns
           /\ cs' = frames \o [n \in 1..CallsOfInterest(f) |-> a]
  <2> DEFINE c == CallsOfInterest(f)
             new == [n \in 1..c |-> a]
             t == frames \o new
  <2>1. c \in Nat
    BY <1>2, CallsNat
  <2> HIDE DEF c
  <2>2. IsSeq(new) /\ Len(new) = c
    BY <2>1, SeqConst
  <2>3. \A n \in 1..c : new[n] = a
    OBVIOUS
  <2> HIDE DEF new
  <2>4. /\ IsSeq(t) /\ Len(t) = Len(frames) + c
        /\ \A n \in 1..Len(frames) : t[n] = frames[n]
        /\ \A n \in 1..c : t[Len(frames) + n] = new[n]
    <3>1. IsSeq(frames) /\ IsSeq(new)
      BY <1>1, <2>2
    <3>2. /\ IsSeq(t) /\ Len(t) = Len(frames) + Len(new)
          /\ \A n \in 1..Len(frames) : t[n] = frames[n]
          /\ \A n \in 1..Len(new) : t[Len(frames) + n] = new[n]
      BY <3>1, SeqConcat
    <3> QED
      BY <2>2, <3>2
  <2> HIDE DEF t
  <2>5. ASSUME NEW n \in 1..Len(t), n > Len(frames) PROVE t[n] = a
    <3>1. n - Len(frames) \in 1..c /\ Len(frames) + (n - Len(frames)) = n
      BY <1>4, <2>1, <2>4, <2>5
    <3> QED
      BY <2>3, <2>4, <3>1
  <2>6. ASSUME NEW n \in 1..Len(frames) PROVE ~(n > Len(t))
    <3>1. Len(t) \in Nat /\ n <= Len(frames)
      BY <1>4, <2>4, SeqFacts
    <3> QED
      BY <1>4, <2>1, <2>4, <3>1
  <2>7. ~Pushed(a)
    BY <1>3, <1>8 DEF Pushed
  <2>8. Balanced(t, storeFns)
    BY <1>1, <1>8, <2>4, <2>5, <2>6, <2>7, BalancedOthers
  <2>9. ASSUME NEW n \in 1..Len(t) PROVE Local(t[n], prog) /\ InLast(t[n], R)
    <3>1. CASE n > Len(frames)
      BY <1>3, <1>5, <2>5, <3>1
    <3>2. CASE ~(n > Len(frames))
      <4>1. n \in 1..Len(frames)
        BY <1>4, <2>1, <2>4, <3>2
      <4> QED
        BY <1>1, <2>4, <4>1
    <3> QED
      BY <3>1, <3>2
  <2>10. CallsFit(prog, t, storeFns, R)
    BY <1>1, <2>4, <2>8, <2>9 DEF CallsFit
  <2>11. t # <<>>
    <3>1. Len(t) # 0
      BY <1>4, <2>1, <2>4
    <3> QED
      BY <3>1, SeqEmpty
  <2>12. cs' = t
    BY <1>8 DEF t, new, c
  <2> QED
    BY <1>8, <2>10, <2>11, <2>12
<1>9. CASE /\ f \notin LibFns /\ RWIns' = Record(R, g, ins, pushed) /\ storeFns' = pushed
           /\ cs' = Append(frames, a)
  <2> DEFINE t == Append(frames, a)
             S == Record(R, g, ins, pushed)
  <2>1. Pushed(a) /\ [fn |-> f, ins |-> ins].fn = a.fn
    BY <1>3, <1>9 DEF Pushed
  <2>2. Balanced(t, pushed)
    BY <1>1, <2>1, BalancedPush
  <2>3. IsSeq(pushed)
    BY <1>1, SeqAppend
  <2>4. /\ IsSeq(t) /\ Len(t) = Len(frames) + 1 /\ t[Len(frames) + 1] = a
        /\ \A n \in 1..Len(frames) : t[n] = frames[n]
    BY <1>1, SeqAppend
  <2> HIDE DEF t, pushed
  <2>5. Grown(R, S)
    BY <1>1, <1>4, RecordGrows
  <2> HIDE DEF S
  <2>6. ASSUME NEW n \in 1..Len(t) PROVE Local(t[n], prog) /\ InLast(t[n], S)
    <3>1. CASE n = Len(frames) + 1
      BY <1>1, <1>3, <1>5, <2>4, <2>5, <3>1, InLastGrown
    <3>2. CASE n # Len(frames) + 1
      <4>1. n \in 1..Len(frames)
        BY <1>4, <2>4, <3>2
      <4> QED
        BY <1>1, <2>4, <2>5, <4>1, InLastGrown
    <3> QED
      BY <3>1, <3>2
  <2>7. CallsFit(prog, t, pushed, S)
    BY <2>2, <2>3, <2>4, <2>5, <2>6 DEF CallsFit, Grown
  <2>8. t # <<>>
    <3>1. Len(t) # 0
      BY <1>4, <2>4
    <3> QED
      BY <3>1, SeqEmpty
  <2>9. cs' = t /\ RWIns' = S
    BY <1>9 DEF t, S
  <2> QED
    BY <1>9, <2>7, <2>8, <2>9 DEF S
<1> QED
  BY <1>6, <1>7, <1>8, <1>9 DEF TraverseFn, a
-----------------------------------------------------------------------------
(***************************************************************************)
(* The steps that leave the goroutines alone.                              *)
(***************************************************************************)
LEMMA TopFacts ==
  ASSUME During, cs # <<>>
  PROVE  /\ Local(top, prog) /\ InLast(top, RWIns) /\ Recs(RWIns)
         /\ Len(cs) \in Nat \ {0} /\ Len(RWIns) \in Nat \ {0}
         /\ top.at # "visit" => top.goID \in 0..(Len(RWIns) - 1)
<1>1. IsSeq(cs) /\ Recs(RWIns) /\ \A n \in 1..Len(cs) : Local(cs[n], prog) /\ InLast(cs[n], RWIns)
  BY DEF During, CallsFit
<1>2. Len(cs) \in Nat \ {0} /\ Len(RWIns) \in Nat \ {0}
  BY <1>1, SeqFacts DEF Recs
<1>3. Local(top, prog) /\ InLast(top, RWIns)
  BY <1>1, <1>2 DEF top
<1> QED
  BY <1>1, <1>2, <1>3 DEF InLast

\* S is R with record r of goroutine g.
Longer(R, S, g, r) ==
  /\ Grown(R, S) /\ S[g + 1] = Append(R[g + 1], r)
  /\ Len(S[g + 1]) = Len(R[g + 1]) + 1
  /\ \A h \in 1..Len(R) : h # g + 1 => S[h] = R[h]

LEMMA RecordLonger ==
  ASSUME NEW R, Recs(R), NEW g \in 0..(Len(R) - 1), NEW ins, NEW stack
  PROVE  Longer(R, Record(R, g, ins, stack), g, [ins |-> ins, stack |-> stack])
BY RecordGrows DEF Longer

LEMMA RecordFits ==
  ASSUME NEW p, NEW R, NEW work, NEW stack, NEW caller, NEW loops, NEW twin, NEW mono,
         NEW ins, NEW calls,
         Recs(R), SpawnsFit(p, R, work, stack, caller, loops, twin), FirstGo(p, R[1], mono),
         Len(R) > 1 => R[Len(R)] # <<>>,
         Len(R) > 1 \/ Insn(p, ins).op # "go"
  PROVE  LET S == Record(R, Len(R) - 1, ins, calls)
         IN /\ Grown(R, S) /\ SpawnsFit(p, S, work, stack, caller, loops, twin)
            /\ FirstGo(p, S[1], mono)
            /\ S[Len(R)] # <<>>
<1> DEFINE r == [ins |-> ins, stack |-> calls]
           g == Len(R) - 1
           S == Record(R, g, ins, calls)
<1>1. Len(R) \in Nat \ {0} /\ g \in 0..(Len(R) - 1) /\ g + 1 = Len(R)
  BY SeqFacts DEF Recs
<1>2. /\ Grown(R, S) /\ S[g + 1] = Append(R[g + 1], r)
      /\ Len(S[g + 1]) = Len(R[g + 1]) + 1
      /\ \A h \in 1..Len(R) : h # g + 1 => S[h] = R[h]
  <2> HIDE DEF g
  <2>1. Longer(R, S, g, r)
    BY <1>1, RecordLonger
  <2> HIDE DEF S, r
  <2> QED
    BY <2>1 DEF Longer
<1> HIDE DEF S, g
<1>3. \A h \in 2..Len(R) : R[h] = <<>> => S[h] = <<>>
  BY <1>1, <1>2
<1>4. SpawnsFit(p, S, work, stack, caller, loops, twin)
  BY <1>2, <1>3, SpawnsGrown
<1>5. FirstGo(p, S[1], mono)
  <2>1. CASE Len(R) > 1
    BY <1>1, <1>2, <2>1
  <2>2. CASE ~(Len(R) > 1)
    <3>1. Len(R) = 1 /\ Insn(p, r.ins).op # "go" /\ IsSeq(R[1])
      BY <1>1, <2>2 DEF Recs
    <3>2. S[1] = Append(R[1], r)
      BY <1>1, <1>2, <3>1
    <3> HIDE DEF r
    <3> QED
      BY <3>1, <3>2, FirstGoOther
  <2> QED
    BY <2>1, <2>2
<1>6. S[Len(R)] # <<>>
  <2>1. Len(R[Len(R)]) \in Nat
    BY <1>1, SeqFacts DEF Recs
  <2>2. Len(S[Len(R)]) # 0
    BY <1>1, <1>2, <2>1
  <2> QED
    BY <2>2, SeqEmpty
<1> QED
  BY <1>2, <1>4, <1>5, <1>6 DEF S, g

\* The current activation goes on, and may record an instruction.
RecordedNoGo ==
  \/ RWIns' = RWIns
  \/ \E ins, calls : /\ Insn(prog, ins).op # "go"
                     /\ RWIns' = Record(RWIns, top.goID, ins, calls)

LEMMA RecordedFits ==
  ASSUME During, cs # <<>>, top.at # "visit", RecordedNoGo, UNCHANGED <<prog, goVars>>
  PROVE  /\ Grown(RWIns, RWIns')
         /\ SpawnsFit(prog, RWIns, workList, goStack, goCaller, loopIDs, twinGoID)'
         /\ FirstGo(prog, RWIns[1], insMono)'
<1>1. /\ Recs(RWIns) /\ InLast(top, RWIns) /\ Len(RWIns) \in Nat \ {0}
  BY TopFacts
<1>2. /\ SpawnsFit(prog, RWIns, workList, goStack, goCaller, loopIDs, twinGoID)
      /\ FirstGo(prog, RWIns[1], insMono)
  BY DEF During
<1>3. top.goID = Len(RWIns) - 1 /\ (Len(RWIns) > 1 => RWIns[Len(RWIns)] # <<>>)
  BY <1>1 DEF InLast
<1>4. /\ workList' = workList /\ goStack' = goStack /\ goCaller' = goCaller /\ prog' = prog
      /\ loopIDs' = loopIDs /\ twinGoID' = twinGoID /\ insMono' = insMono
  BY DEF goVars
<1>5. /\ Grown(RWIns, RWIns')
      /\ SpawnsFit(prog, RWIns', workList, goStack, goCaller, loopIDs, twinGoID)
      /\ FirstGo(prog, RWIns'[1], insMono)
  <2>1. CASE RWIns' = RWIns
    BY <1>1, <1>2, <2>1, GrownSame
  <2>2. CASE \E ins, calls : /\ Insn(prog, ins).op # "go"
                             /\ RWIns' = Record(RWIns, top.goID, ins, calls)
    <3>1. PICK ins, calls : /\ Insn(prog, ins).op # "go"
                            /\ RWIns' = Record(RWIns, Len(RWIns) - 1, ins, calls)
      BY <1>3, <2>2
    <3>2. LET S == Record(RWIns, Len(RWIns) - 1, ins, calls)
          IN /\ Grown(RWIns, S)
             /\ SpawnsFit(prog, S, workList, goStack, goCaller, loopIDs, twinGoID)
             /\ FirstGo(prog, S[1], insMono)
      BY <1>1, <1>2, <1>3, <3>1, RecordFits
    <3> QED
      BY <3>1, <3>2
  <2> QED
    BY <2>1, <2>2 DEF RecordedNoGo
<1> QED
  BY <1>4, <1>5

LEMMA TopStep ==
  ASSUME During, cs # <<>>, top.at # "visit", NEW x, cs' = Append(rest, x),
         Local(x, prog), x.fn = top.fn, x.goID = top.goID, x.at # "visit",
         RecordedNoGo, UNCHANGED <<prog, storeFns, goVars>>
  PROVE  During'
<1>1. /\ Grown(RWIns, RWIns')
      /\ SpawnsFit(prog, RWIns, workList, goStack, goCaller, loopIDs, twinGoID)'
      /\ FirstGo(prog, RWIns[1], insMono)'
  BY RecordedFits
<1>2. CallsFit(prog, cs, storeFns, RWIns)
  BY DEF During
<1>3. CallsFit(prog, cs', storeFns, RWIns') /\ cs' # <<>>
  BY <1>1, <1>2, CallsReplace DEF top, rest
<1> QED
  BY <1>1, <1>3 DEF During

LEMMA AfterStep ==
  ASSUME During, cs # <<>>, top.at # "visit", NEW fr, NEW L, NEW H, AfterInstr(fr, L, H),
         fr.fn = top.fn, fr.goID = top.goID, DOMAIN fr = Fields, HasInsn(prog, Ins(fr)),
         AllDefers(prog, fr.toDefer), AllDefers(prog, fr.run),
         RecordedNoGo, UNCHANGED <<prog, storeFns, goVars>>
  PROVE  During'
<1>1. prog \in Programs /\ fr.fn \in DOMAIN prog
  BY TopFacts DEF During, Local
<1>2. PICK x : /\ cs' = Append(rest, x) /\ Local(x, prog)
               /\ x.fn = fr.fn /\ x.goID = fr.goID /\ x.at # "visit"
  BY <1>1, AfterFits
<1> QED
  BY <1>2, TopStep

\* The same for the activation itself.
LEMMA AfterTop ==
  ASSUME During, cs # <<>>, top.at \in {"instr", "back", "defers"}, NEW L, NEW H,
         AfterInstr(top, L, H), RecordedNoGo, UNCHANGED <<prog, storeFns, goVars>>
  PROVE  During'
<1>1. Local(top, prog)
  BY TopFacts
<1> QED
  BY <1>1, AfterStep DEF Local

LEMMA SameStep ==
  ASSUME During, UNCHANGED <<prog, cs, storeFns, goVars, RWIns>>
  PROVE  During'
BY DEF During, goVars

LEMMA CodeOfTop == Insn(prog, Ins(top)) = Code(top)
BY DEF Insn, Code, InstrAt

LEMMA EnterStep == ASSUME During, Enter PROVE During'
<1> DEFINE x == [top EXCEPT !.at = "instr", !.size = Size(locks, "W", top.goID)]
<1>1. cs # <<>> /\ top.at = "enter" /\ cs' = Append(rest, x)
  BY DEF Enter, At, Start
<1>2. Local(top, prog) /\ prog \in Programs
  BY <1>1, TopFacts DEF During
<1>3. /\ DOMAIN x = Fields /\ x.fn = top.fn /\ x.goID = top.goID /\ x.b = 1 /\ x.i = 1
      /\ x.at = "instr" /\ x.toDefer = top.toDefer /\ x.run = top.run
  BY <1>1, <1>2 DEF Local, Fields
<1> HIDE DEF x
<1>4. HasInsn(prog, Ins(x))
  <2>1. /\ Len(prog[x.fn]) \in Nat \ {0} /\ DOMAIN prog[x.fn] = 1..Len(prog[x.fn])
        /\ \A b \in DOMAIN prog[x.fn] :
             /\ Len(prog[x.fn][b].instrs) \in Nat \ {0}
             /\ DOMAIN prog[x.fn][b].instrs = 1..Len(prog[x.fn][b].instrs)
    BY <1>2, <1>3, ProgramsAssumption DEF PlainProgram, Local
  <2>2. 1 \in DOMAIN prog[x.fn]
    BY <2>1
  <2>3. 1 \in DOMAIN prog[x.fn][1].instrs
    BY <2>1, <2>2
  <2> QED
    BY <1>2, <1>3, <2>2, <2>3 DEF HasInsn, Ins, Local
<1>5. Local(x, prog)
  BY <1>2, <1>3, <1>4 DEF Local, Frames
<1>6. RecordedNoGo /\ UNCHANGED <<prog, storeFns, goVars>>
  BY DEF Enter, RecordedNoGo
<1> QED
  BY <1>1, <1>3, <1>5, <1>6, TopStep

LEMMA AccessStep == ASSUME During, Access PROVE During'
<1>1. cs # <<>> /\ top.at = "instr" /\ Code(top).op # "go" /\ AfterInstr(top, locks, held)
  BY DEF Access, AtOp, At
<1>2. RWIns' = Record(RWIns, top.goID, Ins(top), storeFns) /\ UNCHANGED <<prog, storeFns, goVars>>
  BY DEF Access
<1>3. RecordedNoGo
  BY <1>1, <1>2, CodeOfTop DEF RecordedNoGo
<1> QED
  BY <1>1, <1>2, <1>3, AfterTop

LEMMA RecordOnlyStep == ASSUME During, RecordOnly PROVE During'
<1>1. cs # <<>> /\ top.at = "instr" /\ Code(top).op # "go" /\ AfterInstr(top, locks, held)
  BY DEF RecordOnly, AtOp, At
<1>2. RWIns' = Record(RWIns, top.goID, Ins(top), storeFns) /\ UNCHANGED <<prog, storeFns, goVars>>
  BY DEF RecordOnly
<1>3. RecordedNoGo
  BY <1>1, <1>2, CodeOfTop DEF RecordedNoGo
<1> QED
  BY <1>1, <1>2, <1>3, AfterTop

LEMMA LockOpStep == ASSUME During, LockOp PROVE During'
<1>1. cs # <<>> /\ top.at = "instr"
  BY DEF LockOp, AtOp, At
<1> DEFINE l == Code(top).arg
           g == top.goID
           op == Code(top).op
           frozen == op = "unlock" /\ InIf(top) /\ Holds(locks, "W", l, g)
           fr == [top EXCEPT
                    !.toUnlock = IF frozen THEN Append(@, l) ELSE @,
                    !.toRUnlock = IF op = "runlock" THEN Append(@, l) ELSE @,
                    !.skipped = IF op \in {"unlock", "runlock"} /\ OnBranch(top)
                                   /\ l \in HeldBy(g) THEN Append(@, l) ELSE @]
<1>3. Local(top, prog)
  BY <1>1, TopFacts
<1>4. /\ DOMAIN fr = Fields /\ fr.fn = top.fn /\ fr.goID = top.goID /\ fr.b = top.b
      /\ fr.i = top.i /\ fr.toDefer = top.toDefer /\ fr.run = top.run
  BY <1>3 DEF Local, Fields
<1>5. PICK L, H : AfterInstr(fr, L, H)
  BY DEF LockOp
<1> HIDE DEF fr
<1>6. HasInsn(prog, Ins(fr))
  BY <1>1, <1>3, <1>4 DEF Local, Ins
<1>7. RecordedNoGo /\ UNCHANGED <<prog, storeFns, goVars>>
  BY DEF LockOp, RecordedNoGo
<1> QED
  BY <1>1, <1>3, <1>4, <1>5, <1>6, <1>7, AfterStep DEF Local

LEMMA BackStep == ASSUME During, Back PROVE During'
<1>1. cs # <<>> /\ top.at = "back" /\ AfterInstr(top, locks, held)
  BY DEF Back, At
<1>2. RecordedNoGo /\ UNCHANGED <<prog, storeFns, goVars>>
  BY DEF Back, RecordedNoGo
<1> QED
  BY <1>1, <1>2, AfterTop

LEMMA GoUnknownStep == ASSUME During, GoUnknown PROVE During'
<1>1. cs # <<>> /\ top.at = "instr" /\ AfterInstr(top, locks, held)
  BY DEF GoUnknown, AtOp, At
<1>2. RecordedNoGo /\ UNCHANGED <<prog, storeFns, goVars>>
  BY DEF GoUnknown, RecordedNoGo
<1> QED
  BY <1>1, <1>2, AfterTop

LEMMA DeferStep == ASSUME During, Defer PROVE During'
<1> DEFINE d == <<Ins(top)>> \o top.toDefer
           fr == [top EXCEPT !.toDefer = d]
<1>1. cs # <<>> /\ top.at = "instr" /\ Code(top).op = "defer"
  BY DEF Defer, AtOp, At
<1>2. Local(top, prog)
  BY <1>1, TopFacts
<1>3. AfterInstr(fr, locks, held)
  <2>1. [top EXCEPT !.toDefer = <<Ins(top)>> \o @] = fr
    BY <1>2 DEF Local, Fields
  <2> QED
    BY <2>1 DEF Defer
<1>4. AllDefers(prog, d)
  <2> DEFINE one == <<Ins(top)>>
             q == top.toDefer
  <2>1. one \in Seq({Ins(top)}) /\ Len(one) = 1 /\ one[1] = Ins(top)
    OBVIOUS
  <2>2. IsSeq(one) /\ IsSeq(q)
    BY <1>2, <2>1 DEF IsSeq, Local, AllDefers
  <2>3. Len(q) \in Nat
    BY <2>2, SeqFacts
  <2> HIDE DEF one, q
  <2>4. /\ IsSeq(one \o q) /\ Len(one \o q) = Len(one) + Len(q)
        /\ \A n \in 1..Len(one) : (one \o q)[n] = one[n]
        /\ \A n \in 1..Len(q) : (one \o q)[Len(one) + n] = q[n]
    BY <2>2, SeqConcat
  <2>5. d = one \o q
    BY DEF one, q
  <2> HIDE DEF d
  <2>6. ASSUME NEW n \in 1..Len(d) PROVE HasInsn(prog, d[n]) /\ Insn(prog, d[n]).op = "defer"
    <3>1. CASE n = 1
      <4>1. d[n] = Ins(top)
        BY <2>1, <2>4, <2>5, <3>1
      <4> QED
        BY <1>1, <1>2, <4>1, CodeOfTop DEF Local
    <3>2. CASE n # 1
      <4>1. n - 1 \in 1..Len(q) /\ 1 + (n - 1) = n
        BY <2>1, <2>3, <2>4, <2>5, <3>2
      <4>2. d[n] = q[n - 1]
        BY <2>1, <2>4, <2>5, <4>1
      <4>3. \A m \in 1..Len(q) : HasInsn(prog, q[m]) /\ Insn(prog, q[m]).op = "defer"
        BY <1>2 DEF Local, AllDefers, q
      <4> QED
        BY <4>1, <4>2, <4>3
    <3> QED
      BY <3>1, <3>2
  <2> QED
    BY <2>4, <2>5, <2>6 DEF AllDefers
<1>5. /\ DOMAIN fr = Fields /\ fr.fn = top.fn /\ fr.goID = top.goID /\ fr.b = top.b
      /\ fr.i = top.i /\ fr.toDefer = d /\ fr.run = top.run
  BY <1>2 DEF Local, Fields
<1> HIDE DEF fr, d
<1>6. HasInsn(prog, Ins(fr))
  BY <1>1, <1>2, <1>5 DEF Local, Ins
<1>7. RecordedNoGo /\ UNCHANGED <<prog, storeFns, goVars>>
  BY DEF Defer, RecordedNoGo
<1> QED
  BY <1>1, <1>2, <1>3, <1>4, <1>5, <1>6, <1>7, AfterStep DEF Local

LEMMA RunDefersStep == ASSUME During, RunDefers PROVE During'
<1> DEFINE x == [top EXCEPT !.at = "defers", !.run = top.toDefer, !.toDefer = <<>>]
<1>1. cs # <<>> /\ top.at = "instr" /\ Code(top).op = "rundefers" /\ cs' = Append(rest, x)
  BY DEF RunDefers, AtOp, At
<1>2. Local(top, prog)
  BY <1>1, TopFacts
<1>3. /\ DOMAIN x = Fields /\ x.fn = top.fn /\ x.goID = top.goID /\ x.b = top.b /\ x.i = top.i
      /\ x.at = "defers" /\ x.toDefer = <<>> /\ x.run = top.toDefer
  BY <1>2 DEF Local, Fields
<1> HIDE DEF x
<1>4. Ins(x) = Ins(top)
  BY <1>3 DEF Ins
<1>5. Local(x, prog)
  BY <1>1, <1>2, <1>3, <1>4, NoDefers, CodeOfTop DEF Local, Frames
<1>6. RecordedNoGo /\ UNCHANGED <<prog, storeFns, goVars>>
  <2>1. RWIns' = Record(RWIns, top.goID, Ins(top), storeFns)
    BY DEF RunDefers
  <2> QED
    BY <1>1, <2>1, CodeOfTop DEF RunDefers, RecordedNoGo
<1> QED
  BY <1>1, <1>3, <1>5, <1>6, TopStep

LEMMA DefersDoneStep == ASSUME During, DefersDone PROVE During'
<1>1. cs # <<>> /\ top.at = "defers" /\ AfterInstr(top, locks, held)
  BY DEF DefersDone, At
<1>2. RWIns' = Record(RWIns, top.goID, Ins(top), storeFns) /\ UNCHANGED <<prog, storeFns, goVars>>
  BY DEF DefersDone
<1>3. Insn(prog, Ins(top)).op # "go"
  BY <1>1, TopFacts DEF Local
<1>4. RecordedNoGo
  BY <1>2, <1>3 DEF RecordedNoGo
<1> QED
  BY <1>1, <1>2, <1>4, AfterTop

LEMMA PlainCode ==
  ASSUME prog \in Programs, NEW ins, HasInsn(prog, ins)
  PROVE  InstrPlain(prog, Insn(prog, ins))
<1>1. PlainProgram(prog)
  BY ProgramsAssumption
<1> QED
  BY <1>1 DEF PlainProgram, HasInsn, Insn

\* Whatever is visited has a function of interest on the call stack.
LEMMA LiveTop ==
  ASSUME During, cs # <<>>, top.at # "visit"
  PROVE  Live(cs) # {}
<1>1. IsSeq(cs) /\ Balanced(cs, storeFns)
  BY DEF During, CallsFit
<1>2. Len(cs) \in DOMAIN cs
  BY <1>1, SeqFacts
<1>3. CASE top.fn \in LibFns
  BY <1>1, <1>2, <1>3 DEF Balanced, top
<1>4. CASE top.fn \notin LibFns
  BY <1>2, <1>4 DEF Live, Pushed, top
<1> QED
  BY <1>3, <1>4

\* The current activation goes on, may record the instruction, and traverses f.
LEMMA TraverseStep ==
  ASSUME During, cs # <<>>, top.at # "visit", NEW x, NEW R, NEW f, NEW ins, NEW calls,
         Local(x, prog), x.fn = top.fn, x.goID = top.goID, x.at # "visit",
         R = RWIns \/ R = Record(RWIns, top.goID, ins, calls),
         Insn(prog, ins).op # "go", f \in Callable(prog),
         TraverseFn(R, f, top.goID, ins, Append(rest, x)),
         UNCHANGED <<prog, goVars>>
  PROVE  During'
<1> DEFINE frames == Append(rest, x)
           g == top.goID
<1>1. /\ Recs(RWIns) /\ InLast(top, RWIns) /\ Len(RWIns) \in Nat \ {0} /\ prog \in Programs
      /\ SpawnsFit(prog, RWIns, workList, goStack, goCaller, loopIDs, twinGoID)
      /\ FirstGo(prog, RWIns[1], insMono)
      /\ CallsFit(prog, cs, storeFns, RWIns)
  BY TopFacts DEF During
<1>2. g = Len(RWIns) - 1 /\ (Len(RWIns) > 1 => RWIns[Len(RWIns)] # <<>>)
  BY <1>1 DEF InLast
<1>3. /\ Grown(RWIns, R)
      /\ SpawnsFit(prog, R, workList, goStack, goCaller, loopIDs, twinGoID)
      /\ FirstGo(prog, R[1], insMono)
  <2>1. CASE R = RWIns
    BY <1>1, <2>1, GrownSame
  <2>2. CASE R = Record(RWIns, top.goID, ins, calls)
    <3>1. R = Record(RWIns, Len(RWIns) - 1, ins, calls)
      BY <1>2, <2>2
    <3>2. LET S == Record(RWIns, Len(RWIns) - 1, ins, calls)
          IN /\ Grown(RWIns, S)
             /\ SpawnsFit(prog, S, workList, goStack, goCaller, loopIDs, twinGoID)
             /\ FirstGo(prog, S[1], insMono)
      BY <1>1, <1>2, RecordFits
    <3> QED
      BY <3>1, <3>2
  <2> QED
    BY <2>1, <2>2
<1>4. /\ CallsFit(prog, frames, storeFns, R) /\ frames # <<>> /\ Live(frames) = Live(cs)
  BY <1>1, <1>3, CallsReplace DEF top, rest
<1>5. Recs(R) /\ Len(R) = Len(RWIns) /\ InLast(x, R)
  <2>1. InLast(x, RWIns)
    BY <1>1 DEF InLast
  <2> QED
    BY <1>1, <1>3, <2>1, InLastGrown DEF Grown
<1>6. g = Len(R) - 1 /\ (g > 0 => R[Len(R)] # <<>>) /\ (Len(R) > 1 => R[Len(R)] # <<>>)
  BY <1>1, <1>2, <1>5 DEF InLast
<1>7. Live(frames) # {}
  BY <1>4, LiveTop
<1> HIDE DEF frames, g
<1>8. TraverseFn(R, f, g, ins, frames)
  BY DEF frames, g
<1>9. /\ CallsFit(prog, cs', storeFns', RWIns') /\ cs' # <<>>
      /\ \/ storeFns # <<>> /\ RWIns' = RWIns
         \/ RWIns' = R
         \/ \E stack : RWIns' = Record(R, g, ins, stack)
  BY <1>1, <1>4, <1>6, <1>7, <1>8, TraverseFits
<1>10. /\ SpawnsFit(prog, RWIns', workList, goStack, goCaller, loopIDs, twinGoID)
       /\ FirstGo(prog, RWIns'[1], insMono)
  <2>1. CASE RWIns' = RWIns
    BY <1>1, <2>1
  <2>2. CASE RWIns' = R
    BY <1>3, <2>2
  <2>3. CASE \E stack : RWIns' = Record(R, g, ins, stack)
    <3>1. PICK stack : RWIns' = Record(R, Len(R) - 1, ins, stack)
      BY <1>6, <2>3
    <3>2. LET S == Record(R, Len(R) - 1, ins, stack)
          IN /\ SpawnsFit(prog, S, workList, goStack, goCaller, loopIDs, twinGoID)
             /\ FirstGo(prog, S[1], insMono)
      BY <1>3, <1>5, <1>6, RecordFits
    <3> QED
      BY <3>1, <3>2
  <2> QED
    BY <1>9, <2>1, <2>2, <2>3
<1> QED
  BY <1>1, <1>9, <1>10 DEF During, goVars

LEMMA CallStep == ASSUME During, Call PROVE During'
<1> DEFINE x == [top EXCEPT !.at = "back"]
           R == IF AccessBefore(Code(top))
                THEN Record(RWIns, top.goID, Ins(top), storeFns) ELSE RWIns
<1>1. /\ cs # <<>> /\ top.at = "instr" /\ Code(top).op \in Traversing
      /\ TraverseFn(R, Code(top).arg, top.goID, Ins(top), Append(rest, x))
      /\ UNCHANGED <<prog, goVars>>
  BY DEF Call, AtOp, At
<1>2. Local(top, prog) /\ prog \in Programs
  BY <1>1, TopFacts DEF During
<1>3. /\ DOMAIN x = Fields /\ x.fn = top.fn /\ x.goID = top.goID /\ x.b = top.b /\ x.i = top.i
      /\ x.at = "back" /\ x.toDefer = top.toDefer /\ x.run = top.run
  BY <1>2 DEF Local, Fields
<1>4. R = RWIns \/ R = Record(RWIns, top.goID, Ins(top), storeFns)
  OBVIOUS
<1> HIDE DEF x, R
<1>5. Ins(x) = Ins(top) /\ HasInsn(prog, Ins(top))
  BY <1>1, <1>2, <1>3 DEF Ins, Local
<1>6. Local(x, prog)
  BY <1>2, <1>3, <1>5 DEF Local, Frames
<1>7. Code(top).arg \in Callable(prog) /\ Insn(prog, Ins(top)).op # "go"
  BY <1>1, <1>2, <1>5, PlainCode, CodeOfTop DEF InstrPlain, Traversing
<1> QED
  BY <1>1, <1>3, <1>4, <1>6, <1>7, TraverseStep

\* One deferred call is taken.
LEMMA PoppedFits ==
  ASSUME During, cs # <<>>, top.at \in {"defers", "final"}, NextDeferred # <<>>
  PROVE  /\ Local(Popped, prog) /\ Popped.fn = top.fn /\ Popped.goID = top.goID
         /\ Popped.at = top.at
         /\ HasInsn(prog, DeferredIns) /\ Insn(prog, DeferredIns).op = "defer"
         /\ DeferredArg = Insn(prog, DeferredIns).arg
<1>1. Local(top, prog)
  BY TopFacts
<1>2. AllDefers(prog, NextDeferred)
  BY <1>1 DEF NextDeferred, Local
<1>3. Len(NextDeferred) \in Nat \ {0} /\ DeferredIns = NextDeferred[1]
  BY <1>2, SeqFacts, SeqTail DEF AllDefers, DeferredIns
<1>4. HasInsn(prog, DeferredIns) /\ Insn(prog, DeferredIns).op = "defer"
  BY <1>2, <1>3 DEF AllDefers
<1>5. AllDefers(prog, Tail(NextDeferred))
  <2> DEFINE q == NextDeferred
  <2>1. IsSeq(q) /\ Len(q) \in Nat \ {0}
    BY <1>2, <1>3 DEF AllDefers
  <2>2. IsSeq(Tail(q)) /\ Len(Tail(q)) = Len(q) - 1 /\ \A n \in 1..(Len(q) - 1) : Tail(q)[n] = q[n + 1]
    BY <2>1, SeqTail
  <2>3. ASSUME NEW n \in 1..Len(Tail(q))
        PROVE  HasInsn(prog, Tail(q)[n]) /\ Insn(prog, Tail(q)[n]).op = "defer"
    <3>1. n \in 1..(Len(q) - 1) /\ n + 1 \in 1..Len(q)
      BY <2>1, <2>2
    <3> QED
      BY <1>2, <2>2, <3>1 DEF AllDefers
  <2> QED
    BY <2>2, <2>3 DEF AllDefers
<1>6. /\ DOMAIN Popped = Fields /\ Popped.fn = top.fn /\ Popped.goID = top.goID
      /\ Popped.b = top.b /\ Popped.i = top.i /\ Popped.at = top.at
      /\ Popped.toDefer = top.toDefer \/ Popped.toDefer = Tail(NextDeferred)
      /\ Popped.run = top.run \/ Popped.run = Tail(NextDeferred)
  BY <1>1 DEF Popped, NextDeferred, Local, Fields
<1>7. Ins(Popped) = Ins(top)
  BY <1>6 DEF Ins
<1>8. Local(Popped, prog)
  BY <1>1, <1>5, <1>6, <1>7 DEF Local
<1> QED
  BY <1>4, <1>6, <1>8 DEF DeferredArg, Insn, InstrAt

LEMMA DeferredCallStep == ASSUME During, DeferredCall PROVE During'
<1>1. /\ cs # <<>> /\ top.at \in {"defers", "final"} /\ NextDeferred # <<>>
      /\ DeferredArg.kind = "call"
      /\ TraverseFn(RWIns, DeferredArg.of, top.goID, DeferredIns, Append(rest, Popped))
      /\ UNCHANGED <<prog, goVars>>
  BY DEF DeferredCall, AtDeferred, At
<1>2. /\ Local(Popped, prog) /\ Popped.fn = top.fn /\ Popped.goID = top.goID
      /\ Popped.at = top.at
      /\ HasInsn(prog, DeferredIns) /\ Insn(prog, DeferredIns).op = "defer"
      /\ DeferredArg = Insn(prog, DeferredIns).arg
  BY <1>1, PoppedFits
<1>3. DeferredArg.of \in Callable(prog)
  BY <1>1, <1>2, PlainCode DEF InstrPlain, During
<1>4. top.at # "visit" /\ Popped.at # "visit" /\ Insn(prog, DeferredIns).op # "go"
  BY <1>1, <1>2
<1> QED
  BY <1>1, <1>2, <1>3, <1>4, TraverseStep

\* What is kept for the end of the function.
LEMMA LocalUnlocks ==
  ASSUME NEW p, NEW fr, NEW x, NEW u, Local(fr, p),
         x = [fr EXCEPT !.toUnlock = u] \/ x = [fr EXCEPT !.toRUnlock = u]
  PROVE  Local(x, p) /\ x.fn = fr.fn /\ x.goID = fr.goID /\ x.at = fr.at
<1>1. /\ DOMAIN x = Fields /\ x.fn = fr.fn /\ x.goID = fr.goID /\ x.at = fr.at
      /\ x.b = fr.b /\ x.i = fr.i /\ x.toDefer = fr.toDefer /\ x.run = fr.run
  BY DEF Local, Fields
<1>2. Local(x, p)
  BY <1>1 DEF Local, Ins
<1> QED
  BY <1>1, <1>2

LEMMA DeferredUnlockStep == ASSUME During, DeferredUnlock PROVE During'
<1>1. /\ cs # <<>> /\ top.at \in {"defers", "final"} /\ NextDeferred # <<>>
      /\ UNCHANGED <<prog, storeFns, goVars>>
  BY DEF DeferredUnlock, AtDeferred, At
<1>2. Local(Popped, prog) /\ Popped.fn = top.fn /\ Popped.goID = top.goID /\ Popped.at = top.at
  BY <1>1, PoppedFits
<1>3. PICK u : cs' = Append(rest, [Popped EXCEPT !.toUnlock = u])
  BY DEF DeferredUnlock
<1>4. RecordedNoGo
  BY DEF DeferredUnlock, RecordedNoGo
<1> DEFINE x == [Popped EXCEPT !.toUnlock = u]
<1>5. Local(x, prog) /\ x.fn = top.fn /\ x.goID = top.goID /\ x.at = top.at
  <2>1. x = [Popped EXCEPT !.toUnlock = u] \/ x = [Popped EXCEPT !.toRUnlock = u]
    OBVIOUS
  <2> HIDE DEF x
  <2> QED
    BY <1>2, <2>1, LocalUnlocks
<1>6. cs' = Append(rest, x) /\ top.at # "visit"
  BY <1>1, <1>3
<1> HIDE DEF x
<1> QED
  BY <1>1, <1>4, <1>5, <1>6, TopStep

LEMMA DeferredRUnlockStep == ASSUME During, DeferredRUnlock PROVE During'
<1>1. /\ cs # <<>> /\ top.at \in {"defers", "final"} /\ NextDeferred # <<>>
      /\ UNCHANGED <<prog, storeFns, goVars>>
  BY DEF DeferredRUnlock, AtDeferred, At
<1>2. Local(Popped, prog) /\ Popped.fn = top.fn /\ Popped.goID = top.goID /\ Popped.at = top.at
  BY <1>1, PoppedFits
<1>3. PICK u : cs' = Append(rest, [Popped EXCEPT !.toRUnlock = u])
  BY DEF DeferredRUnlock
<1>4. RecordedNoGo
  BY DEF DeferredRUnlock, RecordedNoGo
<1> DEFINE x == [Popped EXCEPT !.toRUnlock = u]
<1>5. Local(x, prog) /\ x.fn = top.fn /\ x.goID = top.goID /\ x.at = top.at
  <2>1. x = [Popped EXCEPT !.toUnlock = u] \/ x = [Popped EXCEPT !.toRUnlock = u]
    OBVIOUS
  <2> HIDE DEF x
  <2> QED
    BY <1>2, <2>1, LocalUnlocks
<1>6. cs' = Append(rest, x) /\ top.at # "visit"
  BY <1>1, <1>3
<1> HIDE DEF x
<1> QED
  BY <1>1, <1>4, <1>5, <1>6, TopStep

LEMMA DeferredDoneStep == ASSUME During, DeferredDone PROVE During'
<1>1. /\ cs # <<>> /\ top.at \in {"defers", "final"} /\ NextDeferred # <<>>
      /\ cs' = Append(rest, Popped) /\ UNCHANGED <<prog, storeFns, goVars>>
      /\ RWIns' = Record(RWIns, top.goID, DeferredIns, storeFns)
  BY DEF DeferredDone, AtDeferred, At
<1>2. /\ Local(Popped, prog) /\ Popped.fn = top.fn /\ Popped.goID = top.goID /\ Popped.at = top.at
      /\ Insn(prog, DeferredIns).op # "go"
  BY <1>1, PoppedFits
<1>3. RecordedNoGo
  BY <1>1, <1>2 DEF RecordedNoGo
<1> QED
  BY <1>1, <1>2, <1>3, TopStep

LEMMA FinalUnlockStep == ASSUME During, FinalUnlock PROVE During'
<1>1. cs # <<>> /\ top.at = "final" /\ UNCHANGED <<prog, storeFns, goVars, RWIns>>
  BY DEF FinalUnlock, At
<1>2. CASE cs' = cs
  BY <1>1, <1>2, SameStep
<1>3. CASE cs' = Append(rest, [top EXCEPT !.toUnlock = Tail(@)])
  <2>1. Local(top, prog)
    BY <1>1, TopFacts
  <2>2. PICK u : cs' = Append(rest, [top EXCEPT !.toUnlock = u])
    BY <1>3
  <2>3. RecordedNoGo
    BY <1>1 DEF RecordedNoGo
  <2> QED
    BY <1>1, <2>1, <2>2, <2>3, LocalUnlocks, TopStep
<1> QED
  BY <1>2, <1>3 DEF FinalUnlock

\* The last activation is over.
LEMMA CallsPop ==
  ASSUME NEW p, NEW s, NEW fns, NEW R, CallsFit(p, s, fns, R), s # <<>>, ~Pushed(s[Len(s)])
  PROVE  CallsFit(p, SubSeq(s, 1, Len(s) - 1), fns, R)
<1> DEFINE r == SubSeq(s, 1, Len(s) - 1)
           k == Len(s)
<1>1. /\ IsSeq(s) /\ IsSeq(fns) /\ Recs(R) /\ Balanced(s, fns)
      /\ \A n \in 1..k : Local(s[n], p) /\ InLast(s[n], R)
  BY DEF CallsFit
<1>2. k \in Nat \ {0}
  BY <1>1, SeqFacts
<1>3. IsSeq(r) /\ Len(r) = k - 1 /\ \A n \in 1..(k - 1) : r[n] = s[n]
  BY <1>1, SeqFront
<1> HIDE DEF r
<1>4. Balanced(r, fns)
  <2>1. \A n \in 1..k : n <= Len(r) => r[n] = s[n]
    BY <1>2, <1>3
  <2>2. \A n \in 1..k : n > Len(r) => ~Pushed(s[n])
    BY <1>2, <1>3
  <2>3. \A n \in 1..Len(r) : ~(n > k)
    BY <1>2, <1>3
  <2> QED
    BY <1>1, <1>3, <2>1, <2>2, <2>3, BalancedOthers
<1>5. \A n \in 1..Len(r) : Local(r[n], p) /\ InLast(r[n], R)
  BY <1>1, <1>2, <1>3
<1> QED
  BY <1>1, <1>3, <1>4, <1>5 DEF CallsFit, r

LEMMA EnterReturnStep == ASSUME During, EnterReturn PROVE During'
<1>1. /\ cs # <<>> /\ top.at = "enter" /\ cs' = rest
      /\ UNCHANGED <<prog, storeFns, goVars, RWIns>>
      /\ NameOf[top.fn] = NameOf[Entry] \/ top.fn \in ExcludedPkg
  BY DEF EnterReturn, At
<1>2. Local(top, prog) /\ Len(cs) \in Nat \ {0}
  BY <1>1, TopFacts
<1>3. top.fn \in Callable(prog)
  BY <1>1, <1>2 DEF Local, Callable
<1>4. top.fn \in LibFns
  <2>1. NameOf[top.fn] # NameOf[Entry]
    BY <1>3, ProgramsAssumption DEF PlainProgram, During
  <2> QED
    BY <1>1, <2>1, ProgramsAssumption
<1>5. /\ CallsFit(prog, cs, storeFns, RWIns) /\ IsSeq(cs) /\ Balanced(cs, storeFns)
      /\ SpawnsFit(prog, RWIns, workList, goStack, goCaller, loopIDs, twinGoID)
      /\ FirstGo(prog, RWIns[1], insMono) /\ prog \in Programs
  BY DEF During, CallsFit
<1>6. CallsFit(prog, cs', storeFns, RWIns)
  <2>1. ~Pushed(cs[Len(cs)])
    BY <1>4 DEF Pushed, top
  <2> QED
    BY <1>1, <1>5, <2>1, CallsPop DEF rest
<1>7. cs' # <<>>
  <2>1. DOMAIN cs = 1..Len(cs) /\ Live(cs) \subseteq 1..Len(cs)
    BY <1>5, SeqFacts, LiveFinite
  <2>2. \E m \in Live(cs) : m < Len(cs)
    BY <1>1, <1>2, <1>4, <1>5, <2>1 DEF Balanced, top
  <2>3. Len(cs) - 1 # 0
    BY <1>2, <2>1, <2>2
  <2>4. Len(rest) = Len(cs) - 1
    BY <1>1, <1>5, SeqFront DEF rest
  <2> QED
    BY <1>1, <2>3, <2>4, SeqEmpty
<1> QED
  BY <1>1, <1>5, <1>6, <1>7 DEF During, goVars

LEMMA VisitDoneStep == ASSUME During, VisitDone PROVE During'
<1>1. /\ cs # <<>> /\ top.at = "visit" /\ cs' = rest
      /\ storeFns # <<>> \/ workList = <<>>
      /\ UNCHANGED <<prog, storeFns, goVars, RWIns>>
  BY DEF VisitDone, At
<1>2. /\ CallsFit(prog, cs, storeFns, RWIns) /\ IsSeq(cs) /\ Balanced(cs, storeFns)
      /\ SpawnsFit(prog, RWIns, workList, goStack, goCaller, loopIDs, twinGoID)
      /\ FirstGo(prog, RWIns[1], insMono) /\ prog \in Programs /\ IsSeq(storeFns)
  BY DEF During, CallsFit
<1>3. ~Pushed(cs[Len(cs)])
  BY <1>1 DEF Pushed, top
<1>4. CallsFit(prog, cs', storeFns, RWIns)
  BY <1>1, <1>2, <1>3, CallsPop DEF rest
<1>5. ASSUME cs' = <<>> PROVE workList = <<>>
  <2>1. Len(cs) \in Nat \ {0} /\ Len(rest) = Len(cs) - 1 /\ DOMAIN cs = 1..Len(cs)
    BY <1>1, <1>2, SeqFront, SeqFacts DEF rest
  <2>2. Len(cs) = 1
    BY <1>1, <1>5, <2>1, SeqEmpty
  <2>3. Live(cs) = {}
    BY <1>3, <2>1, <2>2 DEF Live
  <2>4. Len(storeFns) = 0
    BY <1>2, <2>3, FS_EmptySet DEF Balanced
  <2> QED
    BY <1>1, <1>2, <2>4, SeqFacts
<1> QED
  BY <1>1, <1>2, <1>4, <1>5 DEF During, goVars

LEMMA PopStep == ASSUME During, Pop PROVE During'
<1> DEFINE x == [top EXCEPT !.at = "visit"]
           k == Len(cs)
<1>1. /\ cs # <<>> /\ top.at = "final" /\ UNCHANGED <<prog, goVars, RWIns>>
  BY DEF Pop, At
<1>2. CASE cs' = cs /\ storeFns' = storeFns
  BY <1>1, <1>2, SameStep
<1>3. CASE cs' = Append(rest, x) /\ storeFns' = PoppedFns(top.fn)
  <2>1. Local(top, prog) /\ k \in Nat \ {0}
    BY <1>1, TopFacts
  <2>2. /\ CallsFit(prog, cs, storeFns, RWIns) /\ IsSeq(cs) /\ IsSeq(storeFns)
        /\ Balanced(cs, storeFns) /\ Recs(RWIns) /\ prog \in Programs
        /\ SpawnsFit(prog, RWIns, workList, goStack, goCaller, loopIDs, twinGoID)
        /\ FirstGo(prog, RWIns[1], insMono)
        /\ \A n \in 1..k : Local(cs[n], prog) /\ InLast(cs[n], RWIns)
    BY DEF During, CallsFit
  <2>3. /\ DOMAIN x = Fields /\ x.fn = top.fn /\ x.at = "visit" /\ x.toDefer = top.toDefer
        /\ x.run = top.run
    BY <2>1 DEF Local, Fields
  <2> HIDE DEF x
  <2>4. Local(x, prog) /\ InLast(x, RWIns)
    BY <2>1, <2>3 DEF Local, Frames, InLast
  <2>5. Balanced(cs', storeFns') /\ IsSeq(storeFns')
    <3>1. CASE top.fn \in LibFns
      <4>1. /\ \E n \in Live(cs) : storeFns[Len(storeFns)].fn = cs[n].fn
            /\ Balanced(cs', storeFns)
        BY <1>1, <1>3, <2>2, <2>3, <3>1, BalancedEndLib DEF top, rest
      <4>2. PICK n \in Live(cs) : storeFns[Len(storeFns)].fn = cs[n].fn
        BY <4>1
      <4>3. cs[n].fn \in DOMAIN prog \ LibFns
        <5>1. n \in 1..k
          BY <2>2, <4>2, LiveFinite
        <5> QED
          BY <2>2, <4>2, <5>1 DEF Live, Pushed, Local
      <4>4. NameOf[top.fn] # NameOf[cs[n].fn]
        BY <2>1, <2>2, <3>1, <4>3, ProgramsAssumption DEF PlainProgram, Local
      <4>5. storeFns' = storeFns
        BY <1>3, <4>2, <4>4 DEF PoppedFns
      <4> QED
        BY <2>2, <4>1, <4>5
    <3>2. CASE top.fn \notin LibFns
      <4>1. Pushed(cs[k])
        BY <1>1, <3>2 DEF Pushed, top
      <4>2. /\ storeFns # <<>> /\ storeFns[Len(storeFns)].fn = top.fn
            /\ Balanced(cs', SubSeq(storeFns, 1, Len(storeFns) - 1))
        BY <1>1, <1>3, <2>2, <2>3, <4>1, BalancedEnd DEF top, rest
      <4>3. storeFns' = SubSeq(storeFns, 1, Len(storeFns) - 1)
        BY <1>3, <4>2 DEF PoppedFns
      <4> QED
        BY <2>2, <4>2, <4>3, SeqFront
    <3> QED
      BY <3>1, <3>2
  <2>6. IsSeq(rest) /\ Len(rest) = k - 1 /\ \A n \in 1..(k - 1) : rest[n] = cs[n]
    BY <1>1, <2>2, SeqFront DEF rest
  <2>7. /\ IsSeq(cs') /\ Len(cs') = Len(rest) + 1 /\ cs'[Len(rest) + 1] = x
        /\ \A n \in 1..Len(rest) : cs'[n] = rest[n]
    BY <1>3, <2>6, SeqAppend
  <2>8. Len(rest) + 1 = k
    BY <2>1, <2>6
  <2>9. ASSUME NEW n \in 1..Len(cs') PROVE Local(cs'[n], prog) /\ InLast(cs'[n], RWIns)
    <3>1. CASE n = k
      BY <2>4, <2>7, <2>8, <3>1
    <3>2. CASE n # k
      <4>1. n \in 1..(k - 1) /\ n \in 1..k
        BY <2>1, <2>7, <2>8, <3>2, BelowLast
      <4> QED
        BY <2>2, <2>6, <2>7, <4>1
    <3> QED
      BY <3>1, <3>2
  <2>10. CallsFit(prog, cs', storeFns', RWIns)
    BY <2>2, <2>5, <2>7, <2>9 DEF CallsFit
  <2>11. cs' # <<>>
    BY <2>1, <2>7, <2>8, SeqEmpty
  <2> QED
    BY <1>1, <2>2, <2>10, <2>11 DEF During, goVars
<1> QED
  BY <1>2, <1>3 DEF Pop
-----------------------------------------------------------------------------
(***************************************************************************)
(* A go statement.                                                         *)
(***************************************************************************)
LEMMA GrownTwice ==
  ASSUME NEW R, NEW S, NEW T, Recs(R), Grown(R, S), Grown(S, T)
  PROVE  Grown(R, T)
<1>1. Recs(T) /\ Len(T) = Len(R) /\ Len(S) = Len(R)
  BY DEF Grown
<1>2. ASSUME NEW h \in 1..Len(R)
      PROVE  Len(R[h]) <= Len(T[h]) /\ \A n \in 1..Len(R[h]) : T[h][n] = R[h][n]
  <2>1. Len(R[h]) \in Nat /\ Len(S[h]) \in Nat /\ Len(T[h]) \in Nat
    BY <1>1, SeqFacts DEF Recs, Grown
  <2>2. Len(R[h]) <= Len(S[h]) /\ Len(S[h]) <= Len(T[h])
    BY <1>1 DEF Grown
  <2>3. ASSUME NEW n \in 1..Len(R[h]) PROVE T[h][n] = R[h][n]
    <3>1. n \in 1..Len(S[h])
      BY <2>1, <2>2
    <3> QED
      BY <1>1, <3>1 DEF Grown
  <2> QED
    BY <2>1, <2>2, <2>3
<1> QED
  BY <1>1, <1>2 DEF Grown

\* It is recorded once, or twice in a loop.
RecordsGo(p, R, R1, R2, g, ins, calls, mono) ==
  /\ Recs(R) /\ (Len(R) > 1 => R[Len(R)] # <<>>) /\ Current(R, g)
  /\ Insn(p, ins).op = "go" /\ FirstGo(p, R[1], mono)
  /\ R1 = Record(R, g, ins, calls)
  /\ R2 = R1 \/ R2 = Record(R1, g, ins, calls)

LEMMA GoRecorded ==
  ASSUME NEW p, NEW R, NEW R1, NEW R2, NEW g, NEW ins, NEW calls, NEW mono,
         RecordsGo(p, R, R1, R2, g, ins, calls, mono)
  PROVE  /\ Grown(R, R2)
         /\ \A h \in 2..Len(R) : R[h] = <<>> => R2[h] = <<>>
         /\ \E n \in 1..Len(R2[Len(R2)]) : R2[Len(R2)][n].ins = ins
         /\ FirstGo(p, R2[1], IF g = 0 /\ mono = -1 THEN Len(R1[1]) ELSE mono)
<1> USE DEF Current, RecordsGo
<1> DEFINE r == [ins |-> ins, stack |-> calls]
           RR == Record(R1, g, ins, calls)
           m == IF g = 0 /\ mono = -1 THEN Len(R1[1]) ELSE mono
<1>1. Len(R) \in Nat \ {0} /\ g \in 0..(Len(R) - 1) /\ g + 1 = Len(R)
  BY SeqFacts DEF Recs
<1>2. /\ Grown(R, R1) /\ R1[g + 1] = Append(R[g + 1], r)
      /\ Len(R1[g + 1]) = Len(R[g + 1]) + 1 /\ R1[g + 1][Len(R[g + 1]) + 1] = r
      /\ \A h \in 1..Len(R) : h # g + 1 => R1[h] = R[h]
  BY <1>1, RecordGrows
<1>3. Recs(R1) /\ Len(R1) = Len(R)
  BY <1>2 DEF Grown
<1>4. /\ Grown(R1, RR) /\ RR[g + 1] = Append(R1[g + 1], r)
      /\ \A h \in 1..Len(R) : h # g + 1 => RR[h] = R1[h]
  <2>1. g \in 0..(Len(R1) - 1)
    BY <1>1, <1>3
  <2>2. /\ Grown(R1, RR) /\ RR[g + 1] = Append(R1[g + 1], r)
        /\ \A h \in 1..Len(R1) : h # g + 1 => RR[h] = R1[h]
    <3>1. Longer(R1, RR, g, r)
      BY <1>3, <2>1, RecordLonger
    <3> HIDE DEF RR, r
    <3> QED
      BY <3>1 DEF Longer
  <2> QED
    BY <1>3, <2>2
<1> HIDE DEF RR
<1>a. R2 = RR \/ R2 = R1
  BY DEF RR
<1>5. Grown(R, R2)
  BY <1>2, <1>4, <1>a, GrownTwice
<1>6. \A h \in 2..Len(R) : R[h] = <<>> => R2[h] = <<>>
  BY <1>1, <1>2, <1>4, <1>a
<1>7. \E n \in 1..Len(R2[Len(R2)]) : R2[Len(R2)][n].ins = ins
  <2> DEFINE n == Len(R[g + 1]) + 1
  <2>1. Len(R2) = g + 1 /\ g + 1 \in 1..Len(R)
    BY <1>1, <1>5 DEF Grown
  <2>2. Len(R[g + 1]) \in Nat
    BY <2>1, SeqFacts DEF Recs
  <2>3. n \in 1..Len(R1[g + 1]) /\ R1[g + 1][n].ins = ins
    BY <1>2, <2>2
  <2>4. Len(R1[g + 1]) \in Nat /\ Len(R2[g + 1]) \in Nat
    BY <1>3, <1>5, <2>1, SeqFacts DEF Recs, Grown
  <2> HIDE DEF n
  <2>5. Grown(R1, R2)
    BY <1>3, <1>4, <1>a, GrownSame
  <2>6. n \in 1..Len(R2[g + 1]) /\ R2[g + 1][n] = R1[g + 1][n]
    BY <1>3, <2>1, <2>3, <2>4, <2>5 DEF Grown
  <2> QED
    BY <2>1, <2>3, <2>6
<1>8. FirstGo(p, R2[1], m)
  <2>1. CASE g > 0
    <3>1. R2[1] = R[1] /\ m = mono
      BY <1>1, <1>2, <1>4, <1>a, <2>1, SMTT(30)
    <3> QED
      BY <3>1
  <2>2. CASE ~(g > 0)
    <3>1. g = 0 /\ R1[1] = Append(R[1], r) /\ RR[1] = Append(R1[1], r)
          /\ Len(R1[1]) = Len(R[1]) + 1 /\ IsSeq(R[1]) /\ IsSeq(R1[1])
      BY <1>1, <1>2, <1>3, <1>4, <2>2 DEF Recs
    <3>2. Len(R[1]) \in Nat
      BY <3>1, SeqFacts
    <3>3. Insn(p, r.ins).op = "go"
      OBVIOUS
    <3> HIDE DEF r
    <3>4. m = (IF mono = -1 THEN Len(R[1]) + 1 ELSE mono) /\ m # -1
      BY <3>1, <3>2
    <3> HIDE DEF m
    <3>5. FirstGo(p, R1[1], m)
      BY <3>1, <3>3, <3>4, FirstGoGo
    <3>6. FirstGo(p, RR[1], IF m = -1 THEN Len(R1[1]) + 1 ELSE m)
      BY <3>1, <3>3, <3>5, FirstGoGo
    <3> QED
      BY <1>a, <3>4, <3>5, <3>6
  <2> QED
    BY <2>1, <2>2
<1> QED
  BY <1>5, <1>6, <1>7, <1>8

LEMMA GoStep == ASSUME During, Go PROVE During'
<1> DEFINE g == top.goID
           ins == Ins(top)
           f == Code(top).arg
           G == [work |-> workList, stack |-> goStack, caller |-> goCaller, loops |-> loopIDs]
           loopID == IF inLoop THEN 1 ELSE 0
           G1 == InsGo(G, g, ins, f, loopID)
           GG == InsGo(G1, g, ins, f, 2)
           R1 == Record(RWIns, g, ins, storeFns)
           R2 == IF inLoop THEN Record(R1, g, ins, storeFns) ELSE R1
           k == Len(goStack)
<1>1. /\ cs # <<>> /\ top.at = "instr" /\ Code(top).op = "go" /\ f # NoFn
      /\ AfterInstr(top, locks, held) /\ prog' = prog /\ storeFns' = storeFns
  BY DEF Go, AtOp, At
<1>2. /\ RWIns' = R2 /\ insMono' = FirstGoInMain(g, Len(R1[1]))
      /\ inLoop => /\ workList' = GG.work /\ goStack' = GG.stack
                   /\ goCaller' = GG.caller /\ loopIDs' = GG.loops
                   /\ twinGoID' = twinGoID \/
                      twinGoID' = Put(twinGoID, ins, <<NewGoID(workList, g), NewGoID(G1.work, g)>>)
      /\ ~inLoop => /\ workList' = G1.work /\ goStack' = G1.stack
                    /\ goCaller' = G1.caller /\ loopIDs' = G1.loops /\ twinGoID' = twinGoID
  BY DEF Go
<1>3. /\ Local(top, prog) /\ InLast(top, RWIns) /\ Recs(RWIns) /\ Len(RWIns) \in Nat \ {0}
  BY <1>1, TopFacts
<1>4. /\ CallsFit(prog, cs, storeFns, RWIns) /\ IsSeq(storeFns) /\ prog \in Programs
      /\ SpawnsFit(prog, RWIns, workList, goStack, goCaller, loopIDs, twinGoID)
      /\ FirstGo(prog, RWIns[1], insMono)
  BY DEF During, CallsFit
<1>5. g = Len(RWIns) - 1 /\ (Len(RWIns) > 1 => RWIns[Len(RWIns)] # <<>>)
  BY <1>1, <1>3 DEF InLast
<1>6. Insn(prog, ins).op = "go" /\ f \in Callable(prog) \ LibFns
  <2>1. HasInsn(prog, ins)
    BY <1>1, <1>3 DEF Local
  <2> QED
    BY <1>1, <1>4, <2>1, PlainCode, CodeOfTop DEF InstrPlain
<1>7. /\ Grown(RWIns, R2)
      /\ \A h \in 2..Len(RWIns) : RWIns[h] = <<>> => R2[h] = <<>>
      /\ \E n \in 1..Len(R2[Len(R2)]) : R2[Len(R2)][n].ins = ins
      /\ FirstGo(prog, R2[1], FirstGoInMain(g, Len(R1[1])))
  <2>1. /\ R1 = Record(RWIns, g, ins, storeFns)
        /\ R2 = R1 \/ R2 = Record(R1, g, ins, storeFns)
    OBVIOUS
  <2> HIDE DEF g, ins, R1, R2
  <2>2. RecordsGo(prog, RWIns, R1, R2, g, ins, storeFns, insMono)
    BY <1>3, <1>4, <1>5, <1>6, <2>1 DEF RecordsGo, Current
  <2>3. /\ Grown(RWIns, R2)
        /\ \A h \in 2..Len(RWIns) : RWIns[h] = <<>> => R2[h] = <<>>
        /\ \E n \in 1..Len(R2[Len(R2)]) : R2[Len(R2)][n].ins = ins
        /\ FirstGo(prog, R2[1], IF g = 0 /\ insMono = -1 THEN Len(R1[1]) ELSE insMono)
    BY <2>2, GoRecorded
  <2> QED
    BY <2>3 DEF FirstGoInMain
<1> HIDE DEF R2, ins, f
<1>8. /\ Recs(R2) /\ Len(R2) = Len(RWIns) /\ Current(R2, g) /\ IsSeq(storeFns)
      /\ Insn(prog, ins).op = "go" /\ f \in Callable(prog) \ LibFns
      /\ \E n \in 1..Len(R2[Len(R2)]) : R2[Len(R2)][n].ins = ins
      /\ SpawnsFit(prog, R2, workList, goStack, goCaller, loopIDs, twinGoID)
  <2>1. Recs(R2) /\ Len(R2) = Len(RWIns)
    BY <1>7 DEF Grown
  <2>2. SpawnsFit(prog, R2, workList, goStack, goCaller, loopIDs, twinGoID)
    BY <1>3, <1>4, <1>7, SpawnsGrown
  <2> QED
    BY <1>4, <1>5, <1>6, <1>7, <2>1, <2>2 DEF Current
<1>9. CallsFit(prog, cs', storeFns, R2) /\ cs' # <<>>
  <2>1. HasInsn(prog, Ins(top))
    BY <1>1, <1>3 DEF Local
  <2>2. PICK x : /\ cs' = Append(rest, x) /\ Local(x, prog)
                 /\ x.fn = top.fn /\ x.goID = top.goID /\ x.at # "visit"
    BY <1>1, <1>3, <1>4, <2>1, AfterFits DEF Local
  <2> QED
    BY <1>1, <1>4, <1>7, <2>2, CallsReplace DEF top, rest
<1> HIDE DEF g, R1, k
<1>10. /\ SpawnsFit(prog, R2, G1.work, G1.stack, G1.caller, G1.loops, twinGoID)
       /\ k \in Nat \ {0} /\ Len(G1.stack) = k + 1
       /\ G1.caller[k] = g /\ k \in DOMAIN G1.loops /\ G1.loops[k] = loopID
  <2>1. G.work = workList /\ G.stack = goStack /\ G.caller = goCaller /\ G.loops = loopIDs
    OBVIOUS
  <2> HIDE DEF G, loopID
  <2>2. Spawns(prog, R2, G, g, ins, f, twinGoID)
    BY <1>8, <2>1 DEF Spawns
  <2>3. LET H == InsGo(G, g, ins, f, loopID)
            j == Len(G.stack)
        IN /\ SpawnsFit(prog, R2, H.work, H.stack, H.caller, H.loops, twinGoID)
           /\ j \in Nat \ {0} /\ Len(H.stack) = j + 1
           /\ H.caller[j] = g /\ j \in DOMAIN H.loops /\ H.loops[j] = loopID
    BY <2>2, InsGoFits
  <2> QED
    BY <2>1, <2>3 DEF k
<1> HIDE DEF G, G1
<1>11. CASE ~inLoop
  <2>1. SpawnsFit(prog, R2, workList', goStack', goCaller', loopIDs', twinGoID')
    BY <1>2, <1>10, <1>11
  <2> QED
    BY <1>1, <1>2, <1>4, <1>7, <1>9, <2>1 DEF During
<1>12. CASE inLoop
  <2>1. /\ SpawnsFit(prog, R2, GG.work, GG.stack, GG.caller, GG.loops, twinGoID)
        /\ Len(GG.stack) = k + 2
        /\ GG.caller[k] = g /\ k \in DOMAIN GG.loops /\ GG.loops[k] = 1
        /\ GG.caller[k + 1] = g /\ k + 1 \in DOMAIN GG.loops /\ GG.loops[k + 1] = 2
    <3> DEFINE j == Len(G1.stack)
    <3>1. Spawns(prog, R2, G1, g, ins, f, twinGoID)
      BY <1>8, <1>10 DEF Spawns
    <3>2. /\ j = k + 1 /\ k \in 1..(j - 1) /\ k # j
          /\ G1.caller[k] = g /\ k \in DOMAIN G1.loops /\ G1.loops[k] = 1
      BY <1>10, <1>12
    <3>3. /\ SpawnsFit(prog, R2, GG.work, GG.stack, GG.caller, GG.loops, twinGoID)
          /\ Len(GG.stack) = j + 1
          /\ GG.caller[j] = g /\ j \in DOMAIN GG.loops /\ GG.loops[j] = 2
          /\ \A e \in 1..(j - 1) : GG.caller[e] = G1.caller[e]
          /\ \A e \in DOMAIN G1.loops : /\ e \in DOMAIN GG.loops
                                        /\ e # j => GG.loops[e] = G1.loops[e]
      BY <3>1, InsGoFits
    <3> HIDE DEF GG, j
    <3>4. Len(GG.stack) = k + 2
      BY <1>10, <3>2, <3>3
    <3> QED
      BY <3>2, <3>3, <3>4
  <2> HIDE DEF GG
  <2>2. NewGoID(workList, g) = k /\ NewGoID(G1.work, g) = k + 1
    <3>1. IsSeq(R2) /\ IsSeq(workList) /\ Numbered(R2, workList, goStack, goCaller)
      BY <1>8 DEF SpawnsFit, Recs
    <3>2. IsSeq(G1.work) /\ Numbered(R2, G1.work, G1.stack, G1.caller)
      BY <1>10 DEF SpawnsFit
    <3>3. NewGoID(workList, Len(R2) - 1) = Len(goStack)
      BY <3>1, NewIDFits
    <3>4. NewGoID(G1.work, Len(R2) - 1) = Len(G1.stack)
      BY <3>1, <3>2, NewIDFits
    <3> QED
      BY <1>8, <1>10, <3>3, <3>4 DEF k, Current
  <2>3. Twinned(twinGoID', GG.loops, GG.stack, GG.caller)
    <3>1. Twinned(twinGoID, GG.loops, GG.stack, GG.caller)
      BY <2>1 DEF SpawnsFit
    <3>2. CASE twinGoID' = Put(twinGoID, ins, <<k, k + 1>>)
      <4> DEFINE tw == Put(twinGoID, ins, <<k, k + 1>>)
      <4>1. /\ DOMAIN tw = DOMAIN twinGoID \cup {ins} /\ tw[ins] = <<k, k + 1>>
            /\ \A e \in DOMAIN twinGoID : e # ins => tw[e] = twinGoID[e]
        BY DEF Put
      <4> HIDE DEF tw
      <4>2. k \in 1..(Len(GG.stack) - 2)
        BY <1>10, <2>1
      <4>3. Twinned(tw, GG.loops, GG.stack, GG.caller)
        BY <2>1, <3>1, <4>1, <4>2 DEF Twinned
      <4> QED
        BY <3>2, <4>3 DEF tw
    <3> QED
      BY <1>2, <1>12, <2>2, <3>1, <3>2
  <2>4. SpawnsFit(prog, R2, workList', goStack', goCaller', loopIDs', twinGoID')
    BY <1>2, <1>12, <2>1, <2>3 DEF SpawnsFit
  <2> QED
    BY <1>1, <1>2, <1>4, <1>7, <1>9, <2>4 DEF During
<1> QED
  BY <1>11, <1>12
-----------------------------------------------------------------------------
(***************************************************************************)
(* The next goroutine of the worklist.                                     *)
(***************************************************************************)
LEMMA NextMet ==
  ASSUME NEW p, NEW R, NEW work, NEW stack, NEW caller, NEW loops, NEW twin, NEW S,
         Recs(R), SpawnsFit(p, R, work, stack, caller, loops, twin), work # <<>>,
         S = Append(R, <<>>)
  PROVE  /\ Recs(S) /\ Len(S) = Len(R) + 1 /\ S[Len(S)] = <<>> /\ S[1] = R[1]
         /\ Head(work).goID = Len(R) /\ Head(work).fn \in Callable(p) \ LibFns
         /\ Head(work).ins = SpawnIns(stack, Len(R))
         /\ SpawnsFit(p, S, Tail(work), stack, caller, loops, twin)
<1> DEFINE rem == Tail(work)
<1>1. /\ IsSeq(R) /\ Len(R) \in Nat \ {0} /\ \A g \in 1..Len(R) : IsSeq(R[g])
      /\ IsSeq(work) /\ Len(work) \in Nat \ {0} /\ IsSeq(stack)
      /\ Numbered(R, work, stack, caller) /\ Spawned(p, R, stack, caller)
      /\ Waiting(p, work, stack) /\ Twinned(twin, loops, stack, caller)
  BY SeqFacts DEF Recs, SpawnsFit
<1>2. /\ IsSeq(S) /\ Len(S) = Len(R) + 1 /\ S[Len(R) + 1] = <<>>
      /\ \A g \in 1..Len(R) : S[g] = R[g]
  BY <1>1, SeqAppend
<1>3. /\ IsSeq(rem) /\ Len(rem) = Len(work) - 1 /\ Head(work) = work[1]
      /\ \A n \in 1..(Len(work) - 1) : rem[n] = work[n + 1]
  BY <1>1, SeqTail
<1> HIDE DEF rem
<1>4. Recs(S)
  <2>1. ASSUME NEW g \in 1..Len(S) PROVE IsSeq(S[g])
    <3>1. CASE g = Len(S)
      BY <1>2, <3>1, SeqEmpty
    <3>2. CASE g # Len(S)
      <4>1. g \in 1..Len(R)
        BY <1>1, <1>2, <3>2
      <4> QED
        BY <1>1, <1>2, <4>1
    <3> QED
      BY <3>1, <3>2
  <2>2. S # <<>>
    BY <1>1, <1>2, SeqEmpty
  <2> QED
    BY <1>2, <2>1, <2>2 DEF Recs
<1>5. 1 \in 1..Len(work) /\ 1 \in 1..Len(R)
  BY <1>1
<1>6. Head(work).goID = Len(R)
  <2>1. work[1].goID = Len(R) + 1 - 1
    BY <1>1, <1>5 DEF Numbered
  <2> QED
    BY <1>1, <1>3, <2>1
<1>7. Head(work).ins = SpawnIns(stack, Len(R)) /\ Head(work).fn \in Callable(p) \ LibFns
  BY <1>1, <1>3, <1>5, <1>6 DEF Waiting
<1>8. ASSUME NEW n \in 1..Len(rem) PROVE n + 1 \in 1..Len(work) /\ rem[n] = work[n + 1]
  BY <1>1, <1>3
<1>9. Numbered(S, rem, stack, caller)
  <2>1. Len(S) + Len(rem) = Len(stack)
    <3>1. Len(R) + Len(work) = Len(stack)
      BY <1>1 DEF Numbered
    <3> QED
      BY <1>1, <1>2, <1>3, <3>1
  <2>2. ASSUME NEW n \in 1..Len(rem) PROVE rem[n].goID = Len(S) + n - 1
    <3>1. work[n + 1].goID = Len(R) + (n + 1) - 1
      BY <1>1, <1>8 DEF Numbered
    <3> QED
      BY <1>1, <1>2, <1>8, <3>1
  <2>3. DOMAIN caller = 1..(Len(stack) - 1)
    BY <1>1 DEF Numbered
  <2>4. ASSUME NEW g \in DOMAIN caller PROVE caller[g] \in 0..(g - 1) /\ caller[g] < Len(S)
    <3>1. caller[g] \in 0..(g - 1) /\ caller[g] < Len(R)
      BY <1>1 DEF Numbered
    <3> QED
      BY <1>1, <1>2, <3>1
  <2> QED
    BY <2>1, <2>2, <2>3, <2>4 DEF Numbered
<1>10. Spawned(p, S, stack, caller)
  <2> SUFFICES ASSUME NEW g \in 1..(Len(stack) - 1)
               PROVE  /\ stack[g + 1] # <<>>
                      /\ Insn(p, SpawnIns(stack, g)).op = "go"
                      /\ \E n \in 1..Len(S[caller[g] + 1]) :
                           S[caller[g] + 1][n].ins = SpawnIns(stack, g)
                      /\ g < Len(S) /\ S[g + 1] # <<>> => S[g + 1][1].ins = SpawnIns(stack, g)
    BY DEF Spawned
  <2>1. caller[g] \in 0..(g - 1) /\ caller[g] < Len(R)
    BY <1>1 DEF Numbered
  <2>2. S[caller[g] + 1] = R[caller[g] + 1]
    <3>1. caller[g] + 1 \in 1..Len(R)
      BY <1>1, <2>1
    <3> QED
      BY <1>2, <3>1
  <2>3. ASSUME g < Len(S), S[g + 1] # <<>> PROVE g < Len(R) /\ S[g + 1] = R[g + 1]
    <3>1. g # Len(R)
      BY <1>2, <2>3
    <3>2. g < Len(R) /\ g + 1 \in 1..Len(R)
      BY <1>1, <1>2, <2>3, <3>1
    <3> QED
      BY <1>2, <3>2
  <2> QED
    BY <1>1, <2>2, <2>3 DEF Spawned
<1>11. Waiting(p, rem, stack)
  BY <1>1, <1>8 DEF Waiting
<1> QED
  BY <1>1, <1>2, <1>3, <1>4, <1>5, <1>6, <1>7, <1>9, <1>10, <1>11 DEF SpawnsFit, rem

\* Its go statement is the first it records.
LEMMA SpawnNoted ==
  ASSUME NEW p, NEW R, NEW work, NEW stack, NEW caller, NEW loops, NEW twin, NEW calls,
         NEW g, NEW ins, NEW S,
         Recs(R), SpawnsFit(p, R, work, stack, caller, loops, twin),
         Len(R) > 1, R[Len(R)] = <<>>, Current(R, g), ins = SpawnIns(stack, g),
         S = Record(R, g, ins, calls)
  PROVE  /\ Recs(S) /\ Len(S) = Len(R) /\ S[1] = R[1] /\ S[Len(S)] # <<>>
         /\ SpawnsFit(p, S, work, stack, caller, loops, twin)
<1>1. /\ Len(R) \in Nat \ {0, 1} /\ g \in 0..(Len(R) - 1) /\ g + 1 = Len(R)
      /\ Numbered(R, work, stack, caller) /\ Spawned(p, R, stack, caller)
  BY SeqFacts DEF Recs, SpawnsFit, Current
<1> DEFINE r == [ins |-> ins, stack |-> calls]
<1>2. /\ Grown(R, S) /\ S[g + 1] = Append(R[g + 1], r)
      /\ \A h \in 1..Len(R) : h # g + 1 => S[h] = R[h]
  BY <1>1, RecordGrows
<1> HIDE DEF r
<1>3. Recs(S) /\ Len(S) = Len(R)
  BY <1>2 DEF Grown
<1>4. S[Len(S)] = Append(<<>>, r) /\ S[1] = R[1]
  BY <1>1, <1>2, <1>3
<1>5. S[Len(S)] # <<>> /\ S[Len(S)][1] = r
  <2>1. LET t == Append(<<>>, r) IN Len(t) = Len(<<>>) + 1 /\ t[Len(<<>>) + 1] = r
    BY SeqEmpty, SeqAppend
  <2>2. Len(Append(<<>>, r)) = 1 /\ Append(<<>>, r)[1] = r
    BY <2>1, SeqEmpty
  <2> QED
    BY <1>4, <2>2, SeqEmpty
<1>6. Numbered(S, work, stack, caller)
  BY <1>1, <1>3 DEF Numbered
<1>7. Spawned(p, S, stack, caller)
  <2> SUFFICES ASSUME NEW h \in 1..(Len(stack) - 1)
               PROVE  /\ stack[h + 1] # <<>>
                      /\ Insn(p, SpawnIns(stack, h)).op = "go"
                      /\ \E n \in 1..Len(S[caller[h] + 1]) :
                           S[caller[h] + 1][n].ins = SpawnIns(stack, h)
                      /\ h < Len(S) /\ S[h + 1] # <<>> => S[h + 1][1].ins = SpawnIns(stack, h)
    BY DEF Spawned
  <2>1. /\ stack[h + 1] # <<>> /\ Insn(p, SpawnIns(stack, h)).op = "go"
        /\ h < Len(R) /\ R[h + 1] # <<>> => R[h + 1][1].ins = SpawnIns(stack, h)
    BY <1>1 DEF Spawned
  <2>2. \E n \in 1..Len(S[caller[h] + 1]) : S[caller[h] + 1][n].ins = SpawnIns(stack, h)
    <3>1. caller[h] + 1 \in 1..Len(R)
      <4>1. caller[h] \in 0..(h - 1) /\ caller[h] < Len(R)
        BY <1>1 DEF Numbered
      <4> QED
        BY <1>1, <4>1
    <3>2. PICK n \in 1..Len(R[caller[h] + 1]) : R[caller[h] + 1][n].ins = SpawnIns(stack, h)
      BY <1>1 DEF Spawned
    <3>3. /\ Len(R[caller[h] + 1]) <= Len(S[caller[h] + 1])
          /\ S[caller[h] + 1][n] = R[caller[h] + 1][n]
      BY <1>2, <3>1, <3>2 DEF Grown
    <3>4. Len(R[caller[h] + 1]) \in Nat /\ Len(S[caller[h] + 1]) \in Nat
      BY <1>3, <3>1, SeqFacts DEF Recs
    <3>5. n \in 1..Len(S[caller[h] + 1])
      BY <3>2, <3>3, <3>4
    <3> QED
      BY <3>2, <3>3, <3>5
  <2>3. ASSUME h < Len(S), S[h + 1] # <<>> PROVE S[h + 1][1].ins = SpawnIns(stack, h)
    <3>1. CASE h = g
      BY <1>1, <1>3, <1>5, <3>1 DEF r
    <3>2. CASE h # g
      <4>1. h + 1 \in 1..Len(R) /\ h + 1 # g + 1 /\ h < Len(R)
        BY <1>1, <1>3, <2>3, <3>2
      <4>2. S[h + 1] = R[h + 1]
        BY <1>2, <4>1
      <4> QED
        BY <2>1, <2>3, <4>1, <4>2
    <3> QED
      BY <3>1, <3>2
  <2> QED
    BY <2>1, <2>2, <2>3
<1> QED
  BY <1>3, <1>4, <1>5, <1>6, <1>7 DEF SpawnsFit

\* While the call stack is empty nothing is being recorded.
LEMMA CallsIdle ==
  ASSUME NEW p, NEW s, NEW fns, NEW R, NEW S, CallsFit(p, s, fns, R), fns = <<>>, Recs(S)
  PROVE  CallsFit(p, s, fns, S)
<1>1. IsSeq(s) /\ Balanced(s, <<>>)
  BY DEF CallsFit
<1>2. \A n \in 1..Len(s) : s[n].at = "visit"
  BY <1>1, BalancedEmpty
<1> QED
  BY <1>2 DEF CallsFit, InLast

LEMMA NewGoroutineStep == ASSUME During, NewGoroutine PROVE During'
<1> DEFINE info == Head(workList)
           parent == Caller(info.goID)
           g == info.goID
           ins == info.ins
           S == Append(RWIns, <<>>)
           T == Record(S, g, ins, storeFns)
<1>1. /\ cs # <<>> /\ storeFns = <<>> /\ workList # <<>> /\ workList' = Tail(workList)
      /\ UNCHANGED <<prog, goStack, goCaller, loopIDs, twinGoID, insMono>>
  BY DEF NewGoroutine, At
<1>2. /\ CallsFit(prog, cs, storeFns, RWIns) /\ Recs(RWIns) /\ prog \in Programs
      /\ SpawnsFit(prog, RWIns, workList, goStack, goCaller, loopIDs, twinGoID)
      /\ FirstGo(prog, RWIns[1], insMono)
  BY DEF During, CallsFit
<1>3. /\ Recs(S) /\ Len(S) = Len(RWIns) + 1 /\ S[Len(S)] = <<>> /\ S[1] = RWIns[1]
      /\ g = Len(RWIns) /\ info.fn \in Callable(prog) \ LibFns
      /\ ins = SpawnIns(goStack, Len(RWIns))
      /\ SpawnsFit(prog, S, Tail(workList), goStack, goCaller, loopIDs, twinGoID)
  BY <1>1, <1>2, NextMet
<1>4. Len(RWIns) \in Nat \ {0}
  BY <1>2, SeqFacts DEF Recs
<1>5. \/ RWIns' = S /\ cs' = cs /\ storeFns' = storeFns
      \/ TraverseFn(T, info.fn, g, ins, cs)
  <2>1. g >= Len(RWIns)
    BY <1>3, <1>4
  <2> QED
    BY <2>1 DEF NewGoroutine
<1> HIDE DEF S, g, ins, info
<1>6. CASE RWIns' = S /\ cs' = cs /\ storeFns' = storeFns
  <2>1. CallsFit(prog, cs, storeFns, S)
    BY <1>1, <1>2, <1>3, CallsIdle
  <2> QED
    BY <1>1, <1>2, <1>3, <1>6, <2>1 DEF During
<1>7. CASE TraverseFn(T, info.fn, g, ins, cs)
  <2>1. Current(S, g) /\ ins = SpawnIns(goStack, g) /\ Len(S) > 1 /\ T = Record(S, g, ins, storeFns)
    BY <1>3, <1>4 DEF Current
  <2> HIDE DEF T
  <2>2. /\ Recs(T) /\ Len(T) = Len(S) /\ T[1] = S[1] /\ T[Len(T)] # <<>>
        /\ SpawnsFit(prog, T, Tail(workList), goStack, goCaller, loopIDs, twinGoID)
    BY <1>3, <2>1, SpawnNoted
  <2>3. CallsFit(prog, cs, storeFns, T)
    BY <1>1, <1>2, <2>2, CallsIdle
  <2>4. g = Len(T) - 1 /\ Len(T) > 1 /\ FirstGo(prog, T[1], insMono)
    BY <1>2, <1>3, <1>4, <2>2
  <2>5. /\ CallsFit(prog, cs', storeFns', RWIns') /\ cs' # <<>>
        /\ \/ storeFns # <<>> /\ RWIns' = RWIns
           \/ RWIns' = T
           \/ \E stack : RWIns' = Record(T, g, ins, stack)
    <3> DEFINE f == info.fn
    <3>1. /\ TraverseFn(T, f, g, ins, cs) /\ f \in Callable(prog)
          /\ (f \in LibFns => Live(cs) # {}) /\ (g > 0 => T[Len(T)] # <<>>) /\ g = Len(T) - 1
      BY <1>3, <1>7, <2>2, <2>4
    <3>2. CallsFit(prog, cs, storeFns, RWIns) /\ CallsFit(prog, cs, storeFns, T) /\ cs # <<>>
      BY <1>1, <1>2, <2>3
    <3>3. prog \in Programs
      BY <1>2
    <3> HIDE DEF f
    <3> QED
      BY <3>1, <3>2, <3>3, TraverseFits
  <2>6. /\ SpawnsFit(prog, RWIns', Tail(workList), goStack, goCaller, loopIDs, twinGoID)
        /\ FirstGo(prog, RWIns'[1], insMono)
    <3>1. CASE RWIns' = T
      BY <2>2, <2>4, <3>1
    <3>2. CASE \E stack : RWIns' = Record(T, g, ins, stack)
      <4>1. PICK stack : RWIns' = Record(T, Len(T) - 1, ins, stack)
        BY <2>4, <3>2
      <4>2. LET U == Record(T, Len(T) - 1, ins, stack)
            IN /\ SpawnsFit(prog, U, Tail(workList), goStack, goCaller, loopIDs, twinGoID)
               /\ FirstGo(prog, U[1], insMono)
        BY <2>2, <2>4, RecordFits
      <4> QED
        BY <4>1, <4>2
    <3> QED
      BY <1>1, <2>5, <3>1, <3>2
  <2> QED
    BY <1>1, <1>2, <2>5, <2>6 DEF During
<1> QED
  BY <1>5, <1>6, <1>7
-----------------------------------------------------------------------------
(***************************************************************************)
(* The first step, and all steps.                                          *)
(***************************************************************************)
LEMMA FirstTop ==
  ASSUME Before
  PROVE  /\ cs # <<>> /\ IsSeq(cs) /\ Len(cs) = 1 /\ top = Activation(Entry, 0) /\ rest = <<>>
         /\ Len(storeFns) = 1 /\ top.at = "enter" /\ top.fn = Entry /\ top.goID = 0
<1> DEFINE a == Activation(Entry, 0)
<1>1. a.at = "enter" /\ a.fn = Entry /\ a.goID = 0
  BY DEF Activation
<1>2. cs = <<a>> /\ Len(storeFns) = 1
  BY DEF Before
<1> HIDE DEF a
<1>3. Len(cs) = 1 /\ cs # <<>> /\ top = a
  BY <1>2 DEF top
<1>4. cs \in Seq({a})
  BY <1>2
<1>5. IsSeq(cs)
  BY <1>4 DEF IsSeq
<1>6. rest = <<>>
  <2>1. IsSeq(rest) /\ Len(rest) = 0
    <3>1. IsSeq(rest) /\ Len(rest) = Len(cs) - 1
      BY <1>3, <1>5, SeqFront DEF rest
    <3> QED
      BY <1>3, <3>1
  <2> QED
    BY <2>1, SeqFacts
<1> QED
  BY <1>1, <1>2, <1>3, <1>5, <1>6 DEF a

LEMMA EnterFirstStep == ASSUME Before, EnterFirst PROVE During'
<1> DEFINE a == Activation(Entry, 0)
           c == [fn |-> Entry, ins |-> NoIns]
<1>1. /\ top = a /\ rest = <<>> /\ storeFns = <<c>> /\ prog \in Programs /\ RWIns = <<>>
      /\ workList = <<>> /\ goStack = <<>> /\ goCaller = <<>> /\ twinGoID = <<>> /\ insMono = -1
  BY FirstTop DEF Before
<1>2. PICK size : cs' = Append(<<>>, [a EXCEPT !.at = "instr", !.size = size])
  BY <1>1 DEF EnterFirst, Start
<1>3. /\ RWIns' = Append(<<>>, <<>>) /\ goStack' = Append(<<>>, <<>>)
      /\ UNCHANGED <<prog, storeFns, workList, goCaller, twinGoID, insMono>>
  BY <1>1 DEF EnterFirst
<1> DEFINE x == [a EXCEPT !.at = "instr", !.size = size]
<1>4. /\ DOMAIN x = Fields /\ x.fn = Entry /\ x.goID = 0 /\ x.b = 1 /\ x.i = 1
      /\ x.at = "instr" /\ x.toDefer = <<>> /\ x.run = <<>>
  BY DEF Activation, Fields
<1> HIDE DEF x, a
<1>5. cs' = Append(<<>>, x)
  BY <1>2 DEF x
<1>6. Entry \in DOMAIN prog /\ Entry \notin LibFns /\ HasInsn(prog, <<Entry, 1, 1>>)
  <2>1. PlainProgram(prog)
    BY <1>1, ProgramsAssumption
  <2>2. Entry \in DOMAIN prog \ LibFns /\ 1 \in DOMAIN prog[Entry]
    BY <2>1 DEF PlainProgram
  <2>3. 1 \in DOMAIN prog[Entry][1].instrs
    BY <2>1, <2>2 DEF PlainProgram
  <2> QED
    BY <2>2, <2>3 DEF HasInsn
<1>7. Local(x, prog)
  BY <1>4, <1>6, NoDefers DEF Local, Frames, Ins
<1>8. /\ IsSeq(cs') /\ Len(cs') = 1 /\ cs'[1] = x
      /\ IsSeq(RWIns') /\ Len(RWIns') = 1 /\ RWIns'[1] = <<>>
      /\ IsSeq(goStack') /\ Len(goStack') = 1
  BY <1>3, <1>5, SeqOne
<1>9. Recs(RWIns')
  BY <1>8, SeqEmpty DEF Recs
<1>10. Balanced(cs', storeFns) /\ IsSeq(storeFns)
  <2> DEFINE none == <<>>
  <2>1. IsSeq(none) /\ Len(none) = 0 /\ DOMAIN none = {}
    BY SeqEmpty, SeqFacts
  <2>2. Live(none) = {}
    BY <2>1 DEF Live
  <2>3. Balanced(none, none)
    BY <2>1, <2>2, FS_EmptySet DEF Balanced
  <2>4. Pushed(x) /\ c.fn = x.fn
    BY <1>4, <1>6 DEF Pushed
  <2>5. storeFns = Append(none, c) /\ IsSeq(Append(none, c))
    BY <1>1, SeqOne
  <2> HIDE DEF none, c
  <2>6. Balanced(Append(none, x), Append(none, c))
    BY <2>1, <2>3, <2>4, BalancedPush
  <2> QED
    BY <1>5, <2>5, <2>6 DEF none
<1>11. CallsFit(prog, cs', storeFns, RWIns')
  <2>1. InLast(x, RWIns')
    BY <1>4, <1>8 DEF InLast
  <2> QED
    BY <1>7, <1>8, <1>9, <1>10, <2>1 DEF CallsFit
<1>12. SpawnsFit(prog, RWIns', workList, goStack', goCaller, loopIDs', twinGoID)
  <2>1. IsSeq(workList) /\ Len(workList) = 0 /\ DOMAIN goCaller = {} /\ DOMAIN twinGoID = {}
    BY <1>1, SeqEmpty, SeqFacts
  <2>2. Numbered(RWIns', workList, goStack', goCaller)
    BY <1>8, <2>1 DEF Numbered
  <2>3. Spawned(prog, RWIns', goStack', goCaller)
    BY <1>8 DEF Spawned
  <2>4. Waiting(prog, workList, goStack')
    BY <2>1 DEF Waiting
  <2>5. Twinned(twinGoID, loopIDs', goStack', goCaller)
    BY <2>1 DEF Twinned
  <2> QED
    BY <1>8, <2>1, <2>2, <2>3, <2>4, <2>5 DEF SpawnsFit
<1>13. FirstGo(prog, RWIns'[1], insMono)
  <2>1. GosOf(prog, RWIns'[1]) = {}
    BY <1>8, SeqEmpty DEF GosOf
  <2> QED
    BY <1>1, <2>1 DEF FirstGo
<1>14. cs' # <<>>
  BY <1>8, SeqEmpty
<1> QED
  BY <1>1, <1>3, <1>11, <1>12, <1>13, <1>14 DEF During

LEMMA BeforeOnly == ASSUME Before, [Next]_vars PROVE EnterFirst \/ UNCHANGED vars
<1>1. /\ cs # <<>> /\ top.at = "enter" /\ top.fn = Entry /\ top.goID = 0 /\ Len(storeFns) = 1
  BY FirstTop
<1>2. \A w \in {"instr", "back", "defers", "final", "visit"} : ~At(w)
  BY <1>1 DEF At
<1>3. \A ops : ~AtOp(ops)
  BY <1>2 DEF AtOp
<1>4. \A kind : ~AtDeferred(kind)
  BY <1>2 DEF AtDeferred
<1>5. ~EnterReturn /\ ~Enter
  BY <1>1 DEF EnterReturn, Enter
<1>6. ~Access /\ ~RecordOnly /\ ~LockOp /\ ~Call /\ ~Go /\ ~GoUnknown /\ ~Defer /\ ~RunDefers
  BY <1>3 DEF Access, RecordOnly, LockOp, Call, Go, GoUnknown, Defer, RunDefers
<1>7. ~DeferredCall /\ ~DeferredUnlock /\ ~DeferredRUnlock /\ ~DeferredDone
  BY <1>4 DEF DeferredCall, DeferredUnlock, DeferredRUnlock, DeferredDone
<1>8. ~Back /\ ~DefersDone /\ ~FinalUnlock /\ ~Pop /\ ~VisitDone /\ ~NewGoroutine
  BY <1>2 DEF Back, DefersDone, FinalUnlock, Pop, VisitDone, NewGoroutine
<1>9. Finished => UNCHANGED vars
  BY DEF Finished
<1> QED
  BY <1>5, <1>6, <1>7, <1>8, <1>9 DEF Next

LEMMA BeforeStep == ASSUME Before, [Next]_vars PROVE Inv'
<1>1. CASE EnterFirst
  BY <1>1, EnterFirstStep DEF Inv
<1>2. CASE UNCHANGED vars
  BY <1>2 DEF Inv, Before, vars, goVars
<1> QED
  BY <1>1, <1>2, BeforeOnly

LEMMA DuringStep == ASSUME During, [Next]_vars PROVE During'
<1>1. ~EnterFirst
  <2>1. ASSUME At("enter") PROVE NameOf[top.fn] # NameOf[Entry]
    <3>1. cs # <<>> /\ top.at = "enter"
      BY <2>1 DEF At
    <3>2. top.fn \in Callable(prog)
      BY <3>1, TopFacts DEF Local, Callable
    <3> QED
      BY <3>2, ProgramsAssumption DEF During, PlainProgram
  <2> QED
    BY <2>1 DEF EnterFirst
<1>2. CASE EnterReturn  BY <1>2, EnterReturnStep
<1>3. CASE Enter  BY <1>3, EnterStep
<1>4. CASE Access  BY <1>4, AccessStep
<1>5. CASE RecordOnly  BY <1>5, RecordOnlyStep
<1>6. CASE LockOp  BY <1>6, LockOpStep
<1>7. CASE Call  BY <1>7, CallStep
<1>8. CASE Back  BY <1>8, BackStep
<1>9. CASE Go  BY <1>9, GoStep
<1>10. CASE GoUnknown  BY <1>10, GoUnknownStep
<1>11. CASE Defer  BY <1>11, DeferStep
<1>12. CASE RunDefers  BY <1>12, RunDefersStep
<1>13. CASE DefersDone  BY <1>13, DefersDoneStep
<1>14. CASE DeferredCall  BY <1>14, DeferredCallStep
<1>15. CASE DeferredUnlock  BY <1>15, DeferredUnlockStep
<1>16. CASE DeferredRUnlock  BY <1>16, DeferredRUnlockStep
<1>17. CASE DeferredDone  BY <1>17, DeferredDoneStep
<1>18. CASE FinalUnlock  BY <1>18, FinalUnlockStep
<1>19. CASE Pop  BY <1>19, PopStep
<1>20. CASE VisitDone  BY <1>20, VisitDoneStep
<1>21. CASE NewGoroutine  BY <1>21, NewGoroutineStep
<1>22. CASE UNCHANGED vars
  BY <1>22, SameStep DEF vars, goVars
<1>23. Finished => UNCHANGED vars
  BY DEF Finished
<1> QED
  BY <1>1, <1>2, <1>3, <1>4, <1>5, <1>6, <1>7, <1>8, <1>9, <1>10, <1>11, <1>12, <1>13,
     <1>14, <1>15, <1>16, <1>17, <1>18, <1>19, <1>20, <1>21, <1>22, <1>23 DEF Next

\* The inductive invariant holds: the traversal starts in Before, leaves it
\* with the first instruction of the entry function, and stays in During.
THEOREM Invariance == Spec => []Inv
<1>1. Init => Inv
  BY DEF Init, Inv, Before
<1>2. Inv /\ [Next]_vars => Inv'
  BY BeforeStep, DuringStep DEF Inv
<1> QED
  BY <1>1, <1>2, PTL DEF Spec
-----------------------------------------------------------------------------
(***************************************************************************)
(* What it implies.                                                        *)
(***************************************************************************)
LEMMA NothingMet ==
  ASSUME Before
  PROVE  /\ Len(workList) = 0 /\ Len(goStack) = 0 /\ Len(RWIns) = 0
         /\ DOMAIN goCaller = {}
BY SeqEmpty, SeqFacts DEF Before

\* insGo numbers the goroutines densely and uniquely, and a parent has the
\* smaller number, in every traversal of every plain program.
THEOREM GoIDsCorrect == Spec => []GoIDsDense
<1>1. ASSUME Before PROVE GoIDsDense
  <2>1. /\ workList = <<>> /\ Len(workList) = 0 /\ Len(goStack) = 0 /\ DOMAIN goCaller = {}
    BY <1>1, NothingMet DEF Before
  <2>2. 1..(Len(workList) - 1) = {} /\ GoIDs = {}
    BY <2>1 DEF GoIDs
  <2> QED
    BY <2>1, <2>2 DEF GoIDsDense
<1>2. ASSUME During PROVE GoIDsDense
  <2>1. /\ Recs(RWIns) /\ IsSeq(workList) /\ IsSeq(goStack)
        /\ Numbered(RWIns, workList, goStack, goCaller)
    BY <1>2 DEF During, CallsFit, SpawnsFit
  <2>2. Len(RWIns) \in Nat \ {0} /\ Len(workList) \in Nat /\ Len(goStack) \in Nat
    BY <2>1, SeqFacts DEF Recs
  <2>3. /\ Len(RWIns) + Len(workList) = Len(goStack)
        /\ \A n \in 1..Len(workList) : workList[n].goID = Len(RWIns) + n - 1
        /\ DOMAIN goCaller = 1..(Len(goStack) - 1)
        /\ \A g \in DOMAIN goCaller : goCaller[g] \in 0..(g - 1)
    BY <2>1 DEF Numbered
  <2>4. ASSUME NEW n \in 1..(Len(workList) - 1)
        PROVE  workList[n + 1].goID = workList[n].goID + 1
    <3>1. n \in 1..Len(workList) /\ n + 1 \in 1..Len(workList)
      BY <2>2
    <3>2. workList[n].goID = Len(RWIns) + n - 1 /\ workList[n + 1].goID = Len(RWIns) + (n + 1) - 1
      BY <2>3, <3>1
    <3> QED
      BY <2>2, <3>1, <3>2
  <2>5. ASSUME workList # <<>> PROVE workList[Len(workList)].goID = Len(goStack) - 1
    <3>1. Len(workList) \in 1..Len(workList)
      BY <2>1, <2>2, <2>5, SeqFacts
    <3>2. workList[Len(workList)].goID = Len(RWIns) + Len(workList) - 1
      BY <2>3, <3>1
    <3> QED
      BY <2>2, <2>3, <3>2
  <2>6. DOMAIN goCaller = GoIDs \ {0}
    BY <2>2, <2>3 DEF GoIDs
  <2>7. ASSUME NEW g \in DOMAIN goCaller PROVE goCaller[g] < g
    <3>1. g \in 1..(Len(goStack) - 1) /\ goCaller[g] \in 0..(g - 1)
      BY <2>3
    <3> QED
      BY <2>2, <3>1
  <2> QED
    BY <2>4, <2>5, <2>6, <2>7 DEF GoIDsDense
<1>3. Inv => GoIDsDense
  BY <1>1, <1>2 DEF Inv
<1> QED
  BY <1>3, Invariance, PTL

\* The first record of every goroutine but main is the go statement that
\* spawned it, which is also the last call on its stack and is recorded by its
\* parent; goroutines of a go statement in a loop are twins.
THEOREM SpawnCorrect == Spec => []SpawnRecorded
<1>1. ASSUME Before PROVE SpawnRecorded
  <2>1. 1..(Len(RWIns) - 1) = {}
    BY <1>1, NothingMet
  <2> QED
    BY <2>1 DEF SpawnRecorded
<1>2. ASSUME During PROVE SpawnRecorded
  <2>1. /\ Recs(RWIns) /\ IsSeq(workList) /\ IsSeq(goStack)
        /\ Numbered(RWIns, workList, goStack, goCaller)
        /\ Spawned(prog, RWIns, goStack, goCaller)
        /\ Twinned(twinGoID, loopIDs, goStack, goCaller)
    BY <1>2 DEF During, CallsFit, SpawnsFit
  <2>2. /\ Len(RWIns) \in Nat \ {0} /\ Len(workList) \in Nat /\ Len(goStack) \in Nat
        /\ Len(RWIns) + Len(workList) = Len(goStack)
    BY <2>1, SeqFacts DEF Recs, Numbered
  <2> SUFFICES ASSUME NEW g \in 1..(Len(RWIns) - 1), RWIns[g + 1] # <<>>
               PROVE  LET ins == RWIns[g + 1][1].ins IN
                      /\ InstrAt(ins).op = "go"
                      /\ \E n \in DOMAIN RWIns[goCaller[g] + 1] :
                           RWIns[goCaller[g] + 1][n].ins = ins
                      /\ goStack[g + 1] # <<>>
                      /\ goStack[g + 1][Len(goStack[g + 1])].ins = ins
                      /\ ins \in DOMAIN twinGoID /\ twinGoID[ins][1] = g =>
                           Twins(g, twinGoID[ins][2])
    BY DEF SpawnRecorded
  <2>3. g \in 1..(Len(goStack) - 1) /\ g < Len(RWIns)
    BY <2>2
  <2> DEFINE ins == RWIns[g + 1][1].ins
  <2>4. /\ goStack[g + 1] # <<>> /\ Insn(prog, SpawnIns(goStack, g)).op = "go"
        /\ \E n \in 1..Len(RWIns[goCaller[g] + 1]) :
             RWIns[goCaller[g] + 1][n].ins = SpawnIns(goStack, g)
        /\ ins = SpawnIns(goStack, g)
    BY <2>1, <2>3 DEF Spawned
  <2>5. DOMAIN RWIns[goCaller[g] + 1] = 1..Len(RWIns[goCaller[g] + 1])
    <3>1. goCaller[g] \in 0..(g - 1) /\ goCaller[g] < Len(RWIns)
      BY <2>1, <2>3 DEF Numbered
    <3>2. goCaller[g] + 1 \in 1..Len(RWIns)
      BY <2>2, <2>3, <3>1
    <3> QED
      BY <2>1, <3>2, SeqFacts DEF Recs
  <2>6. InstrAt(ins).op = "go"
    BY <2>4 DEF InstrAt, Insn
  <2>7. goStack[g + 1][Len(goStack[g + 1])].ins = ins
    BY <2>4 DEF SpawnIns
  <2> HIDE DEF ins
  <2>8. ASSUME ins \in DOMAIN twinGoID, twinGoID[ins][1] = g
        PROVE  Twins(g, twinGoID[ins][2])
    BY <2>1, <2>8 DEF Twinned, Twins
  <2> QED
    BY <2>4, <2>5, <2>6, <2>7, <2>8 DEF ins
<1>3. Inv => SpawnRecorded
  BY <1>1, <1>2 DEF Inv
<1> QED
  BY <1>3, Invariance, PTL

\* storeFns is exactly the functions of interest being visited, pushed by
\* traverseFn and popped by visitAllInstructions: when it is empty, only
\* activations of visitGo are left.
THEOREM CallsCorrect == Spec => []BalancedCalls
<1>1. ASSUME Before PROVE BalancedCalls
  <2> DEFINE a == Activation(Entry, 0)
  <2>1. IsSeq(cs) /\ Len(cs) = 1 /\ cs[1] = a /\ DOMAIN cs = 1..1
    BY <1>1, FirstTop, SeqFacts DEF top
  <2>2. storeFns = <<[fn |-> Entry, ins |-> NoIns]>> /\ prog \in Programs
    BY <1>1 DEF Before
  <2>3. Entry \notin LibFns
    BY <2>2, ProgramsAssumption DEF PlainProgram
  <2>4. Pushed(a) /\ a.fn = Entry
    BY <2>3 DEF Pushed, Activation
  <2> HIDE DEF a
  <2>5. Live(cs) = {1}
    BY <2>1, <2>4 DEF Live
  <2>6. {m \in Live(cs) : m <= 1} = {1}
    BY <2>5
  <2>7. Cardinality({1}) = 1
    BY FS_Singleton
  <2>8. Rank(cs, 1) = 1
    BY <2>6, <2>7 DEF Rank
  <2>9. Len(storeFns) = 1 /\ storeFns[1].fn = Entry /\ storeFns # <<>>
    BY <2>2
  <2> QED
    BY <2>1, <2>4, <2>5, <2>7, <2>8, <2>9 DEF BalancedCalls
<1>2. ASSUME During PROVE BalancedCalls
  <2>1. IsSeq(cs) /\ Balanced(cs, storeFns) /\ DOMAIN cs = 1..Len(cs)
    BY <1>2, SeqFacts DEF During, CallsFit
  <2>2. storeFns = <<>> => \A n \in 1..Len(cs) : cs[n].at = "visit"
    BY <2>1, BalancedEmpty
  <2> QED
    BY <2>1, <2>2 DEF Balanced, BalancedCalls
<1>3. Inv => BalancedCalls
  BY <1>1, <1>2 DEF Inv
<1> QED
  BY <1>3, Invariance, PTL

\* When the last activation of visitAllInstructions returns, visitGo has taken
\* every goroutine off the worklist and every one has its place in RWIns.
THEOREM VisitedCorrect == Spec => []AllVisited
<1>1. Before => AllVisited
  BY FirstTop DEF AllVisited
<1>2. ASSUME During, cs = <<>> PROVE workList = <<>> /\ Len(RWIns) = Len(goStack)
  <2>1. /\ workList = <<>> /\ Recs(RWIns) /\ Len(RWIns) + Len(workList) = Len(goStack)
    BY <1>2 DEF During, CallsFit, SpawnsFit, Numbered
  <2>2. Len(workList) = 0 /\ Len(RWIns) \in Nat
    BY <2>1, SeqEmpty, SeqFacts DEF Recs
  <2> QED
    BY <2>1, <2>2
<1>3. Inv => AllVisited
  BY <1>1, <1>2 DEF Inv, AllVisited
<1> QED
  BY <1>3, Invariance, PTL

\* insMono is the first go statement that the main goroutine has recorded.
THEOREM MonoCorrect == Spec => []SingleThreadedBefore
<1>1. Before => SingleThreadedBefore
  BY DEF Before, SingleThreadedBefore
<1>2. ASSUME During PROVE SingleThreadedBefore
  <2>1. /\ FirstGo(prog, RWIns[1], insMono) /\ Recs(RWIns)
    BY <1>2 DEF During, CallsFit
  <2>2. Len(RWIns) \in Nat \ {0}
    BY <2>1, SeqFacts DEF Recs
  <2>3. IsSeq(RWIns[1])
    BY <2>1, <2>2 DEF Recs
  <2>4. DOMAIN RWIns[1] = 1..Len(RWIns[1])
    BY <2>3, SeqFacts
  <2>5. GosOf(prog, RWIns[1]) = {n \in DOMAIN RWIns[1] : InstrAt(RWIns[1][n].ins).op = "go"}
    BY <2>4 DEF GosOf, Insn, InstrAt
  <2> QED
    BY <2>1, <2>5 DEF FirstGo, SingleThreadedBefore
<1>3. Inv => SingleThreadedBefore
  BY <1>1, <1>2 DEF Inv
<1> QED
  BY <1>3, Invariance, PTL
-----------------------------------------------------------------------------
(***************************************************************************)
(* Panics.  Only the entry function has no call: sliceContainsFnCall would *)
(* read the position of a nil instruction for any other.                   *)
(***************************************************************************)
FnsLocated(fns) == \A n \in 1..Len(fns) : fns[n].ins = NoIns => fns[n].fn = Entry
WorkLocated(work) == \A n \in 1..Len(work) : work[n].ins # NoIns
Located == FnsLocated(storeFns) /\ WorkLocated(workList)

LEMMA NotNil ==
  ASSUME NEW ins, prog \in Programs, HasInsn(prog, ins)
  PROVE  ins # NoIns
<1>1. PlainProgram(prog)
  BY ProgramsAssumption
<1>2. ins[1] \in DOMAIN prog /\ ins[2] \in DOMAIN prog[ins[1]]
  BY DEF HasInsn
<1>3. DOMAIN prog[ins[1]] = 1..Len(prog[ins[1]]) /\ Len(prog[ins[1]]) \in Nat
  BY <1>1, <1>2 DEF PlainProgram
<1>4. ins[2] # 0
  BY <1>2, <1>3
<1> QED
  BY <1>4 DEF NoIns

LEMMA TraverseLocated ==
  ASSUME NEW R, NEW f, NEW g, NEW ins, NEW frames, TraverseFn(R, f, g, ins, frames),
         IsSeq(storeFns), FnsLocated(storeFns), f \in Callable(prog), ins # NoIns
  PROVE  status' = status /\ FnsLocated(storeFns')
<1> DEFINE c == [fn |-> f, ins |-> ins]
<1>1. ~NilPos(R, f, g, ins)
  <2> SUFFICES ASSUME storeFns # <<>>, storeFns[1] = [fn |-> f, ins |-> NoIns] PROVE FALSE
    BY DEF NilPos
  <2>1. storeFns[1].ins = NoIns /\ storeFns[1].fn = f
    OBVIOUS
  <2>2. 1 \in 1..Len(storeFns)
    BY SeqFacts
  <2> QED
    BY <2>1, <2>2 DEF FnsLocated, Callable
<1>2. status' = status /\ (storeFns' = storeFns \/ storeFns' = Append(storeFns, c))
  BY <1>1 DEF TraverseFn
<1>3. c.ins # NoIns
  OBVIOUS
<1> HIDE DEF c
<1>4. /\ Len(Append(storeFns, c)) = Len(storeFns) + 1 /\ Append(storeFns, c)[Len(storeFns) + 1] = c
      /\ \A n \in 1..Len(storeFns) : Append(storeFns, c)[n] = storeFns[n]
  BY SeqAppend
<1>5. Len(storeFns) \in Nat
  BY SeqFacts
<1>6. FnsLocated(Append(storeFns, c))
  BY <1>3, <1>4, <1>5 DEF FnsLocated
<1> QED
  BY <1>2, <1>6

LEMMA WorkAppended ==
  ASSUME NEW work, NEW x, IsSeq(work), WorkLocated(work), x.ins # NoIns
  PROVE  IsSeq(Append(work, x)) /\ WorkLocated(Append(work, x))
<1>1. /\ IsSeq(Append(work, x)) /\ Len(Append(work, x)) = Len(work) + 1
      /\ Append(work, x)[Len(work) + 1] = x /\ \A n \in 1..Len(work) : Append(work, x)[n] = work[n]
  BY SeqAppend
<1>2. Len(work) \in Nat
  BY SeqFacts
<1> QED
  BY <1>1, <1>2 DEF WorkLocated

LEMMA GoLocated ==
  ASSUME During, Located, Go
  PROVE  WorkLocated(workList')
<1> DEFINE ins == Ins(top)
<1>1. cs # <<>> /\ top.at = "instr"
  BY DEF Go, AtOp, At
<1>2. ins # NoIns
  <2>1. HasInsn(prog, ins)
    BY <1>1, TopFacts DEF Local
  <2> QED
    BY <2>1, NotNil DEF During
<1>3. IsSeq(workList) /\ WorkLocated(workList)
  BY DEF During, SpawnsFit, Located
<1>4. PICK i, j : \/ workList' = Append(workList, [ins |-> ins, fn |-> Code(top).arg, goID |-> i])
                  \/ workList' = Append(Append(workList, [ins |-> ins, fn |-> Code(top).arg, goID |-> i]),
                                        [ins |-> ins, fn |-> Code(top).arg, goID |-> j])
  BY DEF Go, InsGo
<1> DEFINE x == [ins |-> ins, fn |-> Code(top).arg, goID |-> i]
           y == [ins |-> ins, fn |-> Code(top).arg, goID |-> j]
<1>5. x.ins # NoIns /\ y.ins # NoIns
  BY <1>2
<1>6. workList' = Append(workList, x) \/ workList' = Append(Append(workList, x), y)
  BY <1>4
<1> HIDE DEF x, y
<1>7. IsSeq(Append(workList, x)) /\ WorkLocated(Append(workList, x))
  BY <1>3, <1>5, WorkAppended
<1>8. WorkLocated(Append(Append(workList, x), y))
  BY <1>5, <1>7, WorkAppended
<1> QED
  BY <1>6, <1>7, <1>8

LEMMA PopLocated ==
  ASSUME During, Located, Pop
  PROVE  status' = status /\ FnsLocated(storeFns')
<1>1. cs # <<>> /\ top.at = "final"
  BY DEF Pop, At
<1>2. IsSeq(cs) /\ IsSeq(storeFns) /\ Cardinality(Live(cs)) = Len(storeFns) /\ FnsLocated(storeFns)
  BY DEF During, CallsFit, Balanced, Located
<1>3. storeFns # <<>>
  <2>1. Live(cs) # {} /\ IsFiniteSet(Live(cs))
    BY <1>1, <1>2, LiveTop, LiveFinite
  <2> QED
    BY <1>2, <2>1, FS_EmptySet, SeqEmpty
<1>4. status' = status /\ storeFns' = PoppedFns(top.fn)
  BY <1>3 DEF Pop
<1> DEFINE front == SubSeq(storeFns, 1, Len(storeFns) - 1)
<1>5. Len(front) = Len(storeFns) - 1 /\ \A n \in 1..(Len(storeFns) - 1) : front[n] = storeFns[n]
  BY <1>2, <1>3, SeqFront
<1>6. Len(storeFns) \in Nat
  BY <1>2, SeqFacts
<1>7. storeFns' = front \/ storeFns' = storeFns
  BY <1>4 DEF PoppedFns
<1> HIDE DEF front
<1>8. FnsLocated(front)
  BY <1>2, <1>5, <1>6 DEF FnsLocated
<1> QED
  BY <1>2, <1>4, <1>7, <1>8

LEMMA CallLocated ==
  ASSUME During, Located, Call \/ DeferredCall
  PROVE  status' = status /\ Located'
<1>1. IsSeq(storeFns) /\ FnsLocated(storeFns) /\ WorkLocated(workList) /\ prog \in Programs
  BY DEF During, CallsFit, Located
<1>2. workList' = workList
  BY DEF Call, DeferredCall, goVars
<1>3. CASE Call
  <2>1. PICK R, frames :
           /\ cs # <<>> /\ top.at = "instr" /\ Code(top).op \in Traversing
           /\ TraverseFn(R, Code(top).arg, top.goID, Ins(top), frames)
    BY <1>3 DEF Call, AtOp, At
  <2>2. HasInsn(prog, Ins(top))
    BY <2>1, TopFacts DEF Local
  <2>3. Ins(top) # NoIns /\ Code(top).arg \in Callable(prog)
    BY <1>1, <2>1, <2>2, NotNil, PlainCode, CodeOfTop DEF InstrPlain
  <2> QED
    BY <1>1, <1>2, <2>1, <2>3, TraverseLocated DEF Located
<1>4. CASE DeferredCall
  <2>1. /\ cs # <<>> /\ top.at \in {"defers", "final"} /\ NextDeferred # <<>>
        /\ DeferredArg.kind = "call"
        /\ TraverseFn(RWIns, DeferredArg.of, top.goID, DeferredIns, Append(rest, Popped))
    BY <1>4 DEF DeferredCall, AtDeferred, At
  <2>2. /\ HasInsn(prog, DeferredIns) /\ Insn(prog, DeferredIns).op = "defer"
        /\ DeferredArg = Insn(prog, DeferredIns).arg
    BY <2>1, PoppedFits
  <2>3. DeferredIns # NoIns /\ DeferredArg.of \in Callable(prog)
    BY <1>1, <2>1, <2>2, NotNil, PlainCode DEF InstrPlain
  <2> QED
    BY <1>1, <1>2, <2>1, <2>3, TraverseLocated DEF Located
<1> QED
  BY <1>3, <1>4

LEMMA NewGoroutineLocated ==
  ASSUME During, Located, NewGoroutine
  PROVE  status' = status /\ Located'
<1> DEFINE info == Head(workList)
<1>1. /\ IsSeq(storeFns) /\ FnsLocated(storeFns) /\ WorkLocated(workList) /\ IsSeq(workList)
      /\ Waiting(prog, workList, goStack)
  BY DEF During, CallsFit, SpawnsFit, Located
<1>2. workList # <<>> /\ workList' = Tail(workList) /\ prog' = prog
  BY DEF NewGoroutine
<1>3. /\ Len(Tail(workList)) = Len(workList) - 1 /\ info = workList[1]
      /\ \A n \in 1..(Len(workList) - 1) : Tail(workList)[n] = workList[n + 1]
  BY <1>1, <1>2, SeqTail
<1>4. Len(workList) \in Nat \ {0}
  BY <1>1, <1>2, SeqFacts
<1>5. info.ins # NoIns /\ info.fn \in Callable(prog)
  <2>1. 1 \in 1..Len(workList)
    BY <1>4
  <2> QED
    BY <1>1, <1>3, <2>1 DEF WorkLocated, Waiting
<1>6. WorkLocated(workList')
  <2>1. ASSUME NEW n \in 1..(Len(workList) - 1) PROVE workList[n + 1].ins # NoIns
    <3>1. n + 1 \in 1..Len(workList)
      BY <1>4
    <3> QED
      BY <1>1, <3>1 DEF WorkLocated
  <2> QED
    BY <1>2, <1>3, <2>1 DEF WorkLocated
<1>7. \/ status' = status /\ storeFns' = storeFns
      \/ \E R : TraverseFn(R, info.fn, info.goID, info.ins, cs)
  BY DEF NewGoroutine
<1> HIDE DEF info
<1>8. status' = status /\ FnsLocated(storeFns')
  BY <1>1, <1>5, <1>7, TraverseLocated
<1> QED
  BY <1>6, <1>8 DEF Located

LEMMA LocatedStep ==
  ASSUME During, Located, [Next]_vars
  PROVE  Located' /\ (status' = status \/ FinalUnlock)
<1> DEFINE Same == UNCHANGED <<storeFns, workList>>
<1>1. Same => Located'
  BY DEF Located, FnsLocated, WorkLocated
<1>2. EnterFirst \/ EnterReturn \/ Enter \/ Access \/ RecordOnly \/ LockOp => Same /\ status' = status
  BY DEF EnterFirst, EnterReturn, Enter, Access, RecordOnly, LockOp, goVars
<1>3. Back \/ GoUnknown \/ Defer \/ RunDefers \/ DefersDone \/ VisitDone => Same /\ status' = status
  BY DEF Back, GoUnknown, Defer, RunDefers, DefersDone, VisitDone, goVars
<1>4. DeferredUnlock \/ DeferredRUnlock \/ DeferredDone => Same /\ status' = status
  BY DEF DeferredUnlock, DeferredRUnlock, DeferredDone, goVars
<1>5. UNCHANGED vars \/ Finished => Same /\ status' = status
  BY DEF Finished, vars, goVars
<1>6. FinalUnlock => Same
  BY DEF FinalUnlock, goVars
<1>7. CASE Go
  <2>1. storeFns' = storeFns /\ status' = status
    BY <1>7 DEF Go
  <2> QED
    BY <1>7, <2>1, GoLocated DEF Located
<1>8. CASE Pop
  <2>1. workList' = workList
    BY <1>8 DEF Pop, goVars
  <2> QED
    BY <1>8, <2>1, PopLocated DEF Located
<1> HIDE DEF Same
<1> QED
  BY <1>1, <1>2, <1>3, <1>4, <1>5, <1>6, <1>7, <1>8, CallLocated, NewGoroutineLocated DEF Next

\* The one index out of range that the traversal may run into is the trace of
\* a deferred Unlock (analysisTools.go:662): exploredFunction never reads the
\* position of a nil call, and the call stack is never empty at the end of a
\* function.
THEOREM PanicsOnlyAtUnlock == Spec => [][status' = status \/ FinalUnlock]_vars
<1>1. Init => Located
  <2> SUFFICES ASSUME Init PROVE Located
    OBVIOUS
  <2>1. storeFns = <<[fn |-> Entry, ins |-> NoIns]>> /\ workList = <<>>
    BY DEF Init
  <2>2. Len(storeFns) = 1 /\ storeFns[1].fn = Entry /\ Len(workList) = 0
    BY <2>1, SeqEmpty
  <2> QED
    BY <2>2 DEF Located, FnsLocated, WorkLocated
<1>2. Before /\ Located /\ [Next]_vars => Located' /\ (status' = status \/ FinalUnlock)
  <2> SUFFICES ASSUME Before, Located, [Next]_vars
               PROVE  Located' /\ (status' = status \/ FinalUnlock)
    OBVIOUS
  <2>1. EnterFirst \/ UNCHANGED vars
    BY BeforeOnly
  <2>2. UNCHANGED <<storeFns, workList, status>>
    BY <2>1 DEF EnterFirst, vars, goVars
  <2> QED
    BY <2>2 DEF Located, FnsLocated, WorkLocated
<1>3. Inv /\ Located /\ [Next]_vars => Located' /\ (status' = status \/ FinalUnlock)
  BY <1>2, LocatedStep DEF Inv
<1>4. (status' = status \/ FinalUnlock) => [status' = status \/ FinalUnlock]_vars
  OBVIOUS
<1> QED
  BY <1>1, <1>3, <1>4, Invariance, PTL DEF Spec
=============================================================================
