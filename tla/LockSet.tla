------------------------------ MODULE LockSet ------------------------------
(***************************************************************************)
(* The active locksets of the traversal (gorace: lockSet and RlockSet of   *)
(* analysisTools.go, and the operations on them in ssaInstructions.go).    *)
(*                                                                         *)
(* A lockset is a Go slice of pointers to lockInfo, one slice per          *)
(* goroutine.  Slices and lockInfos are shared: a goroutine may start with *)
(* its parent's slice, and removing an element moves the others within the *)
(* backing array.  A store of locksets L therefore has a heap:             *)
(*   L.infos   the lockInfo objects [lock, frozen], by number              *)
(*   L.arrays  the backing arrays, sequences of numbers of lockInfos       *)
(*   L.set     L.set[k][g]: the slice [arr, len] of goroutine g; k is "W"  *)
(*             for lockSet and "R" for RlockSet                            *)
(* Indices start at 1, and 0 stands for the code's -1 and nil.             *)
(***************************************************************************)
EXTENDS Integers, Sequences

CONSTANTS
  Locks,     \* lock expressions
  NoLock,    \* the nil entry of a snapshot
  PosOf,     \* PosOf[l]: position of the variable l is reached from, or 0 if
             \* l is neither a global nor a field
  SameAddr   \* pairs of lock expressions that may alias (points-to sets)

NoSlice == [arr |-> 0, len |-> 0]
NoLocks == [infos |-> <<>>, arrays |-> <<>>,
            set |-> [k \in {"W", "R"} |-> [g \in {} |-> NoSlice]]]

SliceOf(L, k, g) == IF g \in DOMAIN L.set[k] THEN L.set[k][g] ELSE NoSlice
Size(L, k, g) == SliceOf(L, k, g).len
InfoAt(L, k, g, i) == L.arrays[SliceOf(L, k, g).arr][i]
LockAt(L, k, g, i) == L.infos[InfoAt(L, k, g, i)].lock
FrozenAt(L, k, g, i) == L.infos[InfoAt(L, k, g, i)].frozen

SetSlice(L, k, g, s) ==
  [L EXCEPT !.set[k] = [h \in DOMAIN @ \cup {g} |-> IF h = g THEN s ELSE @[h]]]

(***************************************************************************)
(* a.lockSet[g] = append(a.lockSet[g], lock): in place while the backing   *)
(* array has room, else into a new array of twice the capacity.            *)
(***************************************************************************)
AppendLock(L, k, g, l) ==
  LET s == SliceOf(L, k, g)
      new == Len(L.infos) + 1
      old == IF s.arr = 0 THEN <<>> ELSE L.arrays[s.arr]
      grown == [i \in 1..(IF s.len = 0 THEN 1 ELSE 2 * s.len) |->
                  IF i <= s.len THEN old[i] ELSE IF i = s.len + 1 THEN new ELSE 0]
      M == [L EXCEPT !.infos = Append(@, [lock |-> l, frozen |-> FALSE])]
  IN IF s.len < Len(old)
     THEN SetSlice([M EXCEPT !.arrays[s.arr][s.len + 1] = new], k, g,
                   [arr |-> s.arr, len |-> s.len + 1])
     ELSE SetSlice([M EXCEPT !.arrays = Append(@, grown)], k, g,
                   [arr |-> Len(L.arrays) + 1, len |-> s.len + 1])

\* a.lockSet[g] = append(a.lockSet[g][:z], a.lockSet[g][z+1:]...)
RemoveAt(L, k, g, z) ==
  LET s == SliceOf(L, k, g)
      a == L.arrays[s.arr]
  IN SetSlice([L EXCEPT !.arrays[s.arr] =
                 [i \in DOMAIN a |-> IF z <= i /\ i < s.len THEN a[i + 1] ELSE a[i]]],
              k, g, [s EXCEPT !.len = @ - 1])

SetFrozen(L, k, g, i, b) ==
  [L EXCEPT !.infos[InfoAt(L, k, g, i)].frozen = b]

(***************************************************************************)
(* lockSetContainsAt.  The positions compared are declared outside the     *)
(* loop: an entry that is neither a global nor a field is compared with    *)
(* the position of the entry before it.                                    *)
(***************************************************************************)
ComparedPos(L, k, g, i) ==
  LET set == {j \in 1..i : PosOf[LockAt(L, k, g, j)] # 0}
  IN IF set = {} THEN 0
     ELSE PosOf[LockAt(L, k, g, CHOOSE j \in set : \A m \in set : m <= j)]

LockSetContainsAt(L, k, l, g) ==
  LET hits == {i \in 1..Size(L, k, g) :
                 \/ ComparedPos(L, k, g, i) = PosOf[l]
                 \/ <<LockAt(L, k, g, i), l>> \in SameAddr}
  IN IF hits = {} THEN 0 ELSE CHOOSE i \in hits : \A j \in hits : i <= j

Holds(L, k, l, g) == LockSetContainsAt(L, k, l, g) # 0

Freeze(L, k, l, g, b) ==
  IF Holds(L, k, l, g) THEN SetFrozen(L, k, g, LockSetContainsAt(L, k, l, g), b)
                       ELSE L
Remove(L, k, l, g) ==
  IF Holds(L, k, l, g) THEN RemoveAt(L, k, g, LockSetContainsAt(L, k, l, g))
                       ELSE L

\* The loops over toUnlock and toRUnlock: op(L, l) for the locks of ls in turn.
ForEach(op(_, _), L, ls) ==
  LET after[n \in 0..Len(ls)] == IF n = 0 THEN L ELSE op(after[n - 1], ls[n])
  IN after[Len(ls)]

-----------------------------------------------------------------------------
(***************************************************************************)
(* Operations of the traversal.                                            *)
(***************************************************************************)
\* Mutant: an Unlock inside an if statement has no effect.
UnlockOutsideIf(L, l, g, inIf) == IF inIf THEN L ELSE Remove(L, "W", l, g)

\* insCall, Unlock: inside an if statement the lock is only frozen, until the
\* end of the block.
Unlock(L, l, g, inIf) ==
  IF inIf THEN Freeze(L, "W", l, g, TRUE) ELSE Remove(L, "W", l, g)

\* insCall, RLock
RLock(L, l, g) == IF Holds(L, "R", l, g) THEN L ELSE AppendLock(L, "R", g, l)

\* insCall, RUnlock: frozen in the goroutine's own set, else in its caller's.
RUnlock(L, l, g, caller) ==
  IF Holds(L, "R", l, g) THEN Freeze(L, "R", l, g, TRUE)
                         ELSE Freeze(L, "R", l, caller, TRUE)

\* The end of a block: what was unlocked in it counts as held again.
Thaw(L, k, ls, g) ==
  LET thaw(M, l) == Freeze(M, k, l, g, FALSE) IN ForEach(thaw, L, ls)

\* The end of a function: deferred unlocks.  A lock not in the own set is
\* removed from the caller's; reading it for the trace panics if the own set
\* is shorter.
UnlockOwnOrCaller(L, l, g, caller) ==
  IF Holds(L, "W", l, g) THEN Remove(L, "W", l, g) ELSE Remove(L, "W", l, caller)
UnlockPanics(L, l, g, caller) ==
  /\ ~Holds(L, "W", l, g)
  /\ LockSetContainsAt(L, "W", l, caller) > Size(L, "W", g)

\* The end of a function: for i := size; i < len(lockSet); i++ { remove i }
DropUnreleased(L, g, size) ==
  LET drop(M, n) == IF size + n <= Size(M, "W", g)
                    THEN RemoveAt(M, "W", g, size + n) ELSE M
  IN IF Size(L, "W", g) > size
     THEN ForEach(drop, L, [n \in 1..(Size(L, "W", g) - size) |-> n]) ELSE L

\* newGoroutine: the child starts with its parent's slice.
CarryOver(L, child, parent) ==
  IF Size(L, "W", parent) > 0
  THEN SetSlice(L, "W", child, SliceOf(L, "W", parent)) ELSE L

\* updateLockMap, updateRLockMap
Snapshot(L, k, g) ==
  [i \in 1..Size(L, k, g) |->
     IF FrozenAt(L, k, g, i) THEN NoLock ELSE LockAt(L, k, g, i)]
=============================================================================
