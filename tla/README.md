# go2: a model of the race detector and its pointer analysis

`gorace` is a static data-race detector for Go programs; `gopta` is the fork of
golang/tools it builds on, whose own work is an origin-sensitive pointer
analysis. This directory holds TLA+ modules for the parts that carry the core
logic, TLC configurations that check them on small instances, and proofs that
TLAPS checks.

## 1. Inventory

| Component | State | Operations | Modelled |
|---|---|---|---|
| Constraint solver (`gopta/go/pointer/solve.go`, `constraint.go`) | points-to sets `pts`, `prevPTS`, copy edges, attached constraints, worklist, `skipIDs` | `solve`, `processNewConstraints`, `solveConstraints`, one `solve` method per constraint kind | `Constraints`, `Solver`; promise: `PointsTo` |
| Drivers (`gopta/go/pointer/analysis.go`, `gopta/go/myutil/myutil.go`) | cache `main2Result`, `main2ResultWCtx`, `flags.PTSLimit`, the map and WaitGroup of `DoParallel` | `Analyze`, `AnalyzeMultiMains`, `translateResult`, `DoEach`, `DoSeq`, `DoParallel`, the time limit | `Drivers` |
| Traversal (`gorace/analysisTools.go`, `ssaInstructions.go`, `sliceTools.go`) | call stack `storeFns`, worklist of goroutines, `RWIns`, `trieMap`, `goCaller`, `goStack`, `insMono`, `inLoop`, tables of select and if (`selectCaseBegin`, `ifSuccBegin`, ...) | `visitAllInstructions`, `traverseFn`, `exploredFunction`, `visitGo`, `newGoroutine`, `insCall`, `insGo`, `insSelect`, `insSend` | `Traversal`; order of the blocks, select and if: `CaseNotes` |
| Locksets (same files) | `lockSet`, `RlockSet`, `lockMap`, `RlockMap` | Lock, Unlock, RLock, RUnlock, freeze and thaw, snapshots | `LockSet`, used by `Traversal` |
| Happens-Before graph (`gorace/shbgraph.go`) | `HBgraph`, `RWinsMap`, `reachCache`, what `buildHB` remembers during its pass | `buildHB`, `reachable`, `reachableBFS` | `HBGraph`; queries: `Reach` |
| Race checker (`gorace/raceCollection.go`) | the races found so far | `checkRacyPairs`, `canRunInParallel`, `mutuallyExcluded`, `lockSetsIntersect` | `RaceCheck` |
| Runner (`gorace/staticAnalysis.go`, `gorace.go`, `main.go`) | `finalReport`, configuration | `Run2` over the entry points, `runChecker` for one | `runChecker`: `RaceCheck`; the loop: not |
| SSA construction (`gopta/go/ssa`) | basic blocks of a function | `selectStmt`, `forStmt`, if statements, `optimizeBlocks`, `DomPreorder` | `SSABlocks`, as far as `CaseNotes` needs it |
| Constraint generator (`gen.go`), contexts (`callgraph.go`), optimisers (`hvn.go`, `opt.go`), sharing (`commonpart.go`, `reuse.go`, `shares.go`) | node table, `globalobj`, contexts | translation of SSA, renumbering | not |

How they interact: the runner loads packages and runs the pointer analysis; for
each entry point the traversal walks the SSA form, asks the pointer analysis for
call targets and lock aliases, and fills `RWIns` and `lockMap`; `buildHB` turns
`RWIns` into the Happens-Before graph; the race checker compares the accesses of
any two goroutines, asks `reachable`, compares locksets and reports pairs. All
of it is sequential, except the drivers: `DoParallel` and the time limit start
goroutines that share the cache, and other programs may call `Analyze` from
several goroutines.

What is hard: the solver changes its own input while it runs (edges, functions
and constraints appear during solving, and difference propagation must not miss
old labels); the traversal is a mutual recursion whose bookkeeping is spread
over global tables that must agree (goroutine numbers, call stack, worklist);
the notes on select and if are made by counting blocks whose statements the
SSA form no longer shows;
the locksets share slices between goroutines and are edited under iteration;
`buildHB` is one pass that can only link what it still remembers; a driver goes
on while an analysis it has given up is still running. The list `hazards` in
PROJECT.json names these places line by line.

Correctness, by component: the solver ends with the least solution of the
generated constraints; the cache holds results for the right main, with their
analysis; the
traversal visits every goroutine, numbers them uniquely and keeps the call stack
balanced; a note on a block names the case, the channel and the statement that
the block belongs to; a recorded lockset holds only locks that are really held; the graph
orders two accesses only if they cannot happen at the same time; a query
answers whether there is a path; what is reported is a race, and every variable
with a race is reported.

## 2. Modules

* `Constraints` — the constraint kinds and what one of them demands for one
  label (`OpsOf`, `InvokeOps`), the assumptions on the constants, and when
  points-to sets satisfy a constraint. A constraint is a record with the node it
  is attached to; a Go type is the set of labels that pass its test. `LabelsAt`
  bounds a node's labels by its static type; `GoodConstraint` says that
  constraints respect it. `OpsOf` is what `constraint.go` says a constraint means,
  whatever the configuration.
* `Solver` — one step per `processNewConstraints`, per node taken off the
  worklist, per rule application (a constraint applied to one label), and per
  pass over the copy edges. The order of the rule applications of one node is
  left open. An interface call selects a method instance by call site and label
  (`Callee`); only shared functions are found in `globalobj`, others go through
  `genMissingFn`, and `skipNewFn` gives up the rest of the delta. With
  `config.Reflection` (variable `reflection`, both values in every run)
  `typeFilterConstraint.solve` returns at the first label that passes the filter
  (`solve.go:406-413`; the type is an interface, never a pointer), so it passes
  none on (`Filtered`, `Applied`), although `constraint.go:101` says
  `dst = src.(typ)`.
* `PointsTo` — the abstract specification: demanded labels are added in any
  order, functions appear when a call reaches them, and the end is declared only
  when the constraints are satisfied, apart from nodes at the limit, calls with
  `skip` and type filters with `reflection`. `Solver` implements it
  (`ImplementsPointsTo`) with `skip <- skipNewFn`, `done <- phase = "done"` and
  the other variables under their own names.
* `Drivers` — a call of `Analyze` runs in its caller's goroutine or, with a time
  limit, in its own; `caller[c]` and `an[c]` are the two program counters, the
  channel is the buffered channel of `DoEachMainMy`, `mu` the mutex of the cache.
  `translateResult` stores in three steps: `StoreResult` and `StoreWCtx` under the
  mutex, then `UpdateQueries` (`analysis.go:976-979`), which assigns the queries of
  the `_result` that the cache already gives out; `queried` are the calls that have.
  The second analysis of `DoDiff`, internal errors, the timeout, late answers
  and the unsynchronised map of `DoParallel` are actions. An assignment to the
  map has a beginning and an end; two that overlap may be lost or end the
  process.
* `LockSet` — the slices of locks with their backing arrays (`append` in place or
  into a new array, removal that shifts the array), shared `lockInfo` objects
  with the freeze flag, and `lockSetContainsAt`, whose compared position is left
  over from the previous entry in some cases.
* `Traversal` — `cs` is the stack of activations of `visitAllInstructions`, the
  current one last; each action is one instruction or one iteration of the loops over deferred calls,
  unlocks and the worklist. `held` and `seen` are history variables: the locks
  the program itself holds. After a block `if.then` or `if.else` the history takes
  back the unlocks of the block, as the code's thaw does, and not its Locks: it is
  right for branches that are single blocks without Lock and of which only one
  unlocks, as in the menu. A program is a function from names to sequences of
  blocks in the order in which the code visits them. Index and nil panics
  are the status `"panic"`. `ProgramsAssumption` says which programs the traversal
  is made for (plain ones): functions and blocks are not empty; nobody calls the
  entry function; a go statement spawns a function of interest (a spawned library
  function is visited without being pushed, and `analysisTools.go:682` then looks
  for the top of an empty call stack); names tell the entry function from the
  others, and library functions from those of interest, since the code compares
  functions by name.
* `SSABlocks` — what the traversal is given: statements (access, `make`, send,
  return, if, for, select) laid out in basic blocks with the comments that the
  builder gives them, the optimiser that removes unreachable blocks, fuses
  blocks and threads jumps, and the preorder of the dominator tree. A block and
  an instruction also name the statement they come from, which only the
  properties use. Recursive, so only TLC uses it.
* `CaseNotes` — the visit of one function with its channels: `BVisit` is the order
  of the blocks (blocks `.done` are kept back), `EnterBlock`, `Visit` and
  `LeaveBlock` are the three parts of the loop over blocks, `InsSelect` decides
  which cases are ready, and `Confirm` is the last step, in `runChecker`, that
  withdraws cases whose channel turned out unknown. `st` holds the local
  variables of `visitAllInstructions` and the tables. `HBGraph` takes the notes
  as given: `OwnCase`, `OwnStatement` and `CasesNoted` are what it relies on.
* `HBGraph` — `buildHB`, one action per recorded instruction; `h` holds the graph
  and the local variables of the pass. A node is `<<goroutine, index>>`. The
  maps that the traversal leaves (`ifSuccBegin`, `selectCaseBegin`, ...) are
  fields of the instruction. `TracesAssumption`: a goroutine other than main begins
  with a go statement that one with a smaller ID has recorded.
* `GoExec` — the reference, external to the repository: what the goroutines of a
  recorded program can do (unbuffered channels, WaitGroups, select, branches,
  spawns), and which accesses can be made at the same time.
* `Reach` — `reachable` and `reachableBFS`, one step per neighbor, over any
  graph; queries come in any order and number.
* `RaceCheck` — composes `Traversal` and `HBGraph` with `checkRacyPairs`: one step
  per round of its loops, that is, per pair of accesses (`access`) of a pair of
  goroutines (`pair`). Stack entries, which the code compares as pointers,
  carry the goroutine whose traversal pushed them.
* `MCSolver`, `MCDrivers`, `MCTraversal`, `MCHBGraph`, `MCReach`, `MCRaceCheck`,
  `MCCaseNotes` —
  instances and reference definitions: `NaiveSolution` (iterate all constraints
  to a fixed point), `CoEnabled`, `TrueRaces`.
* `SolverProofs`, `SolverRefines` (that `Solver` implements `PointsTo`),
  `DriversProofs`, `TraversalProofs`, `HBGraphProofs`, `RaceCheckProofs` (the
  traversal, `buildHB` and `checkRacyPairs` composed), `ReachProofs` — theorems.

Operators named as mutants stand next to the definition they change; each is a
plausible slip that makes one of the properties fail.

## 3. Runs

| Run | Instance | Shows |
|---|---|---|
| `solver` | all systems of at most 6 of 13 constraints over two structs, their fields and three variables; 128 systems with two interface call sites, two methods and an out-of-scope one | with and without `Reflection`: type correctness, nothing lost, the abstract specification implemented, the naive least solution on return (with `Reflection`, of the constraints that are not type filters), termination |
| `solver_limit` | the call systems with limit 2, both values of `skipNewFn` and of `Reflection` | constraints hold except behind a node given up, for calls with `skipNewFn` and for type filters with `Reflection`; the abstract specification with a limit, by which only nodes at the limit are given up |
| `traversal` | 1296 programs of main, f, g with calls, recursion, spawns, a loop, library functions; 1296 with two locks in main and one goroutine | numbering, spawn records, balanced call stack, all goroutines visited, `insMono`, twins, no access recorded with a lock that is not held, termination |
| `drivers` | lists of at most 3 of 3 mains, all four ways to start an analysis, with and without a time limit, failures, `DoDiff` | cached and served results belong to their main and have their analysis, and a served one lacks the queries of `GetResult()` only while the call that stored it is between `Unlock` and their assignment; a late answer does not block; the map is read after the last write; every driver ends |
| `case_notes` | about 1100 function bodies: a select of up to three cases (variable, known or unknown parameter, fresh channel, timeout, empty), with and without default, alone, in a loop (with or without a condition and a post statement) or between accesses; if and if-else with returns and sends, also in a loop; an if before a select; a single-case select before an if | every note on a case names its own case, every note on a branch its own if; no case of a ready channel is left without note (default cases are exempt: after an empty last case the default is not noted); no note on an unrecorded instruction; blocks come after those that dominate them; no channel in a variable is withdrawn if every case before it has a place in `selReady` (others are, see below); no index panic |
| `hbgraph` | 370 programs of main and up to two goroutines, nested or twins from a loop, with up to two of: send, receive, Wait, Done, if, if-else, a call with an early return, select with and without default, a select that sends, at most one block statement per function | accesses that can be made at the same time are not ordered; others are; in straight-line code every instruction follows the one before it, and a goroutine the go statement that starts it |
| `races` | 416 programs: 13 mains, 8 bodies of f, 4 of g | no variable with a race is missed, no false race; each candidate reported once; what precedes a go statement not reported with what it starts |
| `reach` | graphs on three nodes with cycles, double edges, dead ends; queries between two accesses | cached answers, no node enqueued twice, every query answered |

Bounds: two structs are needed for a store and a load to alias; six constraints
for a chain that revisits a node; the limit 2 is the least at which a node is
solved once and given up later; two call sites let a generated method call
another one. Three mains are what `DoParallel` takes; three calls let one be
served while two others store. Two functions besides main give recursion, mutual
spawning and a shared callee; `TrieLimit` is 2 as in `gorace.go`. Three
goroutines are the least with an order by transitivity and with a goroutine
spawned by another than main; two operations each give every pair of
synchronisations in every order. Three nodes give a cycle that does not contain
the start. Three cases of a select are the least with one between a first and a
last. The systems and programs in the menus are small, so the proofs, where
there are any, are what covers the rest.

Four runs expect a violation; each is a disagreement between the code and one of
its comments (`findings` in PROJECT.json):

* `traversal_budget` — goroutines are subject to the budget although the comment
  says it is skipped for go calls: a third goroutine with the same function is
  not traversed.
* `traversal_unreleased` — the loop over unreleased locks skips every other one.
* `drivers_parallel` — the workers of `DoParallel` write one map without a lock.
* `races_globals` — global mutexes have no source position, so any two of them
  count as the same lock.

### What the menus leave out

The passing runs hold for the programs of their menus. The following patterns
are known to go wrong in the code (the hazards name the lines) and are left out
of a menu for that reason:

* `traversal`, locks: an access in a function that goroutines reach with different
  locks (`lockMap` keeps the last snapshot for all); two deferred unlocks in one
  function; an Unlock in the block `if.done` with blocks after it (it is taken for
  one in a branch and thaws); accesses in a later block than an RUnlock (a read
  lock is only frozen, and thaws at the end of the block).
* `case_notes`: two statements of the same kind one after the other (the first
  `if.done` is kept back until a block of another kind of statement, so the branch
  of the second if is recorded before the code between them, and `InOrder` fails);
  an if in a branch of another (what follows the outer one is noted for the inner
  one, `OwnStatement` fails); an empty case or a timeout before another case (its
  block is removed or not counted, the next case gets its channel, `OwnCase`
  fails); an if after a select, a select in a branch or in a case, `select {}` in a
  case; `make` or a deferred call at the start of a branch or of a default body
  (not recorded, so its note is lost). `OwnCase` exempts the body of a select with
  a default case (`defCase` is never reset), and `OnlyUnknownWithdrawn` a channel
  after a case that has no place in `selReady` (a place in `selUnknown` is used as
  one in `selReady`, so that the wrong channel is withdrawn).
* `hbgraph`: two selects, also in two goroutines (the default case of the second is
  linked to the first); timeouts; a select with a single channel and a
  default case, whose case end alone is linked to `select.done`; several sends or
  receives on a channel (the last one met replaces the others) and buffered
  channels (treated as a rendezvous); Wait in a goroutine with a larger number
  than the one that calls Done (a Done is linked to Waits already met).
  `NoOrderLost` exempts programs with a select, and accesses in a branch that
  control leaves by a jump: what
  follows an if statement is linked to the If only.
* `races`: the same exemption in `NoFalseRace`; a spawn in a branch or loop body
  together with an access or a spawn after that statement, which count as mutually
  exclusive because neither block dominates the other; a spawn and an access in
  one branch that returns; a deferred Done before an early return (deferred calls
  run at the first `rundefers` only). `Dominates` is defined for functions without
  nested statements, which is what the menus contain. As a race is reported once
  per pair of addresses, `NoRaceMissed` asks for one report per variable.

Fairness: `WF_vars(Next)` in `Solver` and `Traversal`, and weak fairness of the
search in `Reach`. The code is sequential: a goroutine that nothing blocks keeps
running, so some enabled step is taken. Queries in `Reach` come from outside and
have no fairness. In `Drivers` each goroutine has weak fairness of its own, as
the Go scheduler gives it, and an analysis ends (`Terminates` of `Solver`);
whether the time limit is met is open. `HBGraph`, `CaseNotes` and `RaceCheck` are checked for
safety only: each step of theirs advances a finite pass. Deadlock is checked in
every run; the panic on a nonempty `pts(0)` would be one.

## 4. Proofs

Constraint solver, for every constraint system, node table, limit and set of
functions (assumptions: `NodesAssumption`, by which the node table is finite,
`FlagsAssumption`, `SystemsAssumption`, `FnsAssumption`, which say that constraints
and function bodies respect the static types):

* `TypeCorrect` — `TypeOK` is inductive; it includes that points-to sets stay
  within `LabelsAt`, from which every `k + offset` is a node.
* `NothingLostCorrect`, `SolvedCorrect` — `Solved` alone is not inductive. The
  invariant `NothingLost` says of each copy edge that it has carried all
  propagated labels, or its source is stale or on the worklist (`EdgesKept`); of
  each complex constraint that it was applied to every label of `prevPTS`, or
  the application is pending, or the node is stale (`ComplexKept`); of each
  constraint that it is pending or attached (`ConstraintsKept`); that heads of
  call blocks have nothing attached (`BlocksBare`, which rests on `GoodConstraint`); and that the loop cannot end
  while constraints are pending (`LoopGoesOn`). One lemma per action. What is
  excepted is what leaves a node at the limit, and `GivenUp`: calls that `skipNewFn`
  left, and type filters with `Reflection`.
* `LeastSolution` — `Justified(S)`: for any solution S of the constraints (with
  `Reflection`, of those that are not type filters), edges, pending applications and
  points-to sets lie below S.
* `Refinement` — every behaviour of `Solver` is one of `PointsTo`. The invariant
  `NothingInvented` says that every edge and pending application is demanded by the
  constraints and labels there are; with it, a rule application or a pass
  over the edges adds only what `PointsTo` may add, a node is given up only at the
  limit, and the end is a solution because of `Solved`.

Drivers, for any mains, lists of calls, driver and limit (`DriversAssumption`):

* `TypeCorrect`, `CacheCorrect`, `ServedCorrect`, `LateAnswerCorrect`, `JoinedCorrect`.
  The invariant adds which driver can be at which program counter, that a call
  not begun has done nothing, that the calls of `DoSeq` follow one another, that
  the limit is off only while the second analysis of `DoDiff` is awaited, that the
  mutex is held exactly between the two writes to the cache, that a result in the
  cache has its queries or its call is still about to assign them (`Published`; only
  with it is `ServedSound` inductive), and that the
  WaitGroup counts the workers that have not written yet.

Traversal, for all plain programs, names, budgets and locks
(`ProgramsAssumption`):

* `GoIDsCorrect`, `SpawnCorrect`, `CallsCorrect`, `VisitedCorrect`, `MonoCorrect` — none of
  the properties is inductive. The number that `insGo` gives is right only because
  the goroutine being visited is always the last one met (`InLast`, `Numbered`);
  `visitGo` waits for the call stack to be empty, which means that nothing is being
  visited only because library functions, which are not on it, stand on
  functions that are (`Balanced`); `Spawned` ties the go statement of every
  goroutine, met or not, to its call stack and to its parent's records, `Waiting`
  the worklist to both, `Twinned` the loop IDs, `FirstGo` `insMono`. `Invariance` proves
  their conjunction.
* `PanicsOnlyAtUnlock` — no index of the traversal is out of range, except in the
  step that runs deferred unlocks: when only the parent's lockset has the lock,
  `analysisTools.go:662` takes a place in that one for one in the child's. The
  theorem needs a second invariant (`Located`: only the entry function was called by
  no instruction).

Happens-Before graph:

* `HBGraphProofs!TypeCorrect` — `buildHB` makes no edge at a missing node, for every
  trace (`TracesAssumption`). The edge to the first instruction of a goroutine
  starts at what `goCaller` holds, so the invariant adds that every go statement
  looked at is in it (`GosKnown`), and that `prevN` is a node after the first
  instruction.
* `OrderCorrect` — the graph keeps program order and go order (`OrderKept`), for every
  trace: each instruction has an edge from the one before it, unless it begins a
  branch or a case, follows a select or a detached receive; a goroutine has one from
  a go statement that starts it; and every access is found in `RWinsMap`. The
  edge to an instruction starts at `prevN`, so the invariant adds that `prevN` is the
  last node made, unless that is a detached receive (`PrevIsLast`), and that `goCaller` holds nodes of go statements with the key's instruction
  (`GoNodes`).
* `GraphCorrect` — the same in `RaceCheck`, where the trace is what the traversal has
  recorded: the invariant of `TraversalProofs` implies `IsTrace` (`TraceReady`), so for
  every plain program the assumption of `HBGraph` is met.
* `AccessesCorrect` — when the graph is built, every recorded read or write is in
  `RWinsMap`, with the node of its last execution by the same goroutine
  (`AccessesFound`). `reachable` answers "no path" for an access it does not find
  (`shbgraph.go:39`), which would turn a missing node into a report.
* `ReachTypeCorrect`, `ReachEnqueuedOnce`, `ReachCacheCorrect` — the search
  invariant: visited nodes are the enqueued ones, each in every closed set that
  holds the start; the neighbors of every dequeued node are visited; the target
  is not among the dequeued ones. When the queue is empty the visited
  set is closed, so a missing target is unreachable.

Race checker, for all plain programs, budgets and locks:

* `RacesCorrect` — `RacesExact` says what the four loops of `checkRacyPairs` amount to.
  The loop invariant `CheckInv`: the indices stay in range (`LoopsFit`); the races are
  candidates (`RacesReal`) with different addresses (`RacesDistinct`); every candidate
  that the loops have passed (`Passed`: lexicographically before the current pair of
  goroutines and accesses) has its addresses among the races (`RacesComplete`). Before
  the loops the variables have their first values (`NotBegun`), and while they run
  nothing changes the records, the locksets or the graph (`SameCandidate`).
* `SpawnRespectedCorrect` — no race is reported between accesses of a goroutine before a
  go statement, and accesses of the goroutine it starts, if the statement is
  recorded once and both are in straight-line code. `OrderCorrect` gives the edges of
  the path, `AccessesCorrect` its ends, and `ClosureLeast` that the closure computed
  over as many rounds as there are edges is the least set closed under them. That
  lemma and the path along a goroutine (`StraightPath`) are inductions over a number
  of steps, written as least counterexamples (`LeastNat`).

Only model-checked:

* liveness (`Terminates`, `Ends`, `Answered`), outside the prover's reach;
* `MatchesNaive`, whose reference is recursive (`SolvedCorrect` and `LeastSolution` state
  the same fact through `Solution`);
* `TypeOK` and `LockMapSound` of `Traversal`: the first fails for plain programs that
  reach the panic at `analysisTools.go:662`, the second for the patterns listed in
  section 3, so that neither is a theorem of all plain programs;
* `CaseNotes`, which rests on the recursive `SSABlocks`;
* `SoundOrder`, `NoOrderLost`, `NoRaceMissed` and `NoFalseRace`, whose reference `GoExec`
  explores the executions of a program recursively, and which hold for the
  programs of the menus only.

## 5. Not modelled

Channels in struct fields; a function with a select that is visited more than
once (`CaseNotes` visits one function once, and `Traversal` and `HBGraph` take its
notes as given); `switch`, `range`, `break`, `continue`, labels, `goto` and recover in
`SSABlocks`;
timeouts in `HBGraph`; `bothAtomic`, `selectMutEx`, `isLocal` and
the points-to part of `sameAddress`; reflection constraints; methods with
several parameters; `DoSameRoot`, the default algorithm and its comparison; the
optimisers; package loading, user dialogue, printing. The constraint generator
is represented by the well-typed systems it may produce. Most of the repository
is the fork of golang/tools (most of SSA construction, the language server, command-line
tools), which is upstream code and not part of the race detector.

## 6. Plan

1. Proofs: the condition on a program under which `LockMapSound` holds, instead of a
   menu; an abstract `checkRacyPairs` without order of the loops.
2. `RaceCheck` over programs with channels, from the notes of `CaseNotes`.
3. `renumberHVN` and the contexts of the pointer analysis.
