------------------------------ MODULE Drivers ------------------------------
(***************************************************************************)
(* How the pointer analysis is driven (gopta/go/myutil/myutil.go and       *)
(* Analyze, AnalyzeMultiMains, translateResult of go/pointer/analysis.go): *)
(* several mains, one after another or each in its own goroutine, with a   *)
(* time limit after which the caller goes on without its analysis, and a   *)
(* package-level cache of the results behind a mutex.                      *)
(*                                                                         *)
(* A call is one call of Analyze.  It runs in the goroutine of its caller  *)
(* or, with a time limit, in one of its own that reports on the channel c. *)
(* The drivers are DoEach, DoParallel, DoSeq, and "Clients": goroutines    *)
(* that call Analyze directly, possibly for the same main.                 *)
(***************************************************************************)
EXTENDS Integers, FiniteSets

CONSTANTS
  Mains,      \* main packages
  MainLists,  \* what a driver is started with, and what clients ask for
  MaxCalls,   \* bound on the length of those lists
  PtsLimit,   \* flags.PTSLimit as configured
  DriverSet   \* the drivers to be started

NoCall == 0

ASSUME DriversAssumption ==
  /\ MaxCalls \in Nat
  /\ MainLists \subseteq UNION {[1..n -> Mains] : n \in 1..MaxCalls}
  /\ PtsLimit \in Nat
  /\ DriverSet \subseteq {"DoEach", "DoParallel", "DoSeq", "Clients"}

VARIABLES
  driver,       \* which driver was started
  mainOf,       \* mainOf[c]: config.Mains[0] of call c
  timeLimit,    \* flags.TimeLimit # 0
  doDiff,       \* flags.DoDiff
  flagLimit,    \* flags.PTSLimit, which AnalyzeMultiMains sets and resets
  status,       \* "run", "exit", "panic", or "fatal": concurrent map writes
  caller,       \* caller[c]: where the caller of c is
  an,           \* an[c]: where Analyze is
  limitOf,      \* limitOf[c]: the limit under which c was analysed
  got,          \* got[c]: the variable result of the caller: a call, or none
  failed,       \* calls whose analysis returned an error
  chan,         \* chan[c]: messages in the channel of c
  mu,           \* main2Mu: the call that holds it
  main2Result, main2ResultWCtx,   \* main -> the call that analysed it
  linked,       \* calls whose result has result.a set
  queried,      \* calls whose _result, which GetResult() returns, has its queries
  wg,           \* the WaitGroup of DoParallel
  ret           \* its map: main -> the call whose result it holds, NoCall = nil

cacheVars == <<mu, main2Result, main2ResultWCtx, linked, queried>>
inputVars == <<driver, mainOf, timeLimit, doDiff>>
vars == <<inputVars, flagLimit, status, caller, an, limitOf, got, failed, chan,
          cacheVars, wg, ret>>

Calls == DOMAIN mainOf
Put(m, x, v) == [y \in DOMAIN m \cup {x} |-> IF y = x THEN v ELSE m[y]]

\* The drivers are given different mains; clients may ask for the same one.
Init ==
  /\ driver \in DriverSet
  /\ mainOf \in MainLists
  /\ driver = "Clients" \/ \A c, d \in Calls : mainOf[c] = mainOf[d] => c = d
  /\ timeLimit \in {b \in BOOLEAN : b => driver \in {"DoEach", "DoParallel"}}
  /\ doDiff \in {b \in BOOLEAN : b => driver = "DoSeq" /\ PtsLimit > 0}
  /\ flagLimit = PtsLimit
  /\ status = "run"
  /\ caller = [c \in Calls |-> "idle"]
  /\ an = [c \in Calls |-> "idle"]
  /\ limitOf = [c \in Calls |-> PtsLimit]
  /\ got = [c \in Calls |-> NoCall]
  /\ failed = {}
  /\ chan = [c \in Calls |-> 0]
  /\ mu = NoCall
  /\ main2Result = [m \in {} |-> NoCall]
  /\ main2ResultWCtx = [m \in {} |-> NoCall]
  /\ linked = {}
  /\ queried = {}
  /\ wg = 0
  /\ ret = [m \in {} |-> NoCall]

Running == status = "run"
Step(f, c, from, to) == f[c] = from /\ f' = [f EXCEPT ![c] = to]
-----------------------------------------------------------------------------
(***************************************************************************)
(* Analyze and translateResult                                             *)
(***************************************************************************)
\* The cache is read between Lock and Unlock; nothing else can happen there
\* (mutant: without the lock).
LookupUnlocked(c) ==
  /\ Running
  /\ IF mainOf[c] \in DOMAIN main2Result
     THEN /\ Step(an, c, "lookup", "answer")
          /\ got' = [got EXCEPT ![c] = main2Result[mainOf[c]]]
     ELSE /\ Step(an, c, "lookup", "analyse")
          /\ got' = got
  /\ UNCHANGED <<inputVars, flagLimit, status, caller, limitOf, failed, chan,
                 cacheVars, wg, ret>>
Lookup(c) ==
  /\ Running
  /\ mu = NoCall
  /\ IF mainOf[c] \in DOMAIN main2Result
     THEN /\ Step(an, c, "lookup", "answer")
          /\ got' = [got EXCEPT ![c] = main2Result[mainOf[c]]]
     ELSE /\ Step(an, c, "lookup", "analyse")
          /\ got' = got
  /\ UNCHANGED <<inputVars, flagLimit, status, caller, limitOf, failed, chan,
                 cacheVars, wg, ret>>

\* AnalyzeWCtx: a new analysis, under the limit that is set at that time
AnalyzeWCtx(c) ==
  /\ Running
  /\ Step(an, c, "analyse", "store")
  /\ limitOf' = [limitOf EXCEPT ![c] = flagLimit]
  /\ UNCHANGED <<inputVars, flagLimit, status, caller, got, failed, chan,
                 cacheVars, wg, ret>>

\* An internal error is recovered and returned; the result is nil.
AnalyzeFails(c) ==
  /\ Running
  /\ an[c] \in {"analyse", "full"}
  /\ an' = [an EXCEPT ![c] = "answer"]
  /\ failed' = failed \cup {c}
  /\ UNCHANGED <<inputVars, flagLimit, status, caller, limitOf, got, chan,
                 cacheVars, wg, ret>>

\* translateResult: main2Result first, then result.a and main2ResultWCtx,
\* all under the mutex.
StoreResult(c) ==
  /\ Running
  /\ mu = NoCall
  /\ Step(an, c, "store", "storing")
  /\ mu' = c
  /\ main2Result' = Put(main2Result, mainOf[c], c)
  /\ UNCHANGED <<inputVars, flagLimit, status, caller, limitOf, got, failed,
                 chan, main2ResultWCtx, linked, queried, wg, ret>>

\* Mutant: main2ResultWCtx is set outside the mutex, if it is still empty.
StoreWCtxOnce(c) ==
  /\ Running
  /\ Step(an, c, "storing", "publishing")
  /\ mu' = NoCall
  /\ linked' = linked \cup {c}
  /\ main2ResultWCtx' = IF mainOf[c] \in DOMAIN main2ResultWCtx THEN main2ResultWCtx
                        ELSE Put(main2ResultWCtx, mainOf[c], c)
  /\ UNCHANGED <<inputVars, flagLimit, status, caller, limitOf, got, failed,
                 chan, main2Result, queried, wg, ret>>
StoreWCtx(c) ==
  /\ Running
  /\ Step(an, c, "storing", "publishing")
  /\ mu' = NoCall
  /\ linked' = linked \cup {c}
  /\ main2ResultWCtx' = Put(main2ResultWCtx, mainOf[c], c)
  /\ UNCHANGED <<inputVars, flagLimit, status, caller, limitOf, got, failed,
                 chan, main2Result, queried, wg, ret>>

\* After Unlock, Queries, IndirectQueries and GlobalQueries of the _result that
\* the cache already gives out are assigned; it has them with the last one.
UpdateQueries(c) ==
  /\ Running
  /\ Step(an, c, "publishing", "stored")
  /\ queried' = queried \cup {c}
  /\ UNCHANGED <<inputVars, flagLimit, status, caller, limitOf, got, failed, chan,
                 mu, main2Result, main2ResultWCtx, linked, wg, ret>>

\* Back in Analyze: the own result is returned.
AnalyzeReturns(c) ==
  /\ Running
  /\ driver # "DoSeq"
  /\ Step(an, c, "stored", "answer")
  /\ got' = [got EXCEPT ![c] = c]
  /\ UNCHANGED <<inputVars, flagLimit, status, caller, limitOf, failed, chan,
                 cacheVars, wg, ret>>
-----------------------------------------------------------------------------
(***************************************************************************)
(* AnalyzeMultiMains, in its loop over the mains.  With DoDiff the limit   *)
(* is turned off for a second analysis, whose result is only compared.     *)
(***************************************************************************)
NextMain(c) ==
  /\ Running
  /\ driver = "DoSeq"
  /\ ~doDiff
  /\ Step(an, c, "stored", "answer")
  /\ UNCHANGED <<inputVars, flagLimit, status, caller, limitOf, got, failed, chan,
                 cacheVars, wg, ret>>

LimitOff(c) ==
  /\ Running
  /\ doDiff
  /\ Step(an, c, "stored", "full")
  /\ flagLimit' = 0
  /\ UNCHANGED <<inputVars, status, caller, limitOf, got, failed, chan,
                 cacheVars, wg, ret>>

\* Mutant: the limit is not set back.
CompareOnly(c) ==
  /\ Running
  /\ Step(an, c, "full", "answer")
  /\ UNCHANGED <<inputVars, flagLimit, status, caller, limitOf, got, failed, chan,
                 cacheVars, wg, ret>>
CompareAndReset(c) ==
  /\ Running
  /\ Step(an, c, "full", "answer")
  /\ flagLimit' = PtsLimit
  /\ UNCHANGED <<inputVars, status, caller, limitOf, got, failed, chan,
                 cacheVars, wg, ret>>
-----------------------------------------------------------------------------
(***************************************************************************)
(* The callers                                                             *)
(***************************************************************************)
\* Mutant: an unbuffered channel.
SendToReceiver(c) == caller[c] = "wait"
\* c := make(chan string, 1): c <- "done" does not block.
SendReady(c) == chan[c] < 1

\* The result is assigned and, with a time limit, c <- "done" is sent.
Answer(c) ==
  /\ Running
  /\ timeLimit => SendReady(c)
  /\ Step(an, c, "answer", "end")
  /\ chan' = IF timeLimit THEN [chan EXCEPT ![c] = @ + 1] ELSE chan
  /\ UNCHANGED <<inputVars, flagLimit, status, caller, limitOf, got, failed,
                 cacheVars, wg, ret>>

\* A call begins, in the loop of DoEach or AnalyzeMultiMains, in a worker of
\* DoParallel, or in a client.  AnalyzeMultiMains does not look at the cache.
Begin(c) ==
  /\ Running
  /\ Step(caller, c, IF driver = "DoParallel" THEN "spawned" ELSE "idle", "wait")
  /\ driver \in {"DoEach", "DoSeq"} => \A d \in 1..(c - 1) : caller[d] = "back"
  /\ an' = [an EXCEPT ![c] = IF driver = "DoSeq" THEN "analyse" ELSE "lookup"]
  /\ UNCHANGED <<inputVars, flagLimit, status, limitOf, got, failed, chan,
                 cacheVars, wg, ret>>

\* Mutant: the channel is read without a time limit, too.
ReceiveAlways(c) ==
  /\ Running
  /\ caller[c] = "wait"
  /\ IF timeLimit THEN chan[c] > 0 ELSE an[c] = "end"
  /\ chan' = [chan EXCEPT ![c] = @ - 1]
  /\ caller' = [caller EXCEPT ![c] = "back"]
  /\ UNCHANGED <<inputVars, flagLimit, status, an, limitOf, got, failed, cacheVars,
                 wg, ret>>

\* The select of DoEachMainMy, or the return of Analyze without a time limit.
Receive(c) ==
  /\ Running
  /\ caller[c] = "wait"
  /\ IF timeLimit THEN chan[c] > 0 ELSE an[c] = "end"
  /\ chan' = IF timeLimit THEN [chan EXCEPT ![c] = @ - 1] ELSE chan
  /\ IF c \in failed /\ driver # "Clients"
     THEN status' = "panic" /\ caller' = caller   \* panic(fmt.Sprintln(rErr))
     ELSE status' = status /\ caller' = [caller EXCEPT ![c] = "back"]
  /\ UNCHANGED <<inputVars, flagLimit, an, limitOf, got, failed, cacheVars, wg, ret>>

\* <-time.After(flags.TimeLimit): DoEachMainMy returns nil.
Timeout(c) ==
  /\ Running
  /\ timeLimit
  /\ Step(caller, c, "wait", IF driver = "DoParallel" THEN "late" ELSE "back")
  /\ UNCHANGED <<inputVars, flagLimit, status, an, limitOf, got, failed, chan,
                 cacheVars, wg, ret>>
-----------------------------------------------------------------------------
(***************************************************************************)
(* DoParallel                                                              *)
(***************************************************************************)
Width == 3
Workers == 1..Width

\* _wg.Add(1) and go, for mains[0:3]; too short a slice is a panic.
Spawn ==
  /\ Running
  /\ driver = "DoParallel"
  /\ \A c \in Calls : caller[c] = "idle"
  /\ IF Cardinality(Calls) < Width
     THEN status' = "panic" /\ UNCHANGED <<caller, wg>>
     ELSE /\ caller' = [c \in Calls |-> IF c \in Workers THEN "spawned" ELSE "idle"]
          /\ wg' = Width
          /\ status' = status
  /\ UNCHANGED <<inputVars, flagLimit, an, limitOf, got, failed, chan, cacheVars,
                 ret>>

Writing == {d \in Calls : caller[d] \in {"writing", "writingNil"}}

\* Mutant: the worker is done before it writes.
DoneBeforeWrite(c) ==
  /\ Running
  /\ caller[c] \in {"back", "late"}
  /\ driver = "DoParallel"
  /\ caller' = [caller EXCEPT ![c] = "writing"]
  /\ wg' = wg - 1
  /\ UNCHANGED <<inputVars, flagLimit, status, an, limitOf, got, failed, chan,
                 cacheVars, ret>>
\* ret[main] = r_my, which takes time: writes that overlap are a data race.
\* The runtime may notice and end the process.
BeginWrite(c) ==
  /\ Running
  /\ driver = "DoParallel"
  /\ caller[c] \in {"back", "late"}
  /\ caller' = [caller EXCEPT ![c] = IF @ = "late" THEN "writingNil" ELSE "writing"]
  /\ \/ status' = status
     \/ Writing # {} /\ status' = "fatal"
  /\ UNCHANGED <<inputVars, flagLimit, an, limitOf, got, failed, chan, cacheVars,
                 wg, ret>>

\* Mutant: a worker without a result waits again.
WaitAgain(c) ==
  /\ Running
  /\ caller[c] \in {"writing", "writingNil"}
  /\ caller' = [caller EXCEPT ![c] = IF @ = "writing" THEN "joined" ELSE "wait"]
  /\ ret' = IF caller[c] = "writing" THEN Put(ret, mainOf[c], got[c]) ELSE ret
  /\ wg' = IF caller[c] = "writing" THEN wg - 1 ELSE wg
  /\ UNCHANGED <<inputVars, flagLimit, status, an, limitOf, got, failed, chan,
                 cacheVars>>
\* The end of the write, in a race with another one possibly lost, and Done.
EndWrite(c) ==
  /\ Running
  /\ caller[c] \in {"writing", "writingNil"}
  /\ caller' = [caller EXCEPT ![c] = "joined"]
  /\ \/ ret' = Put(ret, mainOf[c], IF caller[c] = "writing" THEN got[c] ELSE NoCall)
     \/ Writing # {c} /\ ret' = ret
  /\ wg' = wg - 1
  /\ UNCHANGED <<inputVars, flagLimit, status, an, limitOf, got, failed, chan,
                 cacheVars>>
-----------------------------------------------------------------------------
\* _wg.Wait() has returned; the results are read, a nil one is a panic.
Join ==
  /\ driver = "DoParallel"
  /\ wg = 0
  /\ \E c \in Calls : caller[c] # "idle"
Finished ==
  CASE driver = "DoParallel" -> Join
    [] OTHER -> \A c \in Calls : caller[c] = "back"

Exit ==
  /\ Running
  /\ Finished
  /\ status' = IF driver = "DoParallel" /\ \E m \in DOMAIN ret : ret[m] = NoCall
               THEN "panic" ELSE "exit"
  /\ UNCHANGED <<inputVars, flagLimit, caller, an, limitOf, got, failed, chan,
                 cacheVars, wg, ret>>

Ended == ~Running /\ UNCHANGED vars

Pointer(c) == \/ Lookup(c) \/ AnalyzeWCtx(c) \/ AnalyzeFails(c) \/ StoreResult(c)
              \/ StoreWCtx(c) \/ UpdateQueries(c) \/ AnalyzeReturns(c) \/ NextMain(c)
              \/ LimitOff(c) \/ CompareAndReset(c) \/ Answer(c)
Driver(c) == Begin(c) \/ Receive(c) \/ BeginWrite(c) \/ EndWrite(c)

Next == \/ \E c \in Calls : Pointer(c) \/ Driver(c) \/ Timeout(c)
        \/ Spawn \/ Exit \/ Ended

Spec == Init /\ [][Next]_vars
\* Every goroutine is scheduled, and an analysis ends (see Solver); whether
\* the time limit is met is left open.
FairSpec ==
  /\ Spec
  /\ \A c \in 1..MaxCalls : /\ WF_vars(c \in Calls /\ Pointer(c))
                            /\ WF_vars(c \in Calls /\ Driver(c))
  /\ WF_vars(Spawn)
  /\ WF_vars(Exit)
-----------------------------------------------------------------------------
\* The type invariant.
TypeOK ==
  /\ driver \in DriverSet
  /\ mainOf \in MainLists
  /\ timeLimit \in BOOLEAN
  /\ doDiff \in BOOLEAN
  /\ flagLimit \in {0, PtsLimit}
  /\ status \in {"run", "exit", "panic", "fatal"}
  /\ caller \in [Calls -> {"idle", "spawned", "wait", "back", "late", "writing",
                           "writingNil", "joined"}]
  /\ an \in [Calls -> {"idle", "lookup", "analyse", "store", "storing",
                       "publishing", "stored", "full", "answer", "end"}]
  /\ limitOf \in [Calls -> {0, PtsLimit}]
  /\ got \in [Calls -> Calls \cup {NoCall}]
  /\ failed \subseteq Calls
  /\ chan \in [Calls -> 0..1]
  /\ mu \in Calls \cup {NoCall}
  /\ linked \subseteq Calls
  /\ queried \subseteq Calls
  /\ DOMAIN main2Result \subseteq Mains
  /\ \A m \in DOMAIN main2Result : main2Result[m] \in Calls
  /\ DOMAIN main2ResultWCtx \subseteq Mains
  /\ \A m \in DOMAIN main2ResultWCtx : main2ResultWCtx[m] \in Calls
  /\ wg \in 0..Width
  /\ DOMAIN ret \subseteq Mains
  /\ \A m \in DOMAIN ret : ret[m] \in Calls \cup {NoCall}

\* What the cache holds for a main comes from an analysis of that main under
\* the configured limit, and whoever can take the mutex finds both maps and
\* the result's analysis in agreement, however many calls analyse the main at
\* the same time (translateResult).
CacheSound ==
  \A m \in DOMAIN main2Result :
    /\ mainOf[main2Result[m]] = m
    /\ limitOf[main2Result[m]] = PtsLimit
    /\ mu = NoCall => /\ main2Result[m] \in linked
                      /\ m \in DOMAIN main2ResultWCtx
                      /\ main2ResultWCtx[m] = main2Result[m]

\* A result that Analyze returns, from the cache or its own, belongs to the
\* main asked for and has its analysis: GetResult() does not meet nil.  The
\* queries of GetResult() are there as well, with one exception: a result from
\* the cache may be given out before the call that stored it, which has
\* released the mutex, assigns them (translateResult).
ServedSound ==
  \A c \in Calls : an[c] \in {"answer", "end"} /\ got[c] # NoCall =>
     /\ got[c] \in linked /\ mainOf[got[c]] = mainOf[c]
     /\ got[c] \in queried \/ (got[c] # c /\ an[got[c]] = "publishing")

\* An analysis that ends after its caller has run out of time is not stuck
\* on its channel: its goroutine can send and end, whatever its caller does.
LateAnswerDelivered ==
  \A c \in Calls : timeLimit /\ an[c] = "answer" => SendReady(c)

\* When _wg.Wait() returns, no worker of DoParallel is still going to write the
\* map that is read next, whether its analysis came back in time or not.
JoinedBeforeRead ==
  Running /\ Join => \A c \in Workers : caller[c] = "joined"

\* Every driver ends, with or without results.
Ends == <>(status # "run")

\* "fatal error: concurrent map writes!! --> change to a.track = trackall, no
\* more panic" (comment of DoParallel): the workers' writes do not collide.
NoMapRace == status # "fatal"
=============================================================================
