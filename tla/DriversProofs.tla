--------------------------- MODULE DriversProofs ---------------------------
(***************************************************************************)
(* Proofs about Drivers, for any number of mains, any lists of calls, any  *)
(* limit and every driver.                                                 *)
(***************************************************************************)
EXTENDS Drivers, TLAPS, FiniteSetTheorems

(***************************************************************************)
(* The inductive invariant, part by part.                                  *)
(***************************************************************************)
\* Which driver uses which option, and which driver's callers go where.
OptionsFit ==
  /\ timeLimit => driver \in {"DoEach", "DoParallel"}
  /\ doDiff => driver = "DoSeq"
  /\ \A c \in Calls :
        caller[c] \in {"spawned", "late", "writing", "writingNil", "joined"} =>
          driver = "DoParallel"

\* A call that was not begun has done nothing; only one that reports failed.
\* Without a time limit the caller does not go on before its analysis ends.
CallsFit ==
  \A c \in Calls :
    /\ caller[c] \in {"idle", "spawned"} => an[c] = "idle"
    /\ c \in failed => an[c] \in {"answer", "end"}
    /\ caller[c] = "back" /\ ~timeLimit => an[c] = "end"

\* AnalyzeMultiMains makes one call after another, and panics after a failed
\* one.
OneAfterAnother ==
  driver = "DoSeq" => \A c \in Calls : caller[c] # "idle" =>
                         \A d \in 1..(c - 1) : caller[d] = "back"

\* The limit is off only between LimitOff and CompareAndReset, or when the
\* second analysis has failed, and its caller is still waiting.  So every
\* analysis whose result is kept runs under the configured limit.
InDiff(c) == caller[c] = "wait" /\ (an[c] = "full" \/ c \in failed)
LimitRestored ==
  /\ flagLimit # PtsLimit => doDiff /\ \E c \in Calls : InDiff(c)
  /\ \A c \in Calls : limitOf[c] = PtsLimit

\* The mutex is held exactly by the call between StoreResult and StoreWCtx,
\* and only the entry of its main may be incomplete.
Complete(m) ==
  /\ main2Result[m] \in linked
  /\ m \in DOMAIN main2ResultWCtx
  /\ main2ResultWCtx[m] = main2Result[m]
LockHeld ==
  /\ \A c \in Calls : an[c] = "storing" <=> mu = c
  /\ mu # NoCall => /\ mainOf[mu] \in DOMAIN main2Result
                    /\ main2Result[mainOf[mu]] = mu
  /\ \A c \in Calls : an[c] \in {"publishing", "stored"} => c \in linked
  /\ \A m \in DOMAIN main2Result :
       /\ mainOf[main2Result[m]] = m
       /\ (mu # NoCall /\ m = mainOf[mu]) \/ Complete(m)

\* The queries of a result in the cache are there, or about to be assigned.
Published ==
  \A c \in Calls : c \in linked => c \in queried \/ an[c] = "publishing"

\* Whatever a caller has been given is complete and belongs to its main.
GotComplete ==
  \A c \in Calls : got[c] # NoCall => got[c] \in linked /\ mainOf[got[c]] = mainOf[c]

\* The channel is empty until its one message is sent.
OneMessage == \A c \in Calls : timeLimit /\ an[c] # "end" => chan[c] = 0

\* The WaitGroup counts the workers that have not written the map yet; the
\* workers are started all together.
Busy(c) == IF c \in Calls /\ caller[c] \notin {"idle", "joined"} THEN 1 ELSE 0
CountRight ==
  /\ driver = "DoParallel" => wg = Busy(1) + Busy(2) + Busy(3)
  /\ driver # "DoParallel" => wg = 0
  /\ driver = "DoParallel" /\ (\E c \in Calls : caller[c] # "idle") =>
       /\ Workers \subseteq Calls
       /\ \A c \in Calls : caller[c] = "idle" <=> c \notin Workers

Inv ==
  /\ TypeOK /\ OptionsFit /\ CallsFit /\ OneAfterAnother /\ LimitRestored
  /\ LockHeld /\ Published /\ GotComplete /\ OneMessage /\ CountRight
-----------------------------------------------------------------------------
\* The calls are numbered from 1.
LEMMA CallsNumbered ==
  ASSUME TypeOK PROVE \E n \in 1..MaxCalls : Calls = 1..n /\ mainOf \in [1..n -> Mains]
BY DriversAssumption DEF TypeOK, Calls

LEMMA CallFacts ==
  ASSUME TypeOK
  PROVE  /\ \A c \in Calls : c \in Nat /\ c # NoCall /\ mainOf[c] \in Mains
         /\ 0 \notin Calls
         /\ mainOf = [c \in Calls |-> mainOf[c]]
BY CallsNumbered, DriversAssumption DEF NoCall

\* An assignment to a Go map keeps the types of its keys and values.
LEMMA PutTyped ==
  ASSUME NEW m, NEW x, NEW v, NEW D, NEW V, x \in D, v \in V,
         DOMAIN m \subseteq D, \A y \in DOMAIN m : m[y] \in V
  PROVE  /\ DOMAIN Put(m, x, v) \subseteq D
         /\ \A y \in DOMAIN Put(m, x, v) : Put(m, x, v)[y] \in V
BY DEF Put

\* The inputs never change.
LEMMA InputsKept ==
  ASSUME [Next]_vars
  PROVE  UNCHANGED <<driver, mainOf, timeLimit, doDiff>> /\ Calls' = Calls
BY DEF Next, Pointer, Driver, Lookup, AnalyzeWCtx, AnalyzeFails, StoreResult,
       StoreWCtx, UpdateQueries, AnalyzeReturns, NextMain, LimitOff, CompareAndReset, Answer,
       Begin, Receive, BeginWrite, EndWrite, Timeout, Spawn, Exit, Ended, vars,
       inputVars, Calls

\* Nothing has happened initially.
LEMMA InitInv == Init => Inv
<1>. SUFFICES ASSUME Init PROVE Inv
  OBVIOUS
<1>1. TypeOK
  BY DriversAssumption DEF Init, TypeOK, Calls, Width
<1>2. \A c \in Calls : /\ caller[c] = "idle" /\ an[c] = "idle" /\ got[c] = NoCall
                       /\ chan[c] = 0 /\ limitOf[c] = PtsLimit /\ c # NoCall
  BY <1>1, CallFacts DEF Init
<1>3. OptionsFit /\ CallsFit /\ OneAfterAnother /\ LimitRestored
  BY <1>2 DEF Init, OptionsFit, CallsFit, OneAfterAnother, LimitRestored
<1>4. LockHeld /\ Published /\ GotComplete /\ OneMessage
  BY <1>2 DEF Init, LockHeld, Published, GotComplete, OneMessage
<1>5. CountRight
  BY <1>2 DEF Init, CountRight, Busy
<1>. QED  BY <1>1, <1>3, <1>4, <1>5 DEF Inv

\* Every step keeps the type invariant.
LEMMA TypeNext == TypeOK /\ CountRight /\ OptionsFit /\ [Next]_vars => TypeOK'
<1>. SUFFICES ASSUME TypeOK, CountRight, OptionsFit, [Next]_vars PROVE TypeOK'
  OBVIOUS
<1>0. UNCHANGED <<driver, mainOf, timeLimit, doDiff>> /\ Calls' = Calls
  BY InputsKept
<1>. USE DEF TypeOK
<1>1. ASSUME NEW c \in Calls, Lookup(c) PROVE TypeOK'
  BY <1>0, <1>1 DEF Lookup, Step, cacheVars
<1>2. ASSUME NEW c \in Calls, AnalyzeWCtx(c) PROVE TypeOK'
  BY <1>0, <1>2 DEF AnalyzeWCtx, Step, cacheVars
<1>3. ASSUME NEW c \in Calls, AnalyzeFails(c) PROVE TypeOK'
  BY <1>0, <1>3 DEF AnalyzeFails, cacheVars
<1>4. ASSUME NEW c \in Calls, StoreResult(c) PROVE TypeOK'
  <2>1. /\ DOMAIN main2Result' \subseteq Mains
        /\ \A m \in DOMAIN main2Result' : main2Result'[m] \in Calls
    <3>1. mainOf[c] \in Mains /\ main2Result' = Put(main2Result, mainOf[c], c)
      BY <1>4, CallFacts DEF StoreResult
    <3>. QED  BY <3>1, PutTyped
  <2>. QED  BY <1>0, <1>4, <2>1 DEF StoreResult, Step
<1>5. ASSUME NEW c \in Calls, StoreWCtx(c) PROVE TypeOK'
  <2>1. /\ DOMAIN main2ResultWCtx' \subseteq Mains
        /\ \A m \in DOMAIN main2ResultWCtx' : main2ResultWCtx'[m] \in Calls
    <3>1. mainOf[c] \in Mains /\ main2ResultWCtx' = Put(main2ResultWCtx, mainOf[c], c)
      BY <1>5, CallFacts DEF StoreWCtx
    <3>. QED  BY <3>1, PutTyped
  <2>. QED  BY <1>0, <1>5, <2>1 DEF StoreWCtx, Step
<1>6. ASSUME NEW c \in Calls, AnalyzeReturns(c) PROVE TypeOK'
  BY <1>0, <1>6 DEF AnalyzeReturns, Step, cacheVars
<1>7. ASSUME NEW c \in Calls, NextMain(c) PROVE TypeOK'
  BY <1>0, <1>7 DEF NextMain, Step, cacheVars
<1>8. ASSUME NEW c \in Calls, LimitOff(c) PROVE TypeOK'
  BY <1>0, <1>8 DEF LimitOff, Step, cacheVars
<1>9. ASSUME NEW c \in Calls, CompareAndReset(c) PROVE TypeOK'
  BY <1>0, <1>9 DEF CompareAndReset, Step, cacheVars
<1>10. ASSUME NEW c \in Calls, Answer(c) PROVE TypeOK'
  <2>1. chan' \in [Calls -> 0..1]
    BY <1>10 DEF Answer, SendReady
  <2>. QED  BY <1>0, <1>10, <2>1 DEF Answer, Step, cacheVars
<1>11. ASSUME NEW c \in Calls, Begin(c) PROVE TypeOK'
  BY <1>0, <1>11 DEF Begin, Step, cacheVars
<1>12. ASSUME NEW c \in Calls, Receive(c) PROVE TypeOK'
  <2>1. chan' \in [Calls -> 0..1]
    BY <1>12 DEF Receive
  <2>2. caller' = caller \/ caller' = [caller EXCEPT ![c] = "back"]
    BY <1>12 DEF Receive
  <2>3. status' \in {"run", "exit", "panic", "fatal"}
    BY <1>12 DEF Receive
  <2>. QED  BY <1>0, <1>12, <2>1, <2>2, <2>3 DEF Receive, cacheVars
<1>13. ASSUME NEW c \in Calls, Timeout(c) PROVE TypeOK'
  BY <1>0, <1>13 DEF Timeout, Step, cacheVars
<1>14. ASSUME NEW c \in Calls, BeginWrite(c) PROVE TypeOK'
  BY <1>0, <1>14 DEF BeginWrite, cacheVars
<1>15. ASSUME NEW c \in Calls, EndWrite(c) PROVE TypeOK'
  <2>1. wg' \in 0..Width
    <3>1. driver = "DoParallel" /\ caller[c] \notin {"idle", "joined"}
      BY <1>15 DEF EndWrite, OptionsFit
    <3>2. \E d \in Calls : caller[d] # "idle"
      BY <3>1
    <3>3. c \in Workers
      BY <3>1, <3>2 DEF CountRight
    <3>4. Busy(c) = 1 /\ \A d \in Workers : Busy(d) \in {0, 1}
      BY <3>1 DEF Busy
    <3>5. c \in {1, 2, 3} /\ 1 \in Workers /\ 2 \in Workers /\ 3 \in Workers
      BY <3>3 DEF Workers, Width
    <3>6. wg = Busy(1) + Busy(2) + Busy(3)
      BY <3>1 DEF CountRight
    <3>7. wg > 0
      BY <3>4, <3>5, <3>6
    <3>. QED  BY <1>15, <3>7 DEF EndWrite, Width
  <2>2. /\ DOMAIN ret' \subseteq Mains
        /\ \A m \in DOMAIN ret' : ret'[m] \in Calls \cup {NoCall}
    <3>. DEFINE V == Calls \cup {NoCall}
    <3>1. PICK v \in V : ret' = Put(ret, mainOf[c], v) \/ ret' = ret
      BY <1>15 DEF EndWrite
    <3>2. mainOf[c] \in Mains
      BY CallFacts
    <3>3. DOMAIN ret \subseteq Mains /\ \A m \in DOMAIN ret : ret[m] \in V
      OBVIOUS
    <3>4. DOMAIN ret' \subseteq Mains /\ \A m \in DOMAIN ret' : ret'[m] \in V
      <4>. HIDE DEF V, TypeOK
      <4>. QED  BY <3>1, <3>2, <3>3, PutTyped
    <3>. QED  BY <3>4
  <2>. QED  BY <1>0, <1>15, <2>1, <2>2 DEF EndWrite, cacheVars
<1>16. CASE Spawn
  BY <1>0, <1>16 DEF Spawn, cacheVars, Width
<1>17. CASE Exit
  BY <1>0, <1>17 DEF Exit, cacheVars
<1>19. ASSUME NEW c \in Calls, UpdateQueries(c) PROVE TypeOK'
  BY <1>0, <1>19 DEF UpdateQueries, Step
<1>18. CASE UNCHANGED vars
  BY <1>18 DEF vars, inputVars, cacheVars, Calls
<1>. QED
  BY <1>1, <1>2, <1>3, <1>4, <1>5, <1>6, <1>7, <1>8, <1>9, <1>10, <1>11, <1>12,
     <1>13, <1>14, <1>15, <1>16, <1>17, <1>18, <1>19 DEF Next, Pointer, Driver, Ended

-----------------------------------------------------------------------------
\* A step of the analysis of c: it changes nothing of the callers, and only
\* the last one, Answer, reaches "end".
LEMMA PointerStep ==
  ASSUME TypeOK, NEW c \in Calls, Pointer(c)
  PROVE  /\ UNCHANGED <<caller, wg, ret>>
         /\ an' = [an EXCEPT ![c] = an'[c]]
         /\ an[c] \notin {"idle", "end"} /\ an'[c] # "idle"
         /\ an[c] = "answer" <=> an'[c] = "end"
         /\ \/ failed' = failed
            \/ failed' = failed \cup {c} /\ an'[c] = "answer"
<1>. USE DEF TypeOK, Step
<1>1. CASE Lookup(c)
  BY <1>1 DEF Lookup
<1>2. CASE AnalyzeWCtx(c)
  BY <1>2 DEF AnalyzeWCtx
<1>3. CASE AnalyzeFails(c)
  BY <1>3 DEF AnalyzeFails
<1>4. CASE StoreResult(c) \/ StoreWCtx(c) \/ UpdateQueries(c)
  BY <1>4 DEF StoreResult, StoreWCtx, UpdateQueries
<1>5. CASE AnalyzeReturns(c) \/ NextMain(c)
  BY <1>5 DEF AnalyzeReturns, NextMain
<1>6. CASE LimitOff(c) \/ CompareAndReset(c)
  BY <1>6 DEF LimitOff, CompareAndReset
<1>7. CASE Answer(c)
  BY <1>7 DEF Answer
<1>. QED  BY <1>1, <1>2, <1>3, <1>4, <1>5, <1>6, <1>7 DEF Pointer

\* A step of the caller of c: only Begin changes the analysis.
LEMMA CallerStep ==
  ASSUME TypeOK, NEW c \in Calls, Driver(c) \/ Timeout(c)
  PROVE  /\ UNCHANGED <<flagLimit, limitOf, got, failed, cacheVars>>
         /\ caller' = [caller EXCEPT ![c] = caller'[c]]
         /\ \/ Begin(c)
            \/ UNCHANGED an
<1>. USE DEF TypeOK, Step, cacheVars
<1>1. CASE Begin(c)
  BY <1>1 DEF Begin
<1>2. CASE Receive(c)
  BY <1>2 DEF Receive
<1>3. CASE BeginWrite(c)
  BY <1>3 DEF BeginWrite
<1>4. CASE EndWrite(c)
  BY <1>4 DEF EndWrite
<1>5. CASE Timeout(c)
  BY <1>5 DEF Timeout
<1>. QED  BY <1>1, <1>2, <1>3, <1>4, <1>5 DEF Driver

\* Spawn, Exit and the end change nothing of the analyses.
LEMMA OtherStep ==
  ASSUME Spawn \/ Exit \/ UNCHANGED vars
  PROVE  UNCHANGED <<flagLimit, an, limitOf, got, failed, chan, cacheVars>>
BY DEF Spawn, Exit, vars, cacheVars

LEMMA OptionsNext == TypeOK /\ OptionsFit /\ [Next]_vars => OptionsFit'
<1>. SUFFICES ASSUME TypeOK, OptionsFit, [Next]_vars PROVE OptionsFit'
  OBVIOUS
<1>0. UNCHANGED <<driver, mainOf, timeLimit, doDiff>> /\ Calls' = Calls
  BY InputsKept
<1>. USE DEF OptionsFit, TypeOK
<1>1. CASE UNCHANGED caller
  BY <1>0, <1>1
<1>2. ASSUME NEW c \in Calls, Begin(c) PROVE OptionsFit'
  BY <1>0, <1>2 DEF Begin, Step
<1>3. ASSUME NEW c \in Calls, Receive(c) PROVE OptionsFit'
  BY <1>0, <1>3 DEF Receive
<1>4. ASSUME NEW c \in Calls, BeginWrite(c) PROVE OptionsFit'
  BY <1>0, <1>4 DEF BeginWrite
<1>5. ASSUME NEW c \in Calls, EndWrite(c) PROVE OptionsFit'
  BY <1>0, <1>5 DEF EndWrite
<1>6. ASSUME NEW c \in Calls, Timeout(c) PROVE OptionsFit'
  BY <1>0, <1>6 DEF Timeout, Step
<1>7. CASE Spawn
  BY <1>0, <1>7 DEF Spawn
<1>8. ASSUME NEW c \in Calls, Pointer(c) PROVE UNCHANGED caller
  BY <1>8, PointerStep
<1>. QED
  BY <1>1, <1>2, <1>3, <1>4, <1>5, <1>6, <1>7, <1>8 DEF Next, Driver, Exit, Ended, vars

LEMMA CallsFitNext == TypeOK /\ OptionsFit /\ CallsFit /\ [Next]_vars => CallsFit'
<1>. SUFFICES ASSUME TypeOK, OptionsFit, CallsFit, [Next]_vars PROVE CallsFit'
  OBVIOUS
<1>0. UNCHANGED <<driver, mainOf, timeLimit, doDiff>> /\ Calls' = Calls
  BY InputsKept
<1>1. ASSUME NEW c \in Calls, Pointer(c) PROVE CallsFit'
  <2>1. \A d \in Calls : d # c => an'[d] = an[d]
    BY <1>1, PointerStep DEF TypeOK
  <2>. QED  BY <1>0, <1>1, <2>1, PointerStep DEF CallsFit
<1>2. ASSUME NEW c \in Calls, Begin(c) PROVE CallsFit'
  <2>1. an[c] = "idle" /\ caller'[c] = "wait"
    BY <1>2 DEF Begin, Step, CallsFit, TypeOK
  <2>2. \A d \in Calls : d # c => an'[d] = an[d] /\ caller'[d] = caller[d]
    BY <1>2 DEF Begin, Step, TypeOK
  <2>. QED  BY <1>0, <1>2, <2>1, <2>2 DEF Begin, CallsFit
<1>3. ASSUME NEW c \in Calls, Receive(c) PROVE CallsFit'
  BY <1>0, <1>3 DEF Receive, CallsFit, TypeOK
<1>4. ASSUME NEW c \in Calls, BeginWrite(c) \/ EndWrite(c) PROVE CallsFit'
  BY <1>0, <1>4 DEF BeginWrite, EndWrite, CallsFit, TypeOK
<1>5. ASSUME NEW c \in Calls, Timeout(c) PROVE CallsFit'
  BY <1>0, <1>5 DEF Timeout, Step, CallsFit, TypeOK
<1>6. CASE Spawn
  <2>1. \A c \in Calls : caller[c] = "idle" /\ caller'[c] \in {"idle", "spawned"}
    BY <1>6 DEF Spawn
  <2>. QED  BY <1>0, <1>6, <2>1 DEF Spawn, CallsFit
<1>7. CASE Exit \/ UNCHANGED vars
  BY <1>0, <1>7 DEF Exit, vars, CallsFit
<1>. QED
  BY <1>1, <1>2, <1>3, <1>4, <1>5, <1>6, <1>7 DEF Next, Driver, Ended

LEMMA OneAfterAnotherNext ==
  TypeOK /\ OptionsFit /\ OneAfterAnother /\ [Next]_vars => OneAfterAnother'
<1>. SUFFICES ASSUME TypeOK, OptionsFit, OneAfterAnother, [Next]_vars, driver = "DoSeq"
              PROVE  \A c \in Calls : caller'[c] # "idle" =>
                        \A d \in 1..(c - 1) : caller'[d] = "back"
  BY InputsKept DEF OneAfterAnother
<1>0. \A c \in Calls : \A d \in 1..(c - 1) : d \in Calls /\ d # c
  BY CallsNumbered
<1>1. CASE UNCHANGED caller
  BY <1>1 DEF OneAfterAnother
<1>2. ASSUME NEW c \in Calls, Driver(c) \/ Timeout(c), ~UNCHANGED caller
      PROVE  /\ caller[c] # "back"
             /\ caller[c] = "idle" => \A d \in 1..(c - 1) : caller[d] = "back"
             /\ \A d \in Calls : d # c => caller'[d] = caller[d]
  <2>1. \A d \in Calls : d # c => caller'[d] = caller[d]
    BY <1>2, CallerStep DEF TypeOK
  <2>2. CASE Begin(c)
    BY <1>2, <2>1, <2>2 DEF Begin, Step
  <2>3. CASE Receive(c) \/ BeginWrite(c) \/ EndWrite(c) \/ Timeout(c)
    BY <1>2, <2>1, <2>3 DEF Receive, BeginWrite, EndWrite, Timeout, Step
  <2>. QED  BY <1>2, <2>2, <2>3 DEF Driver
<1>3. ASSUME NEW c \in Calls, Driver(c) \/ Timeout(c), ~UNCHANGED caller,
             NEW e \in Calls, caller'[e] # "idle", NEW d \in 1..(e - 1)
      PROVE  caller'[d] = "back"
  <2>1. d \in Calls /\ d # e
    BY <1>0, <1>3
  <2>2. caller[d] = "back"
    BY <1>2, <1>3, <2>1 DEF OneAfterAnother
  <2>. QED  BY <1>2, <1>3, <2>1, <2>2
<1>4. ~Spawn
  BY DEF Spawn
<1>5. ASSUME NEW c \in Calls, Pointer(c) PROVE UNCHANGED caller
  BY <1>5, PointerStep
<1>. QED
  BY <1>1, <1>3, <1>4, <1>5 DEF Next, Exit, Ended, vars

-----------------------------------------------------------------------------
\* In AnalyzeMultiMains a call that is under way has the only waiting caller.
LEMMA OnlyWaiter ==
  ASSUME TypeOK, OptionsFit, CallsFit, OneAfterAnother, driver = "DoSeq",
         NEW c \in Calls
  PROVE  /\ an[c] \notin {"idle", "end"} => caller[c] = "wait"
         /\ \A d \in Calls : caller[c] = "wait" /\ caller[d] = "wait" => c = d
<1>1. ~timeLimit
  BY DEF OptionsFit
<1>2. an[c] \notin {"idle", "end"} => caller[c] = "wait"
  BY <1>1 DEF CallsFit, OptionsFit, TypeOK
<1>3. ASSUME NEW d \in Calls, caller[c] = "wait", caller[d] = "wait" PROVE c = d
  <2>1. c \in Nat /\ d \in Nat /\ c >= 1 /\ d >= 1
    BY CallsNumbered
  <2>2. d \notin 1..(c - 1) /\ c \notin 1..(d - 1)
    BY <1>3 DEF OneAfterAnother
  <2>. QED  BY <2>1, <2>2
<1>. QED  BY <1>2, <1>3

LEMMA LimitNext ==
  TypeOK /\ OptionsFit /\ CallsFit /\ OneAfterAnother /\ LimitRestored /\ [Next]_vars
    => LimitRestored'
<1>. SUFFICES ASSUME TypeOK, OptionsFit, CallsFit, OneAfterAnother, LimitRestored,
                     [Next]_vars
              PROVE  LimitRestored'
  OBVIOUS
<1>0. UNCHANGED <<driver, mainOf, timeLimit, doDiff>> /\ Calls' = Calls
  BY InputsKept
<1>1. ASSUME NEW c \in Calls, AnalyzeWCtx(c) PROVE flagLimit = PtsLimit
  <2>. SUFFICES ASSUME flagLimit # PtsLimit PROVE FALSE
    OBVIOUS
  <2>1. PICK w \in Calls : caller[w] = "wait" /\ (an[w] = "full" \/ w \in failed)
    BY DEF LimitRestored, InDiff
  <2>2. driver = "DoSeq"
    BY DEF LimitRestored, OptionsFit
  <2>3. an[c] = "analyse"
    BY <1>1 DEF AnalyzeWCtx, Step
  <2>4. c = w
    BY <2>1, <2>2, <2>3, OnlyWaiter
  <2>. QED  BY <2>1, <2>3, <2>4 DEF CallsFit
<1>2. \A c \in Calls : limitOf'[c] = PtsLimit
  <2>1. CASE UNCHANGED limitOf
    BY <2>1 DEF LimitRestored
  <2>2. ASSUME NEW c \in Calls, AnalyzeWCtx(c) PROVE \A d \in Calls : limitOf'[d] = PtsLimit
    BY <1>1, <2>2 DEF AnalyzeWCtx, LimitRestored, TypeOK
  <2>3. ASSUME NEW c \in Calls, Driver(c) \/ Timeout(c) PROVE UNCHANGED limitOf
    BY <2>3, CallerStep
  <2>. QED
    BY <2>1, <2>2, <2>3, OtherStep
       DEF Next, Pointer, Lookup, AnalyzeFails, StoreResult, StoreWCtx,
           UpdateQueries, AnalyzeReturns, NextMain, LimitOff, CompareAndReset, Answer, Ended
<1>3. CASE UNCHANGED <<flagLimit, caller, an, failed>>
  BY <1>0, <1>2, <1>3 DEF LimitRestored, InDiff
<1>4. ASSUME NEW c \in Calls, Pointer(c), ~CompareAndReset(c), ~LimitOff(c)
      PROVE  LimitRestored'
  <2>1. UNCHANGED flagLimit
    BY <1>4
       DEF Pointer, Lookup, AnalyzeWCtx, AnalyzeFails, StoreResult, StoreWCtx,
           UpdateQueries, AnalyzeReturns, NextMain, Answer
  <2>2. ASSUME doDiff, NEW w \in Calls, InDiff(w) PROVE InDiff(w)'
    <3>1. caller[w] = "wait" /\ (an[w] = "full" \/ w \in failed)
      BY <2>2 DEF InDiff
    <3>2. caller'[w] = "wait" /\ failed \subseteq failed'
      BY <1>4, <3>1, PointerStep
    <3>3. CASE w # c
      <4>1. an'[w] = an[w]
        BY <1>4, <3>3, PointerStep DEF TypeOK
      <4>. QED  BY <3>1, <3>2, <4>1 DEF InDiff
    <3>4. CASE w = c /\ an[w] = "full"
      <4>1. AnalyzeFails(c)
        BY <1>4, <3>4
           DEF Pointer, Lookup, AnalyzeWCtx, StoreResult, StoreWCtx,
               UpdateQueries, AnalyzeReturns, NextMain, Answer, Step
      <4>2. c \in failed'
        BY <4>1 DEF AnalyzeFails
      <4>. QED  BY <3>2, <3>4, <4>2 DEF InDiff
    <3>. QED  BY <3>1, <3>2, <3>3, <3>4 DEF InDiff
  <2>. QED  BY <1>0, <1>2, <2>1, <2>2 DEF LimitRestored
<1>5. ASSUME NEW c \in Calls, CompareAndReset(c) PROVE LimitRestored'
  BY <1>0, <1>2, <1>5 DEF CompareAndReset, LimitRestored
<1>6. ASSUME NEW c \in Calls, LimitOff(c) PROVE LimitRestored'
  <2>1. doDiff /\ an[c] = "stored" /\ an'[c] = "full" /\ caller' = caller
    BY <1>6 DEF LimitOff, Step, TypeOK
  <2>2. caller[c] = "wait"
    BY <2>1, OnlyWaiter DEF OptionsFit
  <2>. QED  BY <1>0, <1>2, <2>1, <2>2 DEF LimitRestored, InDiff
<1>7. ASSUME NEW c \in Calls, Driver(c) \/ Timeout(c) PROVE LimitRestored'
  <2>1. UNCHANGED <<flagLimit, failed>>
    BY <1>7, CallerStep
  <2>2. ASSUME doDiff, NEW w \in Calls, InDiff(w) PROVE InDiff(w)'
    <3>1. caller[w] = "wait" /\ (an[w] = "full" \/ w \in failed)
      BY <2>2 DEF InDiff
    <3>2. driver = "DoSeq" /\ ~timeLimit
      BY <2>2 DEF OptionsFit
    <3>3. CASE w # c
      <4>1. caller'[w] = caller[w]
        BY <1>7, <3>3, CallerStep DEF TypeOK
      <4>2. an'[w] = an[w]
        BY <1>7, <3>3, CallerStep DEF TypeOK, Begin
      <4>. QED  BY <2>1, <3>1, <4>1, <4>2 DEF InDiff
    <3>4. CASE w = c
      <4>1. Receive(c)
        BY <1>7, <3>1, <3>2, <3>4 DEF Driver, Begin, BeginWrite, EndWrite, Timeout, Step
      <4>2. c \in failed /\ caller' = caller
        BY <3>1, <3>2, <3>4, <4>1 DEF Receive
      <4>. QED  BY <2>1, <3>1, <3>4, <4>2 DEF InDiff
    <3>. QED  BY <3>3, <3>4
  <2>. QED  BY <1>0, <1>2, <2>1, <2>2 DEF LimitRestored
<1>8. CASE Spawn
  <2>1. ~doDiff
    BY <1>8 DEF Spawn, OptionsFit
  <2>. QED  BY <1>0, <1>2, <1>8, <2>1 DEF Spawn, LimitRestored
<1>. QED
  BY <1>3, <1>4, <1>5, <1>6, <1>7, <1>8 DEF Next, Exit, Ended, vars

-----------------------------------------------------------------------------
LEMMA LockNext == TypeOK /\ CallsFit /\ LockHeld /\ [Next]_vars => LockHeld'
<1>. SUFFICES ASSUME TypeOK, CallsFit, LockHeld, [Next]_vars PROVE LockHeld'
  OBVIOUS
<1>0. /\ UNCHANGED <<driver, mainOf, timeLimit, doDiff>> /\ Calls' = Calls
      /\ \A c \in Calls : c # NoCall
  BY InputsKept, CallFacts
<1>1. ASSUME UNCHANGED cacheVars, NEW c \in Calls, an' = [an EXCEPT ![c] = an'[c]],
             an[c] # "storing", an'[c] \notin {"storing", "publishing", "stored"}
      PROVE  LockHeld'
  <2>1. \A d \in Calls : an'[d] = an[d] \/ (d = c /\ an'[c] = an'[d])
    BY <1>1 DEF TypeOK
  <2>2. UNCHANGED <<mu, main2Result, main2ResultWCtx, linked>>
    BY <1>1 DEF cacheVars
  <2>. QED  BY <1>0, <1>1, <2>1, <2>2 DEF LockHeld, Complete
<1>2. CASE UNCHANGED <<an, cacheVars>>
  BY <1>0, <1>2 DEF cacheVars, LockHeld, Complete
<1>3. ASSUME NEW c \in Calls, StoreResult(c) PROVE LockHeld'
  <2>1. /\ mu = NoCall /\ mu' = c
        /\ an[c] = "store" /\ an' = [an EXCEPT ![c] = "storing"]
        /\ main2Result' = Put(main2Result, mainOf[c], c)
        /\ UNCHANGED <<main2ResultWCtx, linked>>
    BY <1>3 DEF StoreResult, Step
  <2>2. /\ DOMAIN main2Result' = DOMAIN main2Result \cup {mainOf[c]}
        /\ main2Result'[mainOf[c]] = c
        /\ \A m \in DOMAIN main2Result : m # mainOf[c] => main2Result'[m] = main2Result[m]
    BY <2>1 DEF Put
  <2>3. \A d \in Calls : an'[d] = IF d = c THEN "storing" ELSE an[d]
    BY <2>1 DEF TypeOK
  <2>4. \A d \in Calls : an'[d] = "storing" <=> mu' = d
    BY <1>0, <2>1, <2>3 DEF LockHeld
  <2>5. \A m \in DOMAIN main2Result' :
          /\ mainOf[main2Result'[m]] = m
          /\ m = mainOf[c] \/ Complete(m)'
    BY <2>1, <2>2 DEF LockHeld, Complete
  <2>. QED  BY <1>0, <2>1, <2>2, <2>3, <2>4, <2>5 DEF LockHeld
<1>4. ASSUME NEW c \in Calls, StoreWCtx(c) PROVE LockHeld'
  <2>1. /\ an[c] = "storing" /\ an' = [an EXCEPT ![c] = "publishing"]
        /\ mu' = NoCall
        /\ linked' = linked \cup {c}
        /\ main2ResultWCtx' = Put(main2ResultWCtx, mainOf[c], c)
        /\ UNCHANGED main2Result
    BY <1>4 DEF StoreWCtx, Step
  <2>2. mu = c /\ main2Result[mainOf[c]] = c
    BY <1>0, <2>1 DEF LockHeld
  <2>3. /\ DOMAIN main2ResultWCtx' = DOMAIN main2ResultWCtx \cup {mainOf[c]}
        /\ main2ResultWCtx'[mainOf[c]] = c
        /\ \A m \in DOMAIN main2ResultWCtx :
              m # mainOf[c] => main2ResultWCtx'[m] = main2ResultWCtx[m]
    BY <2>1 DEF Put
  <2>4. \A d \in Calls : an'[d] = IF d = c THEN "publishing" ELSE an[d]
    BY <2>1 DEF TypeOK
  <2>5. \A d \in Calls : an'[d] # "storing"
    BY <1>0, <2>2, <2>4 DEF LockHeld
  <2>6. \A m \in DOMAIN main2Result : mainOf[main2Result[m]] = m /\ Complete(m)'
    BY <2>1, <2>2, <2>3 DEF LockHeld, Complete
  <2>. QED  BY <1>0, <2>1, <2>4, <2>5, <2>6 DEF LockHeld
<1>8. ASSUME NEW c \in Calls, UpdateQueries(c) PROVE LockHeld'
  <2>1. /\ an[c] = "publishing" /\ an' = [an EXCEPT ![c] = "stored"]
        /\ UNCHANGED <<mu, main2Result, main2ResultWCtx, linked>>
    BY <1>8 DEF UpdateQueries, Step
  <2>2. \A d \in Calls : an'[d] = IF d = c THEN "stored" ELSE an[d]
    BY <2>1 DEF TypeOK
  <2>. QED  BY <1>0, <2>1, <2>2 DEF LockHeld, Complete
<1>5. ASSUME NEW c \in Calls, Pointer(c), ~StoreResult(c), ~StoreWCtx(c), ~UpdateQueries(c)
      PROVE  LockHeld'
  <2>1. UNCHANGED cacheVars
    BY <1>5
       DEF Pointer, Lookup, AnalyzeWCtx, AnalyzeFails, AnalyzeReturns, NextMain,
           LimitOff, CompareAndReset, Answer
  <2>2. an' = [an EXCEPT ![c] = an'[c]]
    BY <1>5, PointerStep
  <2>3. an[c] # "storing" /\ an'[c] \notin {"storing", "publishing", "stored"}
    BY <1>5
       DEF Pointer, Lookup, AnalyzeWCtx, AnalyzeFails, AnalyzeReturns, NextMain,
           LimitOff, CompareAndReset, Answer, Step, TypeOK
  <2>. QED  BY <1>1, <2>1, <2>2, <2>3
<1>6. ASSUME NEW c \in Calls, Begin(c) PROVE LockHeld'
  <2>1. an[c] = "idle"
    BY <1>6 DEF Begin, Step, CallsFit
  <2>2. an' = [an EXCEPT ![c] = an'[c]] /\ an'[c] \notin {"storing", "publishing", "stored"}
    BY <1>6 DEF Begin, TypeOK
  <2>. QED  BY <1>1, <1>6, <2>1, <2>2 DEF Begin
<1>7. ASSUME NEW c \in Calls, Driver(c) \/ Timeout(c), ~Begin(c) PROVE LockHeld'
  BY <1>2, <1>7, CallerStep
<1>. QED
  BY <1>2, <1>3, <1>4, <1>5, <1>6, <1>7, <1>8, OtherStep DEF Next, Ended

\* A result is linked when its call begins to publish it, and the call leaves
\* that place only by assigning the queries.
LEMMA PublishedNext == TypeOK /\ CallsFit /\ Published /\ [Next]_vars => Published'
<1>. SUFFICES ASSUME TypeOK, CallsFit, Published, [Next]_vars PROVE Published'
  OBVIOUS
<1>0. Calls' = Calls
  BY InputsKept
<1>1. ASSUME NEW c \in Calls, StoreWCtx(c) PROVE Published'
  <2>1. /\ an' = [an EXCEPT ![c] = "publishing"]
        /\ linked' = linked \cup {c} /\ queried' = queried
    BY <1>1 DEF StoreWCtx, Step
  <2>. QED  BY <1>0, <2>1 DEF Published, TypeOK
<1>2. ASSUME NEW c \in Calls, UpdateQueries(c) PROVE Published'
  <2>1. /\ an' = [an EXCEPT ![c] = "stored"]
        /\ linked' = linked /\ queried' = queried \cup {c}
    BY <1>2 DEF UpdateQueries, Step
  <2>. QED  BY <1>0, <2>1 DEF Published, TypeOK
<1>3. ASSUME NEW c \in Calls, Pointer(c), ~StoreWCtx(c), ~UpdateQueries(c) PROVE Published'
  <2>1. UNCHANGED <<linked, queried>> /\ an[c] # "publishing"
    BY <1>3
       DEF Pointer, Lookup, AnalyzeWCtx, AnalyzeFails, StoreResult, AnalyzeReturns,
           NextMain, LimitOff, CompareAndReset, Answer, Step, cacheVars
  <2>2. \A d \in Calls : d # c => an'[d] = an[d]
    BY <1>3, PointerStep DEF TypeOK
  <2>. QED  BY <1>0, <2>1, <2>2 DEF Published
<1>4. ASSUME NEW c \in Calls, Begin(c) PROVE Published'
  <2>1. an[c] = "idle" /\ UNCHANGED <<linked, queried>>
    BY <1>4 DEF Begin, Step, CallsFit, cacheVars
  <2>2. \A d \in Calls : d # c => an'[d] = an[d]
    BY <1>4 DEF Begin, TypeOK
  <2>. QED  BY <1>0, <2>1, <2>2 DEF Published
<1>5. CASE UNCHANGED <<an, cacheVars>>
  BY <1>0, <1>5 DEF Published, cacheVars
<1>6. ASSUME NEW c \in Calls, Driver(c) \/ Timeout(c), ~Begin(c) PROVE Published'
  BY <1>5, <1>6, CallerStep
<1>. QED
  BY <1>1, <1>2, <1>3, <1>4, <1>5, <1>6, OtherStep DEF Next, Ended

LEMMA GotNext ==
  TypeOK /\ LockHeld /\ GotComplete /\ [Next]_vars => GotComplete'
<1>. SUFFICES ASSUME TypeOK, LockHeld, GotComplete, [Next]_vars PROVE GotComplete'
  OBVIOUS
<1>0. UNCHANGED <<driver, mainOf, timeLimit, doDiff>> /\ Calls' = Calls
  BY InputsKept
<1>1. CASE UNCHANGED got /\ linked \subseteq linked'
  BY <1>0, <1>1 DEF GotComplete
<1>2. ASSUME NEW c \in Calls, Lookup(c) PROVE GotComplete'
  <2>1. CASE mainOf[c] \in DOMAIN main2Result
    <3>1. Complete(mainOf[c]) /\ mainOf[main2Result[mainOf[c]]] = mainOf[c]
      BY <1>2, <2>1 DEF Lookup, LockHeld
    <3>2. UNCHANGED linked /\ got' = [got EXCEPT ![c] = main2Result[mainOf[c]]]
      BY <1>2, <2>1 DEF Lookup, cacheVars
    <3>. QED  BY <1>0, <3>1, <3>2 DEF Complete, GotComplete, TypeOK
  <2>2. CASE mainOf[c] \notin DOMAIN main2Result
    BY <1>1, <1>2, <2>2 DEF Lookup, cacheVars
  <2>. QED  BY <2>1, <2>2
<1>3. ASSUME NEW c \in Calls, AnalyzeReturns(c) PROVE GotComplete'
  <2>1. c \in linked
    BY <1>3 DEF AnalyzeReturns, Step, LockHeld
  <2>. QED  BY <1>0, <1>3, <2>1 DEF AnalyzeReturns, cacheVars, GotComplete, TypeOK
<1>4. ASSUME NEW c \in Calls, Pointer(c), ~Lookup(c), ~AnalyzeReturns(c) PROVE GotComplete'
  BY <1>1, <1>4
     DEF Pointer, AnalyzeWCtx, AnalyzeFails, StoreResult, StoreWCtx, UpdateQueries, NextMain,
         LimitOff, CompareAndReset, Answer, cacheVars
<1>5. ASSUME NEW c \in Calls, Driver(c) \/ Timeout(c) PROVE GotComplete'
  BY <1>1, <1>5, CallerStep DEF cacheVars
<1>6. CASE Spawn \/ Exit \/ UNCHANGED vars
  BY <1>1, <1>6, OtherStep DEF cacheVars
<1>. QED  BY <1>2, <1>3, <1>4, <1>5, <1>6 DEF Next, Ended

LEMMA MessageNext ==
  TypeOK /\ CallsFit /\ OneMessage /\ [Next]_vars => OneMessage'
<1>. SUFFICES ASSUME TypeOK, CallsFit, OneMessage, [Next]_vars PROVE OneMessage'
  OBVIOUS
<1>0. UNCHANGED <<driver, mainOf, timeLimit, doDiff>> /\ Calls' = Calls
  BY InputsKept
<1>1. ASSUME NEW c \in Calls, Answer(c) PROVE OneMessage'
  BY <1>0, <1>1 DEF Answer, Step, OneMessage, TypeOK
<1>2. ASSUME NEW c \in Calls, Pointer(c), ~Answer(c) PROVE OneMessage'
  <2>1. UNCHANGED chan
    BY <1>2
       DEF Pointer, Lookup, AnalyzeWCtx, AnalyzeFails, StoreResult, StoreWCtx,
           UpdateQueries, AnalyzeReturns, NextMain, LimitOff, CompareAndReset
  <2>2. an[c] # "end" /\ \A d \in Calls : d # c => an'[d] = an[d]
    BY <1>2, PointerStep DEF TypeOK
  <2>. QED  BY <1>0, <2>1, <2>2 DEF OneMessage
<1>3. ASSUME NEW c \in Calls, Begin(c) PROVE OneMessage'
  <2>1. an[c] = "idle"
    BY <1>3 DEF Begin, Step, CallsFit
  <2>. QED  BY <1>0, <1>3, <2>1 DEF Begin, OneMessage, TypeOK
<1>4. ASSUME NEW c \in Calls, Receive(c) PROVE OneMessage'
  <2>1. timeLimit => an[c] = "end"
    BY <1>4 DEF Receive, OneMessage
  <2>. QED  BY <1>0, <1>4, <2>1 DEF Receive, OneMessage, TypeOK
<1>5. CASE UNCHANGED <<an, chan>>
  BY <1>0, <1>5 DEF OneMessage
<1>. QED
  BY <1>1, <1>2, <1>3, <1>4, <1>5, OtherStep
     DEF Next, Driver, BeginWrite, EndWrite, Timeout, Ended

-----------------------------------------------------------------------------
\* The count and the workers, while no caller starts or joins.
LEMMA CountKept ==
  ASSUME TypeOK, CountRight, UNCHANGED <<driver, wg>>, Calls' = Calls,
         \A c \in Calls : /\ caller[c] = "idle" <=> caller'[c] = "idle"
                          /\ caller[c] = "joined" <=> caller'[c] = "joined"
  PROVE  CountRight'
<1>1. Busy(1)' = Busy(1) /\ Busy(2)' = Busy(2) /\ Busy(3)' = Busy(3)
  BY DEF Busy
<1>. QED  BY <1>1 DEF CountRight

LEMMA CountNext ==
  TypeOK /\ OptionsFit /\ CountRight /\ [Next]_vars => CountRight'
<1>. SUFFICES ASSUME TypeOK, OptionsFit, CountRight, [Next]_vars PROVE CountRight'
  OBVIOUS
<1>0. UNCHANGED <<driver, mainOf, timeLimit, doDiff>> /\ Calls' = Calls
  BY InputsKept
<1>1. CASE UNCHANGED <<caller, wg>>
  BY <1>0, <1>1, CountKept
<1>2. ASSUME NEW c \in Calls, Begin(c) PROVE CountRight'
  <2>1. CASE driver = "DoParallel"
    BY <1>0, <1>2, <2>1, CountKept DEF Begin, Step, TypeOK
  <2>2. CASE driver # "DoParallel"
    BY <1>0, <1>2, <2>2 DEF Begin, CountRight
  <2>. QED  BY <2>1, <2>2
<1>3. ASSUME NEW c \in Calls, Receive(c) \/ BeginWrite(c) \/ Timeout(c) PROVE CountRight'
  <2>1. UNCHANGED wg
    BY <1>3 DEF Receive, BeginWrite, Timeout
  <2>2. \A d \in Calls : /\ caller[d] = "idle" <=> caller'[d] = "idle"
                         /\ caller[d] = "joined" <=> caller'[d] = "joined"
    BY <1>3 DEF Receive, BeginWrite, Timeout, Step, TypeOK
  <2>. QED  BY <1>0, <2>1, <2>2, CountKept
<1>4. ASSUME NEW c \in Calls, EndWrite(c) PROVE CountRight'
  <2>1. /\ driver = "DoParallel" /\ caller[c] \notin {"idle", "joined"}
        /\ wg' = wg - 1
    BY <1>4 DEF EndWrite, OptionsFit
  <2>2. \A d \in Calls : caller'[d] = IF d = c THEN "joined" ELSE caller[d]
    BY <1>4 DEF EndWrite, TypeOK
  <2>3. c \in {1, 2, 3} /\ Workers \subseteq Calls
    BY <2>1 DEF CountRight, Workers, Width
  <2>4. \A d \in {1, 2, 3} : Busy(d)' = IF d = c THEN 0 ELSE Busy(d)
    BY <1>0, <2>2 DEF Busy
  <2>5. Busy(c) = 1 /\ \A d \in {1, 2, 3} : Busy(d) \in {0, 1}
    BY <2>1 DEF Busy
  <2>6. wg = Busy(1) + Busy(2) + Busy(3)
    BY <2>1 DEF CountRight
  <2>7. Busy(1)' + Busy(2)' + Busy(3)' = Busy(1) + Busy(2) + Busy(3) - 1
    <3>. HIDE DEF Busy
    <3>1. CASE c = 1
      BY <2>4, <2>5, <3>1
    <3>2. CASE c = 2
      BY <2>4, <2>5, <3>2
    <3>3. CASE c = 3
      BY <2>4, <2>5, <3>3
    <3>. QED  BY <2>3, <3>1, <3>2, <3>3
  <2>8. \A d \in Calls : caller'[d] = "idle" <=> d \notin Workers
    BY <2>1, <2>2 DEF CountRight
  <2>9. wg' = Busy(1)' + Busy(2)' + Busy(3)'
    BY <2>1, <2>5, <2>6, <2>7
  <2>10. Workers' = Workers
    BY DEF Workers, Width
  <2>. QED  BY <1>0, <2>1, <2>3, <2>8, <2>9, <2>10, Zenon DEF CountRight
<1>5. CASE Spawn
  <2>1. CASE Cardinality(Calls) < Width
    BY <1>1, <1>5, <2>1 DEF Spawn
  <2>2. CASE ~(Cardinality(Calls) < Width)
    <3>1. Workers \subseteq Calls
      <4>1. PICK n \in 1..MaxCalls : Calls = 1..n
        BY CallsNumbered
      <4>2. Cardinality(1..n) = n
        BY <4>1, FS_Interval, DriversAssumption
      <4>. QED  BY <2>2, <4>1, <4>2, DriversAssumption DEF Width, Workers
    <3>2. /\ driver = "DoParallel" /\ wg' = 3
          /\ \A c \in Calls : caller'[c] = IF c \in Workers THEN "spawned" ELSE "idle"
      BY <1>5, <2>2 DEF Spawn, Width
    <3>3. Busy(1)' = 1 /\ Busy(2)' = 1 /\ Busy(3)' = 1
      BY <1>0, <3>1, <3>2 DEF Busy, Workers, Width
    <3>. QED  BY <1>0, <3>1, <3>2, <3>3 DEF CountRight
  <2>. QED  BY <2>1, <2>2
<1>6. ASSUME NEW c \in Calls, Pointer(c) PROVE CountRight'
  BY <1>1, <1>6, PointerStep
<1>. QED
  BY <1>1, <1>2, <1>3, <1>4, <1>5, <1>6 DEF Next, Driver, Exit, Ended, vars

-----------------------------------------------------------------------------
\* The invariant holds in every reachable state.
LEMMA InvCorrect == Spec => []Inv
<1>1. Inv /\ [Next]_vars => Inv'
  BY TypeNext, OptionsNext, CallsFitNext, OneAfterAnotherNext, LimitNext, LockNext, PublishedNext,
     GotNext, MessageNext, CountNext DEF Inv
<1>. QED  BY InitInv, <1>1, PTL DEF Spec

\* Type correctness of the drivers (myutil.go, analysis.go): the WaitGroup
\* counter never goes negative and a result channel never holds two messages.
THEOREM TypeCorrect == Spec => []TypeOK
<1>1. Inv => TypeOK
  BY DEF Inv
<1>. QED  BY <1>1, InvCorrect, PTL

\* The cache of translateResult is sound for any number of concurrent calls:
\* entries belong to their main, were computed under the configured limit, and
\* whoever gets the mutex finds both maps in agreement and with an analysis.
THEOREM CacheCorrect == Spec => []CacheSound
<1>1. Inv => CacheSound
  BY DEF Inv, TypeOK, LockHeld, LimitRestored, Complete, CacheSound
<1>. QED  BY <1>1, InvCorrect, PTL

\* Whatever Analyze returns, from the cache or its own, is a result of the main
\* that was asked for with its analysis, and only a result from the cache whose
\* call is still in translateResult can be without queries.
THEOREM ServedCorrect == Spec => []ServedSound
<1>1. ASSUME Inv PROVE ServedSound
  <2>. SUFFICES ASSUME NEW c \in Calls, an[c] \in {"answer", "end"}, got[c] # NoCall
                PROVE  /\ got[c] \in linked /\ mainOf[got[c]] = mainOf[c]
                       /\ got[c] \in queried \/ (got[c] # c /\ an[got[c]] = "publishing")
    BY DEF ServedSound
  <2>1. got[c] \in linked /\ mainOf[got[c]] = mainOf[c]
    BY <1>1 DEF Inv, GotComplete
  <2>2. got[c] \in Calls
    BY <1>1, <2>1 DEF Inv, TypeOK
  <2>. QED  BY <1>1, <2>1, <2>2 DEF Inv, Published
<1>. QED  BY <1>1, InvCorrect, PTL

\* The goroutine of an analysis whose caller has timed out never blocks on its
\* channel (DoEachMainMy: make(chan string, 1)).
THEOREM LateAnswerCorrect == Spec => []LateAnswerDelivered
<1>1. Inv => LateAnswerDelivered
  BY DEF Inv, OneMessage, LateAnswerDelivered, SendReady
<1>. QED  BY <1>1, InvCorrect, PTL

\* When _wg.Wait() of DoParallel returns, every worker has written its result.
THEOREM JoinedCorrect == Spec => []JoinedBeforeRead
<1>1. Inv => JoinedBeforeRead
  <2>. SUFFICES ASSUME Inv, Join, NEW c \in Workers PROVE caller[c] = "joined"
    BY DEF JoinedBeforeRead
  <2>1. /\ driver = "DoParallel" /\ wg = 0
        /\ c \in Calls /\ caller[c] # "idle"
    BY DEF Inv, Join, CountRight
  <2>2. Busy(1) + Busy(2) + Busy(3) = 0
    BY <2>1 DEF Inv, CountRight
  <2>3. \A d \in {1, 2, 3} : Busy(d) \in {0, 1}
    BY DEF Busy
  <2>4. c \in {1, 2, 3}
    BY DEF Workers, Width
  <2>5. Busy(c) = 0
    BY <2>2, <2>3, <2>4
  <2>. QED  BY <2>1, <2>5 DEF Busy, Inv, TypeOK
<1>. QED  BY <1>1, InvCorrect, PTL
=============================================================================
