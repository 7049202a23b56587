----------------------------- MODULE GpsProofs ------------------------------
(***************************************************************************)
(* Proofs about the source manager of golang-dep.                          *)
(*                                                                         *)
(* Supervisor, for every finite set of calls and every set of keys, types  *)
(* and waiters.  SourceMgr: it drives its supervisor only through the      *)
(* supervisor's own operations, so what is proved of Supervisor holds      *)
(* inside it; and the teardown order of Release is safe for any number of  *)
(* methods, handlers and releasing goroutines.  CacheLock, for any set of  *)
(* processes and any number of crashes and rounds.  SourceCoordinator, for *)
(* any callers, names, folding and deduction.                              *)
(***************************************************************************)
EXTENDS SourceMgr, CacheLock, SourceCoordinator,
        FiniteSetTheorems, SequenceTheorems, TLAPS

(* The supervisor.                                                          *)

\* Type correctness of the supervisor's maps and control states.
THEOREM SupTyping == SupSpec => []SupTypeOK
<1>1. SupInit => SupTypeOK
  BY DEF SupInit, SupTypeOK
<1>2. SupTypeOK /\ [SupNext]_supVars => SupTypeOK'
  <2> SUFFICES ASSUME SupTypeOK, [SupNext]_supVars
               PROVE  SupTypeOK'
    OBVIOUS
  <2> USE DEF SupTypeOK
  <2>1. ASSUME NEW c \in Call, Start(c)
        PROVE  SupTypeOK'
    BY <2>1 DEF Start
  <2>2. ASSUME NEW c \in Call, Done(c)
        PROVE  SupTypeOK'
    BY <2>2, TypeOfInfo DEF Done, Signal
  <2>3. CASE Cancel
    BY <2>3 DEF Cancel
  <2>4. ASSUME NEW w \in Waiter, Wait(w)
        PROVE  SupTypeOK'
    BY <2>4 DEF Wait
  <2>5. CASE UNCHANGED supVars
    BY <2>5 DEF supVars
  <2>6. QED
    BY <2>1, <2>2, <2>3, <2>4, <2>5 DEF SupNext
<1>3. QED
  BY <1>1, <1>2, PTL DEF SupSpec

-----------------------------------------------------------------------------
(***************************************************************************)
(* CountsExact is inductive on its own given the types; the two facts      *)
(* below turn a change of one call's state into a change of one count.     *)
(***************************************************************************)

\* The calls that run under one key are finitely many, so they have a count.
LEMMA RunningCallsFinite ==
  \A ci \in CallInfo : /\ IsFiniteSet(RunningCalls(ci))
                        /\ Cardinality(RunningCalls(ci)) \in Nat
<1> TAKE ci \in CallInfo
<1>1. RunningCalls(ci) \in SUBSET Call
  BY DEF RunningCalls
<1>2. IsFiniteSet(RunningCalls(ci))
  BY <1>1, CallsFinite, FS_Subset
<1>3. QED
  BY <1>2, FS_CardinalityType

\* The entry of a call is there as long as it runs.
LEMMA EntryIsThere ==
  ASSUME SupTypeOK, CountsExact, NEW c \in Call, call[c] = "running"
  PROVE  running[info[c]] \in Nat \ {0}
<1>1. info[c] \in CallInfo /\ c \in RunningCalls(info[c])
  BY DEF SupTypeOK, RunningCalls
<1>2. Cardinality(RunningCalls(info[c])) # 0
  BY <1>1, RunningCallsFinite, FS_EmptySet
<1>3. QED
  BY <1>1, <1>2 DEF SupTypeOK, CountsExact

\* start() adds exactly its own call to the set its key counts.
LEMMA StartCounts ==
  ASSUME SupTypeOK, CountsExact, NEW c \in Call, Start(c)
  PROVE  CountsExact'
<1>1. CASE ctx = "cancelled"
  <2>1. \A ci \in CallInfo : RunningCalls(ci)' = RunningCalls(ci)
    BY <1>1 DEF Start, RunningCalls, SupTypeOK
  <2>2. QED
    BY <1>1, <2>1 DEF Start, CountsExact
<1>2. CASE ctx # "cancelled"
  <2> SUFFICES ASSUME NEW ci \in CallInfo
               PROVE  running'[ci] = Cardinality(RunningCalls(ci)')
    BY DEF CountsExact
  <2>1. CASE ci = info[c]
    <3>1. RunningCalls(ci)' = RunningCalls(ci) \cup {c} /\ c \notin RunningCalls(ci)
      BY <1>2, <2>1 DEF Start, RunningCalls, SupTypeOK
    <3>2. Cardinality(RunningCalls(ci)') = Cardinality(RunningCalls(ci)) + 1
      BY <3>1, RunningCallsFinite, FS_AddElement
    <3>3. running'[ci] = running[ci] + 1
      BY <1>2, <2>1 DEF Start, SupTypeOK
    <3>4. QED
      BY <3>2, <3>3 DEF CountsExact
  <2>2. CASE ci # info[c]
    <3>1. RunningCalls(ci)' = RunningCalls(ci)
      BY <1>2, <2>2 DEF Start, RunningCalls, SupTypeOK
    <3>2. running'[ci] = running[ci]
      BY <1>2, <2>2 DEF Start, SupTypeOK
    <3>3. QED
      BY <3>1, <3>2 DEF CountsExact
  <2>3. QED
    BY <2>1, <2>2
<1>3. QED
  BY <1>1, <1>2

\* done() removes exactly its own call, and finds its entry: it cannot panic.
LEMMA DoneCounts ==
  ASSUME SupTypeOK, CountsExact, NEW c \in Call, Done(c)
  PROVE  CountsExact'
<1> SUFFICES ASSUME NEW ci \in CallInfo
             PROVE  running'[ci] = Cardinality(RunningCalls(ci)')
  BY DEF CountsExact
<1>1. CASE ci = info[c]
  <2>1. RunningCalls(ci)' = RunningCalls(ci) \ {c} /\ c \in RunningCalls(ci)
    BY <1>1 DEF Done, RunningCalls, SupTypeOK
  <2>2. Cardinality(RunningCalls(ci)') = Cardinality(RunningCalls(ci)) - 1
    BY <2>1, RunningCallsFinite, FS_RemoveElement
  <2>3. running[ci] \in Nat \ {0}
    BY <1>1, EntryIsThere DEF Done
  <2>4. running'[ci] = running[ci] - 1
    BY <1>1, <2>3 DEF Done, SupTypeOK
  <2>5. QED
    BY <2>2, <2>4 DEF CountsExact
<1>2. CASE ci # info[c]
  <2>1. RunningCalls(ci)' = RunningCalls(ci)
    BY <1>2 DEF Done, RunningCalls, SupTypeOK
  <2>2. running'[ci] = running[ci]
    BY <1>2 DEF Done, SupTypeOK
  <2>3. QED
    BY <2>1, <2>2 DEF CountsExact
<1>3. QED
  BY <1>1, <1>2

\* Every entry of sup.running is the number of calls that registered under its
\* key and have not returned yet.
THEOREM CountsAreExact == SupSpec => []CountsExact
<1>1. SupInit => CountsExact
  <2> SUFFICES ASSUME SupInit, NEW ci \in CallInfo
               PROVE  running[ci] = Cardinality(RunningCalls(ci))
    BY DEF CountsExact
  <2>1. RunningCalls(ci) = {}
    BY DEF SupInit, RunningCalls
  <2>2. QED
    BY <2>1, FS_EmptySet DEF SupInit
<1>2. SupTypeOK /\ CountsExact /\ [SupNext]_supVars => CountsExact'
  <2> SUFFICES ASSUME SupTypeOK, CountsExact, [SupNext]_supVars
               PROVE  CountsExact'
    OBVIOUS
  <2>1. ASSUME NEW c \in Call, Start(c)
        PROVE  CountsExact'
    BY <2>1, StartCounts
  <2>2. ASSUME NEW c \in Call, Done(c)
        PROVE  CountsExact'
    BY <2>2, DoneCounts
  <2>3. CASE Cancel
    BY <2>3 DEF Cancel, CountsExact, RunningCalls
  <2>4. ASSUME NEW w \in Waiter, Wait(w)
        PROVE  CountsExact'
    BY <2>4 DEF Wait, CountsExact, RunningCalls
  <2>5. CASE UNCHANGED supVars
    BY <2>5 DEF supVars, CountsExact, RunningCalls
  <2>6. QED
    BY <2>1, <2>2, <2>3, <2>4, <2>5 DEF SupNext
<1>3. QED
  BY <1>1, <1>2, SupTyping, PTL DEF SupSpec

\* A call that ends always finds its entry, so done() does not panic, however
\* many calls share the key.
THEOREM DoneNeverPanics == SupSpec => []NoPanic
<1>1. SupInit => NoPanic
  BY DEF SupInit, NoPanic
<1>2. SupTypeOK /\ CountsExact /\ NoPanic /\ [SupNext]_supVars => NoPanic'
  <2> SUFFICES ASSUME SupTypeOK, CountsExact, NoPanic, [SupNext]_supVars
               PROVE  NoPanic'
    OBVIOUS
  <2> USE DEF NoPanic, SupTypeOK
  <2>1. ASSUME NEW c \in Call, Start(c)
        PROVE  NoPanic'
    BY <2>1 DEF Start
  <2>2. ASSUME NEW c \in Call, Done(c)
        PROVE  NoPanic'
    <3>1. running[info[c]] # 0
      BY <2>2, EntryIsThere DEF Done
    <3>2. QED
      BY <2>2, <3>1 DEF Done
  <2>3. CASE Cancel \/ (\E w \in Waiter : Wait(w)) \/ UNCHANGED supVars
    BY <2>3 DEF Cancel, Wait, supVars
  <2>4. QED
    BY <2>1, <2>2, <2>3 DEF SupNext
<1>3. QED
  BY <1>1, <1>2, SupTyping, CountsAreExact, PTL DEF SupSpec

\* When wait() has returned, the context is cancelled and no supervised call
\* runs, now or later: Release may tear the caches down.
THEOREM QuietOnceWaited == SupSpec => []QuietAfterWait
<1>1. SupInit => QuietAfterWait
  BY DEF SupInit, QuietAfterWait
<1>2. SupTypeOK /\ CountsExact /\ QuietAfterWait /\ [SupNext]_supVars
        => QuietAfterWait'
  <2> SUFFICES ASSUME SupTypeOK, CountsExact, QuietAfterWait, [SupNext]_supVars
               PROVE  QuietAfterWait'
    OBVIOUS
  <2> USE DEF QuietAfterWait, SupTypeOK
  <2>1. ASSUME NEW c \in Call, Start(c)
        PROVE  QuietAfterWait'
    BY <2>1 DEF Start
  <2>2. ASSUME NEW c \in Call, Done(c)
        PROVE  QuietAfterWait'
    <3>1. \A w \in Waiter : waiter'[w] = "passed" => waiter[w] = "passed"
      BY <2>2 DEF Done, Signal
    <3>2. QED
      BY <2>2, <3>1 DEF Done
  <2>3. CASE Cancel
    BY <2>3 DEF Cancel
  <2>4. ASSUME NEW w \in Waiter, Wait(w)
        PROVE  QuietAfterWait'
    <3>1. ASSUME NoneRunning(running), NEW c \in Call, call[c] = "running"
          PROVE  FALSE
      BY <3>1, EntryIsThere DEF NoneRunning
    <3>2. CASE NoneRunning(running)
      BY <2>4, <3>1, <3>2 DEF Wait
    <3>3. CASE ~NoneRunning(running)
      BY <2>4, <3>3 DEF Wait
    <3>4. QED
      BY <3>2, <3>3
  <2>5. CASE UNCHANGED supVars
    BY <2>5 DEF supVars
  <2>6. QED
    BY <2>1, <2>2, <2>3, <2>4, <2>5 DEF SupNext
<1>3. QED
  BY <1>1, <1>2, SupTyping, CountsAreExact, PTL DEF SupSpec

-----------------------------------------------------------------------------
(* The SourceMgr.                                                           *)

\* Every step of a SourceMgr is a step of its supervisor or leaves the
\* supervisor alone: methods and releasers use only do, cancel and wait.
THEOREM SmDrivesSupervisor == SmSpec => SupSpec
<1>1. SmInit => SupInit
  BY DEF SmInit
<1>2. [SmNext]_smVars => [SupNext]_supVars
  <2> SUFFICES ASSUME [SmNext]_smVars
               PROVE  [SupNext]_supVars
    OBVIOUS
  <2>1. ASSUME NEW c \in Call, Method(c)
        PROVE  [SupNext]_supVars
    BY <2>1 DEF Method, CheckReleasing, GetGateway, LookLocally, BeginCall,
                EndCall, StoreResult, SupNext
  <2>2. ASSUME NEW w \in Waiter, Release(w)
        PROVE  [SupNext]_supVars
    BY <2>2 DEF Release, BeginRelease, EnterOnce, CancelAll, WaitAll,
                CloseCache, UnlockFile, RemoveFile, CloseQch, SupNext
  <2>3. ASSUME NEW k \in Handler, HandleSignals(k) \/ ReceiveSignal(k) \/ Quit(k)
        PROVE  [SupNext]_supVars
    BY <2>3 DEF HandleSignals, ReceiveSignal, Quit
  <2>4. CASE StopSignalHandling
    BY <2>4 DEF StopSignalHandling
  <2>5. CASE UNCHANGED smVars
    BY <2>5 DEF smVars
  <2>6. QED
    BY <2>1, <2>2, <2>3, <2>4, <2>5 DEF SmNext
<1>3. QED
  BY <1>1, <1>2, PTL DEF SmSpec, SupSpec
-----------------------------------------------------------------------------
\* Type correctness of the SourceMgr.
THEOREM SmTyping == SmSpec => []SmTypeOK
<1>1. SmInit => SmTypeOK
  BY WaitersAre DEF SmInit, SmTypeOK, SupInit, SupTypeOK, RelState, MethState
<1>2. SmTypeOK /\ SupTypeOK' /\ [SmNext]_smVars => SmTypeOK'
  <2> SUFFICES ASSUME SmTypeOK, SupTypeOK', [SmNext]_smVars
               PROVE  SmTypeOK'
    OBVIOUS
  <2> USE DEF SmTypeOK, relVars, sigVars
  <2>1. ASSUME NEW c \in Call, Method(c)
        PROVE  SmTypeOK'
    BY <2>1 DEF Method, CheckReleasing, GetGateway, LookLocally, BeginCall,
                EndCall, StoreResult, MethState
  <2>2. ASSUME NEW w \in Waiter, Release(w)
        PROVE  SmTypeOK'
    <3>1. CASE BeginRelease(w)
      BY <3>1 DEF BeginRelease, Goto, RelState
    <3>2. CASE EnterOnce(w)
      BY <3>2 DEF EnterOnce, Goto, RelState
    <3>3. CASE CancelAll(w)
      BY <3>3 DEF CancelAll, Goto, RelState
    <3>4. CASE WaitAll(w)
      BY <3>4 DEF WaitAll, Goto, RelState
    <3>5. CASE CloseCache(w)
      BY <3>5 DEF CloseCache, Goto, RelState
    <3>6. CASE UnlockFile(w)
      BY <3>6 DEF UnlockFile, Goto, RelState
    <3>7. CASE RemoveFile(w)
      BY <3>7 DEF RemoveFile, Goto, RelState
    <3>8. CASE CloseQch(w)
      <4>1. rel' \in [Waiter -> RelState] /\ relonce' = "done"
        BY <3>8 DEF CloseQch, Goto, RelState
      <4>2. closed' \in SUBSET Waiter /\ panic' \in {"no", "yes"}
        BY <3>8 DEF CloseQch, Close
      <4>3. QED
        BY <3>8, <4>1, <4>2 DEF CloseQch
    <3>9. QED
      BY <2>2, <3>1, <3>2, <3>3, <3>4, <3>5, <3>6, <3>7, <3>8 DEF Release
  <2>3. ASSUME NEW k \in Handler, HandleSignals(k) \/ ReceiveSignal(k) \/ Quit(k)
        PROVE  SmTypeOK'
    BY <2>3, WaitersAre DEF HandleSignals, ReceiveSignal, Quit, Close
  <2>4. CASE StopSignalHandling
    BY <2>4 DEF StopSignalHandling, Close
  <2>5. CASE UNCHANGED smVars
    BY <2>5 DEF smVars
  <2>6. QED
    BY <2>1, <2>2, <2>3, <2>4, <2>5 DEF SmNext
<1>3. QED
  BY <1>1, <1>2, SmDrivesSupervisor, SupTyping, PTL DEF SmSpec

\* wait() is passed for good: no step un-passes a goroutine.
LEMMA PassedIsStable ==
  ASSUME SupTypeOK, [SupNext]_supVars, NEW w \in Waiter, waiter[w] = "passed"
  PROVE  waiter'[w] = "passed"
BY DEF SupNext, supVars, SupTypeOK, Start, Done, Signal, Cancel, Wait

\* Release tears down in one goroutine and in order.
THEOREM TeardownIsOrdered == SmSpec => []TeardownInv
<1>1. SmInit => TeardownInv
  BY DEF SmInit, TeardownInv, InOnce
<1>2. SmTypeOK /\ TeardownInv /\ [SmNext]_smVars => TeardownInv'
  <2> SUFFICES ASSUME SmTypeOK, TeardownInv, [SmNext]_smVars
               PROVE  TeardownInv'
    OBVIOUS
  <2> USE DEF SmTypeOK, TeardownInv, InOnce, relVars, sigVars
  <2>a. ASSUME UNCHANGED <<relonce, rel, cache, lockf>>,
               \A w \in Waiter : waiter[w] = "passed" => waiter'[w] = "passed"
        PROVE  TeardownInv'
    BY <2>a
  <2>1. ASSUME NEW c \in Call, Method(c)
        PROVE  TeardownInv'
    <3>1. [SupNext]_supVars
      BY <2>1 DEF Method, CheckReleasing, GetGateway, LookLocally, BeginCall,
                  EndCall, StoreResult, SupNext
    <3>2. UNCHANGED <<relonce, rel, cache, lockf>>
      BY <2>1 DEF Method, CheckReleasing, GetGateway, LookLocally, BeginCall,
                  EndCall, StoreResult
    <3>3. QED
      BY <3>1, <3>2, <2>a, PassedIsStable
  <2>2. ASSUME NEW w \in Waiter, Release(w)
        PROVE  TeardownInv'
    <3>1. CASE BeginRelease(w)
      BY <3>1 DEF BeginRelease, Goto, RelState, supVars
    <3>2. CASE EnterOnce(w)
      BY <3>2 DEF EnterOnce, Goto, RelState, supVars
    <3>3. CASE CancelAll(w)
      BY <3>3 DEF CancelAll, Cancel, Goto, RelState
    <3>4. CASE WaitAll(w)
      BY <3>4 DEF WaitAll, Wait, Goto, RelState, SupTypeOK
    <3>5. CASE CloseCache(w)
      BY <3>5 DEF CloseCache, Goto, RelState, supVars
    <3>6. CASE UnlockFile(w)
      BY <3>6 DEF UnlockFile, Goto, RelState, supVars
    <3>7. CASE RemoveFile(w)
      BY <3>7 DEF RemoveFile, Goto, RelState, supVars
    <3>8. CASE CloseQch(w)
      BY <3>8 DEF CloseQch, Goto, RelState, supVars
    <3>9. QED
      BY <2>2, <3>1, <3>2, <3>3, <3>4, <3>5, <3>6, <3>7, <3>8 DEF Release
  <2>3. ASSUME NEW k \in Handler, HandleSignals(k) \/ ReceiveSignal(k) \/ Quit(k)
        PROVE  TeardownInv'
    BY <2>3, <2>a DEF HandleSignals, ReceiveSignal, Quit, supVars
  <2>4. CASE StopSignalHandling
    BY <2>4, <2>a DEF StopSignalHandling, supVars
  <2>5. CASE UNCHANGED smVars
    BY <2>5, <2>a DEF smVars, supVars
  <2>6. QED
    BY <2>1, <2>2, <2>3, <2>4, <2>5 DEF SmNext
<1>3. QED
  BY <1>1, <1>2, SmTyping, PTL DEF SmSpec

\* No supervised call runs once the cache is closed or the lock file given up.
THEOREM SupervisedUnderLock == SmSpec => []CallsUnderLock
<1>1. SmTypeOK /\ TeardownInv /\ QuietAfterWait => CallsUnderLock
  BY DEF SmTypeOK, TeardownInv, QuietAfterWait, CallsUnderLock
<1>2. QED
  BY <1>1, SmTyping, TeardownIsOrdered, SmDrivesSupervisor, QuietOnceWaited, PTL

\* Whoever returns from Release finds the cache closed and the lock removed.
THEOREM ReleaseIsComplete == SmSpec => []ReturnMeansReleased
<1>1. TeardownInv => ReturnMeansReleased
  BY DEF TeardownInv, ReturnMeansReleased
<1>2. QED
  BY <1>1, TeardownIsOrdered, PTL

(***************************************************************************)
(* Signal wakes one goroutine, so a second one in wait() could sleep for   *)
(* ever.  The once lets only one goroutine get there.                      *)
(***************************************************************************)
WaitsInRelease ==
  \A w \in Waiter : waiter[w] \in {"parked", "signalled"} => rel[w] = "wait"

\* start() and done() keep the promise when at most one goroutine is parked.
LEMMA CallsWakeUp ==
  ASSUME SmTypeOK, CountsExact, NoLostWakeup, NEW c \in Call, Start(c) \/ Done(c),
         \A v, w \in Waiter : waiter[v] = "parked" /\ waiter[w] = "parked" => v = w
  PROVE  NoLostWakeup'
<1> USE DEF SmTypeOK, SupTypeOK, NoLostWakeup, NoneRunning
<1>1. CASE Start(c)
  BY <1>1 DEF Start
<1>2. CASE Done(c)
  <2>1. info[c] \in CallInfo /\ running[info[c]] \in Nat \ {0}
    BY <1>2, EntryIsThere DEF Done
  <2>2. CASE running[info[c]] = 1 /\ NoneRunning(running')
    BY <1>2, <2>2 DEF Done, Signal
  <2>3. CASE running[info[c]] = 1 /\ ~NoneRunning(running')
    BY <2>3
  <2>4. CASE running[info[c]] # 1
    <3>1. running'[info[c]] # 0
      BY <1>2, <2>1, <2>4 DEF Done
    <3>2. QED
      BY <2>1, <3>1
  <2>5. QED
    BY <2>2, <2>3, <2>4
<1>3. QED
  BY <1>1, <1>2

\* However many goroutines call Release, the one parked in wait() still has a
\* call to wait for.
THEOREM NoWakeupIsLost == SmSpec => []NoLostWakeup
<1> DEFINE Inv == WaitsInRelease /\ NoLostWakeup
<1>1. SmInit => Inv
  BY DEF SmInit, SupInit, WaitsInRelease, NoLostWakeup
<1>2. SmTypeOK /\ TeardownInv /\ CountsExact /\ Inv /\ [SmNext]_smVars => Inv'
  <2> SUFFICES ASSUME SmTypeOK, TeardownInv, CountsExact, Inv, [SmNext]_smVars
               PROVE  Inv'
    OBVIOUS
  <2> USE DEF SmTypeOK, SupTypeOK, WaitsInRelease, relVars, sigVars
  <2>a. ASSUME UNCHANGED <<running, waiter>>,
               \A w \in Waiter : rel[w] = "wait" => rel'[w] = "wait"
        PROVE  Inv'
    BY <2>a DEF NoLostWakeup, NoneRunning
  <2>1. ASSUME NEW c \in Call, Method(c)
        PROVE  Inv'
    <3>1. CASE UNCHANGED supVars
      BY <2>1, <2>a, <3>1 DEF Method, CheckReleasing, GetGateway, LookLocally,
                              BeginCall, EndCall, StoreResult, supVars
    <3>2. CASE Start(c) \/ Done(c)
      <4>1. \A v, w \in Waiter : waiter[v] = "parked" /\ waiter[w] = "parked" => v = w
        BY DEF TeardownInv, InOnce
      <4>2. NoLostWakeup'
        BY <3>2, <4>1, CallsWakeUp
      <4>3. \A w \in Waiter : waiter'[w] \in {"parked", "signalled"}
                                => waiter[w] \in {"parked", "signalled"}
        BY <3>2 DEF Start, Done, Signal
      <4>4. UNCHANGED rel
        BY <2>1 DEF Method, CheckReleasing, GetGateway, LookLocally, BeginCall,
                    EndCall, StoreResult
      <4>5. QED
        BY <4>2, <4>3, <4>4
    <3>3. QED
      BY <2>1, <3>1, <3>2 DEF Method, CheckReleasing, GetGateway, LookLocally,
                              BeginCall, EndCall, StoreResult
  <2>2. ASSUME NEW w \in Waiter, Release(w)
        PROVE  Inv'
    <3>1. CASE WaitAll(w)
      BY <3>1 DEF WaitAll, Wait, Goto, NoLostWakeup
    <3>2. CASE ~WaitAll(w)
      BY <2>2, <3>2, <2>a DEF Release, BeginRelease, EnterOnce, CancelAll, Cancel,
           CloseCache, UnlockFile, RemoveFile, CloseQch, Goto, supVars
    <3>3. QED
      BY <3>1, <3>2
  <2>3. CASE \/ \E k \in Handler : HandleSignals(k) \/ ReceiveSignal(k) \/ Quit(k)
             \/ StopSignalHandling
             \/ UNCHANGED smVars
    BY <2>3, <2>a DEF HandleSignals, ReceiveSignal, Quit, StopSignalHandling,
                      smVars, supVars
  <2>4. QED
    BY <2>1, <2>2, <2>3 DEF SmNext
<1>3. SmSpec => []CountsExact
  BY SmDrivesSupervisor, CountsAreExact, PTL
<1>4. QED
  BY <1>1, <1>2, <1>3, SmTyping, TeardownIsOrdered, PTL DEF SmSpec

(***************************************************************************)
(* The quit channels.  Release closes sm.qch without sigmut and leaves it  *)
(* there: as long as nobody calls the signal API once Release began, sm.qch *)
(* is open until the function of the once ends, which closes it last.      *)
(***************************************************************************)
ChannelsInv ==
  /\ panic = "no"
  /\ relonce # "unused" => releasing = 1
  /\ \A w \in Waiter : rel[w] # "idle" => releasing = 1
  /\ qch \in closed => relonce = "done"
  /\ \A k \in Handler : handler[k] = "none" => k \notin closed /\ k # qch

\* A program that keeps from the signal API once it has called Release closes
\* no channel twice: HandleSignals, StopSignalHandling and Release may be mixed
\* in any other way, with any number of handlers and signals.
THEOREM NoPanicInTime == ASSUME LateSigAPI = FALSE PROVE SmSpec => []NoClosePanic
<1>1. SmInit => ChannelsInv
  BY WaitersAre, HandlersAre DEF SmInit, ChannelsInv
<1>2. SmTypeOK /\ TeardownInv /\ ChannelsInv /\ [SmNext]_smVars => ChannelsInv'
  <2> SUFFICES ASSUME SmTypeOK, TeardownInv, ChannelsInv, [SmNext]_smVars
               PROVE  ChannelsInv'
    OBVIOUS
  <2> USE DEF ChannelsInv, relVars, sigVars
  <2>a. ASSUME UNCHANGED <<relVars, sigVars>>
        PROVE  ChannelsInv'
    BY <2>a
  <2>1. ASSUME NEW c \in Call, Method(c)
        PROVE  ChannelsInv'
    BY <2>1, <2>a DEF Method, CheckReleasing, GetGateway, LookLocally, BeginCall,
                      EndCall, StoreResult
  <2>2. ASSUME NEW w \in Waiter, Release(w)
        PROVE  ChannelsInv'
    <3> USE DEF Goto, SmTypeOK
    <3>1. CASE BeginRelease(w)
      BY <3>1 DEF BeginRelease
    <3>2. CASE EnterOnce(w)
      BY <3>2 DEF EnterOnce, TeardownInv
    <3>3. CASE CancelAll(w)
      BY <3>3 DEF CancelAll
    <3>4. CASE WaitAll(w)
      BY <3>4 DEF WaitAll
    <3>5. CASE CloseCache(w)
      BY <3>5 DEF CloseCache
    <3>6. CASE UnlockFile(w)
      BY <3>6 DEF UnlockFile
    <3>7. CASE RemoveFile(w)
      BY <3>7 DEF RemoveFile
    <3>8. CASE CloseQch(w)
      <4>1. relonce = "running"
        BY <3>8 DEF CloseQch, TeardownInv, InOnce
      <4>2. qch \notin closed
        BY <4>1
      <4>3. QED
        BY <3>8, <4>1, <4>2 DEF CloseQch, Close
    <3>9. QED
      BY <2>2, <3>1, <3>2, <3>3, <3>4, <3>5, <3>6, <3>7, <3>8 DEF Release
  <2>3. ASSUME NEW k \in Handler, HandleSignals(k)
        PROVE  ChannelsInv'
    <3>1. relonce = "unused" /\ qch \notin closed /\ k \notin closed /\ k # qch
      BY <2>3 DEF HandleSignals, SigAPIAllowed
    <3>2. QED
      BY <2>3, <3>1 DEF HandleSignals, Close, SmTypeOK
  <2>4. ASSUME NEW k \in Handler, ReceiveSignal(k) \/ Quit(k)
        PROVE  ChannelsInv'
    BY <2>4 DEF ReceiveSignal, Quit, SmTypeOK
  <2>5. CASE StopSignalHandling
    <3>1. relonce = "unused" /\ qch \notin closed
      BY <2>5 DEF StopSignalHandling, SigAPIAllowed
    <3>2. NilCh \notin closed /\ NilCh \notin Handler
      BY WaitersAre, HandlersAre DEF SmTypeOK
    <3>3. QED
      BY <2>5, <3>1, <3>2 DEF StopSignalHandling, Close
  <2>6. CASE UNCHANGED smVars
    BY <2>6, <2>a DEF smVars
  <2>7. QED
    BY <2>1, <2>2, <2>3, <2>4, <2>5, <2>6 DEF SmNext
<1>3. ChannelsInv => NoClosePanic
  BY DEF ChannelsInv, NoClosePanic
<1>4. QED
  BY <1>1, <1>2, <1>3, SmTyping, TeardownIsOrdered, PTL DEF SmSpec

-----------------------------------------------------------------------------
(* The lock of the cache directory.                                        *)

\* Type correctness of the lock file and the processes.
THEOREM ClTyping == ClSpec => []ClTypeOK
<1>1. ClInit => ClTypeOK
  BY DEF ClInit, ClTypeOK
<1>2. ClTypeOK /\ [ClNext]_clVars => ClTypeOK'
  <2> SUFFICES ASSUME ClTypeOK, [ClNext]_clVars
               PROVE  ClTypeOK'
    OBVIOUS
  <2> USE DEF ClTypeOK, Waiting, Using, GoesTo
  <2>1. ASSUME NEW p \in Proc, NewSourceManager(p)
        PROVE  ClTypeOK'
    BY <2>1 DEF NewSourceManager
  <2>2. ASSUME NEW p \in Proc, ProcStep(p)
        PROVE  ClTypeOK'
    BY <2>2 DEF ProcStep, Link, Stat, GetOwner, Clean, Retry, StartRelease, Unlock,
                RemoveAgain
  <2>3. ASSUME NEW p \in Proc, Crash(p)
        PROVE  ClTypeOK'
    BY <2>3 DEF Crash
  <2>4. CASE UNCHANGED clVars
    BY <2>4 DEF clVars
  <2>5. QED
    BY <2>1, <2>2, <2>3, <2>4 DEF ClNext
<1>3. QED
  BY <1>1, <1>2, PTL DEF ClSpec

\* The lock file of a live process is there for a reason: the process is about
\* to find it or is using the cache directory.
THEOREM LockIsExplained == ClSpec => [](AliveIffRunning /\ LockHasReason)
<1> DEFINE Inv == AliveIffRunning /\ LockHasReason
<1>1. ClInit => Inv
  BY NoFileIsNoProc DEF ClInit, AliveIffRunning, LockHasReason
<1>2. ClTypeOK /\ Inv /\ [ClNext]_clVars => Inv'
  <2> SUFFICES ASSUME ClTypeOK, Inv, [ClNext]_clVars
               PROVE  Inv'
    OBVIOUS
  <2> USE NoFileIsNoProc
      DEF ClTypeOK, AliveIffRunning, LockHasReason, Waiting, Using, GoesTo
  <2>1. ASSUME NEW p \in Proc, NewSourceManager(p)
        PROVE  Inv'
    BY <2>1 DEF NewSourceManager
  <2>2. ASSUME NEW p \in Proc, ProcStep(p)
        PROVE  Inv'
    <3>1. CASE Link(p)
      BY <3>1 DEF Link
    <3>2. CASE Stat(p)
      BY <3>2 DEF Stat
    <3>3. CASE GetOwner(p)
      BY <3>3 DEF GetOwner
    <3>4. CASE Clean(p) \/ Retry(p)
      BY <3>4 DEF Clean, Retry
    <3>5. CASE StartRelease(p) \/ Unlock(p) \/ RemoveAgain(p)
      BY <3>5 DEF StartRelease, Unlock, RemoveAgain
    <3>6. QED
      BY <2>2, <3>1, <3>2, <3>3, <3>4, <3>5 DEF ProcStep
  <2>3. ASSUME NEW p \in Proc, Crash(p)
        PROVE  Inv'
    BY <2>3 DEF Crash
  <2>4. CASE UNCHANGED clVars
    BY <2>4 DEF clVars
  <2>5. QED
    BY <2>1, <2>2, <2>3, <2>4 DEF ClNext
<1>3. QED
  BY <1>1, <1>2, ClTyping, PTL DEF ClSpec

\* Only the two removals by name can take the file from a process using it.
THEOREM LockIsLostOnlyByRemoval == ClSpec => LostOnlyByRemoval
<1> DEFINE Lost(p) ==
      (lock = p /\ stage[p] \in Using /\ lock' # p)
        => \/ stage[p] = "unlock" /\ stage'[p] # "unlock"
           \/ \E q \in Proc \ {p} : stage[q] \in {"clean", "remove"} /\ stage'[q] # stage[q]
<1>1. ClTypeOK /\ [ClNext]_clVars => [\A p \in Proc : Lost(p)]_clVars
  <2> SUFFICES ASSUME ClTypeOK, ClNext, NEW p \in Proc
               PROVE  Lost(p)
    BY DEF clVars
  <2> USE NoFileIsNoProc DEF ClTypeOK, Using, Waiting, GoesTo
  <2>1. ASSUME NEW q \in Proc, NewSourceManager(q) \/ Crash(q)
        PROVE  Lost(p)
    BY <2>1 DEF NewSourceManager, Crash
  <2>2. ASSUME NEW q \in Proc, ProcStep(q)
        PROVE  Lost(p)
    <3>1. CASE Link(q) \/ Stat(q) \/ GetOwner(q) \/ Retry(q) \/ StartRelease(q)
      BY <3>1 DEF Link, Stat, GetOwner, Retry, StartRelease
    <3>2. CASE Clean(q) \/ RemoveAgain(q)
      BY <3>2 DEF Clean, RemoveAgain
    <3>3. CASE Unlock(q)
      BY <3>3 DEF Unlock
    <3>4. QED
      BY <2>2, <3>1, <3>2, <3>3 DEF ProcStep
  <2>3. QED
    BY <2>1, <2>2 DEF ClNext
<1>2. QED
  BY <1>1, ClTyping, PTL DEF ClSpec, LostOnlyByRemoval

-----------------------------------------------------------------------------
(* The source coordinator.                                                  *)

\* What the proof of the panics' unreachability needs: the recorded names, and
\* that a caller on its way to the write lock still finds the folded name.
MapsInv ==
  /\ NamesHaveGateways
  /\ \A c \in Caller : pc[c] = "upgrade" => nameToURL[folded(c)] # None

\* A folded name is a name.
LEMMA FoldedIsString ==
  ASSUME ScTypeOK, NEW c \in Caller
  PROVE  /\ name[c] \in Str /\ folded(c) \in Str
         /\ Deduce[name[c]] \in Seq(Str)
BY FoldIdempotent, DeduceGivesURLs DEF ScTypeOK, folded

\* A key is a name.
LEMMA KeyIsString ==
  ASSUME ScTypeOK, NEW c \in Caller, NEW i \in 1 .. Len(Deduce[name[c]])
  PROVE  /\ Deduce[name[c]][i] \in Str
         /\ Key(c, Deduce[name[c]][i]) \in Str
<1>1. Deduce[name[c]] \in Seq(Str)
  BY FoldedIsString
<1>2. Deduce[name[c]][i] \in Str
  BY <1>1
<1>3. QED
  BY <1>2, FoldIdempotent DEF Key

\* A successful Build either finds a gateway or appends one, whose number is
\* stored under the key.
LEMMA BuildOutcome ==
  ASSUME ScTypeOK, NEW c \in Caller, Build(c)
  PROVE  \/ UNCHANGED <<srcs, gates, ret, nameToURL>>
         \/ \E key, u \in Str :
              /\ \/ srcs[key] # 0 /\ UNCHANGED <<srcs, gates>>
                 \/ /\ gates' = Append(gates, u)
                    /\ srcs' = [srcs EXCEPT ![key] = Len(gates')]
              /\ ret' = [ret EXCEPT ![c] = srcs'[key]]
              /\ nameToURL' = Recorded(c, key, u)
<1>1. CASE UNCHANGED <<srcs, gates, ret, nameToURL>>
  BY <1>1
<1>2. ASSUME NEW i \in 1 .. Len(Deduce[name[c]]),
             LET key == Key(c, Deduce[name[c]][i]) IN
             /\ IF srcs[key] # 0
                  THEN UNCHANGED <<srcs, gates>>
                  ELSE /\ gates' = Append(gates, Deduce[name[c]][i])
                       /\ srcs' = [srcs EXCEPT ![key] = Len(gates')]
             /\ ret' = [ret EXCEPT ![c] = srcs'[key]]
             /\ nameToURL' = Recorded(c, key, Deduce[name[c]][i])
      PROVE  \E key, u \in Str :
              /\ \/ srcs[key] # 0 /\ UNCHANGED <<srcs, gates>>
                 \/ /\ gates' = Append(gates, u)
                    /\ srcs' = [srcs EXCEPT ![key] = Len(gates')]
              /\ ret' = [ret EXCEPT ![c] = srcs'[key]]
              /\ nameToURL' = Recorded(c, key, u)
  BY <1>2, KeyIsString
<1>3. QED
  BY <1>1, <1>2 DEF Build

\* Every step keeps the types.  The alias that Upgrade writes is a URL because
\* the folded name is still recorded, which is what MapsInv adds.
LEMMA ScTypeStep ==
  ASSUME ScTypeOK, MapsInv, [ScNext]_scVars
  PROVE  ScTypeOK'
<1> USE DEF Working, Panics
<1>1. ASSUME NEW c \in Caller, Lookup(c) \/ Upgrade(c) \/ Recheck(c)
      PROVE  ScTypeOK'
  <2>1. name[c] \in Str /\ folded(c) \in Str
    BY FoldedIsString
  <2>2. \A s \in Str : nameToURL[s] # None => srcs[nameToURL[s]] \in 0 .. Len(gates)
    BY DEF ScTypeOK
  <2>3. CASE Lookup(c)
    BY <2>1, <2>2, <2>3 DEF ScTypeOK, Lookup, ReturnGate
  <2>4. CASE Upgrade(c)
    <3>1. srcs[nameToURL[folded(c)]] \in 0 .. Len(gates)
          /\ nameToURL' \in [Str -> Str \cup {None}]
      BY <2>1, <2>2, <2>4 DEF ScTypeOK, Upgrade, MapsInv
    <3>2. QED
      BY <2>4, <3>1 DEF ScTypeOK, Upgrade, ReturnGate
  <2>5. CASE Recheck(c)
    BY <2>1, <2>2, <2>5 DEF ScTypeOK, Recheck
  <2>6. QED
    BY <1>1, <2>3, <2>4, <2>5
<1>2. ASSUME NEW c \in Caller, Proto(c)
      PROVE  ScTypeOK'
  <2>1. folded(c) \in Str
    BY FoldedIsString
  <2>2. CASE protoSrcs[folded(c)] # None
    <3>1. Append(protoSrcs[folded(c)], c) \in Seq(Caller)
      BY <2>1, <2>2 DEF ScTypeOK
    <3>2. QED
      BY <1>2, <2>2, <3>1 DEF ScTypeOK, Proto
  <2>3. CASE protoSrcs[folded(c)] = None
    <3>1. <<>> \in Seq(Caller)
      OBVIOUS
    <3>2. QED
      BY <1>2, <2>3, <3>1 DEF ScTypeOK, Proto
  <2>4. QED
    BY <2>2, <2>3
<1>3. ASSUME NEW c \in Caller, DeduceRootPath(c)
      PROVE  ScTypeOK'
  BY <1>3 DEF ScTypeOK, DeduceRootPath
<1>4. ASSUME NEW c \in Caller, Build(c)
      PROVE  ScTypeOK'
  <2>1. CASE UNCHANGED <<srcs, gates, ret, nameToURL>>
    BY <1>4, <2>1 DEF ScTypeOK, Build
  <2>2. ASSUME NEW key \in Str, NEW u \in Str,
               \/ srcs[key] # 0 /\ UNCHANGED <<srcs, gates>>
               \/ /\ gates' = Append(gates, u)
                  /\ srcs' = [srcs EXCEPT ![key] = Len(gates')],
               ret' = [ret EXCEPT ![c] = srcs'[key]],
               nameToURL' = Recorded(c, key, u)
        PROVE  ScTypeOK'
    <3>a. gates \in Seq(Str)
      BY DEF ScTypeOK
    <3>b. Append(gates, u) \in Seq(Str) /\ Len(Append(gates, u)) = Len(gates) + 1
      BY <3>a, AppendProperties
    <3>1. gates' \in Seq(Str) /\ Len(gates') \in {Len(gates), Len(gates) + 1}
      BY <2>2, <3>a, <3>b
    <3>0. Len(gates) \in Nat /\ 0 .. Len(gates) \subseteq 0 .. Len(gates')
      BY <3>1 DEF ScTypeOK
    <3>2. srcs' \in [Str -> 0 .. Len(gates')]
      BY <2>2, <3>0, <3>1 DEF ScTypeOK
    <3>3. nameToURL' \in [Str -> Str \cup {None}]
      BY <2>2 DEF ScTypeOK, Recorded
    <3>4. ret' \in [Caller -> 0 .. Len(gates')]
      BY <2>2, <3>0, <3>1, <3>2 DEF ScTypeOK
    <3>5. QED
      BY <1>4, <3>1, <3>2, <3>3, <3>4 DEF ScTypeOK, Build
  <2>3. QED
    BY <1>4, <2>1, <2>2, BuildOutcome
<1>5. ASSUME NEW c \in Caller, Answer(c)
      PROVE  ScTypeOK'
  BY <1>5, FoldedIsString DEF ScTypeOK, Answer
<1>6. CASE CancelSup
  BY <1>6 DEF ScTypeOK, CancelSup
<1>7. CASE UNCHANGED scVars
  BY <1>7 DEF ScTypeOK, scVars
<1>8. QED
  BY <1>1, <1>2, <1>3, <1>4, <1>5, <1>6, <1>7 DEF ScNext, Step

\* Every step keeps the recorded names backed by gateways.
LEMMA MapsStep ==
  ASSUME ScTypeOK, MapsInv, [ScNext]_scVars
  PROVE  MapsInv'
<1> USE DEF MapsInv, NamesHaveGateways, Panics
<1>1. ASSUME NEW c \in Caller, Lookup(c) \/ Upgrade(c) \/ Recheck(c)
      PROVE  MapsInv'
  <2>1. name[c] \in Str /\ folded(c) \in Str
    BY FoldedIsString
  <2>2. CASE Lookup(c)
    BY <2>1, <2>2 DEF ScTypeOK, Lookup, ReturnGate, folded
  <2>3. CASE Upgrade(c)
    BY <2>1, <2>3 DEF ScTypeOK, Upgrade, ReturnGate, folded
  <2>4. CASE Recheck(c)
    BY <2>1, <2>4 DEF ScTypeOK, Recheck, folded
  <2>5. QED
    BY <1>1, <2>2, <2>3, <2>4
<1>2. ASSUME NEW c \in Caller, Proto(c) \/ DeduceRootPath(c)
      PROVE  MapsInv'
  BY <1>2 DEF ScTypeOK, Proto, DeduceRootPath, folded
<1>3. ASSUME NEW c \in Caller, Build(c)
      PROVE  MapsInv'
  <2>0. /\ UNCHANGED name
        /\ pc' = [pc EXCEPT ![c] = "answer"]
        /\ \A d \in Caller : folded(d) \in Str
    BY <1>3, FoldedIsString DEF Build
  <2>1. CASE UNCHANGED <<srcs, gates, ret, nameToURL>>
    BY <2>0, <2>1 DEF ScTypeOK, folded
  <2>2. ASSUME NEW key \in Str, NEW u \in Str,
               \/ srcs[key] # 0 /\ UNCHANGED <<srcs, gates>>
               \/ /\ gates' = Append(gates, u)
                  /\ srcs' = [srcs EXCEPT ![key] = Len(gates')],
               nameToURL' = Recorded(c, key, u)
        PROVE  MapsInv'
    <3>1. srcs'[key] # 0 /\ \A s \in Str : srcs[s] # 0 => srcs'[s] # 0
      <4>1. CASE srcs[key] # 0 /\ UNCHANGED srcs
        BY <4>1
      <4>2. CASE gates' = Append(gates, u) /\ srcs' = [srcs EXCEPT ![key] = Len(gates')]
        <5>1. Len(gates') = Len(gates) + 1 /\ Len(gates) \in Nat
          BY <4>2 DEF ScTypeOK
        <5>2. QED
          BY <4>2, <5>1 DEF ScTypeOK
      <4>3. QED
        BY <2>2, <4>1, <4>2
    <3>2. \A s \in Str : nameToURL'[s] \in {key, nameToURL[s]}
      BY <2>2 DEF Recorded
    <3>3. \A s \in Str : nameToURL[s] # None => nameToURL[s] \in Str
      BY DEF ScTypeOK
    <3>4. \A s \in Str : nameToURL'[s] # None => srcs'[nameToURL'[s]] # 0
      BY <3>1, <3>2, <3>3
    <3>5. \A d \in Caller : pc'[d] = "upgrade" => nameToURL'[folded(d)] # None
      BY <2>0, <3>2, NoneIsNoString DEF ScTypeOK
    <3>6. QED
      BY <2>0, <3>4, <3>5 DEF ScTypeOK, folded
  <2>3. QED
    BY <1>3, <2>1, <2>2, BuildOutcome
<1>4. ASSUME NEW c \in Caller, Answer(c)
      PROVE  MapsInv'
  BY <1>4 DEF ScTypeOK, Answer, folded
<1>5. CASE CancelSup \/ UNCHANGED scVars
  BY <1>5 DEF CancelSup, scVars, folded
<1>6. QED
  BY <1>1, <1>2, <1>3, <1>4, <1>5 DEF ScNext, Step

\* Type correctness of the coordinator's maps and of the answers, with the
\* invariant it rests on.
THEOREM ScTyping == ScSpec => [](ScTypeOK /\ MapsInv)
<1>1. ScInit => ScTypeOK /\ MapsInv
  BY NoneIsNoString
     DEF ScInit, ScTypeOK, MapsInv, NamesHaveGateways, Working, Panics
<1>2. ScTypeOK /\ MapsInv /\ [ScNext]_scVars => (ScTypeOK /\ MapsInv)'
  BY ScTypeStep, MapsStep
<1>3. QED
  BY <1>1, <1>2, PTL DEF ScSpec

\* A name recorded in nameToURL always has a gateway in srcs, so neither panic
\* of getSourceGatewayFor is reachable.
THEOREM PanicsUnreachable == ScSpec => []NamesHaveGateways
<1>1. MapsInv => NamesHaveGateways
  BY DEF MapsInv
<1>2. QED
  BY <1>1, ScTyping, PTL
-----------------------------------------------------------------------------
(* One gateway, under DeductionKeepsCase and URLsDeduceToThemselves.        *)

\* The folded URLs, which are the keys of srcs.
URLKeys == {s \in Str : \E n \in Names : \E i \in 1 .. Len(Deduce[n]) :
                          s = Fold[Deduce[n][i]]}

\* Every gateway is found under its own folded URL.
GatesFound == \A g \in 1 .. Len(gates) : srcs[Fold[gates[g]]] = g

\* A folded URL stands for itself, and an alias for what its folded form does.
URLsStand ==
  /\ \A s \in URLKeys : nameToURL[s] \in {None, s}
  /\ \A s \in Str : nameToURL[s] # None => nameToURL[Fold[s]] = nameToURL[s]

\* A call about to build is the only one at work on its folded name, so only
\* another call's URL can have been recorded for it.
BuildsOnce ==
  /\ \A c \in Caller : pc[c] = "build" =>
       nameToURL[folded(c)] = None \/ folded(c) \in URLKeys
  /\ \A c \in Caller : pc[c] \in Working => protoSrcs[folded(c)] # None
  /\ \A c, d \in Caller :
       pc[c] \in Working /\ pc[d] \in Working /\ folded(c) = folded(d) => c = d

\* Callers wait for the work on their own folded name.
WaitersAttached ==
  \A s \in Str : protoSrcs[s] # None =>
    \A i \in 1 .. Len(protoSrcs[s]) : folded(protoSrcs[s][i]) = s

\* An answer is the gateway that is recorded for the folded name.
AnswersRecorded ==
  \A c \in Caller : ret[c] # 0 =>
    nameToURL[folded(c)] # None /\ ret[c] = srcs[nameToURL[folded(c)]]

GatesInv == GatesFound /\ URLsStand /\ BuildsOnce /\ WaitersAttached /\ AnswersRecorded

\* A successful Build chooses a URL, whose folded form is the key in either
\* case, and records it for the name, the URL and their folded forms.
LEMMA BuildRecords ==
  ASSUME DeductionKeepsCase, ScTypeOK, NEW c \in Caller, Build(c)
  PROVE  \/ UNCHANGED <<srcs, gates, ret, nameToURL>>
         \/ \E u \in Str :
              /\ \E i \in 1 .. Len(Deduce[name[c]]) : u = Deduce[name[c]][i]
              /\ \/ srcs[Fold[u]] # 0 /\ UNCHANGED <<srcs, gates>>
                 \/ /\ srcs[Fold[u]] = 0
                    /\ gates' = Append(gates, u)
                    /\ srcs' = [srcs EXCEPT ![Fold[u]] = Len(gates')]
              /\ ret' = [ret EXCEPT ![c] = srcs'[Fold[u]]]
              /\ \A s \in Str : nameToURL'[s] =
                   IF s \in {name[c], folded(c), u, Fold[u]}
                     THEN Fold[u] ELSE nameToURL[s]
<1>1. CASE UNCHANGED <<srcs, gates, ret, nameToURL>>
  BY <1>1
<1>2. ASSUME NEW i \in 1 .. Len(Deduce[name[c]]), NEW u, u = Deduce[name[c]][i],
             NEW key, key = Key(c, u),
             /\ IF srcs[key] # 0
                  THEN UNCHANGED <<srcs, gates>>
                  ELSE /\ gates' = Append(gates, u)
                       /\ srcs' = [srcs EXCEPT ![key] = Len(gates')]
             /\ ret' = [ret EXCEPT ![c] = srcs'[key]]
             /\ nameToURL' = Recorded(c, key, u)
      PROVE  /\ u \in Str
             /\ \/ srcs[Fold[u]] # 0 /\ UNCHANGED <<srcs, gates>>
                \/ /\ srcs[Fold[u]] = 0
                   /\ gates' = Append(gates, u)
                   /\ srcs' = [srcs EXCEPT ![Fold[u]] = Len(gates')]
             /\ ret' = [ret EXCEPT ![c] = srcs'[Fold[u]]]
             /\ \A s \in Str : nameToURL'[s] =
                   IF s \in {name[c], folded(c), u, Fold[u]}
                     THEN Fold[u] ELSE nameToURL[s]
  <2>1. u \in Str
    BY <1>2, KeyIsString
  <2>2. ~ notFolded(c) => Fold[u] = u /\ folded(c) = name[c]
    BY <1>2 DEF notFolded, folded, DeductionKeepsCase, ScTypeOK
  <2>3. key = Fold[u]
    BY <1>2, <2>2 DEF Key
  <2>4. \A s \in Str : nameToURL'[s] =
          IF s \in {name[c], folded(c), u, Fold[u]} THEN Fold[u] ELSE nameToURL[s]
    BY <1>2, <2>2, <2>3 DEF Recorded
  <2>5. QED
    BY <1>2, <2>1, <2>3, <2>4
<1>3. QED
  BY <1>1, <1>2 DEF Build

\* What Build overwrites was empty or the same: the comment in the source that
\* "these operations commute".
LEMMA RecordsCommute ==
  ASSUME URLsDeduceToThemselves, ScTypeOK, GatesInv, NEW c \in Caller,
         pc[c] = "build", NEW u,
         NEW i \in 1 .. Len(Deduce[name[c]]), u = Deduce[name[c]][i]
  PROVE  /\ u \in Str /\ Fold[u] \in URLKeys
         /\ folded(c) \in URLKeys => folded(c) = Fold[u]
         /\ \A s \in {name[c], folded(c), u, Fold[u]} :
              nameToURL[s] \in {None, Fold[u]} /\ Fold[s] \in {folded(c), Fold[u]}
<1>1. name[c] \in Names /\ name[c] \in Str /\ folded(c) \in Str /\ u \in Str
  BY FoldedIsString, KeyIsString DEF ScTypeOK
<1>2. Fold[u] \in Str /\ Fold[u] \in URLKeys /\ Fold[Fold[u]] = Fold[u]
      /\ Fold[folded(c)] = folded(c)
  BY <1>1, FoldIdempotent DEF URLKeys, folded
<1>3. folded(c) \in URLKeys => folded(c) = Fold[u]
  BY <1>1 DEF URLKeys, URLsDeduceToThemselves, folded
<1>4. nameToURL[Fold[u]] \in {None, Fold[u]}
  BY <1>2 DEF GatesInv, URLsStand
<1>5. nameToURL[folded(c)] \in {None, Fold[u]}
  BY <1>3, <1>4 DEF GatesInv, BuildsOnce
<1>6. nameToURL[name[c]] \in {None, Fold[u]} /\ nameToURL[u] \in {None, Fold[u]}
  BY <1>1, <1>4, <1>5 DEF GatesInv, URLsStand, folded
<1>7. QED
  BY <1>1, <1>2, <1>3, <1>4, <1>5, <1>6 DEF folded

\* A call leaves the work on its folded name only by Answer, and no other call
\* begins that work before.
LEMMA GatesStepLocal ==
  ASSUME ScTypeOK, MapsInv, GatesInv, NEW c \in Caller,
         Lookup(c) \/ Upgrade(c) \/ Recheck(c)
  PROVE  GatesInv'
<1>1. name[c] \in Str /\ folded(c) \in Str /\ Fold[name[c]] = folded(c)
      /\ Fold[folded(c)] = folded(c)
  BY FoldedIsString, FoldIdempotent DEF folded
<1>2. UNCHANGED <<srcs, gates, protoSrcs, name>> /\ \A d \in Caller : folded(d)' = folded(d)
  BY DEF Lookup, Upgrade, Recheck, folded
<1>3. GatesFound' /\ WaitersAttached'
  BY <1>2 DEF GatesInv, GatesFound, WaitersAttached, ScTypeOK, folded
<1>4. CASE Lookup(c)
  <2>1. UNCHANGED nameToURL
    BY <1>4 DEF Lookup
  <2>2. \A d \in Caller : pc'[d] \in Working => pc'[d] = pc[d]
    BY <1>4 DEF Lookup, ReturnGate, Working, ScTypeOK, Panics
  <2>3. \/ ret'[c] = ret[c]
        \/ nameToURL[name[c]] # None /\ ret'[c] = srcs[nameToURL[name[c]]]
    BY <1>4 DEF Lookup, ReturnGate, ScTypeOK
  <2>4. \A d \in Caller : d # c => ret'[d] = ret[d]
    BY <1>4 DEF Lookup, ReturnGate, ScTypeOK
  <2>5. AnswersRecorded'
    BY <1>1, <1>2, <2>1, <2>3, <2>4 DEF GatesInv, AnswersRecorded, URLsStand
  <2>6. BuildsOnce'
    BY <1>2, <2>1, <2>2 DEF GatesInv, BuildsOnce, Working
  <2>7. URLsStand'
    BY <2>1 DEF GatesInv, URLsStand
  <2>8. QED
    BY <1>3, <2>5, <2>6, <2>7 DEF GatesInv
<1>5. CASE Upgrade(c)
  <2>0. nameToURL[folded(c)] # None
    BY <1>5 DEF Upgrade, MapsInv
  <2>1. \A s \in Str : nameToURL'[s] = IF s = name[c] THEN nameToURL[folded(c)] ELSE nameToURL[s]
    BY <1>1, <1>5 DEF Upgrade, ScTypeOK
  <2>2. \A d \in Caller : pc'[d] \in Working => pc'[d] = pc[d]
    BY <1>5 DEF Upgrade, ReturnGate, Working, ScTypeOK, Panics
  <2>3. /\ ret'[c] = srcs[nameToURL[folded(c)]]
        /\ \A d \in Caller : d # c => ret'[d] = ret[d]
    BY <1>5 DEF Upgrade, ReturnGate, ScTypeOK
  <2>4. \A d \in Caller : folded(d) \in Str /\ Fold[folded(d)] = folded(d)
    BY FoldedIsString, FoldIdempotent DEF folded
  <2>5. \A s \in Str : Fold[s] = s => nameToURL'[s] = nameToURL[s]
    BY <1>1, <2>1
  <2>6. AnswersRecorded'
    BY <1>2, <2>0, <2>3, <2>4, <2>5 DEF GatesInv, AnswersRecorded
  <2>7. BuildsOnce'
    BY <1>2, <2>2, <2>4, <2>5 DEF GatesInv, BuildsOnce, Working
  <2>8. \A s \in URLKeys : s \in Str /\ Fold[s] = s
    BY FoldIdempotent, DeduceGivesURLs DEF URLKeys
  <2>9. URLsStand'
    BY <1>1, <2>1, <2>5, <2>8, FoldIdempotent DEF GatesInv, URLsStand
  <2>10. QED
    BY <1>3, <2>6, <2>7, <2>9 DEF GatesInv
<1>6. CASE Recheck(c)
  <2>1. UNCHANGED nameToURL /\ pc[c] \in Working
    BY <1>6 DEF Recheck, Working
  <2>2. \A d \in Caller : pc'[d] \in Working => pc[d] \in Working
    BY <1>6, <2>1 DEF Recheck, Working, ScTypeOK
  <2>3. \A d \in Caller : pc'[d] = "build" => pc[d] = "build" \/ nameToURL[folded(d)] = None
    BY <1>6 DEF Recheck, ScTypeOK, Panics
  <2>4. \A d \in Caller :
          \/ ret'[d] = ret[d]
          \/ /\ d = c /\ nameToURL[folded(c)] # None
             /\ ret'[d] = srcs[nameToURL[folded(c)]]
    BY <1>6 DEF Recheck, ScTypeOK
  <2>5. AnswersRecorded'
    BY <1>2, <2>1, <2>4 DEF GatesInv, AnswersRecorded
  <2>6. BuildsOnce'
    BY <1>2, <2>1, <2>2, <2>3 DEF GatesInv, BuildsOnce
  <2>7. URLsStand'
    BY <2>1 DEF GatesInv, URLsStand
  <2>8. QED
    BY <1>3, <2>5, <2>6, <2>7 DEF GatesInv
<1>7. QED
  BY <1>4, <1>5, <1>6

\* A gateway is built.
LEMMA GatesStepBuild ==
  ASSUME DeductionKeepsCase, URLsDeduceToThemselves,
         ScTypeOK, MapsInv, GatesInv, NEW c \in Caller, Build(c)
  PROVE  GatesInv'
<1>1. /\ pc[c] = "build"
      /\ UNCHANGED <<protoSrcs, name>> /\ \A d \in Caller : folded(d)' = folded(d)
      /\ \A d \in Caller : pc'[d] = IF d = c THEN "answer" ELSE pc[d]
  BY DEF Build, folded, ScTypeOK
<1>2. \A d \in Caller : folded(d) \in Str /\ Fold[folded(d)] = folded(d)
  BY FoldedIsString, FoldIdempotent DEF folded
<1>3. WaitersAttached'
  BY <1>1 DEF GatesInv, WaitersAttached, ScTypeOK, folded
<1>4. /\ \A d \in Caller : pc'[d] \in Working => pc[d] \in Working
      /\ \A d \in Caller : pc'[d] = "build" => pc[d] = "build"
  BY <1>1 DEF Working
<1>5. CASE UNCHANGED <<srcs, gates, ret, nameToURL>>
  <2>1. GatesFound' /\ URLsStand' /\ AnswersRecorded'
    BY <1>1, <1>5 DEF GatesInv, GatesFound, URLsStand, AnswersRecorded
  <2>2. BuildsOnce'
    BY <1>1, <1>4, <1>5 DEF GatesInv, BuildsOnce
  <2>3. QED
    BY <1>3, <2>1, <2>2 DEF GatesInv
<1>6. ASSUME NEW u \in Str, NEW i \in 1 .. Len(Deduce[name[c]]), u = Deduce[name[c]][i],
             \/ srcs[Fold[u]] # 0 /\ UNCHANGED <<srcs, gates>>
             \/ /\ srcs[Fold[u]] = 0
                /\ gates' = Append(gates, u)
                /\ srcs' = [srcs EXCEPT ![Fold[u]] = Len(gates')],
             ret' = [ret EXCEPT ![c] = srcs'[Fold[u]]],
             \A s \in Str : nameToURL'[s] =
                   IF s \in {name[c], folded(c), u, Fold[u]}
                     THEN Fold[u] ELSE nameToURL[s]
      PROVE  GatesInv'
  <2> DEFINE k == Fold[u]
             S == {name[c], folded(c), u, k}
  <2>1. /\ k \in URLKeys /\ (folded(c) \in URLKeys => folded(c) = k)
        /\ \A s \in S : nameToURL[s] \in {None, k} /\ Fold[s] \in {folded(c), k}
    BY <1>1, <1>6, RecordsCommute
  <2>2. k \in Str /\ Fold[k] = k /\ k # None
    BY <1>6, FoldIdempotent, NoneIsNoString
  <2>3. /\ \A s \in S : s \in Str => nameToURL'[s] = k
        /\ \A s \in Str : s \notin S => nameToURL'[s] = nameToURL[s]
        /\ \A s \in Str : nameToURL[s] # None => nameToURL'[s] = nameToURL[s]
    BY <1>6, <2>1
  <2>4. Len(gates) \in Nat /\ \A s \in Str : srcs[s] \in 0 .. Len(gates)
    BY DEF ScTypeOK
  <2>5. /\ \A s \in Str : s # k => srcs'[s] = srcs[s]
        /\ srcs[k] # 0 => srcs'[k] = srcs[k]
    BY <1>6, <2>2 DEF ScTypeOK
  <2>6. GatesFound'
    <3>1. CASE UNCHANGED <<srcs, gates>>
      BY <3>1 DEF GatesInv, GatesFound
    <3>2. CASE srcs[k] = 0 /\ gates' = Append(gates, u) /\ srcs' = [srcs EXCEPT ![k] = Len(gates')]
      <4>1. gates \in Seq(Str)
        BY DEF ScTypeOK
      <4>2. /\ Len(gates') = Len(gates) + 1 /\ gates'[Len(gates) + 1] = u
            /\ \A g \in 1 .. Len(gates) : gates'[g] = gates[g] /\ gates[g] \in Str
        BY <3>2, <4>1, <2>4
      <4>3. srcs'[k] = Len(gates) + 1
        BY <3>2, <4>2, <2>2 DEF ScTypeOK
      <4>4. \A g \in 1 .. Len(gates) : Fold[gates[g]] \in Str /\ Fold[gates[g]] # k
                                       /\ srcs[Fold[gates[g]]] = g
        BY <3>2, <4>2, FoldIdempotent DEF GatesInv, GatesFound
      <4>5. \A g \in 1 .. Len(gates') : srcs'[Fold[gates'[g]]] = g
        <5> TAKE g \in 1 .. Len(gates')
        <5>1. CASE g = Len(gates) + 1
          BY <5>1, <4>2, <4>3
        <5>2. CASE g # Len(gates) + 1
          <6>1. g \in 1 .. Len(gates)
            BY <5>2, <4>2, <2>4
          <6>2. QED
            BY <6>1, <4>2, <4>4, <2>5
        <5>3. QED
          BY <5>1, <5>2
      <4>6. QED
        BY <4>5 DEF GatesFound
    <3>3. QED
      BY <1>6, <3>1, <3>2
  <2>7. URLsStand'
    <3>1. \A s \in URLKeys : nameToURL'[s] \in {None, s}
      <4> TAKE s \in URLKeys
      <4>1. s \in Str /\ Fold[s] = s /\ nameToURL[s] \in {None, s}
        BY FoldIdempotent, DeduceGivesURLs DEF URLKeys, GatesInv, URLsStand
      <4>2. CASE s \in S
        <5>1. s = k
          BY <2>1, <4>1, <4>2
        <5>2. QED
          BY <2>3, <4>1, <4>2, <5>1
      <4>3. QED
        BY <2>3, <4>1, <4>2
    <3>2. \A s \in Str : nameToURL'[s] # None => nameToURL'[Fold[s]] = nameToURL'[s]
      <4> TAKE s \in Str
      <4>1. Fold[s] \in Str
        BY FoldIdempotent
      <4>2. CASE s \in S
        BY <2>1, <2>3, <4>1, <4>2
      <4>3. CASE s \notin S /\ nameToURL[s] # None
        <5>1. nameToURL[Fold[s]] = nameToURL[s]
          BY <4>3 DEF GatesInv, URLsStand
        <5>2. QED
          BY <2>3, <4>1, <4>3, <5>1
      <4>4. QED
        BY <2>3, <4>2, <4>3
    <3>3. QED
      BY <3>1, <3>2 DEF URLsStand, URLKeys
  <2>8. BuildsOnce'
    <3>1. \A d \in Caller : pc'[d] = "build" =>
            nameToURL'[folded(d)] = None \/ folded(d) \in URLKeys
      <4> SUFFICES ASSUME NEW d \in Caller, pc'[d] = "build", folded(d) \notin URLKeys
                   PROVE  nameToURL'[folded(d)] = None
        OBVIOUS
      <4>1. pc[d] = "build" /\ d # c
        BY <1>1
      <4>2. nameToURL[folded(d)] = None /\ folded(d) # folded(c)
        BY <1>1, <4>1 DEF GatesInv, BuildsOnce, Working
      <4>3. folded(d) \notin S
        BY <1>2, <2>1, <4>2
      <4>4. QED
        BY <1>2, <2>3, <4>2, <4>3
    <3>2. QED
      BY <1>1, <1>4, <3>1 DEF GatesInv, BuildsOnce
  <2>9. AnswersRecorded'
    <3>1. ret'[c] = srcs'[k] /\ nameToURL'[folded(c)] = k
      BY <1>2, <1>6, <2>3 DEF ScTypeOK
    <3>2. ASSUME NEW d \in Caller, d # c, ret'[d] # 0
          PROVE  nameToURL'[folded(d)] # None /\ ret'[d] = srcs'[nameToURL'[folded(d)]]
      <4>1. ret[d] # 0 /\ ret'[d] = ret[d]
        BY <1>6, <3>2 DEF ScTypeOK
      <4>2. nameToURL[folded(d)] # None /\ ret[d] = srcs[nameToURL[folded(d)]]
        BY <4>1 DEF GatesInv, AnswersRecorded
      <4>3. nameToURL[folded(d)] \in Str /\ nameToURL'[folded(d)] = nameToURL[folded(d)]
        BY <1>2, <2>3, <4>2 DEF ScTypeOK
      <4>4. QED
        BY <2>5, <4>1, <4>2, <4>3
    <3>3. QED
      BY <1>1, <2>2, <3>1, <3>2 DEF AnswersRecorded
  <2>10. QED
    BY <1>3, <2>6, <2>7, <2>8, <2>9 DEF GatesInv
<1>7. QED
  BY <1>5, <1>6, BuildRecords

\* The steps around the gates.
LEMMA GatesStepProto ==
  ASSUME ScTypeOK, GatesInv, NEW c \in Caller,
         Proto(c) \/ DeduceRootPath(c) \/ Answer(c)
  PROVE  GatesInv'
<1>1. /\ UNCHANGED <<srcs, gates, nameToURL, name>>
      /\ \A d \in Caller : folded(d)' = folded(d) /\ folded(d) \in Str
  BY FoldedIsString DEF Proto, DeduceRootPath, Answer, folded
<1>2. GatesFound' /\ URLsStand'
  BY <1>1 DEF GatesInv, GatesFound, URLsStand
<1>3. CASE Proto(c)
  <2>1. /\ pc[c] = "proto" /\ UNCHANGED ret
        /\ \A d \in Caller : pc'[d] = IF d # c THEN pc[d]
             ELSE IF protoSrcs[folded(c)] # None THEN "attached" ELSE "deduce"
        /\ \A s \in Str : protoSrcs'[s] = IF s # folded(c) THEN protoSrcs[s]
             ELSE IF protoSrcs[s] # None THEN Append(protoSrcs[s], c) ELSE <<>>
    BY <1>1, <1>3 DEF Proto, ScTypeOK
  <2>2. AnswersRecorded'
    BY <1>1, <2>1 DEF GatesInv, AnswersRecorded
  <2>3. <<>> # None /\ \A q \in Seq(Caller) : Append(q, c) # None
    <3>1. <<>> \in Seq(Caller)
      OBVIOUS
    <3>2. \A q \in Seq(Caller) : Append(q, c) \in Seq(Caller)
      OBVIOUS
    <3>3. QED
      BY <3>1, <3>2, NoneIsNoString
  <2>4. \A s \in Str : protoSrcs[s] # None => protoSrcs'[s] # None
    BY <2>1, <2>3 DEF ScTypeOK
  <2>5. \A d \in Caller : pc'[d] \in Working =>
          \/ pc[d] \in Working
          \/ d = c /\ protoSrcs[folded(c)] = None
    BY <2>1 DEF Working
  <2>6. \A d \in Caller : pc'[d] = "build" => pc[d] = "build"
    BY <2>1
  <2>7. BuildsOnce'
    <3>1. \A d \in Caller : pc'[d] \in Working => protoSrcs'[folded(d)] # None
      BY <1>1, <2>1, <2>3, <2>4, <2>5 DEF GatesInv, BuildsOnce
    <3>2. \A d, e \in Caller :
            pc'[d] \in Working /\ pc'[e] \in Working /\ folded(d) = folded(e) => d = e
      BY <2>5 DEF GatesInv, BuildsOnce
    <3>3. QED
      BY <1>1, <2>6, <3>1, <3>2 DEF GatesInv, BuildsOnce
  <2>8. WaitersAttached'
    <3>1. ASSUME NEW s \in Str, protoSrcs'[s] # None, NEW i \in 1 .. Len(protoSrcs'[s])
          PROVE  folded(protoSrcs'[s][i]) = s /\ protoSrcs'[s][i] \in Caller
      <4>1. CASE protoSrcs'[s] = protoSrcs[s]
        <5>1. protoSrcs[s] \in Seq(Caller)
          BY <3>1, <4>1 DEF ScTypeOK
        <5>2. QED
          BY <3>1, <4>1, <5>1 DEF GatesInv, WaitersAttached
      <4>2. CASE s = folded(c) /\ protoSrcs[s] # None /\ protoSrcs'[s] = Append(protoSrcs[s], c)
        <5>1. protoSrcs[s] \in Seq(Caller)
          BY <4>2 DEF ScTypeOK
        <5>2. i = Len(protoSrcs[s]) + 1 \/ i \in 1 .. Len(protoSrcs[s])
          BY <3>1, <4>2, <5>1
        <5>3. CASE i = Len(protoSrcs[s]) + 1
          BY <4>2, <5>1, <5>3
        <5>4. CASE i \in 1 .. Len(protoSrcs[s])
          BY <4>2, <5>1, <5>4 DEF GatesInv, WaitersAttached
        <5>5. QED
          BY <5>2, <5>3, <5>4
      <4>3. CASE protoSrcs'[s] = <<>>
        BY <3>1, <4>3
      <4>4. QED
        BY <2>1, <4>1, <4>2, <4>3
    <3>2. QED
      BY <1>1, <3>1 DEF WaitersAttached, folded
  <2>9. QED
    BY <1>2, <2>2, <2>7, <2>8 DEF GatesInv
<1>4. CASE DeduceRootPath(c)
  <2>1. UNCHANGED <<protoSrcs, ret>> /\ pc[c] = "deduce"
        /\ \A d \in Caller : \/ pc'[d] = pc[d]
                             \/ d = c /\ pc'[d] \in {"recheck", "answer"}
    BY <1>4 DEF DeduceRootPath, ScTypeOK
  <2>2. BuildsOnce'
    BY <1>1, <2>1 DEF GatesInv, BuildsOnce, Working
  <2>3. WaitersAttached' /\ AnswersRecorded'
    BY <1>1, <2>1 DEF GatesInv, WaitersAttached, AnswersRecorded, folded
  <2>4. QED
    BY <1>2, <2>2, <2>3 DEF GatesInv
<1>5. CASE Answer(c)
  <2> DEFINE told == Range(protoSrcs[folded(c)])
  <2>1. /\ pc[c] = "answer"
        /\ \A d \in Caller : pc'[d] = IF d \in told \cup {c} THEN "returned" ELSE pc[d]
        /\ \A d \in Caller : ret'[d] = IF d \in told THEN ret[c] ELSE ret[d]
        /\ \A s \in Str : protoSrcs'[s] = IF s = folded(c) THEN None ELSE protoSrcs[s]
    BY <1>1, <1>5 DEF Answer, ScTypeOK
  <2>2. protoSrcs[folded(c)] \in Seq(Caller)
    BY <1>1, <2>1 DEF GatesInv, BuildsOnce, ScTypeOK, Working
  <2>3. \A d \in told : folded(d) = folded(c)
    <3> TAKE d \in told
    <3>1. PICK i \in DOMAIN protoSrcs[folded(c)] : d = protoSrcs[folded(c)][i]
      BY DEF Range
    <3>2. protoSrcs[folded(c)] # None /\ i \in 1 .. Len(protoSrcs[folded(c)])
      BY <2>2, <3>1, NoneIsNoString
    <3>3. QED
      BY <1>1, <3>1, <3>2 DEF GatesInv, WaitersAttached
  <2>4. AnswersRecorded'
    <3> SUFFICES ASSUME NEW d \in Caller, ret'[d] # 0
                 PROVE  nameToURL[folded(d)] # None /\ ret'[d] = srcs[nameToURL[folded(d)]]
      BY <1>1 DEF AnswersRecorded
    <3>1. CASE d \in told
      BY <2>1, <2>3, <3>1 DEF GatesInv, AnswersRecorded
    <3>2. CASE d \notin told
      BY <2>1, <3>2 DEF GatesInv, AnswersRecorded
    <3>3. QED
      BY <3>1, <3>2
  <2>5. \A d \in Caller : pc'[d] \in Working =>
          pc[d] \in Working /\ pc'[d] = pc[d] /\ d # c
    BY <2>1 DEF Working
  <2>6. BuildsOnce'
    <3>1. \A d \in Caller : pc'[d] \in Working => protoSrcs'[folded(d)] # None
      <4> SUFFICES ASSUME NEW d \in Caller, pc'[d] \in Working
                   PROVE  protoSrcs'[folded(d)] # None
        OBVIOUS
      <4>1. pc[d] \in Working /\ pc[c] \in Working /\ d # c
        BY <2>1, <2>5 DEF Working
      <4>2. folded(d) # folded(c) /\ protoSrcs[folded(d)] # None
        BY <4>1 DEF GatesInv, BuildsOnce
      <4>3. QED
        BY <1>1, <2>1, <4>2
    <3>2. \A d, e \in Caller :
            pc'[d] \in Working /\ pc'[e] \in Working /\ folded(d) = folded(e) => d = e
      BY <2>5 DEF GatesInv, BuildsOnce
    <3>3. \A d \in Caller : pc'[d] = "build" =>
            nameToURL[folded(d)] = None \/ folded(d) \in URLKeys
      BY <2>5 DEF GatesInv, BuildsOnce, Working
    <3>4. QED
      BY <1>1, <3>1, <3>2, <3>3 DEF BuildsOnce
  <2>7. WaitersAttached'
    BY <1>1, <2>1 DEF GatesInv, WaitersAttached, folded
  <2>8. QED
    BY <1>2, <2>4, <2>6, <2>7 DEF GatesInv
<1>6. QED
  BY <1>3, <1>4, <1>5

\* Every step keeps the gateways recorded as GatesInv says.
LEMMA GatesStep ==
  ASSUME DeductionKeepsCase, URLsDeduceToThemselves,
         ScTypeOK, MapsInv, GatesInv, [ScNext]_scVars
  PROVE  GatesInv'
<1>1. CASE CancelSup \/ UNCHANGED scVars
  BY <1>1 DEF CancelSup, scVars, GatesInv, GatesFound, URLsStand, BuildsOnce,
              WaitersAttached, AnswersRecorded, folded
<1>2. ASSUME NEW c \in Caller, Step(c)
      PROVE  GatesInv'
  BY <1>2, GatesStepLocal, GatesStepBuild, GatesStepProto DEF Step
<1>3. QED
  BY <1>1, <1>2 DEF ScNext

\* However calls for the same or for different names race, the ones whose names
\* fold together get one gateway, and no two gateways are for URLs that fold
\* together: for every set of callers, under the two facts about deduction.
THEOREM OneGatewayAlways ==
  ASSUME DeductionKeepsCase, URLsDeduceToThemselves
  PROVE  ScSpec => []OneGateway
<1>1. ScInit => GatesInv
  BY NoneIsNoString, DeduceGivesURLs, FoldIdempotent
     DEF ScInit, GatesInv, GatesFound, URLsStand, BuildsOnce, WaitersAttached,
         AnswersRecorded, Working, URLKeys
<1>2. ScTypeOK /\ MapsInv /\ GatesInv /\ [ScNext]_scVars => GatesInv'
  BY GatesStep
<1>3. GatesInv => OneGateway
  BY DEF GatesInv, GatesFound, AnswersRecorded, OneGateway, SameNameSameGateway,
         OneGatewayPerSource
<1>4. QED
  BY <1>1, <1>2, <1>3, ScTyping, PTL DEF ScSpec

\* A URL once recorded for a name is never replaced by another: the value that a
\* caller read before it gave up the lock is the one it writes after it, as the
\* comment in getSourceGatewayFor says of the interleaved writers.
THEOREM RecordedForGood ==
  ASSUME DeductionKeepsCase, URLsDeduceToThemselves
  PROVE  ScSpec => [][\A s \in Str : nameToURL[s] # None => nameToURL'[s] = nameToURL[s]]_scVars
<1> DEFINE Kept == \A s \in Str : nameToURL[s] # None => nameToURL'[s] = nameToURL[s]
<1>1. ScTypeOK /\ MapsInv /\ GatesInv /\ [ScNext]_scVars => [Kept]_scVars
  <2> SUFFICES ASSUME ScTypeOK, MapsInv, GatesInv, [ScNext]_scVars
               PROVE  Kept
    OBVIOUS
  <2>1. CASE CancelSup \/ UNCHANGED scVars
    BY <2>1 DEF CancelSup, scVars
  <2>2. ASSUME NEW c \in Caller, Step(c)
        PROVE  Kept
    <3>1. CASE Lookup(c) \/ Proto(c) \/ DeduceRootPath(c) \/ Recheck(c) \/ Answer(c)
      BY <3>1 DEF Lookup, Proto, DeduceRootPath, Recheck, Answer
    <3>2. CASE Upgrade(c)
      <4>1. Fold[name[c]] = folded(c) /\ name[c] \in Str
        BY FoldedIsString DEF folded
      <4>2. QED
        BY <3>2, <4>1 DEF Upgrade, GatesInv, URLsStand, ScTypeOK
    <3>3. CASE Build(c)
      <4>1. pc[c] = "build"
        BY <3>3 DEF Build
      <4>2. CASE UNCHANGED nameToURL
        BY <4>2
      <4>3. ASSUME NEW u \in Str, NEW i \in 1 .. Len(Deduce[name[c]]), u = Deduce[name[c]][i],
                   \A s \in Str : nameToURL'[s] =
                     IF s \in {name[c], folded(c), u, Fold[u]}
                       THEN Fold[u] ELSE nameToURL[s]
            PROVE  Kept
        BY <4>1, <4>3, RecordsCommute
      <4>4. QED
        BY <3>3, <4>2, <4>3, BuildRecords
    <3>4. QED
      BY <2>2, <3>1, <3>2, <3>3 DEF Step
  <2>3. QED
    BY <2>1, <2>2 DEF ScNext
<1>2. ScInit => GatesInv
  BY NoneIsNoString, DeduceGivesURLs, FoldIdempotent
     DEF ScInit, GatesInv, GatesFound, URLsStand, BuildsOnce, WaitersAttached,
         AnswersRecorded, Working, URLKeys
<1>3. ScTypeOK /\ MapsInv /\ GatesInv /\ [ScNext]_scVars => GatesInv'
  BY GatesStep
<1>4. QED
  BY <1>1, <1>2, <1>3, ScTyping, PTL DEF ScSpec
=============================================================================
