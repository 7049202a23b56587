----------------------------- MODULE Supervisor -----------------------------
(***************************************************************************)
(* The supervisor of gps (gps/source_manager.go): it counts the calls that *)
(* run under it, refuses new ones once its context is cancelled, and lets  *)
(* a releaser wait until the last of them has returned.                    *)
(*                                                                         *)
(* A member of Call is one execution of supervisor.do.  Every critical     *)
(* section under sup.mu is one action.  sync.Cond is modelled by what it   *)
(* guarantees: Wait parks the goroutine and releases sup.mu in one step,   *)
(* Signal wakes one parked goroutine, if there is one.                     *)
(***************************************************************************)
EXTENDS Naturals, FiniteSets

CONSTANTS
  Call,        \* executions of supervisor.do
  CallInfo,    \* the keys of the running map: (name, callType) pairs
  CallType,    \* the keys of the ran map
  Type,        \* Type[ci] is the callType of ci
  Waiter       \* goroutines that may run supervisor.wait

ASSUME CallsFinite == IsFiniteSet(Call)
ASSUME TypeOfInfo == Type \in [CallInfo -> CallType]

VARIABLES
  ctx,         \* state of sup.ctx: live, or its Err() is not nil
  running,     \* sup.running: CallInfo -> number of calls, 0 is "no entry"
  ran,         \* sup.ran: CallType -> durCount.count
  call,        \* control state of each call
  info,        \* the callInfo a call registered under
  waiter       \* control state of each goroutine in wait()

supVars == <<ctx, running, ran, call, info, waiter>>

SupTypeOK ==
  /\ ctx \in {"live", "cancelled"}
  /\ running \in [CallInfo -> Nat]
  /\ ran \in [CallType -> Nat]
  /\ call \in [Call -> {"idle", "running", "returned", "refused", "panicked"}]
  /\ info \in [Call -> CallInfo]
  /\ waiter \in [Waiter -> {"idle", "parked", "signalled", "passed"}]

\* newSupervisor.  A call's info is fixed by its caller before do() begins.
SupInit ==
  /\ ctx = "live"
  /\ running = [ci \in CallInfo |-> 0]
  /\ ran = [t \in CallType |-> 0]
  /\ call = [c \in Call |-> "idle"]
  /\ info \in [Call -> CallInfo]
  /\ waiter = [w \in Waiter |-> "idle"]

\* len(sup.running) == 0
NoneRunning(r) == \A ci \in CallInfo : r[ci] = 0

-----------------------------------------------------------------------------
\* Mutant: the context is read before sup.mu is taken, so it may be cancelled
\* in between.
StartIgnoresCancel(c) ==
  /\ call[c] = "idle"
  /\ call' = [call EXCEPT ![c] = "running"]
  /\ running' = [running EXCEPT ![info[c]] = @ + 1]
  /\ UNCHANGED <<ctx, ran, info, waiter>>

\* supervisor.start: refuse under a cancelled context, else register.
Start(c) ==
  /\ call[c] = "idle"
  /\ IF ctx = "cancelled"
       THEN /\ call' = [call EXCEPT ![c] = "refused"]
            /\ UNCHANGED running
       ELSE /\ call' = [call EXCEPT ![c] = "running"]
            /\ running' = [running EXCEPT ![info[c]] = @ + 1]
  /\ UNCHANGED <<ctx, ran, info, waiter>>

\* sup.cond.Signal(): one parked goroutine becomes runnable.
Signal ==
  \/ \E w \in Waiter :
       /\ waiter[w] = "parked"
       /\ waiter' = [waiter EXCEPT ![w] = "signalled"]
  \/ /\ \A w \in Waiter : waiter[w] # "parked"
     /\ UNCHANGED waiter

\* supervisor.done after f returned: panic when the key has no entry, else
\* deregister, and signal when the map becomes empty.
Done(c) ==
  /\ call[c] = "running"
  /\ call' = [call EXCEPT
                ![c] = IF running[info[c]] = 0 THEN "panicked" ELSE "returned"]
  /\ running' = [running EXCEPT ![info[c]] = IF @ > 1 THEN @ - 1 ELSE 0]
  /\ IF running[info[c]] = 1
       THEN /\ ran' = [ran EXCEPT ![Type[info[c]]] = @ + 1]
            /\ IF NoneRunning(running') THEN Signal ELSE UNCHANGED waiter
       ELSE UNCHANGED <<ran, waiter>>
  /\ UNCHANGED <<ctx, info>>

\* The cancel function handed to the SourceMgr; cancelling again is a no-op.
Cancel ==
  /\ ctx' = "cancelled"
  /\ UNCHANGED <<running, ran, call, info, waiter>>

\* One turn of the loop of supervisor.wait.  Its only caller, Release, has
\* cancelled the context before.
Wait(w) ==
  /\ ctx = "cancelled"
  /\ waiter[w] \in {"idle", "signalled"}
  /\ waiter' = [waiter EXCEPT
                  ![w] = IF NoneRunning(running) THEN "passed" ELSE "parked"]
  /\ UNCHANGED <<ctx, running, ran, call, info>>

SupNext ==
  \/ \E c \in Call : Start(c) \/ Done(c)
  \/ Cancel
  \/ \E w \in Waiter : Wait(w)

SupSpec == SupInit /\ [][SupNext]_supVars

\* A call's closure returns (its context is cancelled with the supervisor's),
\* and a goroutine that can take a step of wait() is eventually scheduled.
SupFairSpec ==
  /\ SupSpec
  /\ \A c \in Call : WF_supVars(Done(c))
  /\ \A w \in Waiter : WF_supVars(Wait(w))
-----------------------------------------------------------------------------
RunningCalls(ci) == {c \in Call : call[c] = "running" /\ info[c] = ci}

\* Every count in sup.running is the number of calls that registered under
\* that key and have not returned: two calls with the same key share one map
\* entry, so a lost increment would let the second done() panic.
CountsExact == \A ci \in CallInfo : running[ci] = Cardinality(RunningCalls(ci))

\* done() never meets its panic: whoever shares the key, the entry of a call
\* is there until its own done().
NoPanic == \A c \in Call : call[c] # "panicked"

\* Once wait() has returned no supervised call is running: Release may close
\* the cache and drop the lock file.
QuietAfterWait ==
  (\E w \in Waiter : waiter[w] = "passed")
    => /\ ctx = "cancelled"
       /\ \A c \in Call : call[c] # "running"

\* No wake-up is lost: a goroutine parked in wait() still has a call to wait
\* for, because done() signals under the lock that wait() parked under.
NoLostWakeup ==
  \A w \in Waiter : waiter[w] = "parked" => ~NoneRunning(running)

\* Release is not held up for ever: once the supervisor is cancelled, wait()
\* returns, however many calls were in flight.
WaitReturns ==
  \A w \in Waiter : ctx = "cancelled" ~> waiter[w] = "passed"
=============================================================================
