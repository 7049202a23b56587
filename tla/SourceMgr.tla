----------------------------- MODULE SourceMgr ------------------------------
(***************************************************************************)
(* The life of one gps.SourceMgr: API methods running in many goroutines,  *)
(* Release called by the program and by signal handlers, and the quit      *)
(* channel that ends those handlers (gps/source_manager.go).               *)
(*                                                                         *)
(* A member of Call is one API method execution; the supervised part of it *)
(* is its call of supervisor.do.  A member of Waiter is a goroutine that   *)
(* may run Release: the program's own, Main, and one per signal handler.   *)
(* Handler k is the goroutine started for quit channel k; channel Main is  *)
(* the one NewSourceManager makes, which nobody listens to.                *)
(***************************************************************************)
EXTENDS Supervisor

CONSTANTS
  Handler,       \* naturals: signal handler goroutines and their channels
  Main,          \* the goroutine that owns the SourceMgr
  NilCh,         \* a nil channel
  LateSigAPI     \* whether the signal API may be called once Release began

ASSUME WaitersAre == Waiter = {Main} \cup Handler /\ Main \notin Handler
ASSUME HandlersAre == Handler \in SUBSET Nat /\ NilCh \notin Waiter
ASSUME LateSigBool == LateSigAPI \in BOOLEAN

VARIABLES
  releasing,     \* sm.releasing: the atomic flag
  relonce,       \* sm.relonce: a sync.Once
  rel,           \* control state of each goroutine in Release
  cache,         \* srcCoord.cache
  lockf,         \* sm.lf and the file sm.lock
  meth,          \* control state of each API method execution
  qch,           \* sm.qch
  closed,        \* the channels that were closed
  handler,       \* control state of each signal handler goroutine
  panic          \* whether a closed channel was closed again

relVars == <<releasing, relonce, rel, cache, lockf>>
sigVars == <<qch, closed, handler, panic>>
smVars == <<supVars, relVars, meth, sigVars>>

RelState == {"idle", "once", "cancel", "wait", "close", "unlock", "remove",
             "qch", "returned"}
MethState == {"new", "gate", "unsup", "do", "post", "done", "errored"}

SmTypeOK ==
  /\ SupTypeOK
  /\ releasing \in {0, 1}
  /\ relonce \in {"unused", "running", "done"}
  /\ rel \in [Waiter -> RelState]
  /\ cache \in {"open", "closed"}
  /\ lockf \in {"held", "unlocked", "removed"}
  /\ meth \in [Call -> MethState]
  /\ qch \in Waiter \cup {NilCh}
  /\ closed \in SUBSET Waiter
  /\ handler \in [Handler -> {"none", "select", "signalled", "quit"}]
  /\ panic \in {"no", "yes"}

\* NewSourceManager, once the lock file is held.
SmInit ==
  /\ SupInit
  /\ releasing = 0
  /\ relonce = "unused"
  /\ rel = [w \in Waiter |-> "idle"]
  /\ cache = "open"
  /\ lockf = "held"
  /\ meth = [c \in Call |-> "new"]
  /\ qch = Main
  /\ closed = {}
  /\ handler = [k \in Handler |-> "none"]
  /\ panic = "no"

-----------------------------------------------------------------------------
(***************************************************************************)
(* API methods.  Every one has the same shape: test sm.releasing; get the  *)
(* gateway, which tests the supervisor's context; look at the disk and the *)
(* caches without supervision; run the VCS operation under supervisor.do;  *)
(* store the result in the cache, again without supervision.               *)
(***************************************************************************)
\* The test at the top of every method.
CheckReleasing(c) ==
  /\ meth[c] = "new"
  /\ meth' = [meth EXCEPT ![c] = IF releasing = 1 THEN "errored" ELSE "gate"]
  /\ UNCHANGED <<supVars, relVars, sigVars>>

\* getSourceGatewayFor: an error when the supervisor is cancelled.
GetGateway(c) ==
  /\ meth[c] = "gate"
  /\ meth' = [meth EXCEPT ![c] = IF ctx = "cancelled" THEN "errored" ELSE "unsup"]
  /\ UNCHANGED <<supVars, relVars, sigVars>>

\* The unsupervised look at disk and cache, which may already have the answer.
LookLocally(c) ==
  /\ meth[c] = "unsup"
  /\ \E next \in {"do", "done"} : meth' = [meth EXCEPT ![c] = next]
  /\ UNCHANGED <<supVars, relVars, sigVars>>

\* supervisor.do begins: refused calls surface as errors.
BeginCall(c) ==
  /\ meth[c] = "do"
  /\ Start(c)
  /\ meth' = [meth EXCEPT ![c] = IF call'[c] = "refused" THEN "errored" ELSE @]
  /\ UNCHANGED <<relVars, sigVars>>

\* supervisor.do ends; a failed operation stores nothing.
EndCall(c) ==
  /\ meth[c] = "do"
  /\ Done(c)
  /\ \E next \in {"post", "errored"} : meth' = [meth EXCEPT ![c] = next]
  /\ UNCHANGED <<relVars, sigVars>>

\* sg.cache.set...(), after do() returned.
StoreResult(c) ==
  /\ meth[c] = "post"
  /\ meth' = [meth EXCEPT ![c] = "done"]
  /\ UNCHANGED <<supVars, relVars, sigVars>>

Method(c) ==
  \/ CheckReleasing(c)
  \/ GetGateway(c)
  \/ LookLocally(c)
  \/ BeginCall(c)
  \/ EndCall(c)
  \/ StoreResult(c)
-----------------------------------------------------------------------------
(***************************************************************************)
(* Release.                                                                *)
(***************************************************************************)
Goto(w, pc) == rel' = [rel EXCEPT ![w] = pc]

\* The program calls Release, or a handler that received a signal does.
BeginRelease(w) ==
  /\ rel[w] = "idle"
  /\ w # Main => handler[w] = "signalled"
  /\ releasing' = 1
  /\ Goto(w, "once")
  /\ UNCHANGED <<supVars, relonce, cache, lockf, meth, sigVars>>

\* Mutant: a hand-written once that does not wait for the first caller.
EnterOnceNoWait(w) ==
  /\ rel[w] = "once"
  /\ IF relonce = "unused"
       THEN relonce' = "running" /\ Goto(w, "cancel")
       ELSE UNCHANGED relonce /\ Goto(w, "returned")
  /\ UNCHANGED <<supVars, releasing, cache, lockf, meth, sigVars>>

\* sync.Once.Do: the first caller runs the function, the others block until
\* it has returned.
EnterOnce(w) ==
  /\ rel[w] = "once"
  /\ \/ /\ relonce = "unused"
        /\ relonce' = "running"
        /\ Goto(w, "cancel")
     \/ /\ relonce = "done"
        /\ UNCHANGED relonce
        /\ Goto(w, "returned")
  /\ UNCHANGED <<supVars, releasing, cache, lockf, meth, sigVars>>

\* sm.cancelAll()
CancelAll(w) ==
  /\ rel[w] = "cancel"
  /\ Cancel
  /\ Goto(w, "wait")
  /\ UNCHANGED <<releasing, relonce, cache, lockf, meth, sigVars>>

\* Mutant: the releaser goes on as soon as it was woken or found no call, even
\* before it has tested the map again.
WaitAllUnlooped(w) ==
  /\ rel[w] = "wait"
  /\ Goto(w, "close")
  /\ UNCHANGED <<supVars, releasing, relonce, cache, lockf, meth, sigVars>>

\* sm.suprvsr.wait()
WaitAll(w) ==
  /\ rel[w] = "wait"
  /\ Wait(w)
  /\ Goto(w, IF waiter'[w] = "passed" THEN "close" ELSE "wait")
  /\ UNCHANGED <<releasing, relonce, cache, lockf, meth, sigVars>>

\* sm.srcCoord.close()
CloseCache(w) ==
  /\ rel[w] = "close"
  /\ cache' = "closed"
  /\ Goto(w, "unlock")
  /\ UNCHANGED <<supVars, releasing, relonce, lockf, meth, sigVars>>

\* sm.lf.Unlock()
UnlockFile(w) ==
  /\ rel[w] = "unlock"
  /\ lockf' = "unlocked"
  /\ Goto(w, "remove")
  /\ UNCHANGED <<supVars, releasing, relonce, cache, meth, sigVars>>

\* os.Remove of sm.lock
RemoveFile(w) ==
  /\ rel[w] = "remove"
  /\ lockf' = "removed"
  /\ Goto(w, "qch")
  /\ UNCHANGED <<supVars, releasing, relonce, cache, meth, sigVars>>

\* close(ch): closing a closed channel panics.
Close(ch) ==
  IF ch \in closed
    THEN panic' = "yes" /\ UNCHANGED closed
    ELSE closed' = closed \cup {ch} /\ UNCHANGED panic

\* Mutant: the once is never marked done.
CloseQchNotMarked(w) ==
  /\ rel[w] = "qch"
  /\ IF qch # NilCh THEN Close(qch) ELSE UNCHANGED <<closed, panic>>
  /\ Goto(w, "returned")
  /\ UNCHANGED <<supVars, releasing, relonce, cache, lockf, meth, qch, handler>>

\* The channel is closed if it is not nil, and stays in sm.qch; sigmut is not
\* taken.  This ends the function run by relonce.
CloseQch(w) ==
  /\ rel[w] = "qch"
  /\ IF qch # NilCh THEN Close(qch) ELSE UNCHANGED <<closed, panic>>
  /\ relonce' = "done"
  /\ Goto(w, "returned")
  /\ UNCHANGED <<supVars, releasing, cache, lockf, meth, qch, handler>>

Release(w) ==
  \/ BeginRelease(w)
  \/ EnterOnce(w)
  \/ CancelAll(w)
  \/ WaitAll(w)
  \/ CloseCache(w)
  \/ UnlockFile(w)
  \/ RemoveFile(w)
  \/ CloseQch(w)
-----------------------------------------------------------------------------
(***************************************************************************)
(* Signal handling.  HandleSignals and StopSignalHandling hold sigmut.     *)
(***************************************************************************)
SigAPIAllowed == LateSigAPI \/ releasing = 0

\* HandleSignals: end the previous handler, start handler k on a new channel.
HandleSignals(k) ==
  /\ SigAPIAllowed
  /\ handler[k] = "none"
  /\ \A j \in Handler : j < k => handler[j] # "none"
  /\ IF qch # NilCh THEN Close(qch) ELSE UNCHANGED <<closed, panic>>
  /\ qch' = k
  /\ handler' = [handler EXCEPT ![k] = "select"]
  /\ UNCHANGED <<supVars, relVars, meth>>

\* StopSignalHandling
StopSignalHandling ==
  /\ SigAPIAllowed
  /\ qch # NilCh
  /\ Close(qch)
  /\ qch' = NilCh
  /\ UNCHANGED <<supVars, relVars, meth, handler>>

\* The handler's select: a signal, or the end of its quit channel.
ReceiveSignal(k) ==
  /\ handler[k] = "select"
  /\ handler' = [handler EXCEPT ![k] = "signalled"]
  /\ UNCHANGED <<supVars, relVars, meth, qch, closed, panic>>

Quit(k) ==
  /\ handler[k] = "select"
  /\ k \in closed
  /\ handler' = [handler EXCEPT ![k] = "quit"]
  /\ UNCHANGED <<supVars, relVars, meth, qch, closed, panic>>

\* A panic ends the process.
SmNext ==
  /\ panic = "no"
  /\ \/ \E c \in Call : Method(c)
     \/ \E w \in Waiter : Release(w)
     \/ \E k \in Handler : HandleSignals(k) \/ ReceiveSignal(k) \/ Quit(k)
     \/ StopSignalHandling

SmSpec == SmInit /\ [][SmNext]_smVars

\* Goroutines that can step are scheduled; nobody has to call the API, to call
\* Release or to send a signal.
SmFairSpec ==
  /\ SmSpec
  /\ \A c \in Call : WF_smVars(panic = "no" /\ EndCall(c))
  /\ \A w \in Waiter :
       WF_smVars(panic = "no" /\ (Release(w) /\ (w = Main => rel[w] # "idle")))
  /\ \A k \in Handler : WF_smVars(panic = "no" /\ Quit(k))
-----------------------------------------------------------------------------
\* A goroutine runs the function of sm.relonce.
InOnce(w) == rel[w] \in {"cancel", "wait", "close", "unlock", "remove", "qch"}

\* The teardown's bookkeeping, inductive: at most one goroutine runs the once
\* function and only while relonce says so; what it has torn down so far is
\* what its control state says; and it got past wait() before it began.
TeardownInv ==
  /\ \A w \in Waiter : InOnce(w) => relonce = "running"
  /\ \A v, w \in Waiter : InOnce(v) /\ InOnce(w) => v = w
  /\ \A w \in Waiter : rel[w] = "returned" => relonce = "done"
  /\ relonce = "done" => cache = "closed" /\ lockf = "removed"
  /\ relonce = "unused" => cache = "open" /\ lockf = "held"
  /\ \A w \in Waiter :
       /\ rel[w] \in {"unlock", "remove", "qch"} => cache = "closed"
       /\ rel[w] = "qch" => lockf = "removed"
       /\ rel[w] \in {"close", "unlock", "remove"} => waiter[w] = "passed"
  /\ (cache = "closed" \/ lockf # "held")
       => \E w \in Waiter : waiter[w] = "passed"

\* While a supervised call runs, the cache is open and this process holds the
\* lock of the cache directory, whoever called Release and when.
CallsUnderLock ==
  (\E c \in Call : call[c] = "running") => cache = "open" /\ lockf = "held"

\* A call of Release returns only when the teardown is complete, even when
\* another goroutine performs it: the program exits right after its Release.
ReturnMeansReleased ==
  (\E w \in Waiter : rel[w] = "returned") => cache = "closed" /\ lockf = "removed"

\* No channel is closed twice.
NoClosePanic == panic = "no"

\* Every goroutine that entered Release gets out of it.
ReleaseReturns ==
  \A w \in Waiter : rel[w] = "once" ~> rel[w] = "returned"

\* After Release every signal handler goroutine runs out: it quits, or it was
\* signalled and its own Release returns.
HandlersRunOut ==
  \A k \in Handler :
    (relonce = "done" /\ handler[k] = "select")
      ~> (handler[k] = "quit" \/ rel[k] = "returned")

\* Nobody is left behind: neither a caller of Release nor a handler.
NobodyWaits == ReleaseReturns /\ HandlersRunOut
=============================================================================
