----------------------------- MODULE CacheLock ------------------------------
(***************************************************************************)
(* sm.lock, the file by which dep processes keep each other out of the     *)
(* cache directory: NewSourceManager takes it with the TryLock of the      *)
(* vendored nightlyone/lockfile, Release gives it up.  Every step below is *)
(* one system call on the lock file, or local work between two of them.    *)
(*                                                                         *)
(* The lock file is its content, the owner's pid.  TryLock compares inodes *)
(* (its own temporary file against the lock file); a process that is       *)
(* trying has no older lock file of its own, so comparing pids is the same.*)
(* A pid is not reused: a crashed process stays dead.                      *)
(***************************************************************************)
EXTENDS Naturals, FiniteSets

CONSTANTS
  Proc,          \* processes, by pid
  NoFile,        \* the lock file does not exist
  MaxCrashes,    \* bound: how many processes may die
  MaxRounds      \* bound: how many SourceMgrs one process creates

ASSUME NoFileIsNoProc == NoFile \notin Proc
ASSUME LockBounds == MaxCrashes \in Nat /\ MaxRounds \in Nat

VARIABLES
  lock,          \* content of sm.lock, or NoFile
  alive,         \* the processes kill(pid, 0) finds
  stage,            \* control state of each process
  rounds         \* SourceMgrs each process has begun to create

clVars == <<lock, alive, stage, rounds>>

Waiting == {"link", "stat", "owner", "clean", "sleep"}
Using == {"holding", "unlock"}

ClTypeOK ==
  /\ lock \in Proc \cup {NoFile}
  /\ alive \in SUBSET Proc
  /\ stage \in [Proc -> Waiting \cup Using \cup {"off", "remove", "failed", "dead"}]
  /\ rounds \in [Proc -> Nat]

ClInit ==
  /\ lock = NoFile
  /\ alive = Proc
  /\ stage = [p \in Proc |-> "off"]
  /\ rounds = [p \in Proc |-> 0]

GoesTo(p, s) == stage' = [stage EXCEPT ![p] = s]
-----------------------------------------------------------------------------
\* NewSourceManager asks for the owner first and refuses a lock it already
\* holds; any other owner, or an error, is left to TryLock.
NewSourceManager(p) ==
  /\ stage[p] = "off"
  /\ rounds[p] < MaxRounds
  /\ rounds' = [rounds EXCEPT ![p] = @ + 1]
  /\ GoesTo(p, IF lock = p THEN "failed" ELSE "link")
  /\ UNCHANGED <<lock, alive>>

\* Mutant: the temporary file is renamed over the lock file.
LinkByRename(p) ==
  /\ stage[p] = "link"
  /\ lock' = p
  /\ GoesTo(p, "stat")
  /\ UNCHANGED <<alive, rounds>>

\* TryLock: os.Link of the temporary file; fails silently if the file exists.
Link(p) ==
  /\ stage[p] = "link"
  /\ lock' = IF lock = NoFile THEN p ELSE lock
  /\ GoesTo(p, "stat")
  /\ UNCHANGED <<alive, rounds>>

\* TryLock: Lstat of the lock file.  Missing is the temporary ErrNotExist, the
\* own file is success.
Stat(p) ==
  /\ stage[p] = "stat"
  /\ GoesTo(p, CASE lock = NoFile -> "sleep"
               [] lock = p -> "holding"
               [] OTHER -> "owner")
  /\ UNCHANGED <<lock, alive, rounds>>

\* Mutant: a dead owner counts as busy.
OwnerNeverStale(p) ==
  /\ stage[p] = "owner"
  /\ GoesTo(p, IF lock = NoFile THEN "failed" ELSE "sleep")
  /\ UNCHANGED <<lock, alive, rounds>>

\* TryLock: GetOwner.  A file that is gone by now is a plain error, which has
\* no Temporary() method: NewSourceManager fails.  A live owner is ErrBusy,
\* a dead one leads to the clean-up.
GetOwner(p) ==
  /\ stage[p] = "owner"
  /\ GoesTo(p, CASE lock = NoFile -> "failed"
               [] lock \in alive \ {p} -> "sleep"
               [] OTHER -> "clean")
  /\ UNCHANGED <<lock, alive, rounds>>

\* TryLock: remove the stale file by name, whatever it is by now, and recurse.
Clean(p) ==
  /\ stage[p] = "clean"
  /\ lock' = NoFile
  /\ GoesTo(p, "link")
  /\ UNCHANGED <<alive, rounds>>

\* The retry loop of NewSourceManager: sleep a second and call TryLock again.
Retry(p) ==
  /\ stage[p] = "sleep"
  /\ GoesTo(p, "link")
  /\ UNCHANGED <<lock, alive, rounds>>

\* The SourceMgr is done with the cache directory and Release gets to the lock.
StartRelease(p) ==
  /\ stage[p] = "holding"
  /\ GoesTo(p, "unlock")
  /\ UNCHANGED <<lock, alive, rounds>>

\* Release: lf.Unlock removes the file if it is still ours.
Unlock(p) ==
  /\ stage[p] = "unlock"
  /\ lock' = IF lock = p THEN NoFile ELSE lock
  /\ GoesTo(p, "remove")
  /\ UNCHANGED <<alive, rounds>>

\* Release: os.Remove of sm.lock, unconditionally.
RemoveAgain(p) ==
  /\ stage[p] = "remove"
  /\ lock' = NoFile
  /\ GoesTo(p, "off")
  /\ UNCHANGED <<alive, rounds>>

\* A process is killed; its lock file stays behind.
Crash(p) ==
  /\ Cardinality(Proc \ alive) < MaxCrashes
  /\ stage[p] \in Waiting \cup Using \cup {"remove"}
  /\ alive' = alive \ {p}
  /\ GoesTo(p, "dead")
  /\ UNCHANGED <<lock, rounds>>

ProcStep(p) ==
  \/ Link(p)
  \/ Stat(p)
  \/ GetOwner(p)
  \/ Clean(p)
  \/ Retry(p)
  \/ StartRelease(p)
  \/ Unlock(p)
  \/ RemoveAgain(p)

ClNext == \E p \in Proc : NewSourceManager(p) \/ ProcStep(p) \/ Crash(p)

ClSpec == ClInit /\ [][ClNext]_clVars

\* A live process goes on: its solver run ends, its sleep ends.  A process
\* between Link and Lstat may starve only if others keep taking the lock.
ClFairSpec == ClSpec /\ \A p \in Proc : WF_clVars(ProcStep(p))
-----------------------------------------------------------------------------
\* A process is dead exactly when kill(pid, 0) does not find it.
AliveIffRunning == \A p \in Proc : p \in alive <=> stage[p] # "dead"

\* The lock file names a process that is about to find it, that uses the cache
\* directory, or that died: it never outlives the orderly release of its
\* owner, so NewSourceManager's "already locked by this process" is not met.
LockHasReason ==
  lock \in alive => stage[lock] \in {"stat"} \cup Using

\* A process loses the lock file it relies on only to the two removals by name:
\* the stale clean-up of TryLock and the second removal in Release.
LostOnlyByRemoval ==
  [][\A p \in Proc :
       (lock = p /\ stage[p] \in Using /\ lock' # p)
         => \/ stage[p] = "unlock" /\ stage'[p] # "unlock"
            \/ \E q \in Proc \ {p} : stage[q] \in {"clean", "remove"} /\ stage'[q] # stage[q]]_clVars

\* A dead owner does not block the cache directory for ever: every process
\* that wants the lock gets it, gives up with an error, or dies.
EventuallyDecided ==
  \A p \in Proc : stage[p] = "link" ~> stage[p] \in Using \cup {"failed", "dead"}

=============================================================================
