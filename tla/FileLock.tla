------------------------------ MODULE FileLock -----------------------------
(* FakeFS.lockPromise: a lock file, taken by creating it, that several      *)
(* processes compete for.  A process that finds it looks inside for the     *)
(* owner's pid and removes the file when the owner seems to be dead.        *)
EXTENDS Naturals

CONSTANTS Procs, NoProc
ASSUME NoneIsNoProc == NoProc \notin Procs

VARIABLES
    pc,       \* where each process is in lockPromise
    alive,    \* "yes" until the process dies
    owner,    \* creator of the file at lockPath, or NoProc
    written,  \* "yes" when that file holds its creator's pid
    seen,     \* creator of the file a process judged dead
    clock,    \* time since a process began: "start", "late" (over half a
              \* second) or "over" (over a minute)
    stolen    \* history: a lock file was removed as stale

flVars == <<pc, alive, owner, written, seen, clock, stolen>>

Goto(p, l) == pc' = [pc EXCEPT ![p] = l]
Runs(p, l) == alive[p] = "yes" /\ pc[p] = l

FlInit ==
    /\ pc = [p \in Procs |-> "open"] /\ alive = [p \in Procs |-> "yes"]
    /\ owner = NoProc /\ written = "no"
    /\ seen = [p \in Procs |-> NoProc]
    /\ clock = [p \in Procs |-> "start"]
    /\ stolen = "no"

\* Mutant: the file is opened with w, not wx.
CreateTruncating(p) ==
    /\ Runs(p, "open") /\ owner' = p /\ written' = "no" /\ Goto(p, "write")
    /\ UNCHANGED <<alive, seen, clock, stolen>>

\* openPromise(lockPath, "wx") creates the file or fails with EEXIST.
Create(p) ==
    /\ Runs(p, "open") /\ owner = NoProc
    /\ owner' = p /\ written' = "no" /\ Goto(p, "write")
    /\ UNCHANGED <<alive, seen, clock, stolen>>

LockExists(p) ==
    /\ Runs(p, "open") /\ owner # NoProc /\ Goto(p, "check")
    /\ UNCHANGED <<alive, owner, written, seen, clock, stolen>>

\* isAlive: the pid inside is asked for; a file that cannot be read, or is
\* not there any more, passes for alive during the first half second.
Unreadable == owner = NoProc \/ written = "no"
Dead(p) == IF Unreadable THEN clock[p] # "start" ELSE alive[owner] = "no"

CheckAlive(p) ==
    /\ Runs(p, "check") /\ ~Dead(p) /\ Goto(p, "wait")
    /\ UNCHANGED <<alive, owner, written, seen, clock, stolen>>

CheckDead(p) ==
    /\ Runs(p, "check") /\ Dead(p) /\ Goto(p, "unlink")
    /\ seen' = [seen EXCEPT ![p] = owner]
    /\ UNCHANGED <<alive, owner, written, clock, stolen>>

\* The stale file is removed, whichever file is at lockPath by now, and the
\* loop goes on at once; it waits when there is nothing to remove.
UnlinkStale(p) ==
    /\ Runs(p, "unlink")
    /\ IF owner = NoProc
       THEN Goto(p, "wait") /\ UNCHANGED <<owner, written, stolen>>
       ELSE /\ owner' = NoProc /\ written' = "no" /\ stolen' = "yes" /\ Goto(p, "open")
    /\ seen' = [seen EXCEPT ![p] = NoProc]
    /\ UNCHANGED <<alive, clock>>

\* A sixtieth of a second, or an error when a minute has passed.
Wait(p) ==
    /\ Runs(p, "wait")
    /\ Goto(p, IF clock[p] = "over" THEN "failed" ELSE "open")
    /\ UNCHANGED <<alive, owner, written, seen, clock, stolen>>

\* The pid goes into the file that was created, should it still be there.
WritePid(p) ==
    /\ Runs(p, "write") /\ Goto(p, "callback")
    /\ written' = IF owner = p THEN "yes" ELSE written
    /\ UNCHANGED <<alive, owner, seen, clock, stolen>>

\* callback() returns or throws; the file is closed, then removed.
Leave(p) ==
    /\ Runs(p, "callback") /\ Goto(p, "close")
    /\ UNCHANGED <<alive, owner, written, seen, clock, stolen>>

CloseLock(p) ==
    /\ Runs(p, "close") /\ Goto(p, "remove")
    /\ UNCHANGED <<alive, owner, written, seen, clock, stolen>>

RemoveLock(p) ==
    /\ Runs(p, "remove") /\ Goto(p, "done")
    /\ owner' = NoProc /\ written' = "no"
    /\ UNCHANGED <<alive, seen, clock, stolen>>

Die(p) ==
    /\ alive[p] = "yes" /\ pc[p] \notin {"done", "failed"}
    /\ alive' = [alive EXCEPT ![p] = "no"]
    /\ UNCHANGED <<pc, owner, written, seen, clock, stolen>>

Tick(p) ==
    /\ pc[p] \in {"open", "check", "unlink", "wait"} /\ clock[p] # "over"
    /\ clock' = [clock EXCEPT ![p] = IF @ = "start" THEN "late" ELSE "over"]
    /\ UNCHANGED <<pc, alive, owner, written, seen, stolen>>

Loop(p) ==
    \/ Create(p) \/ LockExists(p) \/ CheckAlive(p) \/ CheckDead(p) \/ UnlinkStale(p) \/ Wait(p)
HoldLock(p) == WritePid(p) \/ Leave(p) \/ CloseLock(p) \/ RemoveLock(p)

FlNext == \E p \in Procs : Loop(p) \/ HoldLock(p) \/ Die(p) \/ Tick(p)

\* The loop goes on and time passes; nothing says that a callback ends.
FlFairness == \A p \in Procs : WF_flVars(Loop(p)) /\ WF_flVars(Tick(p))
FlSpec == FlInit /\ [][FlNext]_flVars
FlFairSpec == FlSpec /\ FlFairness

-----------------------------------------------------------------------------
\* Every variable stays in its domain.
FlTypeOK ==
    /\ pc \in [Procs -> {"open", "check", "unlink", "wait", "write", "callback",
                         "close", "remove", "done", "failed"}]
    /\ alive \in [Procs -> {"yes", "no"}]
    /\ owner \in Procs \cup {NoProc} /\ written \in {"yes", "no"}
    /\ seen \in [Procs -> Procs \cup {NoProc}]
    /\ clock \in [Procs -> {"start", "late", "over"}]
    /\ stolen \in {"yes", "no"}

\* Two processes are in their callbacks at once only after a lock file was
\* taken for stale: creating, closing and removing the file in this order
\* is enough by itself, whoever dies and whoever gives up.
OneHolder ==
    stolen = "no" =>
        \A p, q \in Procs :
            Runs(p, "callback") /\ Runs(q, "callback") => p = q

\* A process that is alive does not stay in the loop for ever: it gets the
\* lock, or gives up after a minute, even when a callback never ends.
LoopEnds ==
    \A p \in Procs :
        pc[p] = "open" ~> (alive[p] = "no" \/ pc[p] \in {"write", "callback", "failed"})
=============================================================================
