------------------------------ MODULE TempDirs -----------------------------
(* The temporary directories of xfs: mktempPromise and mktempSync make and  *)
(* register them, a callback's directory is removed when the callback ends, *)
(* the others by rmtempPromise or when the process exits.                   *)
EXTENDS FiniteSets

CONSTANTS Users, TempNames

VARIABLES
    linked,     \* "yes" when the host's tmpdir is reached through a link
    made,       \* the directories on the disk
    tmpdirs,    \* the real paths registered for removal
    user,       \* each caller of mktemp: where it is and its directory
    doomed,     \* the copy of tmpdirs a running rmtempPromise works from
    detached,   \* history: directories whose owners detached them
    stuck,      \* history: directories that could not be removed
    process     \* "runs" or "exited"

tdVars == <<linked, made, tmpdirs, user, doomed, detached, stuck, process>>

NoDir == <<"none">>
Linked(n) == <<"linked", n>>
Real(n) == IF linked = "yes" THEN <<"real", n>> ELSE Linked(n)
Goes(u, pc) == user' = [user EXCEPT ![u].pc = pc]
At(u, pc) == process = "runs" /\ user[u].pc = pc
Dir(u) == user[u].dir

TdInit ==
    /\ linked \in {"yes", "no"} /\ made = {} /\ tmpdirs = {} /\ doomed = {}
    /\ user = [u \in Users |-> [pc |-> "start", dir |-> NoDir, path |-> NoDir]]
    /\ detached = {} /\ stuck = {} /\ process = "runs"

Fresh(n) == n \notin made /\ \A u \in Users : Dir(u) # n

\* A name that exists already is EEXIST, and another one is tried.  (Names are
\* drawn from 2^32: one whose directory is gone is not drawn again.)
Mkdir(u, n) ==
    /\ Fresh(n) /\ At(u, "start") /\ made' = made \cup {n}
    /\ user' = [user EXCEPT ![u] = [pc |-> "made", dir |-> n, path |-> Linked(n)]]
    /\ UNCHANGED <<linked, tmpdirs, doomed, detached, stuck, process>>

\* Only when the real path is known is the directory registered; the caller
\* is given the real path and goes on with a callback or without.
MktempPromise(u) ==
    /\ At(u, "made") /\ tmpdirs' = tmpdirs \cup {Real(Dir(u))}
    /\ \E pc \in {"callback", "returned"} :
          user' = [user EXCEPT ![u].pc = pc, ![u].path = Real(Dir(u))]
    /\ UNCHANGED <<linked, made, doomed, detached, stuck, process>>

\* In one step; without a callback it returns the path as it was made up.
MktempSync(u, n) ==
    /\ At(u, "start") /\ Fresh(n) /\ made' = made \cup {n}
    /\ tmpdirs' = tmpdirs \cup {Real(n)}
    /\ user' = [user EXCEPT ![u] = [pc |-> "returned", dir |-> n, path |-> Linked(n)]]
    /\ UNCHANGED <<linked, doomed, detached, stuck, process>>

\* finally: what is still registered is taken out first and then removed.
CallbackEnds(u) ==
    /\ At(u, "callback")
    /\ Goes(u, IF Real(Dir(u)) \in tmpdirs THEN "removing" ELSE "done")
    /\ tmpdirs' = tmpdirs \ {Real(Dir(u))}
    /\ UNCHANGED <<linked, made, doomed, detached, stuck, process>>

\* Errors are ignored.
RemoveOwn(u) ==
    /\ At(u, "removing") /\ Goes(u, "done")
    /\ \/ made' = made \ {Dir(u)} /\ UNCHANGED stuck
       \/ stuck' = stuck \cup {Dir(u)} /\ UNCHANGED made
    /\ UNCHANGED <<linked, tmpdirs, doomed, detached, process>>

\* (While rmtempPromise runs it is too late, and nobody calls it.)
detachTemp(u) ==
    /\ process = "runs" /\ user[u].pc \in {"returned", "callback"}
    /\ Dir(u) \in made \ detached /\ doomed = {}
    /\ tmpdirs' = tmpdirs \ {user[u].path} /\ detached' = detached \cup {Dir(u)}
    /\ UNCHANGED <<linked, made, user, doomed, stuck, process>>

\* rmtempPromise: all of them at once, each unregistered when it is removed.
\* A directory that is busy is left without an error and unregistered too.
RmtempPromise ==
    /\ process = "runs" /\ doomed = {} /\ tmpdirs # {} /\ doomed' = tmpdirs
    /\ UNCHANGED <<linked, made, tmpdirs, user, detached, stuck, process>>

\* Mutant: what was removed stays registered.
RmtempKeeping(n) ==
    /\ process = "runs" /\ Real(n) \in doomed /\ doomed' = doomed \ {Real(n)}
    /\ tmpdirs' = tmpdirs \ {Real(n)} /\ UNCHANGED <<made, stuck>>
    /\ UNCHANGED <<linked, user, detached, process>>

RmtempOne(n) ==
    /\ process = "runs" /\ Real(n) \in doomed /\ doomed' = doomed \ {Real(n)}
    /\ \/ made' = made \ {n} /\ tmpdirs' = tmpdirs \ {Real(n)} /\ UNCHANGED stuck
       \/ /\ stuck' = stuck \cup {n} /\ UNCHANGED made
          /\ tmpdirs' \in {tmpdirs, tmpdirs \ {Real(n)}}
    /\ UNCHANGED <<linked, user, detached, process>>

\* rmtempSync when the process exits
Exit ==
    /\ process = "runs" /\ process' = "exited"
    /\ \E fails \in SUBSET {n \in made : Real(n) \in tmpdirs} :
          /\ made' = {n \in made : Real(n) \in tmpdirs => n \in fails}
          /\ tmpdirs' = {Real(n) : n \in fails} /\ stuck' = stuck \cup fails
    /\ UNCHANGED <<linked, user, doomed, detached>>

TdNext ==
    \/ \E u \in Users :
          \/ \E n \in TempNames : Mkdir(u, n) \/ MktempSync(u, n)
          \/ MktempPromise(u) \/ CallbackEnds(u) \/ RemoveOwn(u) \/ detachTemp(u)
    \/ RmtempPromise \/ Exit
    \/ \E n \in TempNames : RmtempOne(n)

TdSpec == TdInit /\ [][TdNext]_tdVars

-----------------------------------------------------------------------------
\* After the exit no directory is left but those that were detached, those
\* that could not be removed, and those of calls that the exit caught
\* between mkdir and the registration or in the middle of the removal.
TempCleared ==
    process = "exited" =>
        \A n \in made :
            \/ n \in detached \/ n \in stuck
            \/ \E u \in Users : Dir(u) = n /\ user[u].pc \in {"made", "removing"}

\* A directory that was detached is not removed, where tmpdir is no link.
\* (Through a link, mktempSync returns a path that detachTemp does not know.)
DetachedStays ==
    linked = "no" => \A u \in Users : Dir(u) \in detached => Dir(u) \in made

\* What is temporary goes with the process, and what was detached stays.
TempRight == TempCleared /\ DetachedStays
=============================================================================
