-------------------------------- MODULE Paket -------------------------------
(* The page of laravel-paket (Vue, store.js).  It posts jobs to a server,   *)
(* locks the installer meanwhile and looks every second at how they are;    *)
(* answers to different requests come in any order.  A user who looks at    *)
(* one job is on a page of its own, which asks for that job.                *)
EXTENDS Naturals, FiniteSets

CONSTANTS
    Posts,          \* the clicks on an install button, each of a job
    MaxTroubles     \* bound: reloads, refreshes and failing requests

VARIABLES
    view,           \* what the user does: the buttons of the "list", its
                    \* install "form", or the page of one "job"
    sync,           \* does the server run a job before it answers?
    status,         \* of each job, on the server
    post,           \* the request that posts it
    lock,           \* installerCurrentJob, and isInstallerLocked
    shown,          \* state.jobs
    chain,          \* autoRefreshJobs: a chain of timers for each call
    get,            \* requests for the jobs nobody waits for, and their answers
    typed,          \* the flags typed with the command of each job
    left,           \* the flags in the form's requirement object
    mixed,          \* did the form post flags nobody typed with the command?
    item,           \* the page of a job: what it shows, its requests
    poll,
    troubles, lost

form == <<typed, left, mixed>>
store == <<lock, shown, chain, get>>
page == <<item, poll>>
counts == <<troubles, lost>>
pkVars == <<view, sync, status, post, store, form, page, counts>>

-----------------------------------------------------------------------------
NoJobs == [j \in Posts |-> "none"]
\* "active" is Pending or Running, "over" is Success or Failed
Active(jobs) == \E j \in Posts : jobs[j] = "active"
Flags == SUBSET {"dev", "version"}

Callers == Posts \cup {"created"}           \* who called autoRefreshJobs
Silent == [at |-> "none", jobs |-> NoJobs]
Asked == [at |-> "asked", jobs |-> NoJobs]

Created == [c \in Callers |-> IF c = "created" THEN "timer" ELSE "none"]
ItemPage == [first |-> "asked", next |-> "timer", late |-> "no"]
NoPage == [first |-> "none", next |-> "none", late |-> "yes"]

PkInit ==
    /\ view \in {"list", "form", "job"} /\ sync \in IF view = "list" THEN {"yes", "no"} ELSE {"no"}
    /\ post = NoJobs /\ lock = "free" /\ shown = NoJobs
    /\ IF view = "job" THEN \E j \in Posts : status = [NoJobs EXCEPT ![j] = "active"] ELSE status = NoJobs
    /\ chain = Created /\ get = [c \in Callers |-> Silent]
    /\ typed = [j \in Posts |-> {}] /\ left = {} /\ mixed = "no"
    /\ item = "unknown" /\ poll = IF view = "job" THEN ItemPage ELSE NoPage
    /\ troubles = 0 /\ lost = 0

Trouble == troubles < MaxTroubles /\ troubles' = troubles + 1
Fine == UNCHANGED troubles

-----------------------------------------------------------------------------
(* The server: it refuses a post or runs its job.                           *)

Accept(j) ==
    /\ post[j] = "sent" /\ status[j] = "none"
    /\ IF view = "form" THEN UNCHANGED status ELSE status' = [status EXCEPT ![j] = "active"]
    /\ post' = [post EXCEPT ![j] = IF sync = "yes" /\ view # "form" THEN "sent" ELSE "stored"]
Refuse(j) ==
    /\ post[j] = "sent" /\ status[j] = "none"
    /\ post' = [post EXCEPT ![j] = "refused"] /\ UNCHANGED status
Finish(j) == status[j] = "active" /\ status' = [status EXCEPT ![j] = "over"] /\ UNCHANGED post
Stored(j) ==
    /\ post[j] = "sent" /\ status[j] = "over"
    /\ post' = [post EXCEPT ![j] = "stored"] /\ UNCHANGED status

ServerStep(j) ==
    /\ Accept(j) \/ Refuse(j) \/ Finish(j) \/ Stored(j)
    /\ UNCHANGED <<view, sync, store, form, page, counts>>

Answer(c) ==
    /\ get[c].at = "asked"
    /\ \/ get' = [get EXCEPT ![c] = [at |-> "answered", jobs |-> status]] /\ Fine
       \/ get' = [get EXCEPT ![c] = [at |-> "failed", jobs |-> NoJobs]] /\ Trouble
    /\ UNCHANGED <<view, sync, status, post, lock, shown, chain, form, page, lost>>

-----------------------------------------------------------------------------
(* postJobs, with the button it is called from, and what comes after it.    *)

isDisabled == lock # "free" \/ Active(shown)
UnderWay(j) == post[j] \in {"sent", "stored", "refused"}

postJobs(j) ==
    /\ post[j] = "none" /\ post' = [post EXCEPT ![j] = "sent"] /\ lock' = j
    /\ UNCHANGED <<view, sync, status, shown, chain, get, page, counts>>

Install(j) == view = "list" /\ ~isDisabled /\ postJobs(j) /\ UNCHANGED form

\* The input is read-only while the button is disabled, but Enter posts what
\* it holds; parseCommand adds to the form's requirement object.
InstallForm(j, flags) ==
    /\ view = "form" /\ postJobs(j) /\ typed' = [typed EXCEPT ![j] = flags]
    /\ isDisabled => \E k \in Posts : UnderWay(k) /\ typed[k] = flags
    /\ left' = left \cup flags
    /\ mixed' = IF left' # flags /\ ~\E k \in Posts : UnderWay(k) THEN "yes" ELSE mixed

\* Mutant: the flag works, and one chain serves all views.
AutoRefreshOnce(c) ==
    IF \E d \in Callers : chain[d] # "none" THEN [chain EXCEPT ![c] = "none"] ELSE [chain EXCEPT ![c] = "timer"]

\* The context an action gets is made for the call: the flag set on it, which
\* is to keep a second chain from starting, is never seen again.
autoRefreshJobs(c) == [chain EXCEPT ![c] = "timer"]

forgetInput == {}

PostEnds(j) ==
    /\ post[j] \in {"stored", "refused"} /\ post' = [post EXCEPT ![j] = "done"]
    /\ lock' = IF post[j] = "stored" THEN j ELSE "free"
    /\ get' = IF view = "form" THEN get ELSE [get EXCEPT ![j] = Asked]
    /\ chain' = autoRefreshJobs(j)
    /\ left' = IF view = "form" THEN forgetInput ELSE left
    /\ UNCHANGED <<view, sync, status, shown, typed, mixed, page, counts>>

-----------------------------------------------------------------------------
(* autoRefreshJobs and collectJobs.                                         *)

TimerFires(c) ==
    /\ view = "list" /\ chain[c] = "timer" /\ chain' = [chain EXCEPT ![c] = "jobs"]
    /\ UNCHANGED <<view, sync, status, post, lock, shown, get, form, page, counts>>

\* The chain goes on as long as an active job is shown.
JobsArrive(c) ==
    /\ chain[c] = "jobs"
    /\ \/ shown' = status /\ Fine
       \/ shown' = shown /\ Trouble
    /\ chain' = IF Active(shown') THEN autoRefreshJobs(c) ELSE [chain EXCEPT ![c] = "requirements"]
    /\ UNCHANGED <<view, sync, status, post, lock, get, form, page, lost>>

\* The last thing a chain does is to unlock the installer, unless the
\* requirements cannot be had.
RequirementsArrive(c) ==
    /\ chain[c] = "requirements" /\ chain' = [chain EXCEPT ![c] = "none"]
    /\ \/ lock' = "free" /\ Fine /\ UNCHANGED lost
       \/ Trouble /\ lost' = lost + 1 /\ UNCHANGED lock
    /\ UNCHANGED <<view, sync, status, post, shown, get, form, page>>

JobsCollected(c) ==
    /\ get[c].at \in {"answered", "failed"}
    /\ shown' = IF get[c].at = "answered" THEN get[c].jobs ELSE shown
    /\ get' = [get EXCEPT ![c] = Silent]
    /\ UNCHANGED <<view, sync, status, post, lock, chain, form, page, counts>>

\* The menu's button, and the screen with the jobs, ask for them too.
Refetch ==
    /\ view = "list" /\ get["created"] = Silent /\ Trouble
    /\ get' = [get EXCEPT !["created"] = Asked]
    /\ UNCHANGED <<view, sync, status, post, lock, shown, chain, form, page, lost>>

Reload ==
    /\ view = "list" /\ Trouble
    /\ lock' = "free" /\ shown' = NoJobs /\ get' = [c \in Callers |-> Silent] /\ chain' = Created
    /\ post' = [j \in Posts |-> IF post[j] = "none" THEN "none" ELSE "done"]
    /\ UNCHANGED <<view, sync, status, form, page, lost>>

-----------------------------------------------------------------------------
(* The page of a job asks for it at once and again every second while it is *)
(* active; one that is not there yet after a second is not asked for again. *)

Elsewhere == <<view, sync, status, post, store, form, lost>>
OnServer == IF \E j \in Posts : status[j] # "none" THEN status[CHOOSE j \in Posts : status[j] # "none"] ELSE item
itemActive == item = "active"

FirstArrives ==
    /\ poll.first = "asked" /\ UNCHANGED Elsewhere
    /\ \/ Fine /\ item' = OnServer /\ poll' = [poll EXCEPT !.first = "none"]
       \/ Trouble /\ item' = item /\ poll' = [poll EXCEPT !.first = "none", !.late = "yes"]

ItemTimer ==
    /\ poll.next = "timer" /\ UNCHANGED <<Elsewhere, item, troubles>>
    /\ poll' = [poll EXCEPT !.next = IF itemActive THEN "asked" ELSE "none",
                            !.late = IF item = "unknown" THEN "yes" ELSE @]

Again(answered) == "timer"
ItemArrives ==
    /\ poll.next = "asked" /\ UNCHANGED Elsewhere
    /\ \/ Fine /\ item' = OnServer /\ poll' = [poll EXCEPT !.next = Again(TRUE)]
       \/ Trouble /\ item' = item /\ poll' = [poll EXCEPT !.next = Again(FALSE)]

Leave ==
    /\ view = "job" /\ item' = "unknown" /\ poll' = NoPage
    /\ UNCHANGED <<Elsewhere, troubles>>

-----------------------------------------------------------------------------
PkNext ==
    \/ \E j \in Posts : ServerStep(j) \/ Install(j) \/ PostEnds(j)
    \/ \E j \in Posts, flags \in Flags : InstallForm(j, flags)
    \/ \E c \in Callers : Answer(c) \/ TimerFires(c) \/ JobsArrive(c) \/ RequirementsArrive(c) \/ JobsCollected(c)
    \/ Refetch \/ Reload
    \/ FirstArrives \/ ItemTimer \/ ItemArrives \/ Leave

\* Timers fire, requests are answered, and the server goes on with its jobs.
PkFairness ==
    /\ \A j \in Posts : WF_pkVars(ServerStep(j)) /\ WF_pkVars(PostEnds(j))
    /\ \A c \in Callers : WF_pkVars(TimerFires(c)) /\ WF_pkVars(JobsArrive(c)) /\ WF_pkVars(RequirementsArrive(c))
PkSpec == PkInit /\ [][PkNext]_pkVars /\ PkFairness

-----------------------------------------------------------------------------
\* The installer is never locked with nobody left to unlock it: a job is
\* being posted or a chain looks at the jobs, unless one was lost with a
\* request that failed.
LockIsWatched ==
    lock # "free" /\ lost = 0 =>
       (\E j \in Posts : UnderWay(j)) \/ (\E c \in Callers : chain[c] # "none")

\* A locked installer is unlocked, unless a chain was lost.
Unlocks == (view = "list" /\ lock # "free") ~> (lock = "free" \/ lost > 0)

\* The form posts the flags typed with the command, unless the command
\* before it is still being posted.
SendsWhatIsTyped == mixed = "no"

\* The page of an active job goes on asking for it, unless the first answer
\* failed or took more than a second.
PageFollows == itemActive /\ poll.late = "no" => poll.next # "none"

\* What the form and the page of a job do is what the user means.
ClientTrue == SendsWhatIsTyped /\ PageFollows
=============================================================================
