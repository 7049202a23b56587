---------------------------- MODULE PaketServer -----------------------------
(* The server of laravel-paket (PHP): jobs that install and remove packages *)
(* are kept in jobs.json, which the requests and the queue worker read and  *)
(* put back whole, each in a process of its own.                            *)
EXTENDS Naturals, FiniteSets

CONSTANTS
    Jobs,           \* the jobs that may be posted in one run
    MaxDeletes      \* bound: jobs taken out of the file

VARIABLES
    queue,          \* the queue driver: "sync" or "worker"
    index,          \* jobs.json: the status of every job in it
    truth,          \* what jobs.json says if no write is lost
    overlap,        \* have two writers overlapped?
    write,          \* for each process, what it is about to put
    run,            \* how far the server is with each job
    deletes

psVars == <<queue, index, truth, overlap, write, run, deletes>>

Absent == [j \in Jobs |-> "none"]
Unwritten == [kind |-> "none", copy |-> Absent]
Writers == Jobs \cup {"delete"}

PsInit ==
    /\ queue \in {"sync", "worker"} /\ index = Absent /\ truth = Absent /\ overlap = "no"
    /\ write = [w \in Writers |-> Unwritten] /\ run = Absent /\ deletes = 0

-----------------------------------------------------------------------------
(* JobFileRepository: every change reads jobs.json and puts it back whole.  *)

\* Mutant: a job that is not there is added.
ChangedOrAdded(jobs, j, status) == [jobs EXCEPT ![j] = status]

changeJobStatus(jobs, j, status) == IF jobs[j] = "none" THEN jobs ELSE [jobs EXCEPT ![j] = status]

Written(kind, jobs, j) ==
    CASE kind = "store" -> [jobs EXCEPT ![j] = "Pending"]
      [] kind = "delete" -> [jobs EXCEPT ![j] = "none"]
      [] kind = "exitCode" -> jobs
      [] OTHER -> changeJobStatus(jobs, j, kind)

\* What a write stands for, whatever the file says (for RecordsTrue).
Meant(kind, j) ==
    IF kind = "exitCode" \/ (kind # "store" /\ truth[j] = "none") THEN truth
    ELSE [truth EXCEPT ![j] = IF kind = "store" THEN "Pending" ELSE IF kind = "delete" THEN "none" ELSE kind]

getIndex(w, kind, j) ==
    /\ write[w].kind = "none"
    /\ write' = [write EXCEPT ![w] = [kind |-> kind, copy |-> Written(kind, index, j)]]
    /\ overlap' = IF \E v \in Writers : write[v].kind # "none" THEN "yes" ELSE overlap
    /\ truth' = Meant(kind, j)
    /\ UNCHANGED <<queue, index>>

putIndex(w) ==
    /\ index' = write[w].copy /\ write' = [write EXCEPT ![w] = Unwritten]
    /\ UNCHANGED <<queue, truth, overlap>>

-----------------------------------------------------------------------------
(* One write of a process takes the job from one point to the next.         *)

Begin(j, at, kind) == run[j] = at /\ getIndex(j, kind, j) /\ UNCHANGED <<run, deletes>>
End(j, at, kind, next) ==
    /\ run[j] = at /\ write[j].kind = kind /\ putIndex(j)
    /\ run' = [run EXCEPT ![j] = next] /\ UNCHANGED deletes

\* PostAction stores the job and tells the queue of it.
PostAction(j) == Begin(j, "none", "store") \/ End(j, "none", "store", "queued")

\* A worker runs one job after the other; the sync driver runs each in the
\* request that posted it.
Taken(j) == queue = "worker" /\ \E k \in Jobs \ {j} :
                run[k] \in {"running", "coding"} \/ write[k].kind = "Running"
RunJob(j) ==
    \/ ~Taken(j) /\ Begin(j, "queued", "Running")
    \/ End(j, "queued", "Running", "running")
    \/ \E s \in {"Success", "Failed"} : Begin(j, "running", s) \/ End(j, "running", s, "coding")
    \/ Begin(j, "coding", "exitCode")
    \/ End(j, "coding", "exitCode", "over")

\* Only JobFailed is caught: a job whose Composer runs into the time limit
\* stays as it is.
ComposerTimesOut(j) ==
    /\ run[j] = "running" /\ write[j].kind = "none" /\ run' = [run EXCEPT ![j] = "dead"]
    /\ UNCHANGED <<queue, index, truth, overlap, write, deletes>>

DeleteAction(j) ==
    /\ index[j] # "none" /\ deletes < MaxDeletes /\ deletes' = deletes + 1
    /\ getIndex("delete", "delete", j) /\ UNCHANGED run
DeleteEnds == write["delete"].kind = "delete" /\ putIndex("delete") /\ UNCHANGED <<run, deletes>>

PsNext == (\E j \in Jobs : PostAction(j) \/ RunJob(j) \/ ComposerTimesOut(j) \/ DeleteAction(j)) \/ DeleteEnds
PsSpec == PsInit /\ [][PsNext]_psVars

-----------------------------------------------------------------------------
\* jobs.json says what happened to the jobs as long as no process had read it
\* while another was about to put it; a job deleted while it runs stays so.
RecordsTrue == overlap = "no" /\ (\A w \in Writers : write[w].kind = "none") => index = truth
=============================================================================
