------------------------------ MODULE MCFsLib -------------------------------
(* The parts of .pnp.js's file system library that share no state, in one   *)
(* model: a behaviour is of one of them, the others stay where they begin.  *)
EXTENDS FileLock, StatWatcher, FsMove, TempDirs, FileHelpers, ZipPaths

\* The path of ZipPaths.
MCDeepest == <<"y.zip", "d", "z.zip">>

VARIABLE part
McVars == <<part, flVars, swVars, fmVars, tdVars, fhVars, zpVars>>

\* One initial state of each part with several, for when it is idle.
WatcherIdle == file = "missing"
MoveIdle ==
    /\ src = [n \in Node |-> IF n = Top THEN CHOOSE t \in SourceThings : t.kind = "file" ELSE Nothing]
    /\ dst = [n \in Node |-> Nothing]
    /\ opts = [call |-> "move", sync |-> FALSE, overwrite |-> TRUE, stableSort |-> FALSE]
TempIdle == linked = "no"
HelpersIdle == job = "mkdirp" /\ content = Missing
PathsIdle == disk = [p \in Paths |-> "missing"]

McInit ==
    /\ part \in {"lock", "watcher", "move", "temp", "helpers", "paths"}
    /\ part # "watcher" => WatcherIdle
    /\ part # "move" => MoveIdle
    /\ part # "temp" => TempIdle
    /\ part # "helpers" => HelpersIdle
    /\ part # "paths" => PathsIdle
    /\ FlInit /\ SwInit /\ FmInit /\ TdInit /\ FhInit /\ ZpInit

Locker(A) == part = "lock" /\ A /\ UNCHANGED <<part, swVars, fmVars, tdVars, fhVars, zpVars>>
Watcher(A) == part = "watcher" /\ A /\ UNCHANGED <<part, flVars, fmVars, tdVars, fhVars, zpVars>>

McNext ==
    \/ Locker(FlNext)
    \/ Watcher(SwNext)
    \/ part = "move" /\ FmNext /\ UNCHANGED <<part, flVars, swVars, tdVars, fhVars, zpVars>>
    \/ part = "temp" /\ TdNext /\ UNCHANGED <<part, flVars, swVars, fmVars, fhVars, zpVars>>
    \/ part = "helpers" /\ FhNext /\ UNCHANGED <<part, flVars, swVars, fmVars, tdVars, zpVars>>
    \/ part = "paths" /\ ZpNext /\ UNCHANGED <<part, flVars, swVars, fmVars, tdVars, fhVars>>

\* Intervals fire, see StatWatcher; the loop of a lock goes on and time passes,
\* see FileLock.
McSpec ==
    /\ McInit /\ [][McNext]_McVars
    /\ WF_McVars(Watcher(Polls))
    /\ \A p \in Procs : WF_McVars(Locker(Loop(p))) /\ WF_McVars(Locker(Tick(p)))

\* Who waits for a file is served or told: a change reaches every listener, no
\* interval polls for nobody, and a locker gets the lock or gives up.
NobodyForgotten ==
    /\ part = "watcher" => ChangeIsTold /\ []NoStrayInterval
    /\ part = "lock" => LoopEnds
=============================================================================
