---------------------------- MODULE StatWatcher ----------------------------
(* watchFile and unwatchFile of the file system library: one                *)
(* CustomStatWatcher polls a path for all its listeners.  Each listener     *)
(* brings an interval of its own; the stats compared with are shared.       *)
EXTENDS Naturals, Sequences, FiniteSets

CONSTANTS
    Listeners,
    Stats,                 \* what stat() can answer, "missing" among it
    MaxWatchers, MaxIntervals, MaxChanges   \* bounds

VARIABLES
    file,       \* the stats of the file now
    changes,    \* how often it changed
    watchers,   \* the CustomStatWatcher objects, in order of creation
    current,    \* the one statWatchers holds for the path, or 0
    intervals,  \* timers that run: id -> watcher that polls
    count,      \* how many intervals were made
    lastTold,       \* the stats each listener was last told of, or "nothing"
    twice       \* history: a listener was registered twice at one watcher

swVars == <<file, changes, watchers, current, intervals, count, lastTold, twice>>

SwInit ==
    /\ file \in Stats /\ changes = 0
    /\ watchers = << >> /\ current = 0
    /\ intervals = << >> /\ count = 0
    /\ lastTold = [l \in Listeners |-> "nothing"]
    /\ twice = "no"

\* The constructor takes the first stats; start() sets a short timer.
NewWatcher == [status |-> "running", last |-> file, startTimeout |-> "set",
               added |-> [l \in Listeners |-> 0],          \* the EventEmitter's
               interval |-> [l \in Listeners |-> 0]]       \* changeListeners
Registered(w) == {l \in Listeners : watchers[w].interval[l] # 0}

\* registerChangeListener: addListener, and an interval under the listener
Register(w, l) ==
    [w EXCEPT !.added[l] = @ + 1, !.interval[l] = count + 1]

watchFile(l) ==
    LET new == current = 0
        w == IF new THEN Len(watchers) + 1 ELSE current
    IN /\ count < MaxIntervals /\ w <= MaxWatchers
       /\ watchers' = IF new THEN Append(watchers, Register(NewWatcher, l))
                      ELSE [watchers EXCEPT ![w] = Register(@, l)]
       /\ current' = w
       /\ count' = count + 1
       /\ intervals' = [i \in DOMAIN intervals \cup {count + 1} |->
                          IF i = count + 1 THEN w ELSE intervals[i]]
       /\ lastTold' = [lastTold EXCEPT ![l] = "nothing"]
       /\ twice' = IF ~new /\ l \in Registered(w) THEN "yes" ELSE twice
       /\ UNCHANGED <<file, changes>>

\* unregisterChangeListener for each of gone, whose intervals are cleared;
\* a watcher that has none left is stopped and forgotten.
Unregister(gone) ==
    LET w == watchers[current]
        left == Registered(current) \ gone
        rest == [w EXCEPT
            !.added = [l \in Listeners |-> IF l \in gone /\ @[l] > 0 THEN @[l] - 1 ELSE @[l]],
            !.interval = [l \in Listeners |-> IF l \in gone THEN 0 ELSE @[l]]]
    IN /\ intervals' = [i \in DOMAIN intervals \ {w.interval[l] : l \in gone} |-> intervals[i]]
       /\ IF left = {}
          THEN /\ watchers' = [watchers EXCEPT ![current] =
                     [rest EXCEPT !.status = "stopped", !.startTimeout = "none"]]
               /\ current' = 0
          ELSE watchers' = [watchers EXCEPT ![current] = rest] /\ UNCHANGED current
       /\ UNCHANGED <<file, changes, count, lastTold, twice>>

\* emit(Event.Change)
Tell(w, now) == [l \in Listeners |-> IF watchers[w].added[l] > 0 THEN now ELSE lastTold[l]]

unwatchFile(l) == current # 0 /\ Unregister({l})

\* without a listener, and for every path when a file system is closed
unwatchAllFiles == current # 0 /\ Unregister(Registered(current))

\* Mutant: only the listener of the interval is told.
PollOwner(i) ==
    LET w == intervals[i]
    IN /\ file # watchers[w].last
       /\ watchers' = [watchers EXCEPT ![w].last = file]
       /\ lastTold' = [l \in Listeners |-> IF watchers[w].interval[l] = i THEN file ELSE lastTold[l]]
       /\ UNCHANGED <<file, changes, current, intervals, count, twice>>

\* An interval compares and, when areStatsEqual says no, tells everybody.
Poll(i) ==
    LET w == intervals[i]
    IN /\ file # watchers[w].last
       /\ watchers' = [watchers EXCEPT ![w].last = file]
       /\ lastTold' = Tell(w, file)
       /\ UNCHANGED <<file, changes, current, intervals, count, twice>>

\* A file that is missing when the short timer fires is reported once.
StartTimeout(w) ==
    /\ watchers[w].startTimeout = "set"
    /\ watchers' = [watchers EXCEPT ![w].startTimeout = "none"]
    /\ lastTold' = IF file = "missing" THEN Tell(w, watchers[w].last) ELSE lastTold
    /\ UNCHANGED <<file, changes, current, intervals, count, twice>>

ChangeFile(s) ==
    /\ changes < MaxChanges /\ s # file
    /\ file' = s /\ changes' = changes + 1
    /\ UNCHANGED <<watchers, current, intervals, count, lastTold, twice>>

Polls == \E i \in DOMAIN intervals : Poll(i)
SwNext ==
    \/ \E l \in Listeners : watchFile(l) \/ unwatchFile(l)
    \/ unwatchAllFiles \/ Polls
    \/ \E w \in DOMAIN watchers : StartTimeout(w)
    \/ \E s \in Stats : ChangeFile(s)

\* Intervals fire.
SwSpec == SwInit /\ [][SwNext]_swVars /\ WF_swVars(Polls)

-----------------------------------------------------------------------------

\* Though every listener polls at its own pace and the last stats are
\* shared, no poll takes a change away from another listener: a change that
\* lasts is told to everybody who listens.
Listens(l, w) == current = w /\ w # 0 /\ l \in Registered(w)
ChangeIsTold ==
    \A l \in Listeners, w \in 1..MaxWatchers, s \in Stats :
        Listens(l, w) /\ file = s /\ watchers[w].last # s
            ~> lastTold[l] = s \/ file # s \/ ~Listens(l, w)

\* "Unregisters all listeners and clears all assigned intervals": what is
\* running was assigned to a listener that is still registered, once the
\* listeners that were registered twice are left out.
NoStrayInterval ==
    twice = "no" =>
        /\ \A i \in DOMAIN intervals :
              /\ intervals[i] = current
              /\ \E l \in Listeners : watchers[current].interval[l] = i
        /\ \A w \in DOMAIN watchers : w # current => watchers[w].status = "stopped"
=============================================================================
