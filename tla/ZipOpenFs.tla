----------------------------- MODULE ZipOpenFs -----------------------------
(* ZipOpenFS of the Plug'n'Play runtime: a file system in which a path may  *)
(* go through a zip archive.  Opened archives are cached, the least recently*)
(* used first in line to be closed; a call in flight and an open handle     *)
(* keep an archive open.  Archives are read-only here, as the runtime makes *)
(* them, so that closing one cannot fail.                                   *)
EXTENDS Naturals, FiniteSets

CONSTANTS
    Archives,   \* paths of zip archives
    Callers,    \* asynchronous calls
    Insts,      \* bound: ZipFS objects that exist at a time
    Handles,    \* bound: handles open at a time
    MaxOpen,    \* maxOpenFiles
    None        \* no object, no handle, no archive

ASSUME MaxOpenAssumption == MaxOpen \in Nat \ {0}
ASSUME CallersAssumption == IsFiniteSet(Callers) /\ IsFiniteSet(Handles)
ASSUME NoneAssumption == None \notin Insts \cup Handles \cup Archives

VARIABLES
    cached,     \* zipInstances: the objects in the map
    older,      \* its insertion order: <<i, j>> when i comes before j
    arc,        \* archive of each object
    status,     \* "open"; "closed", when still in use; "free", when not
    refs,       \* refCount
    expired,    \* "yes" when Date.now() has passed expiresAt
    handle,     \* entries of every object's fds, and of fdMap
    call,       \* state of each call
    timer,      \* "set" when limitOpenFilesTimeout is
    outer,      \* object a synchronous call on two paths is inside of
    closedAll   \* history: saveAndClose or discardAndClose was called

vars == <<cached, older, arc, status, refs, expired, handle, call, timer, outer, closedAll>>

Shut == [st |-> "none", inst |-> None]
Rest == [pc |-> "idle", op |-> "use", arc |-> None, inst |-> None, h |-> None]

\* Mutant: open handles do not pin.
PinnedByCalls(i) == refs[i] # 0

\* refCount !== 0 || zipFs.hasOpenFileHandles()
Pinned(i) == refs[i] # 0 \/ \E h \in Handles : handle[h].inst = i

CachedFor(a) == {i \in cached : arc[i] = a}

\* An object nothing refers to any more; a new ZIP() takes one of them.
Unused(i) ==
    /\ i \notin cached
    /\ \A c \in Callers : call[c].inst # i
    /\ \A h \in Handles : handle[h].inst # i

\* limitOpenFiles(max) goes through the map in order, closing what is not
\* pinned, and stops at the first object that is neither expired nor in
\* excess.  M is the map; null for max is its size: nothing in excess.
Before(M, j) == {i \in M : ~Pinned(i) /\ <<i, j>> \in older}
Stops(M, max, j) ==
    /\ j \in M /\ ~Pinned(j) /\ expired[j] = "no"
    /\ Cardinality(M) <= max + Cardinality(Before(M, j))
ToClose(M, max) ==
    {i \in M : /\ ~Pinned(i) /\ ~Stops(M, max, i)
               /\ \A j \in M : <<j, i>> \in older => ~Stops(M, max, j)}

\* Closed objects that nothing uses are garbage.
Close(C) == [i \in Insts |-> IF i \notin C THEN status[i]
                             ELSE IF Pinned(i) THEN "closed" ELSE "free"]
Without(f, C, x) == [i \in Insts |-> IF i \in C THEN x ELSE f[i]]

\* The end of getZipPromise and getZipSync: object i of archive a is taken
\* out of the map, the others are limited to one less than maxOpenFiles,
\* and it is put back last, with a new expiry.  The timer is set.
Touch(i, a, C) ==
    LET rest == (cached \ {i}) \ C
    IN /\ cached' = rest \cup {i}
       /\ older' = {x \in older : x[1] \in rest /\ x[2] \in rest} \cup (rest \X {i})
       /\ arc' = [Without(arc, C, None) EXCEPT ![i] = a]
       /\ status' = [Close(C) EXCEPT ![i] = "open"]
       /\ expired' = [Without(expired, C, "no") EXCEPT ![i] = "no"]
       /\ timer' = "set"

\* Mutant: one too many is kept.
ExcessOfAll(i) == ToClose(cached \ {i}, MaxOpen)

Excess(i) == ToClose(cached \ {i}, MaxOpen - 1)

\* The cached object, or a new one.
Instance(i, a) ==
    IF CachedFor(a) # {} THEN i \in CachedFor(a)
    ELSE Unused(i) /\ i = CHOOSE j \in Insts : Unused(j)

\* openPromise closes the file system last: no call is made after that.
InUse == closedAll = "no"

-----------------------------------------------------------------------------
Init ==
    /\ cached = {} /\ older = {}
    /\ arc = [i \in Insts |-> None]
    /\ status = [i \in Insts |-> "free"]
    /\ refs = [i \in Insts |-> 0]
    /\ expired = [i \in Insts |-> "no"]
    /\ handle = [h \in Handles |-> Shut]
    /\ call = [c \in Callers |-> Rest]
    /\ timer = "none" /\ outer = None /\ closedAll = "no"

\* makeCallPromise, getZipPromise: an archive that is not cached is stated
\* first, which takes a while.
Begin(c, op, a) ==
    /\ InUse /\ call[c].pc = "idle" /\ CachedFor(a) = {}
    /\ call' = [call EXCEPT ![c] = [pc |-> "stat", op |-> op, arc |-> a,
                                     inst |-> None, h |-> None]]
    /\ UNCHANGED <<cached, older, arc, status, refs, expired, handle, timer, closedAll>>

\* refCount is raised and accept called: opening a file or a directory
\* takes a handle of the ZipFS at once.
Enter(c, op, a, i) ==
    /\ Instance(i, a)
    /\ Touch(i, a, Excess(i))
    /\ refs' = [refs EXCEPT ![i] = (IF CachedFor(a) = {} THEN 0 ELSE @) + 1]
    /\ IF op = "use"
       THEN /\ call' = [call EXCEPT ![c] = [pc |-> "accept", op |-> op, arc |-> a,
                                              inst |-> i, h |-> None]]
            /\ UNCHANGED handle
       ELSE \E h \in Handles :
              /\ handle[h] = Shut
              /\ handle' = [handle EXCEPT ![h] = [st |-> "fresh", inst |-> i]]
              /\ call' = [call EXCEPT ![c] = [pc |-> "accept", op |-> op, arc |-> a,
                                              inst |-> i, h |-> h]]
    /\ UNCHANGED closedAll

BeginCached(c, op, a) ==
    /\ InUse /\ call[c].pc = "idle" /\ CachedFor(a) # {}
    /\ \E i \in Insts : Enter(c, op, a, i)

\* Mutant: the map is not looked at again.
AfterStatNoRecheck(c) ==
    /\ call[c].pc = "stat"
    /\ \E i \in Insts :
         /\ Unused(i) /\ Touch(i, call[c].arc, Excess(i))
         /\ refs' = [refs EXCEPT ![i] = 1]
         /\ call' = [call EXCEPT ![c].pc = "accept", ![c].inst = i]
    /\ UNCHANGED <<handle, closedAll>>

\* After the await the map is looked at again.
AfterStat(c) ==
    /\ call[c].pc = "stat"
    /\ \E i \in Insts : Enter(c, call[c].op, call[c].arc, i)

StatFails(c) ==
    /\ call[c].pc = "stat"
    /\ call' = [call EXCEPT ![c] = Rest]
    /\ UNCHANGED <<cached, older, arc, status, refs, expired, handle, timer, closedAll>>

\* accept settles and the finally block lowers refCount; openPromise has
\* registered the handle under a descriptor of its own (remapFd), opendir
\* has given it to a CustomDir.
Finish(c) ==
    LET k == call[c]
    IN /\ k.pc = "accept"
       /\ refs' = [refs EXCEPT ![k.inst] = @ - 1]
       /\ call' = [call EXCEPT ![c] = Rest]
       /\ handle' = IF k.h = None THEN handle
                    ELSE [handle EXCEPT ![k.h].st = "open"]
       /\ UNCHANGED <<cached, older, arc, status, expired, timer, closedAll>>

\* makeCallSync, getZipSync: no other call sees the archive in use, and
\* refCount is left alone.  A stream or an opened directory takes a handle
\* as an opened file does.
SyncUse(a) ==
    /\ InUse
    /\ \E i \in Insts : Instance(i, a) /\ Touch(i, a, Excess(i))
                        /\ refs' = IF CachedFor(a) = {} THEN [refs EXCEPT ![i] = 0] ELSE refs
    /\ UNCHANGED <<handle, call, closedAll>>

SyncOpen(a) ==
    \E i \in Insts, h \in Handles :
        /\ InUse /\ Instance(i, a) /\ Touch(i, a, Excess(i))
        /\ refs' = IF CachedFor(a) = {} THEN [refs EXCEPT ![i] = 0] ELSE refs
        /\ handle[h] = Shut
        /\ handle' = [handle EXCEPT ![h] = [st |-> "open", inst |-> i]]
        /\ UNCHANGED <<call, closedAll>>

\* copyFileSync and renameSync on two archives: the second getZipSync runs
\* inside the accept of the first, which holds no reference.
SyncOuter(a) ==
    /\ SyncUse(a)
    /\ \E i \in Insts : i \in cached' /\ arc'[i] = a /\ outer' = i

SyncInner(a) ==
    /\ outer # None
    /\ \E i \in Insts : Instance(i, a) /\ Touch(i, a, Excess(i))
                        /\ refs' = IF CachedFor(a) = {} THEN [refs EXCEPT ![i] = 0] ELSE refs
    /\ outer' = None
    /\ UNCHANGED <<handle, call, closedAll>>

\* readSync, readPromise: through fdMap, EBADF when it has no such entry;
\* they change nothing here.  closeSync and closePromise drop both entries,
\* and so do the end of a stream and the closing of a directory.
CloseHandle(h) ==
    /\ handle[h].st = "open"
    /\ handle' = [handle EXCEPT ![h] = Shut]
    /\ UNCHANGED <<cached, older, arc, status, refs, expired, call, timer, closedAll>>

\* Time passes: what was touched first expires first.
Expire(i) ==
    /\ i \in cached /\ expired[i] = "no"
    /\ \A j \in cached : <<j, i>> \in older => expired[j] = "yes"
    /\ expired' = [expired EXCEPT ![i] = "yes"]
    /\ UNCHANGED <<cached, older, arc, status, refs, handle, call, timer, closedAll>>

\* Mutant: nothing is closed.
TimerFiresIdly ==
    LET C == {}
    IN /\ timer = "set"
       /\ cached' = cached \ C
       /\ older' = {x \in older : x[1] \notin C /\ x[2] \notin C}
       /\ status' = Close(C)
       /\ arc' = Without(arc, C, None) /\ expired' = Without(expired, C, "no")
       /\ timer' = IF cached \ C = {} THEN "none" ELSE "set"
       /\ UNCHANGED <<refs, handle, call, closedAll>>

\* The timeout of limitOpenFiles: limitOpenFiles(null), which sets it again
\* while something is cached.
TimerFires ==
    LET C == ToClose(cached, Cardinality(cached))
    IN /\ timer = "set"
       /\ cached' = cached \ C
       /\ older' = {x \in older : x[1] \notin C /\ x[2] \notin C}
       /\ status' = Close(C)
       /\ arc' = Without(arc, C, None) /\ expired' = Without(expired, C, "no")
       /\ timer' = IF cached \ C = {} THEN "none" ELSE "set"
       /\ UNCHANGED <<refs, handle, call, closedAll>>

\* saveAndClose and discardAndClose close everything, used or not.
CloseAll ==
    /\ cached' = {} /\ older' = {}
    /\ status' = Close(cached)
    /\ arc' = Without(arc, cached, None) /\ expired' = Without(expired, cached, "no")
    /\ closedAll' = "yes"
    /\ UNCHANGED <<refs, handle, call, timer>>

Ops == {"use", "open"}
Step ==
    \/ \E c \in Callers, op \in Ops, a \in Archives : Begin(c, op, a) \/ BeginCached(c, op, a)
    \/ \E c \in Callers : AfterStat(c) \/ StatFails(c) \/ Finish(c)
    \/ \E a \in Archives : SyncUse(a) \/ SyncOpen(a)
    \/ \E h \in Handles : CloseHandle(h)
    \/ CloseAll

\* Nothing else runs inside a synchronous call.
Alone(A) == outer = None /\ A /\ UNCHANGED outer

Next ==
    \/ Alone(Step) \/ Alone(TimerFires) \/ \E i \in Insts : Alone(Expire(i))
    \/ \E a \in Archives : (outer = None /\ SyncOuter(a)) \/ SyncInner(a)

\* Timers fire and a synchronous call goes on; nobody has to finish an
\* asynchronous one.
Fairness ==
    /\ WF_vars(Alone(TimerFires)) /\ WF_vars(\E a \in Archives : SyncInner(a))
Spec == Init /\ [][Next]_vars /\ Fairness

-----------------------------------------------------------------------------
(* Properties.                                                              *)

HandleState == [st : {"none", "fresh", "open"}, inst : Insts \cup {None}]
CallState == [pc : {"idle", "stat", "accept"}, op : Ops, arc : Archives \cup {None},
              inst : Insts \cup {None}, h : Handles \cup {None}]

\* Every variable stays in its domain.
ZoTypeOK ==
    /\ cached \in SUBSET Insts /\ older \in SUBSET (Insts \X Insts)
    /\ arc \in [Insts -> Archives \cup {None}]
    /\ status \in [Insts -> {"free", "open", "closed"}]
    /\ refs \in [Insts -> Nat]
    /\ expired \in [Insts -> {"yes", "no"}]
    /\ handle \in [Handles -> HandleState]
    /\ call \in [Callers -> CallState]
    /\ timer \in {"set", "none"} /\ outer \in Insts \cup {None} /\ closedAll \in {"yes", "no"}

\* However many archives compete for the pool, an archive that a call in
\* flight is working on, or that has an open handle, is neither closed nor
\* forgotten -- unless the whole file system was closed.
UsedStaysOpen ==
    closedAll = "no" =>
        /\ \A c \in Callers : call[c].pc = "accept" =>
              call[c].inst \in cached /\ status[call[c].inst] = "open"
        /\ \A h \in Handles : handle[h] # Shut =>
              handle[h].inst \in cached /\ status[handle[h].inst] = "open"

\* Two calls that wait for the same archive end up with the same object:
\* there are never two open ones of an archive.
OneInstance ==
    \A i, j \in Insts :
        status[i] = "open" /\ status[j] = "open" /\ arc[i] = arc[j] => i = j

\* While anything is cached the timer that will close it is set.
TimerArmed == cached # {} => timer = "set"

\* The pool as its users see it: the archives in the map, and for each the
\* calls inside it and the handles they left open.
UsersOf(a) ==
    Cardinality({c \in Callers : call[c].pc = "accept" /\ call[c].arc = a}) +
    Cardinality({h \in Handles : handle[h].st = "open" /\ arc[handle[h].inst] = a})
Pool == INSTANCE ArchivePool WITH
    Limit <- MaxOpen,
    opened <- IF InUse THEN {arc[i] : i \in cached} ELSE {},
    users <- [a \in Archives |-> IF InUse THEN UsersOf(a) ELSE 0],
    shut <- closedAll

\* The map, its order, the counters and the timer implement the pool: no
\* step of limitOpenFiles closes an archive in use, and a call leaves at most
\* maxOpenFiles archives in the map, or all the others are in use.
ImplementsPool == Pool!PoolSpec

\* An archive that has expired and is not in use is closed in the end, or
\* used again.
IdleIsClosed ==
    \A i \in Insts :
        (i \in cached /\ expired[i] = "yes" /\ ~Pinned(i))
            ~> (i \notin cached \/ expired[i] = "no" \/ Pinned(i))
=============================================================================
