---------------------------- MODULE ArchivePool ----------------------------
(* What ZipOpenFS promises of its pool of zip archives, told without the    *)
(* map, its order, the counters and the timer: an archive in use is never   *)
(* closed, and serving a call leaves the pool within its limit, unless all  *)
(* the other archives in it are in use.                                     *)
EXTENDS Naturals, FiniteSets

CONSTANTS Archives, Limit

VARIABLES
    opened,     \* the archives that are open
    users,      \* calls and handles that use each
    shut        \* "yes" when the whole pool was closed

poolVars == <<opened, users, shut>>

PoolInit == opened = {} /\ users = [a \in Archives |-> 0] /\ shut = "no"

InUseBy(A) == {a \in A : users[a] > 0}

\* A call comes for an archive and keeps it for a while or is over at once.
Serve(a) ==
    /\ shut = "no" /\ UNCHANGED shut
    /\ \E rest \in SUBSET (opened \ {a}) :
          /\ InUseBy(opened \ {a}) \subseteq rest
          /\ Cardinality(rest) < Limit \/ rest = InUseBy(rest)
          /\ opened' = rest \cup {a}
    /\ users' \in {users, [users EXCEPT ![a] = @ + 1]}

Leave(a) ==
    /\ users[a] > 0 /\ users' = [users EXCEPT ![a] = @ - 1]
    /\ UNCHANGED <<opened, shut>>

\* Archives that nobody uses are closed after a time.
Sweep ==
    /\ opened' \in SUBSET opened /\ InUseBy(opened) \subseteq opened'
    /\ UNCHANGED <<users, shut>>

ShutAll ==
    /\ shut' = "yes" /\ opened' = {} /\ users' = [a \in Archives |-> 0]

PoolNext == (\E a \in Archives : Serve(a) \/ Leave(a)) \/ Sweep \/ ShutAll
PoolSpec == PoolInit /\ [][PoolNext]_poolVars
=============================================================================
