------------------------------ MODULE ZipPaths ------------------------------
(* How ZipOpenFS tells the archives on a path (findZip): a name that ends in*)
(* .zip is one if lstat says it is a file.  What lstat said, and the real   *)
(* path of an archive, is kept for ever, while the disk goes on changing.   *)
EXTENDS Naturals, Sequences, FiniteSets

CONSTANTS
    Deepest,        \* a path, as the sequence of its names
    ZipNames,       \* the names that end in .zip
    MaxTargets      \* bound: how often the directory above is linked elsewhere

ASSUME PathsAssumption == Deepest \in Seq(STRING)

VARIABLES
    disk,           \* what lstat says of each path
    target,         \* where the directory above them all leads
    isZip, notZip,  \* the caches of findZip
    realPaths,      \* for each archive asked for, 0 or where it really was
    turned, moved   \* history: what changed after it was cached

zpVars == <<disk, target, isZip, notZip, realPaths, turned, moved>>

-----------------------------------------------------------------------------
Paths == {SubSeq(Deepest, 1, n) : n \in 1..Len(Deepest)}
Above(p) == SubSeq(p, 1, Len(p) - 1)
Upto(p) == {SubSeq(p, 1, n) : n \in 1..Len(p)}

\* A link may lead to a directory.
Leads(d, p) == Len(p) = 1 \/ d[Above(p)] \in {"dir", "link"}
Disks == {d \in [Paths -> {"missing", "file", "dir", "link"}] :
             \A p \in Paths : d[p] # "missing" => Leads(d, p)}

NoArchive == <<>>

-----------------------------------------------------------------------------
\* FILE_PARTS_REGEX finds the prefixes in turn; the loop ends at the first
\* one that is a file or that lstat knows nothing of.
Candidates(p) == {q \in Upto(p) : q[Len(q)] \in ZipNames}
Known(q) == q \in isZip \cup notZip
Kind == [q \in Paths |-> IF q \in isZip THEN "file" ELSE IF q \in notZip THEN "dir" ELSE disk[q]]
Ends(p, kind) == {q \in Candidates(p) : kind[q] \in {"file", "missing"}}
FirstOf(S) == CHOOSE q \in S : \A r \in S : Len(q) <= Len(r)

Archive(p, kind) ==
    IF Ends(p, kind) = {} \/ kind[FirstOf(Ends(p, kind))] = "missing" THEN NoArchive
    ELSE FirstOf(Ends(p, kind))

LookedAt(p) ==
    {q \in Candidates(p) : ~Known(q) /\ \A r \in Ends(p, Kind) : Len(q) <= Len(r)}

\* Mutant: what is missing is kept too.
NoZipsMissing(p) == {q \in LookedAt(p) : disk[q] # "file"}

NoZips(p) == {q \in LookedAt(p) : disk[q] \notin {"file", "missing"}}

findZip(p) ==
    /\ isZip' = isZip \cup {q \in LookedAt(p) : disk[q] = "file"}
    /\ notZip' = notZip \cup NoZips(p)

\* realpath: the path goes on inside the archive, or to the file system
\* beneath, which keeps nothing.
Within(p) == Archive(p, Kind) # NoArchive /\ p # Archive(p, Kind)
RealpathOf(p) ==
    /\ findZip(p)
    /\ realPaths' = IF Within(p) /\ realPaths[Archive(p, Kind)] = 0
                    THEN [realPaths EXCEPT ![Archive(p, Kind)] = target] ELSE realPaths
    /\ UNCHANGED <<disk, target, turned, moved>>

\* Every other operation.
MakeCall(p) == findZip(p) /\ UNCHANGED <<disk, target, realPaths, turned, moved>>

-----------------------------------------------------------------------------
Change ==
    /\ disk' \in Disks
    /\ turned' = turned \cup {q \in Paths : Known(q) /\ disk[q] \notin {"missing", disk'[q]}}
    /\ UNCHANGED <<target, isZip, notZip, realPaths, moved>>

Relink ==
    /\ target < MaxTargets /\ target' = target + 1
    /\ moved' = moved \cup {q \in Paths : realPaths[q] # 0}
    /\ UNCHANGED <<disk, isZip, notZip, realPaths, turned>>

ZpInit ==
    /\ disk \in Disks /\ target = 1
    /\ isZip = {} /\ notZip = {} /\ realPaths = [p \in Paths |-> 0]
    /\ turned = {} /\ moved = {}
ZpNext == Change \/ Relink \/ \E p \in Paths : MakeCall(p) \/ RealpathOf(p)
ZpSpec == ZpInit /\ [][ZpNext]_zpVars

-----------------------------------------------------------------------------
\* A path is taken apart as the disk is now, an archive that has only just
\* been put there included, unless a prefix of it was something else when
\* it was first asked about; the same for where an archive really is.
SplitAsOnDisk ==
    \A p \in Paths :
        /\ Upto(p) \cap turned = {} => Archive(p, Kind) = Archive(p, disk)
        /\ realPaths[p] \in {0, target} \/ p \in moved
=============================================================================
