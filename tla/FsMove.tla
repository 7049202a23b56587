------------------------------- MODULE FsMove ------------------------------
(* FakeFS.movePromise and moveSync across file systems: a copy of a         *)
(* directory (or a file) to the destination, then the removal of the source.*)
(* copyPromise plans first: a scan of both trees fills a sequence of        *)
(* operations (prelayout) that run one after the other, and a set of those  *)
(* that fix times and modes (postlayout), which run all at once.  copySync  *)
(* works on one entry after the other.  Both can be called by themselves.   *)
EXTENDS Naturals, Sequences, SequencesExt, FiniteSets

CONSTANTS
    Names,        \* what the directory to be moved may hold
    MaxRetries    \* of rmdir in removePromise

Top == "."                       \* the path itself
Node == {Top} \cup Names
ASSUME NamesAssumption == IsFiniteSet(Names) /\ Top \notin Names

VARIABLES
    src, dst,     \* the two trees: node -> what is there
    src0, dst0,   \* history: the trees at the beginning
    opts,         \* the call, and its overwrite and stableSort
    phase,        \* "rename", "scan", "pre", "post", "remove", "done", "failed",
                  \* and "sync" for copySync
    scan,         \* nodes copyImpl or copySync has to visit
    pre, post,    \* prelayout and postlayout
    tries         \* rmdir attempts

fmVars == <<src, dst, src0, dst0, opts, phase, scan, pre, post, tries>>
kept == <<src0, dst0, opts>>

Nothing == [kind |-> "none", data |-> "none", time |-> "none", mode |-> "none"]
Child(t, n) == n # Top /\ t[Top].kind = "dir" /\ t[n].kind # "none"
Entries(t) == {n \in Names : Child(t, n)}

\* A tree a program can find: children only in a directory.
Thing(k, d, tm, m) == [kind |-> k, data |-> d, time |-> tm, mode |-> m]
Trees(things) ==
    {t \in [Node -> things \cup {Nothing}] :
        \A n \in Names : t[n].kind # "none" => t[Top].kind = "dir"}
SourceThings == {Thing("dir", "none", "then", "x"), Thing("file", "new", "then", "x"),
                 Thing("link", "new", "then", "x")}
DestThings == {Thing("dir", "none", "then", "x"), Thing("file", "old", "now", "x"),
               Thing("dir", "none", "now", "default")}

\* where a copy begins; copySync's nodes carry what is to be done with them
First == IF opts.sync THEN << <<"look", Top>> >> ELSE <<Top>>

FmInit ==
    /\ src \in {t \in Trees(SourceThings) :
                   t[Top].kind # "none" /\ \A n \in Names : t[n].kind # "dir"}
    /\ dst \in {t \in Trees(DestThings) : \A n \in Names : t[n].kind # "dir"}
    /\ src0 = src /\ dst0 = dst
    /\ opts \in [call : {"move", "copy"}, sync : BOOLEAN, overwrite : BOOLEAN, stableSort : BOOLEAN]
    /\ opts.call = "move" => opts.overwrite
    /\ opts.call = "move" \/ opts.sync => ~opts.stableSort
    /\ phase = IF opts.call = "move" THEN "rename" ELSE IF opts.sync THEN "sync" ELSE "scan"
    /\ scan = IF opts.call = "move" THEN << >> ELSE First
    /\ pre = << >> /\ post = {} /\ tries = 0

Fail == phase' = "failed" /\ UNCHANGED <<src, dst, scan, pre, post, tries, kept>>

\* movePromise, moveSync: a rename that works moves the tree at once; EXDEV starts the
\* copy, any other error is the caller's.
Rename ==
    /\ phase = "rename"
    /\ \/ /\ dst' = src /\ src' = [n \in Node |-> Nothing]
          /\ phase' = "done" /\ UNCHANGED <<scan, pre, post, tries, kept>>
       \/ /\ phase' = (IF opts.sync THEN "sync" ELSE "scan") /\ scan' = First
          /\ UNCHANGED <<src, dst, pre, post, tries, kept>>
       \/ Fail

-----------------------------------------------------------------------------
(* copyImpl and the three functions it calls, for one node.                 *)

\* Something in the way is removed, or makes the copy skip the node; a
\* directory is not in the way of a directory.
InTheWay(n) == dst[n].kind # "none" /\ ~(dst[n].kind = "dir" /\ src[n].kind = "dir")
Skipped(n) == InTheWay(n) /\ ~opts.overwrite

Plan(n) ==
    (IF InTheWay(n) THEN << <<"remove", n>> >> ELSE << >>) \o
    (IF src[n].kind = "dir" /\ dst[n].kind = "dir" THEN << >>
     ELSE << <<IF src[n].kind = "dir" THEN "mkdir" ELSE "copy", n>> >>)

\* A directory's own verdict counts the children's only with stableSort: the
\* other branch drops what copyImpl returns for them.
Renewed(n) == ~Skipped(n) /\ Plan(n) # << >>
Updated(n) ==
    \/ Renewed(n)
    \/ n = Top /\ src[n].kind = "dir" /\ ~Skipped(n) /\ opts.stableSort
       /\ \E m \in Entries(src) : Renewed(m) \/ dst[m].time # src[m].time
                                  \/ dst[m].mode # src[m].mode

\* Times and modes are compared with those of the node that was there.
Fixes(n) ==
    {x \in {<<"utime", n>>} : Updated(n) \/ dst[n].time # src[n].time} \cup
    {x \in {<<"chmod", n>>} : dst[n].kind = "none" \/ dst[n].mode # src[n].mode}

Scan ==
    /\ phase = "scan" /\ scan # << >>
    /\ LET n == Head(scan)
           down == n = Top /\ src[n].kind = "dir" /\ ~Skipped(n)
       IN /\ scan' = Tail(scan) \o (IF down THEN SetToSeq(Entries(src)) ELSE << >>)
          /\ pre' = pre \o (IF Skipped(n) THEN << >> ELSE Plan(n))
          /\ post' = post \cup Fixes(n)
    /\ UNCHANGED <<src, dst, phase, tries, kept>>

Scanned ==
    /\ phase = "scan" /\ scan = << >> /\ phase' = "pre"
    /\ UNCHANGED <<src, dst, scan, pre, post, tries, kept>>

-----------------------------------------------------------------------------
(* The operations; any of them may fail, and the copy with it.              *)

\* Making or removing an entry gives its directory a new time.
WithThing(t, n, x) ==
    [m \in Node |-> IF m = n THEN x
                    ELSE IF m = Top /\ t[Top].kind = "dir" THEN [t[m] EXCEPT !.time = "now"]
                    ELSE IF n = Top /\ x.kind = "none" THEN Nothing ELSE t[m]]

Made(n) == [src[n] EXCEPT !.time = "now", !.mode = "default"]

RunPre ==
    /\ phase = "pre" /\ pre # << >>
    /\ LET n == Head(pre)[2]
       IN dst' = WithThing(dst, n, IF Head(pre)[1] = "remove" THEN Nothing ELSE Made(n))
    /\ pre' = Tail(pre)
    /\ UNCHANGED <<src, phase, scan, post, tries, kept>>

PreDone ==
    /\ phase = "pre" /\ pre = << >> /\ phase' = "post"
    /\ UNCHANGED <<src, dst, scan, pre, post, tries, kept>>

RunPost ==
    /\ phase = "post"
    /\ \E x \in post :
          /\ post' = post \ {x}
          /\ dst' = IF x[1] = "utime" THEN [dst EXCEPT ![x[2]].time = src[x[2]].time]
                    ELSE [dst EXCEPT ![x[2]].mode = src[x[2]].mode]
    /\ UNCHANGED <<src, phase, scan, pre, tries, kept>>

After == IF opts.call = "move" THEN "remove" ELSE "done"
PostDone ==
    /\ phase = "post" /\ post = {} /\ phase' = After
    /\ UNCHANGED <<src, dst, scan, pre, post, tries, kept>>

StepFails == phase \in {"scan", "pre", "post", "remove", "sync"} /\ Fail

-----------------------------------------------------------------------------
(* copySync: an entry is removed, written and given its mode before the     *)
(* next is looked at, a directory gets its mode after its entries.          *)

InSync == phase = "sync" /\ scan # << >>
Then(S) == scan' = S \o Tail(scan) /\ UNCHANGED <<src, phase, pre, post, tries, kept>>

\* mkdirpSync makes a directory where nothing is, and takes a file for one.
SyncFolder ==
    /\ InSync /\ Head(scan)[1] = "look" /\ src[Head(scan)[2]].kind = "dir"
    /\ LET n == Head(scan)[2]
       IN /\ dst' = IF dst[n].kind = "none" THEN WithThing(dst, n, Made(n)) ELSE dst
          /\ Then(SetToSeq({<<"look", m>> : m \in Entries(src)}) \o << <<"chmod", n>> >>)

SyncEntry ==
    /\ InSync /\ Head(scan)[1] = "look" /\ src[Head(scan)[2]].kind # "dir"
    /\ LET n == Head(scan)[2]
       IN IF dst[n].kind # "none" /\ ~opts.overwrite
          THEN dst' = dst /\ Then(<< <<"chmod", n>> >>)
          ELSE dst' = WithThing(dst, n, Nothing) /\ Then(<< <<"write", n>>, <<"chmod", n>> >>)

SyncWrite ==
    /\ InSync /\ Head(scan)[1] = "write"
    /\ LET n == Head(scan)[2]
       IN (n # Top => dst[Top].kind = "dir") /\ dst' = WithThing(dst, n, Made(n))
    /\ Then(<< >>)

SyncChmod ==
    /\ InSync /\ Head(scan)[1] = "chmod"
    /\ LET n == Head(scan)[2]
       IN dst[n].kind # "none" /\ dst' = [dst EXCEPT ![n].mode = src[n].mode]
    /\ Then(<< >>)

SyncDone ==
    /\ phase = "sync" /\ scan = << >> /\ phase' = After
    /\ UNCHANGED <<src, dst, scan, pre, post, tries, kept>>

-----------------------------------------------------------------------------
(* removePromise: the entries, then the directory; rmdir is tried again     *)
(* while it is busy, and given up without an error.                         *)

\* Mutant: the directory goes before its entries are gone.
RemoveUnawaited ==
    /\ phase \in {"pre", "remove"} /\ opts.call = "move"
    /\ \E n \in Entries(src) : src' = WithThing(src, n, Nothing)
    /\ UNCHANGED <<dst, phase, scan, pre, post, tries, kept>>

RemoveEntry ==
    /\ phase = "remove" /\ \E n \in Entries(src) : src' = WithThing(src, n, Nothing)
    /\ UNCHANGED <<dst, phase, scan, pre, post, tries, kept>>

RemoveTop ==
    /\ phase = "remove" /\ Entries(src) = {}
    /\ src' = WithThing(src, Top, Nothing) /\ phase' = "done"
    /\ UNCHANGED <<dst, scan, pre, post, tries, kept>>

Busy ==
    /\ phase = "remove" /\ ~opts.sync /\ Entries(src) = {} /\ src[Top].kind = "dir"
    /\ tries' = tries + 1
    /\ phase' = IF tries < MaxRetries THEN phase ELSE "done"
    /\ UNCHANGED <<src, dst, scan, pre, post, kept>>

FmNext ==
    \/ Rename \/ Scan \/ Scanned \/ RunPre \/ PreDone \/ RunPost \/ PostDone
    \/ SyncFolder \/ SyncEntry \/ SyncWrite \/ SyncChmod \/ SyncDone
    \/ StepFails \/ RemoveEntry \/ RemoveTop \/ Busy

FmSpec == FmInit /\ [][FmNext]_fmVars

-----------------------------------------------------------------------------
Same(x, y) == x.kind = y.kind /\ x.data = y.data

\* Wherever the move fails or the process dies, what was to be moved is at
\* the old place or at the new one.  (moveSync takes a file in the way of an
\* empty directory for the directory; the directory is left out there.)
NothingLost ==
    opts.call = "move" =>
        \A n \in Node :
            \/ Same(src[n], src0[n]) \/ Same(dst[n], src0[n])
            \/ (opts.sync /\ n = Top /\ src0[n].kind = "dir")

\* A copy that has ended without an error has the contents of the source,
\* and, made by copyPromise where nothing was, its times and modes too.
Copied == phase = "remove" \/ (phase = "done" /\ opts.call = "copy")
CopyFaithful ==
    Copied /\ opts.overwrite /\ src = src0 =>
        \A n \in {Top} \cup Entries(src) :
            /\ Same(dst[n], src[n]) \/ (opts.sync /\ n = Top)
            /\ dst0[Top].kind = "none" /\ ~opts.sync => dst[n] = src[n]

\* Without overwrite nothing that was at the destination is touched.
KeepsOld ==
    ~opts.overwrite => \A n \in Node : dst0[n].kind # "none" => Same(dst[n], dst0[n])

\* A copy or a move takes nothing away that it did not put elsewhere, and when
\* it says that it is done, it is.
CopyHonest == NothingLost /\ CopyFaithful /\ KeepsOld
=============================================================================
