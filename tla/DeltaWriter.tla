---------------------------- MODULE DeltaWriter -----------------------------
(***************************************************************************)
(* DeltaWriter (txn_writer.go): bring vendor/ and Gopkg.lock up to date by *)
(* exporting the changed projects to the scratch directory .vendor-new,    *)
(* writing the lock, moving the unchanged projects over, and swapping the  *)
(* directories.                                                            *)
(*                                                                         *)
(* The tree of a path is "locked" when it is what the old lock's digest    *)
(* says, "edited" when it is anything else, and "fresh" when this run has  *)
(* exported it.  Every disk operation may fail, and the process may be     *)
(* killed between any two.                                                 *)
(***************************************************************************)
EXTENDS Naturals, FiniteSets

CONSTANT Path    \* project roots and other paths below vendor/

VARIABLES
  delta,         \* how each path differs between the two locks
  digest,        \* state of the digest the old lock has for a path
  noverify,      \* the manifest's noverify list
  behavior,      \* vendorBehavior()
  tree,          \* vendor when the writer was made
  vgit,          \* where vendor's .git is: "none", "vendor", "scratch" or "gone"
  vendor,        \* vendor now
  scratch,       \* .vendor-new now
  exists,        \* whether .vendor-new exists
  lock,          \* Gopkg.lock: "old", "new" or "partial"
  stage             \* control state of Write

dwInputs == <<delta, digest, noverify, behavior, tree>>
dwVars == <<dwInputs, vgit, vendor, scratch, exists, lock, stage>>

OldLock(p) == delta[p] \in {"same", "removed", "prune", "solve"}
NewLock(p) == delta[p] \in {"same", "added", "prune", "solve"}

\* A project with two locks that differ, a vendor directory in any state, and
\* perhaps the scratch directory of a run that did not finish.
DwInit ==
  /\ delta \in [Path -> {"same", "added", "removed", "prune", "solve", "absent"}]
  /\ tree \in [Path -> {"none", "locked", "edited"}]
  /\ \A p \in Path : tree[p] = "locked" => OldLock(p)
  /\ digest \in [Path -> {"ok", "empty", "version"}]
  /\ \A p \in Path : ~OldLock(p) => digest[p] = "ok"
  /\ noverify \in SUBSET Path
  /\ behavior \in {"OnChanged", "Never"}
  /\ vgit \in {"none", "vendor"}
  /\ vendor = tree
  /\ exists \in BOOLEAN
  /\ scratch = [p \in Path |-> "none"]
  /\ lock = "old"
  /\ stage = "begin"
-----------------------------------------------------------------------------
\* Project.VerifyVendor: the status of a path in the old lock or in the tree;
\* "unknown" is no entry.
Status(p) ==
  IF OldLock(p)
    THEN CASE tree[p] = "none" -> "NotInTree"
           [] tree[p] # "none" /\ digest[p] = "version" -> "HashVersionMismatch"
           [] tree[p] # "none" /\ digest[p] = "empty" -> "EmptyDigestInLock"
           [] OTHER -> IF tree[p] = "locked" THEN "NoMismatch"
                                             ELSE "DigestMismatchInLock"
    ELSE IF tree[p] = "none" THEN "unknown" ELSE "NotInLock"

\* The change the two locks alone call for.
DiffChange(p) ==
  CASE delta[p] = "added" -> "projectAdded"
    [] delta[p] = "removed" -> "projectRemoved"
    [] delta[p] = "prune" -> "pruneOptsChanged"
    [] delta[p] = "solve" -> "solveChanged"
    [] OTHER -> "none"

\* The status counts where the locks call for no change.
StatusChange(p) ==
  IF DiffChange(p) # "none" THEN DiffChange(p)
  ELSE CASE Status(p) = "NotInTree" -> "missingFromTree"
         [] Status(p) = "NotInLock" -> "projectRemoved"
         [] Status(p) = "DigestMismatchInLock" -> "hashMismatch"
         [] Status(p) = "HashVersionMismatch" -> "hashVersionMismatch"
         [] Status(p) = "EmptyDigestInLock" -> "hashAbsent"
         [] OTHER -> "none"

BelowNoVerify == {"hashMismatch", "hashVersionMismatch", "hashAbsent"}

\* Mutant: the status is not consulted.
ChangeByDiffOnly(p) == DiffChange(p)

\* NewDeltaWriter: dw.changed[p], noverify applied last.
Change(p) ==
  LET c == StatusChange(p) IN
  CASE p \in noverify /\ delta[p] = "absent" /\ Status(p) # "unknown" -> "pathPreserved"
    [] p \in noverify /\ delta[p] # "absent" /\ c \in BelowNoVerify -> "none"
    [] p \in noverify /\ delta[p] # "absent" /\ c = "projectRemoved" -> "pathPreserved"
    [] OTHER -> c

Changed == {p \in Path : Change(p) # "none"}
Dropped == {p \in Path : Change(p) = "projectRemoved"}
Preserved == {p \in Path : Change(p) = "pathPreserved"}
ToWrite == Changed \ (Dropped \cup Preserved)
ToMove == {p \in Path : NewLock(p)} \ Changed
-----------------------------------------------------------------------------
Fails == stage' = "err"
Goto(s) == stage' = s

\* An existing scratch directory is an error; else it is made.
Begin ==
  /\ stage = "begin"
  /\ \/ exists /\ Fails /\ UNCHANGED exists
     \/ ~exists /\ Fails /\ UNCHANGED exists
     \/ ~exists /\ exists' = TRUE /\ Goto("export")
  /\ UNCHANGED <<dwInputs, vgit, vendor, scratch, lock>>

\* One changed project is exported and hashed, in the order of a Go map.
Export(p) ==
  /\ stage = "export"
  /\ p \in ToWrite
  /\ scratch[p] = "none"
  /\ \/ scratch' = [scratch EXCEPT ![p] = "fresh"] /\ Goto("export")
     \/ UNCHANGED scratch /\ Fails
  /\ UNCHANGED <<dwInputs, vgit, vendor, exists, lock>>

\* Gopkg.lock is rewritten in place: a failure can leave it truncated.
WriteLock ==
  /\ stage = "export"
  /\ \A p \in ToWrite : scratch[p] = "fresh"
  /\ \/ lock' = "new" /\ Goto(IF behavior = "Never" THEN "never" ELSE "move")
     \/ lock' \in {"old", "partial"} /\ Fails
  /\ UNCHANGED <<dwInputs, vgit, vendor, scratch, exists>>

\* -no-vendor: the scratch directory is dropped.
Never ==
  /\ stage = "never"
  /\ \/ /\ scratch' = [p \in Path |-> "none"] /\ exists' = FALSE
        /\ Goto("ok")
     \/ UNCHANGED <<scratch, exists>> /\ Fails
  /\ UNCHANGED <<dwInputs, vgit, vendor, lock>>

\* Rename of a path from vendor to the scratch directory; a missing one fails.
Carry(p) ==
  \/ /\ vendor[p] # "none"
     /\ scratch' = [scratch EXCEPT ![p] = vendor[p]]
     /\ vendor' = [vendor EXCEPT ![p] = "none"]
     /\ UNCHANGED stage
  \/ UNCHANGED <<scratch, vendor>> /\ Fails

\* The unchanged projects of the lock are moved over.
MoveUnchanged(p) ==
  /\ stage = "move"
  /\ p \in ToMove
  /\ scratch[p] = "none"
  /\ Carry(p)
  /\ UNCHANGED <<dwInputs, vgit, exists, lock>>

MoveDone ==
  /\ stage = "move"
  /\ \A p \in ToMove : scratch[p] # "none"
  /\ Goto("stat")
  /\ UNCHANGED <<dwInputs, vgit, vendor, scratch, exists, lock>>

\* Every dropped path is looked at, only to say so; a missing one is an error.
StatDropped ==
  /\ stage = "stat"
  /\ IF \E p \in Dropped : vendor[p] = "none" THEN Fails ELSE Goto("preserve")
  /\ UNCHANGED <<dwInputs, vgit, vendor, scratch, exists, lock>>

Preserve(p) ==
  /\ stage = "preserve"
  /\ p \in Preserved
  /\ scratch[p] = "none"
  /\ Carry(p)
  /\ UNCHANGED <<dwInputs, vgit, exists, lock>>

\* .git goes last.
KeepGit ==
  /\ stage = "preserve"
  /\ \A p \in Preserved : scratch[p] # "none"
  /\ \/ vgit = "none" /\ UNCHANGED vgit /\ Goto("remove")
     \/ vgit = "vendor" /\ vgit' = "scratch" /\ Goto("remove")
     \/ vgit = "vendor" /\ UNCHANGED vgit /\ Fails
  /\ UNCHANGED <<dwInputs, vendor, scratch, exists, lock>>

\* RemoveAll of vendor, with whatever is still in it; a failure leaves some.
RemoveVendor ==
  /\ stage = "remove"
  /\ vgit' = IF vgit = "vendor" THEN "gone" ELSE vgit
  /\ \/ /\ vendor' = [p \in Path |-> "none"]
        /\ Goto("place")
     \/ /\ \E left \in SUBSET Path :
             vendor' = [p \in Path |-> IF p \in left THEN vendor[p] ELSE "none"]
        /\ Fails
  /\ UNCHANGED <<dwInputs, scratch, exists, lock>>

\* The scratch directory becomes vendor.
PlaceVendor ==
  /\ stage = "place"
  /\ \/ /\ vendor' = scratch
        /\ scratch' = [p \in Path |-> "none"]
        /\ exists' = FALSE
        /\ vgit' = IF vgit = "scratch" THEN "vendor" ELSE vgit
        /\ Goto("ok")
     \/ UNCHANGED <<vendor, scratch, exists, vgit>> /\ Fails
  /\ UNCHANGED <<dwInputs, lock>>

\* The process is killed; in the middle of the lock's write it is truncated.
Killed ==
  /\ stage \notin {"ok", "err", "crashed"}
  /\ stage' = "crashed"
  /\ \/ UNCHANGED lock
     \/ stage = "export" /\ (\A p \in ToWrite : scratch[p] = "fresh") /\ lock' = "partial"
  /\ UNCHANGED <<dwInputs, vgit, vendor, scratch, exists>>

DwNext ==
  \/ Begin
  \/ \E p \in Path : Export(p) \/ MoveUnchanged(p) \/ Preserve(p)
  \/ WriteLock
  \/ Never
  \/ MoveDone
  \/ StatDropped
  \/ KeepGit
  \/ RemoveVendor
  \/ PlaceVendor
  \/ Killed

DwSpec == DwInit /\ [][DwNext]_dwVars
-----------------------------------------------------------------------------
\* A tree the writer decided to keep, and vendor's .git, are never lost: they
\* are complete in vendor or in the scratch directory whatever fails and
\* whenever the process is killed, the moment between the removal of vendor and
\* the last rename included.
KeptSurvives ==
  /\ \A p \in ToMove \cup Preserved :
       tree[p] # "none" => tree[p] \in {vendor[p], scratch[p]}
  /\ vgit # "gone"

\* After a successful Write vendor is what the new lock says: every project of
\* the lock is fresh or verified against a digest that did not change, and
\* nothing else is left, but for the paths the user exempted with noverify.
SuccessInSync ==
  (stage = "ok" /\ behavior # "Never") =>
    \A p \in Path \ noverify :
      vendor[p] = "fresh"
        \/ IF NewLock(p) THEN delta[p] = "same" /\ vendor[p] = "locked"
                         ELSE vendor[p] = "none"

\* The digests of a written lock are backed by trees on the disk: it is never
\* written ahead of the exports it vouches for.
LockVouches ==
  (lock = "new" /\ behavior # "Never") =>
    \A p \in ToWrite : "fresh" \in {vendor[p], scratch[p]}

\* -no-vendor leaves vendor alone, whatever happens.
NeverTouchesVendor == behavior = "Never" => vendor = tree /\ vgit # "scratch"

\* Lock and vendor tell the same story, while Write moves the trees about and
\* when it is done, and nothing that was to stay is gone in between.
VendorTrue == KeptSurvives /\ SuccessInSync /\ LockVouches /\ NeverTouchesVendor
=============================================================================
