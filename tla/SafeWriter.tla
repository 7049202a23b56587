----------------------------- MODULE SafeWriter -----------------------------
(***************************************************************************)
(* SafeWriter (txn_writer.go): Gopkg.toml, Gopkg.lock and vendor/ are      *)
(* written to a temporary directory td and then swapped in, one rename at  *)
(* a time, with the originals moved aside and moved back on a failure.     *)
(*                                                                         *)
(* A file or tree is its age: "old" and "new" are complete, "partial" is   *)
(* what an interrupted copy or removal leaves.  Every operation on the     *)
(* disk may fail, and the process may be killed between any two.           *)
(***************************************************************************)
EXTENDS Naturals, Sequences

CONSTANT Devices   \* "same": td is on root's file system; "cross": it is not

ASSUME DevicesAre == Devices \subseteq {"same", "cross"}

Target == {"manifest", "lock", "vendor"}
Scratch == {"td/manifest", "td/manifest.orig", "td/lock", "td/lock.orig",
            "td/vendor", "td/.vendor.orig"}
Place == Target \cup {"vendor.orig"} \cup Scratch
Dir == {"vendor", "vendor.orig", "td/vendor", "td/.vendor.orig"}

\* Where the content of each target may be.
Places(t) ==
  CASE t = "manifest" -> {"manifest", "td/manifest", "td/manifest.orig"}
    [] t = "lock" -> {"lock", "td/lock", "td/lock.orig"}
    [] t = "vendor" -> Dir

VARIABLES
  device,        \* one of Devices
  disk,          \* content of every place
  git,           \* the directory that holds vendor's .git, "none" or "gone"
  before,        \* the targets, and git, when Write began
  manifest,      \* sw.HasManifest()
  writeLock,     \* sw.writeLock
  writeVendor,   \* sw.writeVendor
  restore,       \* the pairs <<from, to>> to move back on a failure
  vendorbak,     \* where the old vendor is, or "none"
  undone,        \* "failed" if a rename of the recovery failed
  pc             \* control state of Write

swVars == <<device, disk, git, before, manifest, writeLock, writeVendor,
            restore, vendorbak, undone, pc>>
swArgs == <<device, before, manifest, writeLock, writeVendor>>

\* Any combination of existing targets, an old backup next to vendor, and a
\* .git in an existing vendor.
SwInit ==
  /\ device \in Devices
  /\ \E m, l, v \in {"none", "old"}, b \in {"none", "other"} :
       disk = [p \in Place |-> CASE p = "manifest" -> m
                                 [] p = "lock" -> l
                                 [] p = "vendor" -> v
                                 [] p = "vendor.orig" -> b
                                 [] OTHER -> "none"]
  /\ git \in {"none"} \cup {d \in {"vendor"} : disk[d] # "none"}
  /\ before = [t \in Target \cup {"git"} |-> IF t = "git" THEN git ELSE disk[t]]
  /\ manifest \in BOOLEAN
  /\ writeLock = FALSE /\ writeVendor = FALSE
  /\ restore = <<>> /\ vendorbak = "none" /\ undone = "ok"
  /\ pc = "new"

-----------------------------------------------------------------------------
(***************************************************************************)
(* NewSafeWriter decides what to write from the two locks, how they differ *)
(* ("none", "imports" for input imports only, "other" for the rest), the   *)
(* requested vendor behaviour and the state of the vendor tree.            *)
(***************************************************************************)
NewSafeWriter ==
  /\ pc = "new"
  /\ \E oldLock, newLock, mismatch \in BOOLEAN, diff \in {"none", "imports", "other"},
        behavior \in {"OnChanged", "Always", "Never"} :
       LET differs == oldLock /\ newLock /\ diff # "none"
           vendorStale == \/ newLock /\ ~oldLock
                          \/ differs /\ diff = "other"
                          \/ mismatch
           wantVendor == \/ behavior = "Always"
                         \/ behavior = "OnChanged" /\ vendorStale
       IN
       /\ oldLock => disk["lock"] # "none"
       /\ writeLock' = (IF oldLock THEN differs ELSE newLock)
       /\ writeVendor' = wantVendor
       /\ pc' = IF (oldLock \/ wantVendor) /\ ~newLock THEN "refused" ELSE "write"
  /\ UNCHANGED <<device, disk, git, before, manifest, restore, vendorbak, undone>>

\* Everything up to the first rename: nothing but td is written, and any
\* failure returns with td removed.  Nothing to do is a success.
WriteScratch ==
  /\ pc = "write"
  /\ \/ /\ pc' = "exiterr"
        /\ UNCHANGED disk
     \/ /\ ~(manifest \/ writeLock \/ writeVendor)
        /\ pc' = "ok"
        /\ UNCHANGED disk
     \/ /\ manifest \/ writeLock \/ writeVendor
        /\ disk' = [disk EXCEPT
             !["td/manifest"] = IF manifest THEN "new" ELSE @,
             !["td/lock"] = IF writeLock THEN "new" ELSE @,
             !["td/vendor"] = IF writeVendor THEN "new" ELSE @]
        /\ pc' = "git"
  /\ UNCHANGED <<swArgs, git, restore, vendorbak, undone>>

\* vendor/.git goes to td/vendor, which must exist.  RenameWithFallback wraps
\* its errors, so the test for *os.LinkError never holds: a failure goes by.
PreserveGit ==
  /\ pc = "git"
  /\ pc' = "mout"
  /\ \/ UNCHANGED git
     \/ /\ git = "vendor"
        /\ disk["td/vendor"] # "none"
        /\ git' = "td/vendor"
  /\ UNCHANGED <<swArgs, disk, restore, vendorbak, undone>>
-----------------------------------------------------------------------------
(***************************************************************************)
(* fs.RenameWithFallback.  A rename succeeds or changes nothing; a tree is *)
(* not renamed onto another.  Between file systems it copies and removes,  *)
(* and can stop half-way in either.                                        *)
(***************************************************************************)
Crosses(src, dst) == device = "cross" /\ (src \in Scratch) # (dst \in Scratch)

Possible(src, dst) ==
  disk[src] # "none" /\ ~(dst \in Dir /\ disk[dst] # "none")

GitFollows(src, dst) == git' = IF git = src THEN dst ELSE git

Renamed(src, dst) ==
  /\ Possible(src, dst)
  /\ disk' = [disk EXCEPT ![dst] = disk[src], ![src] = "none"]
  /\ GitFollows(src, dst)

RenameFails(src, dst) ==
  \/ UNCHANGED <<disk, git>>
  \/ /\ Possible(src, dst) /\ Crosses(src, dst)
     /\ disk' = [disk EXCEPT ![dst] = "partial"]
     /\ UNCHANGED git
  \/ /\ Possible(src, dst) /\ Crosses(src, dst)
     /\ disk' = [disk EXCEPT ![dst] = disk[src],
                             ![src] = IF src \in Dir THEN "partial" ELSE @]
     /\ GitFollows(src, dst)

\* One move of the swap: go on at next, or to the recovery.
Swap(src, dst, next) ==
  \/ Renamed(src, dst) /\ pc' = next
  \/ RenameFails(src, dst) /\ pc' = "fail"

\* Move an original aside and remember to move it back.
MoveOut(t, bak, next) ==
  /\ Swap(t, bak, next)
  /\ restore' = IF pc' = "fail" THEN restore ELSE Append(restore, <<bak, t>>)
  /\ UNCHANGED <<swArgs, undone>>

Skip(next) ==
  /\ pc' = next
  /\ UNCHANGED <<swArgs, disk, git, restore, undone>>

ManifestOut ==
  /\ pc = "mout"
  /\ CASE ~manifest -> Skip("lout")
       [] manifest /\ disk["manifest"] = "none" -> Skip("min")
       [] OTHER -> MoveOut("manifest", "td/manifest.orig", "min")
  /\ UNCHANGED vendorbak

ManifestIn ==
  /\ pc = "min"
  /\ Swap("td/manifest", "manifest", "lout")
  /\ UNCHANGED <<swArgs, restore, vendorbak, undone>>

LockOut ==
  /\ pc = "lout"
  /\ CASE ~writeLock -> Skip("vout")
       [] writeLock /\ disk["lock"] = "none" -> Skip("lin")
       [] OTHER -> MoveOut("lock", "td/lock.orig", "lin")
  /\ UNCHANGED vendorbak

LockIn ==
  /\ pc = "lin"
  /\ Swap("td/lock", "lock", "vout")
  /\ UNCHANGED <<swArgs, restore, vendorbak, undone>>

\* Mutant: the old tree is removed at once.
VendorOutRemoves ==
  /\ pc = "vout"
  /\ IF writeVendor
       THEN /\ disk' = [disk EXCEPT !["vendor"] = "none"]
            /\ pc' = "vin"
            /\ UNCHANGED <<swArgs, git, restore, undone>>
       ELSE Skip("cleanup")
  /\ UNCHANGED vendorbak

\* vendor goes next to itself, or into td when a backup is already there.
VendorOut ==
  /\ pc = "vout"
  /\ CASE ~writeVendor -> Skip("cleanup") /\ UNCHANGED vendorbak
       [] writeVendor /\ disk["vendor"] = "none" -> Skip("vin") /\ UNCHANGED vendorbak
       [] OTHER ->
            /\ vendorbak' = IF disk["vendor.orig"] = "none"
                              THEN "vendor.orig" ELSE "td/.vendor.orig"
            /\ MoveOut("vendor", vendorbak', "vin")

VendorIn ==
  /\ pc = "vin"
  /\ Swap("td/vendor", "vendor", "cleanup")
  /\ UNCHANGED <<swArgs, restore, vendorbak, undone>>

\* The backup of vendor is removed; an error is ignored.
Cleanup ==
  /\ pc = "cleanup"
  /\ pc' = "exitok"
  /\ IF writeVendor /\ vendorbak # "none"
       THEN \E left \in {"none", "partial", disk[vendorbak]} :
              /\ disk' = [disk EXCEPT ![vendorbak] = left]
              /\ git' = IF git = vendorbak THEN "gone" ELSE git
       ELSE UNCHANGED <<disk, git>>
  /\ UNCHANGED <<swArgs, restore, vendorbak, undone>>

\* fail: the originals are moved back in order; errors are ignored.
Restore ==
  /\ pc = "fail"
  /\ IF restore = <<>>
       THEN pc' = "exiterr" /\ UNCHANGED <<disk, git, restore, undone>>
       ELSE LET from == Head(restore)[1]
                to == Head(restore)[2] IN
            /\ \/ Renamed(from, to) /\ UNCHANGED undone
               \/ RenameFails(from, to) /\ undone' = "failed"
            /\ restore' = Tail(restore)
            /\ UNCHANGED pc
  /\ UNCHANGED <<swArgs, vendorbak>>

\* The deferred removal of td, whichever way Write returns.
RemoveScratch ==
  /\ pc \in {"exitok", "exiterr"}
  /\ disk' = [p \in Place |-> IF p \in Scratch THEN "none" ELSE disk[p]]
  /\ git' = IF git \in Scratch THEN "gone" ELSE git
  /\ pc' = IF pc = "exitok" THEN "ok" ELSE "err"
  /\ UNCHANGED <<swArgs, restore, vendorbak, undone>>

\* The process is killed.
Crash ==
  /\ pc \notin {"new", "ok", "err", "refused", "crashed"}
  /\ pc' = "crashed"
  /\ UNCHANGED <<swArgs, disk, git, restore, vendorbak, undone>>

SwNext ==
  \/ NewSafeWriter
  \/ WriteScratch
  \/ PreserveGit
  \/ ManifestOut \/ ManifestIn
  \/ LockOut \/ LockIn
  \/ VendorOut \/ VendorIn
  \/ Cleanup
  \/ Restore
  \/ RemoveScratch
  \/ Crash

SwSpec == SwInit /\ [][SwNext]_swVars
-----------------------------------------------------------------------------

\* Whatever fails and whenever the process is killed, a complete old or new
\* copy of every target that existed is on the disk: nothing is ever removed
\* before its replacement is in place.  A vendor tree that has to be copied
\* between file systems is the exception.
NeverLost ==
  undone = "ok" =>
    \A t \in Target : (before[t] = "old" /\ (device = "same" \/ t # "vendor")) =>
      \E p \in Places(t) : disk[p] \in {"old", "new"}

\* After a failed Write on one file system the originals are back where they
\* were, whichever move failed, as long as the moves back succeed.
RollbackRestores ==
  (pc = "err" /\ undone = "ok" /\ device = "same") =>
    \A t \in Target : before[t] # "none" => disk[t] = before[t]

\* A successful Write has replaced every target it was to write and no other.
SuccessIsComplete ==
  pc = "ok" =>
    /\ disk["manifest"] = IF manifest THEN "new" ELSE before["manifest"]
    /\ disk["lock"] = IF writeLock THEN "new" ELSE before["lock"]
    /\ disk["vendor"] = IF writeVendor THEN "new" ELSE before["vendor"]

\* Whatever becomes of Write, a target is never lost: it is there, old or new,
\* a failed Write has put the old one back, a successful one the new one.
TargetsSafe == NeverLost /\ RollbackRestores /\ SuccessIsComplete
=============================================================================
