---------------------------- MODULE FsLibProofs -----------------------------
(* The file system library of .pnp.js: FileLock's mutual exclusion, what    *)
(* becomes of temporary directories, mkdirpPromise and changeFilePromise,   *)
(* how a path is split at its archives, and what copying, moving and        *)
(* removing leave; for any number of processes, callers and paths.          *)
EXTENDS FileLock, TempDirs, FileHelpers, ZipPaths, FsMove, FiniteSetTheorems,
        WellFoundedInduction, TLAPS

-----------------------------------------------------------------------------
(* FileLock                                                                 *)

\* A process between creating the file and removing it.
Holds(p) == alive[p] = "yes" /\ pc[p] \in {"write", "callback", "close", "remove"}

\* As long as no file was taken for stale, the file is the one of whoever is
\* between its creation and its removal: the file is there for all that time.
HolderOwns == stolen = "no" => \A p \in Procs : Holds(p) => owner = p

FlInv == FlTypeOK /\ HolderOwns

\* Nobody holds the lock at the beginning.
LEMMA FlInitInv == FlInit => FlInv
  BY NoneIsNoProc DEF FlInit, FlInv, FlTypeOK, HolderOwns, Holds

\* Every step of lockPromise, and a death, keep the file with its holder.
LEMMA FlStepInv == FlInv /\ [FlNext]_flVars => FlInv'
<1> SUFFICES ASSUME FlInv, [FlNext]_flVars PROVE FlInv'
  OBVIOUS
<1> USE NoneIsNoProc
<1>1. FlTypeOK'
  <2>1. CASE UNCHANGED flVars
    BY <2>1 DEF FlInv, FlTypeOK, flVars
  <2>2. ASSUME NEW p \in Procs, Loop(p) PROVE FlTypeOK'
    BY <2>2 DEF FlInv, FlTypeOK, Loop, Create, LockExists, CheckAlive, CheckDead, UnlinkStale,
                Wait, Goto, Runs
  <2>3. ASSUME NEW p \in Procs, HoldLock(p) PROVE FlTypeOK'
    BY <2>3 DEF FlInv, FlTypeOK, HoldLock, WritePid, Leave, CloseLock, RemoveLock, Goto, Runs
  <2>4. ASSUME NEW p \in Procs, Die(p) \/ Tick(p) PROVE FlTypeOK'
    BY <2>4 DEF FlInv, FlTypeOK, Die, Tick
  <2> QED
    BY <2>1, <2>2, <2>3, <2>4 DEF FlNext
<1>2. HolderOwns'
  <2>1. CASE UNCHANGED flVars
    BY <2>1 DEF FlInv, HolderOwns, Holds, flVars
  <2>2. ASSUME NEW p \in Procs, Create(p) PROVE HolderOwns'
    BY <2>2 DEF FlInv, FlTypeOK, HolderOwns, Holds, Create, Goto, Runs
  <2>3. ASSUME NEW p \in Procs, LockExists(p) \/ CheckAlive(p) \/ CheckDead(p) \/ Wait(p)
        PROVE  HolderOwns'
    BY <2>3 DEF FlInv, FlTypeOK, HolderOwns, Holds, LockExists, CheckAlive, CheckDead, Wait,
                Goto, Runs
  <2>4. ASSUME NEW p \in Procs, UnlinkStale(p) PROVE HolderOwns'
    BY <2>4 DEF FlInv, FlTypeOK, HolderOwns, Holds, UnlinkStale, Goto, Runs
  <2>5. ASSUME NEW p \in Procs, WritePid(p) \/ Leave(p) \/ CloseLock(p) PROVE HolderOwns'
    BY <2>5 DEF FlInv, FlTypeOK, HolderOwns, Holds, WritePid, Leave, CloseLock, Goto, Runs
  <2>6. ASSUME NEW p \in Procs, RemoveLock(p) PROVE HolderOwns'
    \* The file p removes is its own: nobody else holds the lock.
    <3>1. stolen = "no" => \A q \in Procs : Holds(q) => q = p
      BY <2>6 DEF FlInv, HolderOwns, Holds, RemoveLock, Runs
    <3> QED
      BY <2>6, <3>1 DEF FlInv, FlTypeOK, HolderOwns, Holds, RemoveLock, Goto, Runs
  <2>7. ASSUME NEW p \in Procs, Die(p) \/ Tick(p) PROVE HolderOwns'
    BY <2>7 DEF FlInv, FlTypeOK, HolderOwns, Holds, Die, Tick
  <2> QED
    BY <2>1, <2>2, <2>3, <2>4, <2>5, <2>6, <2>7 DEF FlNext, Loop, HoldLock
<1> QED
  BY <1>1, <1>2 DEF FlInv

\* The state of the lock file and of the processes stays in its domain.
THEOREM FileLockTypes == FlSpec => []FlTypeOK
<1>1. FlInv => FlTypeOK
  BY DEF FlInv
<1> QED
  BY <1>1, FlInitInv, FlStepInv, PTL DEF FlSpec

\* Two processes never are in their callbacks at once, unless a lock file was
\* taken for stale: whoever dies, gives up or is slow.
THEOREM FileLockExcludes == FlSpec => []OneHolder
<1>1. FlInv => OneHolder
  BY DEF FlInv, HolderOwns, Holds, OneHolder, Runs
<1> QED
  BY <1>1, FlInitInv, FlStepInv, PTL DEF FlSpec

-----------------------------------------------------------------------------
(* TempDirs                                                                 *)

\* Every caller that began has a directory, and no two have the same.
Spelled == {"linked", "real"} \X TempNames
Callers == [pc : {"start", "made", "callback", "returned", "removing", "done"},
            dir : {NoDir} \cup TempNames,
            path : {NoDir} \cup Spelled]
TdOwners ==
    /\ user \in [Users -> Callers]
    /\ \A u \in Users : user[u].pc = "start" <=> Dir(u) = NoDir
    /\ \A u, v \in Users : Dir(u) = Dir(v) /\ u # v => Dir(u) = NoDir
    /\ \A u \in Users : user[u].pc \in {"callback", "returned"} =>
          user[u].path \in {Linked(Dir(u)), Real(Dir(u))}

\* A directory whose owner is between mkdir and its registration, or is about
\* to remove it.
InFlight(n) == \E u \in Users : Dir(u) = n /\ user[u].pc \in {"made", "removing"}

\* While the process runs the exit would find every directory but those that
\* TempCleared leaves out.
TdKnown ==
    process = "runs" =>
        \A n \in made : Real(n) \in tmpdirs \/ n \in detached \/ n \in stuck \/ InFlight(n)

\* Where tmpdir is no link, nothing that was detached is on any list, and its
\* owner does nothing to it any more.
TdDetached ==
    /\ \A d \in detached :
          \E u \in Users : Dir(u) = d /\ user[u].pc \notin {"start", "made"}
    /\ linked = "no" =>
          /\ detached \subseteq made /\ \A d \in detached : Real(d) \notin tmpdirs \cup doomed
          /\ \A u \in Users : user[u].pc = "removing" => Dir(u) \notin detached

TdInv == TdOwners /\ TdKnown /\ TempCleared /\ TdDetached

\* At the beginning there are no directories.
LEMMA TdInitInv == TdInit => TdInv
  BY DEF TdInit, TdInv, TdOwners, TdKnown, TempCleared, TdDetached, Dir, Callers

\* No step gives a directory a second owner.
LEMMA TdOwnersKept == TdOwners /\ [TdNext]_tdVars => TdOwners'
<1> SUFFICES ASSUME TdOwners, [TdNext]_tdVars PROVE TdOwners'
  OBVIOUS
<1> USE DEF TdOwners, Dir, Linked, Real, Goes, At
<1>1. ASSUME NEW u \in Users, NEW n \in TempNames, Mkdir(u, n) \/ MktempSync(u, n) PROVE TdOwners'
  BY <1>1 DEF Mkdir, MktempSync, Fresh, Callers, Spelled
<1>2. ASSUME NEW u \in Users, MktempPromise(u) PROVE TdOwners'
  <2>1. Dir(u) \in TempNames /\ linked' = linked /\ user \in [Users -> Callers]
    BY <1>2 DEF MktempPromise, Callers
  <2>2. PICK pcu \in {"callback", "returned"} :
           user' = [user EXCEPT ![u].pc = pcu, ![u].path = Real(Dir(u))]
    BY <1>2 DEF MktempPromise
  <2>5. Real(Dir(u)) \in Spelled
    BY <2>1 DEF Spelled
  <2> HIDE DEF Real
  <2>6. PICK q \in Spelled : q = Real(Dir(u))
    BY <2>5
  <2>7. [user[u] EXCEPT !.pc = pcu, !.path = q] \in Callers
    BY <2>1, <2>6 DEF Callers
  <2>3. user' \in [Users -> Callers] /\ \A v \in Users \ {u} : user'[v] = user[v]
    BY <2>1, <2>2, <2>6, <2>7
  <2>4. user'[u].pc = pcu /\ user'[u].dir = user[u].dir /\ user'[u].path = Real(Dir(u))
    BY <2>1, <2>2 DEF Callers
  <2> QED
    BY <1>2, <2>1, <2>3, <2>4 DEF MktempPromise, Callers, Real
<1>3. ASSUME NEW u \in Users, CallbackEnds(u) \/ RemoveOwn(u) PROVE TdOwners'
  <2>1. user[u].pc \in {"callback", "removing"} /\ linked' = linked /\ user \in [Users -> Callers]
    BY <1>3 DEF CallbackEnds, RemoveOwn
  <2>2. PICK pcu \in {"removing", "done"} : user' = [user EXCEPT ![u].pc = pcu]
    BY <1>3 DEF CallbackEnds, RemoveOwn
  <2>3. user' \in [Users -> Callers] /\ \A v \in Users \ {u} : user'[v] = user[v]
    BY <2>1, <2>2 DEF Callers
  <2>4. user'[u].pc = pcu /\ user'[u].dir = user[u].dir
    BY <2>1, <2>2 DEF Callers
  <2> QED
    BY <2>1, <2>3, <2>4
<1>4. CASE UNCHANGED <<user, linked>>
  BY <1>4
<1> QED
  BY <1>1, <1>2, <1>3, <1>4
  DEF TdNext, tdVars, detachTemp, RmtempPromise, RmtempOne, Exit

\* No directory gets lost: it is registered, detached, stuck or in flight.
LEMMA TdKnownKept == TdInv /\ [TdNext]_tdVars => TdKnown' /\ TempCleared'
<1> SUFFICES ASSUME TdInv, [TdNext]_tdVars PROVE TdKnown' /\ TempCleared'
  OBVIOUS
<1> USE DEF TdInv, TdOwners, TdKnown, TempCleared, InFlight, Dir, Linked, Real, Goes, At
<1>1. ASSUME NEW u \in Users, NEW n \in TempNames, Mkdir(u, n) \/ MktempSync(u, n)
      PROVE  TdKnown' /\ TempCleared'
  BY <1>1 DEF Mkdir, MktempSync, Fresh
<1>2. ASSUME NEW u \in Users, MktempPromise(u) PROVE TdKnown' /\ TempCleared'
  BY <1>2 DEF MktempPromise
<1>3. ASSUME NEW u \in Users, CallbackEnds(u) PROVE TdKnown' /\ TempCleared'
  <2>1. CASE Real(Dir(u)) \in tmpdirs
    BY <1>3, <2>1 DEF CallbackEnds
  <2>2. CASE Real(Dir(u)) \notin tmpdirs
    BY <1>3, <2>2 DEF CallbackEnds
  <2> QED
    BY <2>1, <2>2
<1>4. ASSUME NEW u \in Users, RemoveOwn(u) PROVE TdKnown' /\ TempCleared'
  BY <1>4 DEF RemoveOwn
<1>5. ASSUME NEW u \in Users, detachTemp(u) PROVE TdKnown' /\ TempCleared'
  BY <1>5 DEF detachTemp
<1>6. CASE RmtempPromise
  BY <1>6 DEF RmtempPromise
<1>7. ASSUME NEW n \in TempNames, RmtempOne(n) PROVE TdKnown' /\ TempCleared'
  BY <1>7 DEF RmtempOne
<1>8. CASE Exit
  BY <1>8 DEF Exit
<1>9. CASE UNCHANGED tdVars
  BY <1>9 DEF tdVars
<1> QED
  BY <1>1, <1>2, <1>3, <1>4, <1>5, <1>6, <1>7, <1>8, <1>9 DEF TdNext

\* What was detached comes on no list again.
LEMMA TdDetachedKept == TdInv /\ [TdNext]_tdVars => TdDetached'
<1> SUFFICES ASSUME TdInv, [TdNext]_tdVars PROVE TdDetached'
  OBVIOUS
<1> USE DEF TdInv, TdOwners, TdDetached, Dir, Linked, Real, Goes, At
<1>1. ASSUME NEW u \in Users, NEW n \in TempNames, Mkdir(u, n) \/ MktempSync(u, n)
      PROVE  TdDetached'
  BY <1>1 DEF Mkdir, MktempSync, Fresh
<1>2. ASSUME NEW u \in Users, MktempPromise(u) PROVE TdDetached'
  <2>1. Dir(u) \notin detached
    BY <1>2 DEF MktempPromise
  <2> QED
    BY <1>2, <2>1 DEF MktempPromise
<1>3. ASSUME NEW u \in Users, CallbackEnds(u) PROVE TdDetached'
  <2>1. CASE Real(Dir(u)) \in tmpdirs
    BY <1>3, <2>1 DEF CallbackEnds
  <2>2. CASE Real(Dir(u)) \notin tmpdirs
    BY <1>3, <2>2 DEF CallbackEnds
  <2> QED
    BY <2>1, <2>2
<1>4. ASSUME NEW u \in Users, RemoveOwn(u) PROVE TdDetached'
  <2>1. linked = "no" => Dir(u) \notin detached
    BY <1>4 DEF RemoveOwn
  <2> QED
    BY <1>4, <2>1 DEF RemoveOwn
<1>5. ASSUME NEW u \in Users, detachTemp(u) PROVE TdDetached'
  BY <1>5 DEF detachTemp
<1>6. CASE RmtempPromise
  BY <1>6 DEF RmtempPromise
<1>7. ASSUME NEW n \in TempNames, RmtempOne(n) PROVE TdDetached'
  BY <1>7 DEF RmtempOne
<1>8. CASE Exit
  BY <1>8 DEF Exit
<1>9. CASE UNCHANGED tdVars
  BY <1>9 DEF tdVars
<1> QED
  BY <1>1, <1>2, <1>3, <1>4, <1>5, <1>6, <1>7, <1>8, <1>9 DEF TdNext

\* When the process has exited, the temporary directories are gone, and what
\* was detached is there still: for any number of callers, in any order.
THEOREM TempRightAlways == TdSpec => []TempRight
<1>1. TdInv => TempRight
  BY DEF TdInv, TdDetached, TempRight, DetachedStays
<1>2. TdInv /\ [TdNext]_tdVars => TdInv'
  BY TdOwnersKept, TdKnownKept, TdDetachedKept DEF TdInv
<1> QED
  BY <1>1, <1>2, TdInitInv, PTL DEF TdSpec

-----------------------------------------------------------------------------
(* FileHelpers                                                              *)

MakerPcs == {"exists", "mkdir", "chmod", "utimes", "made", "failed"}
FhTypes ==
    /\ maker \in [Makers -> [pc : MakerPcs, l : Levels]]
    /\ level \in [Levels -> {"none", "dir", "file"}]
    /\ perm \in [Levels -> {"default", "asked"}]
    /\ gone \in Nat

\* While nothing is taken away, a maker has directories all the way above the
\* level it is at, and at that level too once it or another made it.
MakerOnItsWay(p) ==
    /\ AtLevel(p, "failed") = FALSE
    /\ \A m \in Levels : m < L(p) => level[m] = "dir"
    /\ maker[p].pc \in {"chmod", "utimes", "made"} => level[L(p)] = "dir"
    /\ AtLevel(p, "utimes") => perm[L(p)] = "asked"
    /\ AtLevel(p, "made") => L(p) = Depth

\* A directory without its mode is about to get it from the one who made it.
ModeComes(l) ==
    level[l] = "dir" /\ perm[l] = "default" => \E p \in Makers : AtLevel(p, "chmod") /\ L(p) = l

PathGrows ==
    gone = 0 =>
        /\ \A p \in Makers : MakerOnItsWay(p)
        /\ \A l \in Levels : level[l] # "file" /\ ModeComes(l)

\* What a changer is about to write, or found in the file, is settled: to ask
\* for the line endings once more does not change it.
Settled ==
    /\ changer \in [Changers -> [pc : {"start", "same", "write", "wrote"}, auto : BOOLEAN,
                                 want : Contents, new : Contents]]
    /\ content \in Contents
    /\ \A c \in Changers :
          changer[c].auto => normalizeLineEndings(changer[c].new, changer[c].want) = changer[c].new

FhInv == FhTypes /\ PathGrows /\ Settled

\* Nobody has done anything yet.
LEMMA FhInitInv == FhInit => FhInv
<1> SUFFICES ASSUME FhInit PROVE FhInv
  OBVIOUS
<1>1. 1 \in Levels /\ \A m \in Levels : ~(m < 1)
  BY HelpersAssumption DEF Levels
<1>2. FhTypes /\ PathGrows
  BY <1>1 DEF FhInit, FhTypes, MakerPcs, PathGrows, MakerOnItsWay, ModeComes, AtLevel, L
<1>3. Settled
  BY DEF FhInit, Settled, Idle, Contents, Missing, Endings
<1> QED
  BY <1>2, <1>3 DEF FhInv

\* The text with the line endings of the old one has them already.
LEMMA NormalizedTwice ==
    ASSUME NEW old \in Contents, NEW want \in Contents
    PROVE  /\ normalizeLineEndings(old, want) \in Contents
           /\ normalizeLineEndings(normalizeLineEndings(old, want), want)
                = normalizeLineEndings(old, want)
<1>1. want = [text |-> want.text, eol |-> want.eol] /\ want.eol \in Endings
  BY DEF Contents, Missing, Endings
<1>2. CASE want.eol = "none"
  BY <1>1, <1>2 DEF normalizeLineEndings, getEndOfLine, Contents, Missing, Endings
<1>3. CASE want.eol # "none"
  <2>1. want.text \in Texts
    BY <1>3 DEF Contents, Missing, Endings
  <2>2. normalizeLineEndings(old, want) = [text |-> want.text, eol |-> getEndOfLine(old)]
    BY <1>1, <1>3 DEF normalizeLineEndings
  <2>3. getEndOfLine(old) \in {"lf", "crlf"}
    BY DEF getEndOfLine
  <2> QED
    BY <1>1, <1>3, <2>1, <2>2, <2>3 DEF normalizeLineEndings, getEndOfLine, Contents, Endings
<1> QED
  BY <1>2, <1>3

\* A changer's steps leave what it writes settled.
LEMMA SettledKept == Settled /\ [FhNext]_fhVars => Settled'
<1> SUFFICES ASSUME Settled, [FhNext]_fhVars PROVE Settled'
  OBVIOUS
<1>1. ASSUME NEW c \in Changers, ReadCurrent(c) PROVE Settled'
  <2>1. PICK t \in Texts, e \in {"lf", "crlf", "none"}, auto \in BOOLEAN :
           LET want == [text |-> t, eol |-> e]
               new == IF auto THEN normalizeLineEndings(content, want) ELSE want
           IN changer' = [changer EXCEPT ![c] =
                 [pc |-> IF new = content THEN "same" ELSE "write",
                  auto |-> auto, want |-> want, new |-> new]]
    BY <1>1 DEF ReadCurrent
  <2> DEFINE want == [text |-> t, eol |-> e]
             new == IF auto THEN normalizeLineEndings(content, want) ELSE want
             state == IF new = content THEN "same" ELSE "write"
  <2>2. want \in Contents
    BY DEF Contents, Endings
  <2>3. new \in Contents /\ (auto => normalizeLineEndings(new, want) = new)
    BY <2>2, NormalizedTwice DEF Settled
  <2>4. content' = content /\ state \in {"same", "write"}
    BY <1>1 DEF ReadCurrent
  <2>5. changer' = [changer EXCEPT ![c] = [pc |-> state, auto |-> auto, want |-> want, new |-> new]]
    BY <2>1
  <2> HIDE DEF want, new, state
  <2> QED
    BY <2>2, <2>3, <2>4, <2>5 DEF Settled
<1>2. ASSUME NEW c \in Changers, WriteChanged(c) PROVE Settled'
  BY <1>2 DEF WriteChanged, Settled
<1>3. ASSUME NEW c \in Changers, Again(c) PROVE Settled'
  <2>1. Idle.auto = FALSE /\ Idle.pc = "start" /\ Idle \in
           [pc : {"start", "same", "write", "wrote"}, auto : BOOLEAN, want : Contents, new : Contents]
    BY DEF Idle, Contents
  <2> QED
    BY <1>3, <2>1 DEF Again, Settled
<1>4. CASE UNCHANGED <<content, changer>>
  BY <1>4 DEF Settled
<1> QED
  BY <1>1, <1>2, <1>3, <1>4
  DEF FhNext, ChangeNext, MkdirpNext, fhVars, Exists, MkdirExists, MkdirDone, MkdirFails, Chmod,
      Utimes, RemoveLevel, PutFile, files

\* One maker goes on to a place and a level, the others stay.
Moves(p, pcp, l) ==
    /\ maker' \in [Makers -> [pc : MakerPcs, l : Levels]]
    /\ maker'[p].pc = pcp /\ maker'[p].l = l
    /\ \A q \in Makers : q # p => maker'[q] = maker[q]

\* What a step of a maker may change.
LEMMA MakerMoves ==
    ASSUME maker \in [Makers -> [pc : MakerPcs, l : Levels]], NEW p \in Makers
    PROVE  /\ L(p) \in Levels
           /\ \A pcp \in MakerPcs, l \in Levels : To(p, pcp, l) => Moves(p, pcp, l)
           /\ NextLevel(p) =>
                 \/ L(p) = Depth /\ Moves(p, "made", L(p))
                 \/ L(p) < Depth /\ L(p) + 1 \in Levels /\ Moves(p, "exists", L(p) + 1)
<1>1. L(p) \in Levels
  BY DEF L
<1>2. ASSUME NEW pcp \in MakerPcs, NEW l \in Levels, To(p, pcp, l) PROVE Moves(p, pcp, l)
  <2>1. [pc |-> pcp, l |-> l] \in [pc : MakerPcs, l : Levels]
    OBVIOUS
  <2> QED
    BY <1>2, <2>1 DEF To, Moves
<1>3. {"made", "exists"} \subseteq MakerPcs
  BY DEF MakerPcs
<1>4. L(p) = Depth \/ (L(p) < Depth /\ L(p) + 1 \in Levels)
  BY <1>1, HelpersAssumption DEF Levels
<1>5. CASE L(p) = Depth
  BY <1>1, <1>2, <1>3, <1>5 DEF NextLevel
<1>6. CASE L(p) < Depth /\ L(p) + 1 \in Levels
  <2>1. L(p) # Depth
    BY <1>1, <1>6, HelpersAssumption DEF Levels
  <2> QED
    BY <1>1, <1>2, <1>3, <1>6, <2>1 DEF NextLevel
<1> QED
  BY <1>1, <1>2, <1>4, <1>5, <1>6

\* What an action of a maker does: the maker's move, and the tree's.
LEMMA MakerActs ==
    ASSUME FhTypes, NEW p \in Makers
    PROVE  /\ L(p) \in Levels
           /\ Exists(p) =>
                 /\ UNCHANGED <<level, perm, gone>>
                 /\ \/ Moves(p, "mkdir", L(p)) /\ AtLevel(p, "exists")
                    \/ level[L(p)] # "none" /\ L(p) = Depth /\ Moves(p, "made", L(p))
                    \/ level[L(p)] # "none" /\ L(p) < Depth /\ Moves(p, "exists", L(p) + 1)
           /\ MkdirExists(p) \/ Utimes(p) =>
                 /\ UNCHANGED <<level, perm, gone>>
                 /\ AtLevel(p, "mkdir") \/ AtLevel(p, "utimes")
                 /\ \/ (level[L(p)] = "none" \/ ~Parent(L(p))) /\ Moves(p, "failed", L(p))
                    \/ level[L(p)] # "none" /\ L(p) = Depth /\ Moves(p, "made", L(p))
                    \/ level[L(p)] # "none" /\ L(p) < Depth /\ Moves(p, "exists", L(p) + 1)
           /\ MkdirDone(p) => AtLevel(p, "mkdir") /\ Moves(p, "chmod", L(p))
           /\ MkdirFails(p) => Moves(p, "failed", L(p))
           /\ Chmod(p) => AtLevel(p, "chmod") /\
                 \/ level[L(p)] = "none" /\ Moves(p, "failed", L(p)) /\ UNCHANGED perm
                 \/ Moves(p, "utimes", L(p)) /\ perm' = [perm EXCEPT ![L(p)] = "asked"]
<1>1. {"made", "exists", "mkdir", "failed", "chmod", "utimes"} \subseteq MakerPcs
  BY DEF MakerPcs
<1>2. /\ L(p) \in Levels
      /\ \A pcp \in MakerPcs, l \in Levels : To(p, pcp, l) => Moves(p, pcp, l)
      /\ NextLevel(p) =>
            \/ L(p) = Depth /\ Moves(p, "made", L(p))
            \/ L(p) < Depth /\ L(p) + 1 \in Levels /\ Moves(p, "exists", L(p) + 1)
  BY MakerMoves DEF FhTypes
<1> QED
  BY <1>1, <1>2 DEF Exists, MkdirExists, Utimes, MkdirDone, MkdirFails, Chmod

\* A maker's step and whoever takes a part of the path away keep the types.
LEMMA FhTypesKept == FhTypes /\ [FhNext]_fhVars => FhTypes'
<1> SUFFICES ASSUME FhTypes, [FhNext]_fhVars PROVE FhTypes'
  OBVIOUS
<1> USE HelpersAssumption DEF FhTypes, Levels
<1>1. ASSUME NEW p \in Makers, Exists(p) \/ MkdirExists(p) \/ Utimes(p) \/ MkdirFails(p)
      PROVE  FhTypes'
  BY <1>1, MakerActs DEF Exists, MkdirExists, Utimes, MkdirFails, Moves
<1>2. ASSUME NEW p \in Makers, MkdirDone(p) \/ Chmod(p) PROVE FhTypes'
  <2>1. maker' \in [Makers -> [pc : MakerPcs, l : Levels]] /\ L(p) \in Levels
    BY <1>2, MakerActs DEF Moves
  <2>2. level' \in [Levels -> {"none", "dir", "file"}] /\ gone' = gone
    BY <1>2, <2>1 DEF MkdirDone, Chmod
  <2>3. perm' \in [Levels -> {"default", "asked"}]
    BY <1>2, <2>1 DEF MkdirDone, Chmod
  <2> QED
    BY <2>1, <2>2, <2>3
<1>3. ASSUME NEW l \in Levels, RemoveLevel(l) PROVE FhTypes'
  BY <1>3 DEF RemoveLevel
<1>4. ASSUME NEW l \in Levels, PutFile(l) PROVE FhTypes'
  BY <1>4 DEF PutFile
<1>5. CASE UNCHANGED dirs
  BY <1>5 DEF dirs
<1> QED
  BY <1>1, <1>2, <1>3, <1>4, <1>5
  DEF FhNext, ChangeNext, MkdirpNext, fhVars, ReadCurrent, WriteChanged, Again, dirs

\* A move that changes nothing on the disk, of a maker that owes no mode.
LEMMA MoveKeepsPath ==
    ASSUME FhTypes, PathGrows, gone = 0, UNCHANGED <<level, perm, gone>>,
           NEW p \in Makers, ~AtLevel(p, "chmod"),
           NEW pcp, NEW l, Moves(p, pcp, l), MakerOnItsWay(p)'
    PROVE  PathGrows'
<1>1. \A q \in Makers : q # p => MakerOnItsWay(q)'
  BY DEF PathGrows, Moves, MakerOnItsWay, AtLevel, L
<1>2. \A m \in Levels : ModeComes(m)'
  BY DEF PathGrows, Moves, ModeComes, AtLevel, L
<1> QED
  BY <1>1, <1>2 DEF PathGrows

\* As long as nobody takes a part of the path away, it only grows.
LEMMA PathGrowsKept == FhTypes /\ PathGrows /\ [FhNext]_fhVars => PathGrows'
<1> SUFFICES ASSUME FhTypes, PathGrows, [FhNext]_fhVars, gone' = 0 PROVE PathGrows'
  BY DEF PathGrows
<1>1. gone = 0 \/ UNCHANGED dirs
  <2>1. CASE gone # 0
    BY <2>1
    DEF FhTypes, FhNext, ChangeNext, MkdirpNext, fhVars, Exists, MkdirExists, MkdirDone,
        MkdirFails, Chmod, Utimes, RemoveLevel, PutFile, ReadCurrent, WriteChanged, Again, dirs
  <2> QED
    BY <2>1
<1>2. ASSUME gone = 0, NEW p \in Makers
      PROVE  /\ L(p) \in Levels /\ MakerOnItsWay(p) /\ level[L(p)] # "file" /\ Parent(L(p))
             /\ \A m \in Levels : m < L(p) + 1 => m < L(p) \/ m = L(p)
  <2>1. L(p) \in Levels /\ MakerOnItsWay(p) /\ level[L(p)] # "file"
    BY <1>2, MakerActs DEF PathGrows
  <2>2. Parent(L(p))
    BY <2>1, HelpersAssumption DEF Parent, MakerOnItsWay, Levels
  <2> QED
    BY <2>1, <2>2, HelpersAssumption DEF Levels
<1>3. ASSUME gone = 0, NEW p \in Makers, Exists(p) PROVE PathGrows'
  <2>1. /\ UNCHANGED <<level, perm, gone>> /\ AtLevel(p, "exists")
        /\ \/ Moves(p, "mkdir", L(p))
           \/ level[L(p)] # "none" /\ L(p) = Depth /\ Moves(p, "made", L(p))
           \/ level[L(p)] # "none" /\ L(p) < Depth /\ Moves(p, "exists", L(p) + 1)
    BY <1>3, MakerActs DEF Exists
  <2>2. level[L(p)] # "none" => level[L(p)] = "dir"
    BY <1>2, <1>3 DEF FhTypes
  <2>3. CASE Moves(p, "mkdir", L(p))
    <3>1. MakerOnItsWay(p)'
      BY <1>2, <1>3, <2>1, <2>3 DEF MakerOnItsWay, Moves, AtLevel, L
    <3> QED
      BY <1>3, <2>1, <2>3, <3>1, MoveKeepsPath DEF AtLevel
  <2>4. CASE level[L(p)] # "none" /\ L(p) = Depth /\ Moves(p, "made", L(p))
    <3>1. MakerOnItsWay(p)'
      BY <1>2, <1>3, <2>1, <2>2, <2>4 DEF MakerOnItsWay, Moves, AtLevel, L
    <3> QED
      BY <1>3, <2>1, <2>4, <3>1, MoveKeepsPath DEF AtLevel
  <2>5. CASE level[L(p)] # "none" /\ L(p) < Depth /\ Moves(p, "exists", L(p) + 1)
    <3>1. MakerOnItsWay(p)'
      BY <1>2, <1>3, <2>1, <2>2, <2>5 DEF MakerOnItsWay, Moves, AtLevel, L
    <3> QED
      BY <1>3, <2>1, <2>5, <3>1, MoveKeepsPath DEF AtLevel
  <2> QED
    BY <2>1, <2>3, <2>4, <2>5
<1>4. ASSUME gone = 0, NEW p \in Makers, MkdirExists(p) \/ Utimes(p) PROVE PathGrows'
  <2>1. /\ UNCHANGED <<level, perm, gone>> /\ ~AtLevel(p, "chmod")
        /\ \/ (level[L(p)] = "none" \/ ~Parent(L(p))) /\ Moves(p, "failed", L(p))
           \/ level[L(p)] # "none" /\ L(p) = Depth /\ Moves(p, "made", L(p))
           \/ level[L(p)] # "none" /\ L(p) < Depth /\ Moves(p, "exists", L(p) + 1)
    BY <1>4, MakerActs DEF AtLevel
  <2>2. level[L(p)] = "dir"
    BY <1>2, <1>4 DEF FhTypes, MkdirExists, Utimes, MakerOnItsWay, AtLevel
  <2>4. CASE L(p) = Depth /\ Moves(p, "made", L(p))
    <3>1. MakerOnItsWay(p)'
      BY <1>2, <1>4, <2>1, <2>2, <2>4 DEF MakerOnItsWay, Moves, AtLevel, L
    <3> QED
      BY <1>4, <2>1, <2>4, <3>1, MoveKeepsPath
  <2>5. CASE L(p) < Depth /\ Moves(p, "exists", L(p) + 1)
    <3>1. MakerOnItsWay(p)'
      BY <1>2, <1>4, <2>1, <2>2, <2>5 DEF MakerOnItsWay, Moves, AtLevel, L
    <3> QED
      BY <1>4, <2>1, <2>5, <3>1, MoveKeepsPath
  <2> QED
    BY <1>2, <1>4, <2>1, <2>2, <2>4, <2>5
<1>5. ASSUME gone = 0, NEW p \in Makers, MkdirDone(p) PROVE PathGrows'
  <2>1. Moves(p, "chmod", L(p)) /\ level[L(p)] = "none" /\ gone' = 0 /\ L(p) \in Levels
    BY <1>5, MakerActs DEF MkdirDone
  <2>2. /\ level' = [level EXCEPT ![L(p)] = "dir"]
        /\ perm' = [perm EXCEPT ![L(p)] = "default"]
    BY <1>5 DEF MkdirDone
  <2>3. \A m \in Levels : level'[m] = (IF m = L(p) THEN "dir" ELSE level[m])
                          /\ (m # L(p) => perm'[m] = perm[m])
    BY <2>2 DEF FhTypes
  <2>7. \A m \in Levels : m < L(p) => level'[m] = "dir"
    BY <1>2, <1>5, <2>1, <2>3 DEF MakerOnItsWay
  <2>4. MakerOnItsWay(p)'
    BY <2>1, <2>3, <2>7 DEF MakerOnItsWay, Moves, AtLevel, L
  <2>5. \A q \in Makers : q # p => MakerOnItsWay(q)'
    <3> SUFFICES ASSUME NEW q \in Makers, q # p PROVE MakerOnItsWay(q)'
      OBVIOUS
    <3>1. MakerOnItsWay(q) /\ maker'[q] = maker[q] /\ L(q) \in Levels
      BY <1>2, <1>5, <2>1 DEF Moves
    <3> QED
      BY <2>1, <2>3, <3>1 DEF MakerOnItsWay, AtLevel, L
  <2>6. \A m \in Levels : level'[m] # "file" /\ ModeComes(m)'
    BY <1>5, <2>1, <2>3 DEF PathGrows, ModeComes, Moves, AtLevel, L
  <2> QED
    BY <2>4, <2>5, <2>6 DEF PathGrows
<1>6. ASSUME gone = 0, NEW p \in Makers, Chmod(p) PROVE PathGrows'
  <2>1. Moves(p, "utimes", L(p)) /\ perm' = [perm EXCEPT ![L(p)] = "asked"]
    BY <1>2, <1>6, MakerActs DEF MakerOnItsWay, AtLevel
  <2>2. L(p) \in Levels /\ level' = level /\ level[L(p)] = "dir"
    BY <1>2, <1>6 DEF Chmod, MakerOnItsWay, AtLevel
  <2>3. \A m \in Levels : perm'[m] = (IF m = L(p) THEN "asked" ELSE perm[m])
    BY <2>1 DEF FhTypes
  <2>4. MakerOnItsWay(p)'
    BY <1>2, <1>6, <2>1, <2>2, <2>3 DEF MakerOnItsWay, Moves, AtLevel, L
  <2>5. \A q \in Makers : q # p => MakerOnItsWay(q)'
    <3> SUFFICES ASSUME NEW q \in Makers, q # p PROVE MakerOnItsWay(q)'
      OBVIOUS
    <3>1. MakerOnItsWay(q) /\ maker'[q] = maker[q] /\ L(q) \in Levels
      BY <1>2, <1>6, <2>1 DEF Moves
    <3> QED
      BY <2>2, <2>3, <3>1 DEF MakerOnItsWay, AtLevel, L
  <2>6. \A m \in Levels : level'[m] # "file" /\ ModeComes(m)'
    BY <1>6, <2>1, <2>2, <2>3 DEF PathGrows, ModeComes, Moves, AtLevel, L
  <2> QED
    BY <2>4, <2>5, <2>6 DEF PathGrows
<1>7. ASSUME gone = 0, NEW p \in Makers, MkdirFails(p) PROVE PathGrows'
  BY <1>2, <1>7 DEF MkdirFails
<1>8. ASSUME NEW l \in Levels, RemoveLevel(l) \/ PutFile(l) PROVE PathGrows'
  BY <1>8 DEF FhTypes, RemoveLevel, PutFile
<1>9. CASE UNCHANGED dirs
  BY <1>9 DEF dirs, PathGrows, MakerOnItsWay, ModeComes, AtLevel, L
<1> QED
  BY <1>1, <1>3, <1>4, <1>5, <1>6, <1>7, <1>8, <1>9
  DEF FhNext, ChangeNext, MkdirpNext, fhVars, ReadCurrent, WriteChanged, Again, dirs

\* Any number of makers of a path of any depth do not disturb one another, and
\* a change made again does not write again.
THEOREM HelpersSettleAlways == FhSpec => []HelpersSettle
<1>1. FhInv => MakersAgree
  <2> SUFFICES ASSUME FhInv, gone = 0
               PROVE  /\ \A p \in Makers : maker[p].pc # "failed"
                      /\ (\A p \in Makers : maker[p].pc = "made") =>
                            \A l \in Levels : level[l] = "dir" /\ perm[l] = "asked"
    BY DEF MakersAgree
  <2>1. \A p \in Makers : MakerOnItsWay(p)
    BY DEF FhInv, PathGrows
  <2>2. ASSUME \A p \in Makers : maker[p].pc = "made", NEW l \in Levels
        PROVE  level[l] = "dir" /\ perm[l] = "asked"
    <3>1. PICK p \in Makers : maker[p].pc = "made"
      BY <2>2, HelpersAssumption
    <3>2. l = Depth \/ l < Depth
      BY HelpersAssumption DEF Levels
    <3>3. level[l] = "dir"
      BY <2>1, <3>1, <3>2 DEF MakerOnItsWay, AtLevel, L
    <3>4. perm[l] # "default"
      BY <2>2, <3>3 DEF FhInv, PathGrows, ModeComes, AtLevel
    <3> QED
      BY <3>3, <3>4 DEF FhInv, FhTypes
  <2> QED
    BY <2>1, <2>2 DEF MakerOnItsWay, AtLevel
<1>2. FhInv => ChangeSettles
  BY DEF FhInv, Settled, ChangeSettles
<1>3. FhInv /\ [FhNext]_fhVars => FhInv'
  BY FhTypesKept, PathGrowsKept, SettledKept DEF FhInv
<1>4. MakersAgree /\ ChangeSettles => HelpersSettle
  BY DEF HelpersSettle
<1> QED
  BY <1>1, <1>2, <1>3, <1>4, FhInitInv, PTL DEF FhSpec

-----------------------------------------------------------------------------
(* ZipPaths                                                                 *)

\* What findZip keeps was so when it was kept, and is so still unless the
\* disk changed there.
CachesHold ==
    /\ disk \in [Paths -> {"missing", "file", "dir", "link"}]
    /\ \A q \in Paths \ turned :
          /\ q \in isZip => disk[q] = "file"
          /\ q \in notZip => disk[q] \in {"dir", "link"}

RealPathsHold ==
    /\ realPaths \in [Paths -> Nat] /\ target \in Nat
    /\ \A p \in Paths : realPaths[p] \in {0, target} \/ p \in moved

ZpInv == CachesHold /\ RealPathsHold

\* The prefixes of a path are paths, and have lengths.
LEMMA PrefixesArePaths ==
    ASSUME NEW p \in Paths
    PROVE  /\ Upto(p) \subseteq Paths
           /\ \A q \in Paths : Len(q) \in Nat
<1>1. \A n \in 1..Len(Deepest) : /\ SubSeq(Deepest, 1, n) \in Seq(STRING)
                                 /\ Len(SubSeq(Deepest, 1, n)) = n
  BY PathsAssumption
<1>2. PICK n \in 1..Len(Deepest) : p = SubSeq(Deepest, 1, n)
  BY DEF Paths
<1>3. ASSUME NEW m \in 1..Len(p) PROVE SubSeq(p, 1, m) \in Paths
  <2>1. m \in 1..n /\ m \in 1..Len(Deepest)
    BY <1>1, <1>2, <1>3, PathsAssumption
  <2>2. SubSeq(p, 1, m) = SubSeq(Deepest, 1, m)
    BY <1>1, <1>2, <2>1, PathsAssumption
  <2> QED
    BY <2>1, <2>2 DEF Paths
<1>4. \A q \in Paths : Len(q) \in Nat
  BY <1>1 DEF Paths
<1> QED
  BY <1>3, <1>4 DEF Upto

\* Of some paths one is the shortest.
LEMMA FirstIsOne ==
    ASSUME NEW S, S \subseteq Paths, S # {}
    PROVE  FirstOf(S) \in S
<1> DEFINE lens == {Len(q) : q \in S}
<1>1. \A q \in S : Len(q) \in Nat
  BY PrefixesArePaths
<1>2. lens \subseteq Nat /\ lens # {}
  BY <1>1
<1> HIDE DEF lens
<1> DEFINE less == {ss \in Nat \X Nat : ss[1] < ss[2]}
<1>3. IsWellFoundedOn(less, Nat)
  BY NatLessThanWellFounded, Zenon DEF OpToRel
<1>4. PICK x \in lens : \A y \in lens : ~(<<y, x>> \in less)
  BY <1>2, <1>3, WFMin
<1>5. ASSUME NEW y \in lens PROVE x <= y
  <2>1. x \in Nat /\ y \in Nat /\ <<y, x>> \notin less
    BY <1>2, <1>4
  <2>2. <<y, x>>[1] = y /\ <<y, x>>[2] = x
    OBVIOUS
  <2> QED
    BY <2>1, <2>2
<1>6. PICK q \in S : Len(q) = x
  BY DEF lens
<1>7. \A r \in S : Len(q) <= Len(r)
  BY <1>5, <1>6 DEF lens
<1> QED
  BY <1>6, <1>7 DEF FirstOf

\* Nothing is cached, or linked elsewhere, at the beginning.
LEMMA ZpInitInv == ZpInit => ZpInv
  BY DEF ZpInit, ZpInv, CachesHold, RealPathsHold, Disks

\* A call caches what is so, a change of the disk is remembered.
LEMMA ZpStepInv == ZpInv /\ [ZpNext]_zpVars => ZpInv'
<1> SUFFICES ASSUME ZpInv, [ZpNext]_zpVars PROVE ZpInv'
  OBVIOUS
<1>1. CASE Change
  BY <1>1 DEF Change, ZpInv, CachesHold, RealPathsHold, Disks, Known
<1>2. CASE Relink
  BY <1>2 DEF Relink, ZpInv, CachesHold, RealPathsHold
<1>3. ASSUME NEW p \in Paths, MakeCall(p) \/ RealpathOf(p) PROVE ZpInv'
  <2>1. CachesHold'
    BY <1>3 DEF MakeCall, RealpathOf, findZip, LookedAt, NoZips, ZpInv, CachesHold
  <2>2. RealPathsHold'
    <3> DEFINE archive == Archive(p, Kind)
    <3>1. target' = target /\ moved' = moved
      BY <1>3 DEF MakeCall, RealpathOf
    <3>2. realPaths' = realPaths \/ realPaths' = [realPaths EXCEPT ![archive] = target]
      BY <1>3 DEF MakeCall, RealpathOf
    <3> HIDE DEF archive
    <3> QED
      BY <3>1, <3>2 DEF ZpInv, RealPathsHold
  <2> QED
    BY <2>1, <2>2 DEF ZpInv
<1>4. CASE UNCHANGED zpVars
  BY <1>4 DEF zpVars, ZpInv, CachesHold, RealPathsHold
<1> QED
  BY <1>1, <1>2, <1>3, <1>4 DEF ZpNext

\* Where nothing turned into something else, the archives on a path are found
\* as if nothing were cached.
LEMMA KindAsOnDisk ==
    ASSUME CachesHold, NEW p \in Paths, Upto(p) \cap turned = {}
    PROVE  Archive(p, Kind) = Archive(p, disk)
<1>1. \A q \in Upto(p) : /\ Kind[q] = "file" <=> disk[q] = "file"
                         /\ Kind[q] = "missing" <=> disk[q] = "missing"
  BY PrefixesArePaths DEF Kind, CachesHold
<1>2. Ends(p, Kind) = Ends(p, disk) /\ Ends(p, disk) \subseteq Upto(p)
  BY <1>1 DEF Ends, Candidates
<1>3. Ends(p, disk) # {} => FirstOf(Ends(p, disk)) \in Upto(p)
  BY <1>2, PrefixesArePaths, FirstIsOne
<1> QED
  BY <1>1, <1>2, <1>3 DEF Archive

\* A path of any depth is split as the disk has it, and an archive is where
\* realpath says, however calls and changes are mixed, but for what changed
\* after it was cached.
THEOREM SplitAsOnDiskAlways == ZpSpec => []SplitAsOnDisk
<1>1. ZpInv => SplitAsOnDisk
  BY KindAsOnDisk DEF ZpInv, RealPathsHold, SplitAsOnDisk
<1> QED
  BY <1>1, ZpInitInv, ZpStepInv, PTL DEF ZpSpec

-----------------------------------------------------------------------------
(* FsMove: first what its sequences of operations and of nodes do.          *)

\* What is in a sequence that was appended to, or whose head was taken.
LEMMA RangeOfConcat ==
    ASSUME NEW S, NEW q \in Seq(S), NEW r \in Seq(S)
    PROVE  q \o r \in Seq(S) /\ Range(q \o r) = Range(q) \cup Range(r)
<1>1. q \o r \in Seq(S) /\ Len(q \o r) = Len(q) + Len(r)
  OBVIOUS
<1>2. \A i \in DOMAIN q : i \in DOMAIN (q \o r) /\ (q \o r)[i] = q[i]
  OBVIOUS
<1>3. \A i \in DOMAIN r : Len(q) + i \in DOMAIN (q \o r) /\ (q \o r)[Len(q) + i] = r[i]
  OBVIOUS
<1>4. \A i \in DOMAIN (q \o r) : \/ i \in DOMAIN q /\ (q \o r)[i] = q[i]
                                 \/ i - Len(q) \in DOMAIN r /\ (q \o r)[i] = r[i - Len(q)]
  OBVIOUS
<1>5. \A x : x \in Range(q) \cup Range(r) => x \in Range(q \o r)
  BY <1>2, <1>3 DEF Range
<1>6. \A x : x \in Range(q \o r) => x \in Range(q) \cup Range(r)
  <2> SUFFICES ASSUME NEW i \in DOMAIN (q \o r) PROVE (q \o r)[i] \in Range(q) \cup Range(r)
    BY DEF Range
  <2> QED
    BY <1>4 DEF Range
<1> QED
  BY <1>1, <1>5, <1>6

\* The elements of a tail are elements.
LEMMA RangeOfTail ==
    ASSUME NEW S, NEW q \in Seq(S), q # << >>
    PROVE  /\ Head(q) \in S /\ Tail(q) \in Seq(S) /\ Range(q) = {Head(q)} \cup Range(Tail(q))
<1>1. Head(q) \in S /\ Tail(q) \in Seq(S) /\ Head(q) = q[1] /\ 1 \in DOMAIN q
  OBVIOUS
<1>2. \A i \in DOMAIN Tail(q) : i + 1 \in DOMAIN q /\ Tail(q)[i] = q[i + 1]
  OBVIOUS
<1>3. \A i \in DOMAIN q : i = 1 \/ (i - 1 \in DOMAIN Tail(q) /\ Tail(q)[i - 1] = q[i])
  OBVIOUS
<1>4. \A x : x \in {Head(q)} \cup Range(Tail(q)) => x \in Range(q)
  BY <1>1, <1>2 DEF Range
<1>5. \A x : x \in Range(q) => x \in {Head(q)} \cup Range(Tail(q))
  <2> SUFFICES ASSUME NEW i \in DOMAIN q PROVE q[i] \in {Head(q)} \cup Range(Tail(q))
    BY DEF Range
  <2> QED
    BY <1>1, <1>3 DEF Range
<1> QED
  BY <1>1, <1>4, <1>5

\* SetToSeq orders a finite set, and leaves nothing out.
LEMMA SetToSeqIsOnto ==
    ASSUME NEW S, IsFiniteSet(S)
    PROVE  SetToSeq(S) \in Seq(S) /\ Range(SetToSeq(S)) = S
<1> DEFINE D == 1..Cardinality(S)
<1>1. Cardinality(S) \in Nat /\ IsFiniteSet(D) /\ Cardinality(D) = Cardinality(S)
  BY FS_CardinalityType, FS_Interval
<1>2. \E f \in [D -> S] : IsInjective(f)
  <2>1. PICK f : f \in Bijection(D, S)
    BY <1>1, FS_SameCardinalityBij DEF ExistsBijection
  <2> QED
    BY <2>1 DEF Bijection, Injection, IsInjective
<1>3. SetToSeq(S) \in [D -> S] /\ IsInjective(SetToSeq(S))
  BY <1>2 DEF SetToSeq
<1>4. SetToSeq(S) \in Seq(S) /\ DOMAIN SetToSeq(S) = D
  BY <1>1, <1>3
<1>5. \A s \in S : \E d \in D : SetToSeq(S)[d] = s
  <2>1. SetToSeq(S) \in Injection(D, S)
    BY <1>3 DEF IsInjective, Injection
  <2>2. SetToSeq(S) \in Surjection(D, S)
    BY <1>1, <2>1, FS_Injection
  <2> QED
    BY <2>2 DEF Surjection
<1> QED
  BY <1>3, <1>4, <1>5 DEF Range

\* Of a sequence of operations: which nodes it is about, that the last one on
\* a node makes it, and that those on the directory come before the others.
Mentions(q, n) == \E i \in DOMAIN q : q[i][2] = n
EndsMade(q, n) ==
    \E i \in DOMAIN q : /\ q[i][2] = n /\ q[i][1] # "remove"
                        /\ \A j \in DOMAIN q : q[j][2] = n => j <= i
TopFirst(q) == \A i, j \in DOMAIN q : i < j /\ q[j][2] = Top => q[i][2] = Top

\* A node's operations are put behind those of the others.
LEMMA OpsAppended ==
    ASSUME NEW S, NEW q \in Seq(S), NEW r \in Seq(S), NEW n, \A i \in DOMAIN r : r[i][2] = n
    PROVE  /\ \A m : Mentions(q \o r, m) <=> Mentions(q, m) \/ Mentions(r, m)
           /\ \A m : m # n /\ EndsMade(q, m) => EndsMade(q \o r, m)
           /\ EndsMade(r, n) => EndsMade(q \o r, n)
           /\ TopFirst(q) /\ n # Top => TopFirst(q \o r)
<1> DEFINE qr == q \o r
<1>1. Len(q) \in Nat /\ DOMAIN q = 1..Len(q) /\ DOMAIN r = 1..Len(r) /\ Len(r) \in Nat
  OBVIOUS
<1>2. \A i \in DOMAIN q : i \in DOMAIN qr /\ qr[i] = q[i]
  OBVIOUS
<1>3. \A i \in DOMAIN r : Len(q) + i \in DOMAIN qr /\ qr[Len(q) + i] = r[i]
  OBVIOUS
<1>4. \A i \in DOMAIN qr : \/ i \in DOMAIN q /\ qr[i] = q[i]
                           \/ i > Len(q) /\ i - Len(q) \in DOMAIN r /\ qr[i] = r[i - Len(q)]
  OBVIOUS
<1>5. \A i \in DOMAIN qr : i \in Nat
  OBVIOUS
<1> HIDE DEF qr
<1>6. \A m : Mentions(qr, m) <=> Mentions(q, m) \/ Mentions(r, m)
  BY <1>2, <1>3, <1>4 DEF Mentions
<1>7. ASSUME NEW m, m # n, EndsMade(q, m) PROVE EndsMade(qr, m)
  <2>1. PICK i \in DOMAIN q : q[i][2] = m /\ q[i][1] # "remove"
                              /\ \A j \in DOMAIN q : q[j][2] = m => j <= i
    BY <1>7 DEF EndsMade
  <2>2. \A j \in DOMAIN qr : qr[j][2] = m => j \in DOMAIN q /\ q[j][2] = m
    BY <1>4, <1>7
  <2> QED
    BY <1>2, <2>1, <2>2 DEF EndsMade
<1>8. ASSUME EndsMade(r, n) PROVE EndsMade(qr, n)
  <2>1. PICK i \in DOMAIN r : r[i][2] = n /\ r[i][1] # "remove"
                              /\ \A j \in DOMAIN r : r[j][2] = n => j <= i
    BY <1>8 DEF EndsMade
  <2>2. Len(q) + i \in DOMAIN qr /\ qr[Len(q) + i] = r[i]
    BY <1>3
  <2>3. ASSUME NEW j \in DOMAIN qr, qr[j][2] = n PROVE j <= Len(q) + i
    <3>1. CASE j \in DOMAIN q
      BY <1>1, <3>1
    <3>2. CASE j - Len(q) \in DOMAIN r /\ qr[j] = r[j - Len(q)]
      <4>1. j - Len(q) <= i
        BY <2>1, <2>3, <3>2
      <4> QED
        BY <1>1, <1>5, <3>2, <4>1
    <3> QED
      BY <1>4, <3>1, <3>2
  <2> QED
    BY <2>1, <2>2, <2>3 DEF EndsMade
<1>9. ASSUME TopFirst(q), n # Top PROVE TopFirst(qr)
  <2> SUFFICES ASSUME NEW i \in DOMAIN qr, NEW j \in DOMAIN qr, i < j, qr[j][2] = Top
               PROVE  qr[i][2] = Top
    BY DEF TopFirst
  <2>1. j \in DOMAIN q /\ qr[j] = q[j]
    BY <1>4, <1>9
  <2>2. i \in DOMAIN q /\ qr[i] = q[i]
    BY <1>1, <1>2, <1>5, <2>1
  <2> QED
    BY <1>9, <2>1, <2>2 DEF TopFirst
<1> QED
  BY <1>6, <1>7, <1>8, <1>9 DEF qr

\* The operation at the head is done.
LEMMA OpsDone ==
    ASSUME NEW S, NEW q \in Seq(S), q # << >>
    PROVE  /\ \A m : Mentions(q, m) <=> Head(q)[2] = m \/ Mentions(Tail(q), m)
           /\ \A m : EndsMade(q, m) =>
                 \/ EndsMade(Tail(q), m)
                 \/ ~Mentions(Tail(q), m) /\ Head(q)[2] = m /\ Head(q)[1] # "remove"
           /\ TopFirst(q) => TopFirst(Tail(q))
           /\ TopFirst(q) /\ Mentions(q, Top) => Head(q)[2] = Top
<1> DEFINE t == Tail(q)
<1>1. Head(q) = q[1] /\ 1 \in DOMAIN q /\ \A i \in DOMAIN q : i \in Nat /\ i >= 1
  OBVIOUS
<1>2. \A i \in DOMAIN t : i \in Nat /\ i >= 1 /\ i + 1 \in DOMAIN q /\ t[i] = q[i + 1]
  OBVIOUS
<1>3. \A i \in DOMAIN q : i = 1 \/ (i - 1 \in DOMAIN t /\ t[i - 1] = q[i])
  OBVIOUS
<1> HIDE DEF t
<1>4. \A m : Mentions(q, m) <=> Head(q)[2] = m \/ Mentions(t, m)
  BY <1>1, <1>2, <1>3 DEF Mentions
<1>5. ASSUME NEW m, EndsMade(q, m)
      PROVE  EndsMade(t, m) \/ (~Mentions(t, m) /\ Head(q)[2] = m /\ Head(q)[1] # "remove")
  <2>1. PICK i \in DOMAIN q : q[i][2] = m /\ q[i][1] # "remove"
                              /\ \A j \in DOMAIN q : q[j][2] = m => j <= i
    BY <1>5 DEF EndsMade
  <2>2. ASSUME NEW j \in DOMAIN t, t[j][2] = m PROVE j + 1 <= i
    BY <1>2, <2>1, <2>2
  <2>3. CASE i = 1
    <3>1. ~Mentions(t, m)
      BY <1>2, <2>2, <2>3 DEF Mentions
    <3> QED
      BY <1>1, <2>1, <2>3, <3>1
  <2>4. CASE i # 1
    <3>1. i - 1 \in DOMAIN t /\ t[i - 1] = q[i] /\ i \in Nat
      BY <1>1, <1>3, <2>4
    <3>2. \A j \in DOMAIN t : t[j][2] = m => j <= i - 1
      BY <1>2, <2>2, <3>1
    <3> QED
      BY <2>1, <3>1, <3>2 DEF EndsMade
  <2> QED
    BY <2>3, <2>4
<1>6. ASSUME TopFirst(q) PROVE TopFirst(t)
  <2> SUFFICES ASSUME NEW i \in DOMAIN t, NEW j \in DOMAIN t, i < j, t[j][2] = Top
               PROVE  t[i][2] = Top
    BY DEF TopFirst
  <2>1. i + 1 < j + 1 /\ q[j + 1][2] = Top
    BY <1>2
  <2> QED
    BY <1>2, <1>6, <2>1 DEF TopFirst
<1>7. ASSUME TopFirst(q), Mentions(q, Top) PROVE Head(q)[2] = Top
  <2>1. PICK j \in DOMAIN q : q[j][2] = Top
    BY <1>7 DEF Mentions
  <2>2. j = 1 \/ 1 < j
    BY <1>1
  <2> QED
    BY <1>1, <1>7, <2>1, <2>2 DEF TopFirst
<1> QED
  BY <1>4, <1>5, <1>6, <1>7 DEF t

-----------------------------------------------------------------------------
(* FsMove: the inductive invariant                                          *)

Things == [kind : {"none", "dir", "file", "link"}, data : {"none", "new", "old"},
           time : {"none", "then", "now"}, mode : {"none", "x", "default"}]
Tree == [Node -> Things]
Wanted == {Top} \cup Entries(src0)
Exempt(n) == opts.sync /\ n = Top /\ src0[Top].kind = "dir"

\* The trees, as a program can find them.
FmTrees ==
    /\ src \in Tree /\ dst \in Tree /\ src0 \in Tree /\ dst0 \in Tree
    /\ src0[Top].kind # "none"
    /\ \A n \in Names : src0[n].kind # "dir"
    /\ \A n \in Names : src0[n].kind # "none" => src0[Top].kind = "dir"
    /\ \A n \in Names : dst0[n].kind # "none" => dst0[Top].kind = "dir"
    /\ \A n \in Node : src0[n].kind \in {"none", "dir"} => src0[n].data = "none"
    /\ \A n \in Node : dst0[n].kind \in {"none", "dir"} => dst0[n].data = "none"
    /\ opts.call = "move" => opts.overwrite

\* What is to be copied has been.
Arrived == \A n \in Wanted : Same(dst[n], src0[n]) \/ Exempt(n)
\* ... with its times and modes, where nothing was.
Exact ==
    dst0[Top].kind = "none" /\ ~opts.sync =>
        \A n \in Wanted : dst[n].time = src0[n].time /\ dst[n].mode = src0[n].mode

\* The source stays as it was until the copy has arrived.
FmSource ==
    /\ phase = "rename" => opts.call = "move" /\ dst = dst0 /\ pre = << >> /\ post = {}
    /\ phase \in {"scan", "pre", "post"} => ~opts.sync
    /\ phase = "sync" => opts.sync
    /\ phase \in {"rename", "scan", "pre", "post", "sync"} => src = src0
    /\ src = src0 \/ (opts.call = "move" /\ Arrived)
    /\ phase = "remove" => opts.call = "move"
    /\ Copied /\ opts.overwrite => Arrived /\ Exact
    /\ \A n \in Node : src0[n].kind = "none" => Same(src[n], src0[n])

Planned(n) == EndsMade(pre, n) \/ (~Mentions(pre, n) /\ Same(dst[n], src0[n]))
Fixing(n) == <<"utime", n>> \in post /\ <<"chmod", n>> \in post

\* prelayout, while it grows and while it is worked off
FmPlan ==
    phase \in {"scan", "pre"} =>
        /\ pre \in Seq({"remove", "mkdir", "copy"} \X Wanted)
        /\ post \in SUBSET ({"utime", "chmod"} \X Wanted)
        /\ TopFirst(pre)
        /\ ~opts.overwrite =>
              \A i \in DOMAIN pre : pre[i][1] # "remove" /\ dst0[pre[i][2]].kind = "none"

\* A node that was scanned has its operations.
Scanned0(n) == n \notin Range(scan) /\ Top \notin Range(scan)
FmScan ==
    phase = "scan" =>
        /\ dst = dst0 /\ scan \in Seq(Wanted)
        /\ Top \in Range(scan) => scan = <<Top>> /\ pre = << >>
        /\ opts.overwrite => \A n \in Wanted : Scanned0(n) =>
              Planned(n) /\ (n # Top => Mentions(pre, n))
        /\ dst0[Top].kind = "none" => \A n \in Wanted : Scanned0(n) => Fixing(n)

\* The operations that are left complete the copy.
FmRun ==
    phase = "pre" =>
        /\ opts.overwrite =>
              /\ \A n \in Wanted : Planned(n)
              /\ Mentions(pre, Top) => \A n \in Entries(src0) : Mentions(pre, n)
        /\ dst0[Top].kind = "none" => \A n \in Wanted : Fixing(n)

FmFix ==
    phase = "post" =>
        /\ post \in SUBSET ({"utime", "chmod"} \X Wanted)
        /\ opts.overwrite => Arrived
        /\ dst0[Top].kind = "none" => \A n \in Wanted :
              /\ <<"utime", n>> \in post \/ dst[n].time = src0[n].time
              /\ <<"chmod", n>> \in post \/ dst[n].mode = src0[n].mode

\* copySync: a node has arrived, or is still to be looked at or written.
FmSync ==
    phase = "sync" =>
        /\ scan \in Seq({"look", "write", "chmod"} \X Wanted)
        /\ opts.overwrite => \A n \in Wanted :
              \/ Same(dst[n], src0[n]) \/ Exempt(n)
              \/ <<"look", n>> \in Range(scan) \/ <<"write", n>> \in Range(scan)
              \/ <<"look", Top>> \in Range(scan)
        /\ ~opts.overwrite => \A n \in Wanted :
              <<"write", n>> \in Range(scan) => dst0[n].kind = "none"

FmInv == FmTrees /\ FmSource /\ FmPlan /\ FmScan /\ FmRun /\ FmFix /\ FmSync /\ KeepsOld

\* What putting a thing into a tree, or taking it out, does to the others.
LEMMA WithThingIs ==
    ASSUME NEW t \in Tree, NEW n \in Node, NEW x \in Things
    PROVE  /\ WithThing(t, n, x) \in Tree
           /\ WithThing(t, n, x)[n] = x
           /\ \A m \in Node : m # n /\ ~(n = Top /\ x.kind = "none") =>
                 Same(WithThing(t, n, x)[m], t[m])
           /\ \A m \in Node : m # n => \/ Same(WithThing(t, n, x)[m], t[m])
                                       \/ WithThing(t, n, x)[m] = Nothing
<1> DEFINE w == WithThing(t, n, x)
<1>1. Top \in Node /\ Nothing \in Things
  BY DEF Node, Things, Nothing
<1>2. [t[Top] EXCEPT !.time = "now"] \in Things
  BY <1>1 DEF Tree, Things
<1>3. w \in Tree
  BY <1>1, <1>2 DEF WithThing, Tree
<1>4. w[n] = x
  BY DEF WithThing
<1>5. ASSUME NEW m \in Node, m # n
      PROVE  /\ \/ w[m] = [t[m] EXCEPT !.time = "now"] \/ w[m] = t[m]
                \/ n = Top /\ x.kind = "none" /\ w[m] = Nothing
  BY <1>5 DEF WithThing
<1>6. \A m \in Node : Same([t[m] EXCEPT !.time = "now"], t[m]) /\ Same(t[m], t[m])
  BY DEF Same, Tree, Things
<1> QED
  BY <1>3, <1>4, <1>5, <1>6

\* The nodes that are not to be copied do not exist.
LEMMA OthersAreNothing ==
    ASSUME FmTrees, NEW n \in Node, n \notin Wanted
    PROVE  src0[n].kind = "none"
  BY DEF FmTrees, Wanted, Entries, Child, Node

\* The wanted nodes are a finite set of nodes.
LEMMA WantedNodes == Wanted \subseteq Node /\ Top \in Wanted /\ IsFiniteSet(Entries(src0))
<1>1. Entries(src0) \subseteq Names
  BY DEF Entries
<1> QED
  BY <1>1, NamesAssumption, FS_Subset DEF Wanted, Node

\* A thing that is made again is the same thing.
LEMMA MadeIsSame ==
    ASSUME FmTrees, src = src0, NEW n \in Node
    PROVE  Made(n) \in Things /\ Same(Made(n), src0[n]) /\ Made(n).kind = src0[n].kind
<1>1. src[n] \in Things
  BY DEF FmTrees, Tree
<1> QED
  BY <1>1 DEF Made, Things, Same

\* At the beginning there is a tree to move or to copy.
LEMMA FmInitInv == FmInit => FmInv
<1> SUFFICES ASSUME FmInit PROVE FmInv
  OBVIOUS
<1>1. FmTrees
  <2>1. SourceThings \cup {Nothing} \subseteq Things /\ DestThings \cup {Nothing} \subseteq Things
    BY DEF SourceThings, DestThings, Thing, Nothing, Things
  <2>2. \A x \in SourceThings \cup DestThings \cup {Nothing} :
           x.kind \in {"none", "dir"} => x.data = "none"
    BY DEF SourceThings, DestThings, Thing, Nothing
  <2>3. src \in [Node -> SourceThings \cup {Nothing}] /\ dst \in [Node -> DestThings \cup {Nothing}]
    BY DEF FmInit, Trees
  <2>4. Names \subseteq Node /\ Top \in Node
    BY DEF Node
  <2> QED
    BY <2>1, <2>2, <2>3, <2>4 DEF FmInit, Trees, FmTrees, Tree
<1>2. FmSource /\ FmPlan
  BY DEF FmInit, FmSource, FmPlan, Copied, TopFirst, Same
<1>3. FmScan /\ FmSync
  BY WantedNodes DEF FmInit, FmScan, FmSync, First, Scanned0, Range
<1>4. FmRun /\ FmFix /\ KeepsOld
  BY DEF FmInit, FmRun, FmFix, KeepsOld, Same
<1> QED
  BY <1>1, <1>2, <1>3, <1>4 DEF FmInv

-----------------------------------------------------------------------------
(* FsMove: the steps                                                        *)

\* What depends on the trees at the beginning and the call alone.
LEMMA KeptKeeps ==
    ASSUME UNCHANGED kept
    PROVE  /\ Wanted' = Wanted /\ Entries(src0)' = Entries(src0)
           /\ \A n : Exempt(n)' <=> Exempt(n)
           /\ src0' = src0 /\ dst0' = dst0 /\ opts' = opts
  BY DEF kept, Wanted, Entries, Child, Exempt

\* The trees stay trees.
LEMMA TreesStay ==
    ASSUME FmTrees, UNCHANGED kept, src' \in Tree, dst' \in Tree
    PROVE  FmTrees'
  BY DEF FmTrees, kept

\* The source is the last to go.
LEMMA RenameStep == FmInv /\ Rename => FmInv'
<1> SUFFICES ASSUME FmInv, Rename PROVE FmInv'
  OBVIOUS
<1>1. /\ phase = "rename" /\ opts.call = "move" /\ opts.overwrite /\ src = src0 /\ dst = dst0
      /\ pre = << >> /\ post = {} /\ UNCHANGED kept /\ UNCHANGED <<pre, post>>
  BY DEF FmInv, FmSource, FmTrees, Rename, Fail
<1>2. src0' = src0 /\ dst0' = dst0 /\ opts' = opts /\ Wanted' = Wanted
  BY <1>1, KeptKeeps
<1>3. KeepsOld'
  BY <1>1, <1>2 DEF KeepsOld
<1>4. CASE dst' = src /\ src' = [n \in Node |-> Nothing] /\ phase' = "done"
  <2>1. FmTrees'
    <3>1. Nothing \in Things
      BY DEF Nothing, Things
    <3>2. src' \in Tree /\ dst' \in Tree
      BY <1>4, <3>1 DEF FmInv, FmTrees, Tree
    <3> QED
      BY <1>1, <3>2, TreesStay DEF FmInv
  <2>2. Arrived'
    BY <1>1, <1>2, <1>4 DEF Arrived, Same
  <2>3. \A n \in Node : src0[n].kind = "none" => Same(src'[n], src0[n])
    BY <1>4 DEF FmInv, FmTrees, Same, Nothing
  <2>4. FmSource'
    BY <1>1, <1>2, <1>4, <2>2, <2>3 DEF FmSource, Copied
  <2> QED
    BY <1>3, <1>4, <2>1, <2>4 DEF FmInv, FmPlan, FmScan, FmRun, FmFix, FmSync
<1>5. CASE /\ phase' = (IF opts.sync THEN "sync" ELSE "scan") /\ scan' = First
           /\ UNCHANGED <<src, dst, pre, post, tries, kept>>
  <2>1. FmTrees'
    BY <1>1, <1>5, TreesStay DEF FmInv, FmTrees
  <2>2. FmSource' /\ FmRun' /\ FmFix'
    BY <1>1, <1>2, <1>5 DEF FmInv, FmSource, FmRun, FmFix, Copied
  <2>3. FmPlan'
    BY <1>1, <1>2, <1>5 DEF FmPlan, TopFirst
  <2>4. Range(<<Top>>) = {Top} /\ <<Top>> \in Seq(Wanted)
    BY WantedNodes DEF Range
  <2>5. FmScan'
    <3>1. phase' = "scan" => scan' = <<Top>>
      BY <1>5 DEF First
    <3> QED
      BY <1>1, <1>2, <1>5, <2>4, <3>1 DEF FmScan, Scanned0
  <2>6. /\ Range(<< <<"look", Top>> >>) = {<<"look", Top>>}
        /\ << <<"look", Top>> >> \in Seq({"look", "write", "chmod"} \X Wanted)
    BY WantedNodes DEF Range
  <2>7. FmSync'
    <3>1. phase' = "sync" => scan' = << <<"look", Top>> >>
      BY <1>5 DEF First
    <3> QED
      BY <1>1, <1>2, <2>6, <3>1 DEF FmSync
  <2> QED
    BY <1>3, <2>1, <2>2, <2>3, <2>5, <2>7 DEF FmInv
<1>6. CASE Fail
  <2>1. FmTrees'
    BY <1>1, <1>6, TreesStay DEF FmInv, FmTrees, Fail
  <2>2. FmSource'
    BY <1>1, <1>2, <1>6 DEF FmInv, FmSource, Copied, Fail
  <2> QED
    BY <1>3, <1>6, <2>1, <2>2 DEF FmInv, FmPlan, FmScan, FmRun, FmFix, FmSync, Fail
<1> QED
  BY <1>4, <1>5, <1>6 DEF Rename

\* Any operation may fail: nothing changes, and the source is where it was or
\* what was to be moved has arrived.
LEMMA FailStep == FmInv /\ StepFails => FmInv'
<1> SUFFICES ASSUME FmInv, StepFails PROVE FmInv'
  OBVIOUS
<1>1. UNCHANGED kept /\ UNCHANGED <<src, dst>> /\ phase' = "failed"
  BY DEF StepFails, Fail
<1>2. src0' = src0 /\ dst0' = dst0 /\ opts' = opts /\ Wanted' = Wanted
      /\ \A n : Exempt(n)' <=> Exempt(n)
  BY <1>1, KeptKeeps
<1>3. FmTrees'
  BY <1>1, TreesStay DEF FmInv, FmTrees
<1>4. Arrived => Arrived'
  BY <1>1, <1>2 DEF Arrived
<1>5. FmSource' /\ KeepsOld'
  BY <1>1, <1>2, <1>4 DEF FmInv, FmSource, Copied, KeepsOld
<1> QED
  BY <1>1, <1>3, <1>5 DEF FmInv, FmPlan, FmScan, FmRun, FmFix, FmSync

\* The removal of the source does not touch what has arrived.
LEMMA RemovalStep == FmInv /\ (RemoveEntry \/ RemoveTop \/ Busy) => FmInv'
<1> SUFFICES ASSUME FmInv, RemoveEntry \/ RemoveTop \/ Busy PROVE FmInv'
  OBVIOUS
<1>1. /\ UNCHANGED kept /\ UNCHANGED dst /\ phase = "remove" /\ phase' \in {"remove", "done"}
      /\ opts.call = "move" /\ opts.overwrite
  BY DEF FmInv, FmSource, FmTrees, RemoveEntry, RemoveTop, Busy
<1>2. src0' = src0 /\ dst0' = dst0 /\ opts' = opts /\ Wanted' = Wanted
      /\ \A n : Exempt(n)' <=> Exempt(n)
  BY <1>1, KeptKeeps
<1>3. Arrived /\ Exact
  BY <1>1 DEF FmInv, FmSource, Copied
<1>4. Arrived' /\ Exact'
  BY <1>1, <1>2, <1>3 DEF Arrived, Exact
<1>5. Nothing \in Things /\ src \in Tree /\ Top \in Node /\ Entries(src) \subseteq Node
  BY DEF Nothing, Things, FmInv, FmTrees, Node, Entries
<1>6. PICK n \in Node : src' = src \/ src' = WithThing(src, n, Nothing)
  BY <1>5 DEF RemoveEntry, RemoveTop, Busy
<1>7. src' \in Tree /\ \A m \in Node : Same(src'[m], src[m]) \/ src'[m] = Nothing
  BY <1>5, <1>6, WithThingIs DEF Same
<1>8. \A m \in Node : src0[m].kind = "none" => Same(src'[m], src0[m])
  BY <1>7 DEF FmInv, FmSource, FmTrees, Same, Nothing
<1>9. FmSource' /\ KeepsOld'
  BY <1>1, <1>2, <1>4, <1>8 DEF FmSource, Copied, KeepsOld
<1>10. FmTrees'
  BY <1>1, <1>7, TreesStay DEF FmInv, FmTrees
<1> QED
  BY <1>1, <1>9, <1>10 DEF FmInv, FmPlan, FmScan, FmRun, FmFix, FmSync

Ops == {"remove", "mkdir", "copy"} \X Wanted

\* The operations planned for a node are its own, and complete it.
LEMMA PlanIs ==
    ASSUME FmTrees, src = src0, dst = dst0, NEW n \in Wanted
    PROVE  /\ Plan(n) \in Seq(Ops)
           /\ \A i \in DOMAIN Plan(n) : Plan(n)[i][2] = n
           /\ Plan(n) # << >> => EndsMade(Plan(n), n) /\ Mentions(Plan(n), n)
           /\ Plan(n) = << >> => n = Top /\ dst0[n].kind = "dir" /\ Same(dst0[n], src0[n])
           /\ ~opts.overwrite /\ ~Skipped(n) => \A i \in DOMAIN Plan(n) :
                 Plan(n)[i][1] # "remove" /\ dst0[n].kind = "none"
<1> DEFINE rm == <<"remove", n>>
           mk == <<IF src[n].kind = "dir" THEN "mkdir" ELSE "copy", n>>
<1>1. rm \in Ops /\ mk \in Ops /\ mk[1] # "remove" /\ mk[2] = n /\ rm[2] = n /\ rm[1] = "remove"
  BY DEF Ops
<1>2. CASE src[n].kind = "dir" /\ dst[n].kind = "dir"
  <2>1. Plan(n) = << >>
    BY <1>2 DEF Plan, InTheWay
  <2>2. n = Top
    BY <1>2 DEF FmTrees, Wanted, Entries
  <2>3. Same(dst0[n], src0[n])
    BY <1>2, WantedNodes DEF FmTrees, Same
  <2> QED
    BY <1>2, <2>1, <2>2, <2>3
<1>3. CASE InTheWay(n) /\ ~(src[n].kind = "dir" /\ dst[n].kind = "dir")
  <2>5. Plan(n) = <<rm>> \o <<mk>>
    BY <1>3 DEF Plan
  <2> HIDE DEF rm, mk
  <2> DEFINE p == <<rm>> \o <<mk>>
  <2>1. <<rm>> \in Seq(Ops) /\ <<mk>> \in Seq(Ops) /\ Len(<<rm>>) = 1 /\ Len(<<mk>>) = 1
        /\ <<rm>>[1] = rm /\ <<mk>>[1] = mk
    BY <1>1
  <2>2. p \in Seq(Ops) /\ Len(p) = 2 /\ p[1] = rm /\ p[2] = mk
    BY <2>1
  <2> HIDE DEF p
  <2>6. DOMAIN p = 1..2 /\ p # << >>
    BY <2>2
  <2>3. EndsMade(p, n) /\ Mentions(p, n)
    BY <1>1, <2>2, <2>6 DEF EndsMade, Mentions
  <2>4. opts.overwrite \/ Skipped(n)
    BY <1>3 DEF Skipped
  <2> QED
    BY <1>1, <2>2, <2>3, <2>4, <2>5, <2>6 DEF p
<1>4. CASE ~InTheWay(n) /\ ~(src[n].kind = "dir" /\ dst[n].kind = "dir")
  <2>5. Plan(n) = << >> \o <<mk>> /\ dst[n].kind = "none"
    BY <1>4 DEF Plan, InTheWay
  <2> HIDE DEF rm, mk
  <2>1. Plan(n) = <<mk>> /\ dst[n].kind = "none"
    BY <2>5
  <2>2. <<mk>> \in Seq(Ops) /\ DOMAIN <<mk>> = 1..1 /\ <<mk>>[1] = mk /\ <<mk>> # << >>
    BY <1>1
  <2>3. EndsMade(<<mk>>, n) /\ Mentions(<<mk>>, n)
    BY <1>1, <2>2 DEF EndsMade, Mentions
  <2> QED
    BY <1>1, <2>1, <2>2, <2>3
<1> QED
  BY <1>2, <1>3, <1>4

\* One node is scanned: it leaves scan, and its operations join prelayout.
LEMMA ScanStep == FmInv /\ Scan => FmInv'
<1> SUFFICES ASSUME FmInv, Scan PROVE FmInv'
  OBVIOUS
<1> DEFINE n == Head(scan)
           down == n = Top /\ src[n].kind = "dir" /\ ~Skipped(n)
           more == IF down THEN SetToSeq(Entries(src)) ELSE << >>
           plan == IF Skipped(n) THEN << >> ELSE Plan(n)
<1>1. /\ phase = "scan" /\ phase' = "scan" /\ scan # << >> /\ UNCHANGED kept /\ UNCHANGED <<src, dst>>
      /\ scan' = Tail(scan) \o more /\ pre' = pre \o plan /\ post' = post \cup Fixes(n)
  BY DEF Scan
<1>2. src0' = src0 /\ dst0' = dst0 /\ opts' = opts /\ Wanted' = Wanted
  BY <1>1, KeptKeeps
<1>3. /\ FmTrees /\ src = src0 /\ dst = dst0 /\ scan \in Seq(Wanted) /\ pre \in Seq(Ops) /\ TopFirst(pre)
      /\ post \in SUBSET ({"utime", "chmod"} \X Wanted)
      /\ Top \in Range(scan) => scan = <<Top>> /\ pre = << >>
  BY <1>1 DEF FmInv, FmSource, FmPlan, FmScan, Ops
<1>4. n \in Wanted /\ Tail(scan) \in Seq(Wanted) /\ Range(scan) = {n} \cup Range(Tail(scan))
  BY <1>1, <1>3, RangeOfTail
<1>5. more \in Seq(Wanted) /\ Range(more) = (IF down THEN Entries(src0) ELSE {})
  <2>1. SetToSeq(Entries(src0)) \in Seq(Entries(src0)) /\ Range(SetToSeq(Entries(src0))) = Entries(src0)
    BY WantedNodes, SetToSeqIsOnto
  <2>2. Entries(src0) \subseteq Wanted
    BY DEF Wanted
  <2>3. SetToSeq(Entries(src0)) \in Seq(Wanted)
    BY <2>1, <2>2
  <2>4. << >> \in Seq(Wanted) /\ Range(<< >>) = {}
    BY DEF Range
  <2> QED
    BY <1>3, <2>1, <2>3, <2>4
<1>6. scan' \in Seq(Wanted) /\ Range(scan') = Range(Tail(scan)) \cup Range(more)
  <2> HIDE DEF more, n
  <2>1. more \in Seq(Wanted) /\ Tail(scan) \in Seq(Wanted)
    BY <1>4, <1>5
  <2> DEFINE rest == Tail(scan)
  <2>2. rest \in Seq(Wanted) /\ scan' = rest \o more
    BY <1>1, <2>1
  <2> HIDE DEF rest
  <2>3. rest \o more \in Seq(Wanted) /\ Range(rest \o more) = Range(rest) \cup Range(more)
    BY <2>1, <2>2, RangeOfConcat
  <2> QED
    BY <2>2, <2>3 DEF rest
<1>7. n = Top => scan = <<Top>> /\ pre = << >> /\ Tail(scan) = << >> /\ Range(Tail(scan)) = {}
  <2> SUFFICES ASSUME n = Top PROVE scan = <<Top>> /\ pre = << >> /\ Range(Tail(scan)) = {}
                                    /\ Tail(scan) = << >>
    OBVIOUS
  <2>1. scan = <<Top>> /\ pre = << >>
    BY <1>3, <1>4
  <2>2. Tail(scan) = << >>
    BY <2>1
  <2> QED
    BY <2>1, <2>2 DEF Range
<1>8. Top \notin Range(scan')
  <2>1. Top \notin Entries(src0)
    BY DEF Entries, Child
  <2>2. Top \notin Range(Tail(scan))
    BY <1>3, <1>4, <1>7
  <2> QED
    BY <1>5, <1>6, <2>1, <2>2
\* plan
<1>9. /\ plan \in Seq(Ops) /\ \A i \in DOMAIN plan : plan[i][2] = n
      /\ ~Skipped(n) /\ plan # << >> => EndsMade(plan, n) /\ Mentions(plan, n)
      /\ ~Skipped(n) /\ plan = << >> => n = Top /\ dst0[n].kind = "dir" /\ Same(dst0[n], src0[n])
      /\ ~opts.overwrite => \A i \in DOMAIN plan : plan[i][1] # "remove" /\ dst0[n].kind = "none"
  BY <1>3, <1>4, PlanIs
<1> HIDE DEF plan, more
<1>10. pre' \in Seq(Ops)
  BY <1>1, <1>3, <1>9
<1>11. /\ \A m : Mentions(pre', m) <=> Mentions(pre, m) \/ Mentions(plan, m)
       /\ \A m : m # n /\ EndsMade(pre, m) => EndsMade(pre', m)
       /\ EndsMade(plan, n) => EndsMade(pre', n)
       /\ TopFirst(pre) /\ n # Top => TopFirst(pre')
  BY <1>1, <1>3, <1>9, OpsAppended
<1>12. TopFirst(pre')
  <2>1. CASE n = Top
    <3>1. pre' = plan
      BY <1>1, <1>7, <1>9, <2>1
    <3> QED
      BY <1>9, <2>1, <3>1 DEF TopFirst
  <2> QED
    BY <1>3, <1>11, <2>1
<1>13. \A m : Mentions(plan, m) => m = n
  BY <1>9 DEF Mentions
<1>14. post' \in SUBSET ({"utime", "chmod"} \X Wanted) /\ post \subseteq post'
  BY <1>1, <1>3, <1>4 DEF Fixes
<1>15. FmPlan'
  <2>1. ASSUME ~opts.overwrite, NEW i \in DOMAIN pre'
        PROVE  pre'[i][1] # "remove" /\ dst0[pre'[i][2]].kind = "none"
    <3>1. \A j \in DOMAIN pre : pre[j][1] # "remove" /\ dst0[pre[j][2]].kind = "none"
      BY <1>1, <2>1 DEF FmInv, FmPlan
    <3>2. (i \in DOMAIN pre /\ pre'[i] = pre[i])
          \/ (i - Len(pre) \in DOMAIN plan /\ pre'[i] = plan[i - Len(pre)])
      BY <1>1, <1>3, <1>9, <2>1
    <3> QED
      BY <1>9, <2>1, <3>1, <3>2
  <2> QED
    BY <1>2, <1>10, <1>12, <1>14, <2>1 DEF FmPlan, Ops
\* What was scanned before, and is not Top's, was not touched.
<1>16. ASSUME NEW m \in Wanted, m # n, m \notin Range(scan'), ~Skipped(n) \/ n # Top
       PROVE  Scanned0(m)
  <2>1. n # Top
    <3> SUFFICES ASSUME n = Top PROVE FALSE
      OBVIOUS
    <3>1. m \in Entries(src0)
      BY <1>16 DEF Wanted
    <3>2. down
      BY <1>3, <1>16, <3>1 DEF Entries, Child
    <3> QED
      BY <1>5, <1>6, <1>16, <3>1, <3>2
  <2>2. Top \notin Range(scan)
    BY <1>3, <1>4, <2>1, <1>7, <1>8, <1>6
  <2> QED
    BY <1>4, <1>6, <1>16, <2>2 DEF Scanned0
<1>17. ASSUME opts.overwrite, NEW m \in Wanted, m \notin Range(scan')
       PROVE  Planned(m)' /\ (m # Top => Mentions(pre', m))
  <2>1. ~Skipped(n)
    BY <1>17 DEF Skipped
  <2>2. CASE m # n
    <3>1. Planned(m) /\ (m # Top => Mentions(pre, m))
      BY <1>1, <1>16, <1>17, <2>1, <2>2 DEF FmInv, FmScan
    <3>2. EndsMade(pre, m) => EndsMade(pre', m)
      BY <1>11, <2>2
    <3>3. Mentions(pre', m) <=> Mentions(pre, m)
      BY <1>11, <1>13, <2>2
    <3> QED
      BY <1>1, <1>2, <3>1, <3>2, <3>3 DEF Planned
  <2>3. CASE m = n /\ plan # << >>
    BY <1>9, <1>11, <2>1, <2>3 DEF Planned
  <2>4. CASE m = n /\ plan = << >>
    <3>1. n = Top /\ Same(dst0[n], src0[n])
      BY <1>9, <2>1, <2>4
    <3>2. pre' = << >>
      BY <1>1, <1>7, <2>4, <3>1
    <3>3. ~Mentions(pre', m)
      BY <3>2 DEF Mentions
    <3> QED
      BY <1>1, <1>2, <1>3, <2>4, <3>1, <3>3 DEF Planned
  <2> QED
    BY <2>2, <2>3, <2>4
<1>18. ASSUME dst0[Top].kind = "none", NEW m \in Wanted, m \notin Range(scan')
       PROVE  Fixing(m)'
  <2>1. dst[n].kind = "none"
    BY <1>3, <1>4, <1>18 DEF FmTrees, Wanted, Entries
  <2>2. ~Skipped(n)
    BY <2>1 DEF Skipped, InTheWay
  <2>3. CASE m # n
    <3>1. Fixing(m)
      BY <1>1, <1>16, <1>18, <2>2, <2>3 DEF FmInv, FmScan
    <3> QED
      BY <1>14, <3>1 DEF Fixing
  <2>4. CASE m = n
    <3>1. plan # << >> /\ plan = Plan(n)
      BY <1>3, <1>9, <2>1, <2>2 DEF plan
    <3>2. Updated(n)
      BY <2>2, <3>1 DEF Updated, Renewed
    <3>3. <<"utime", n>> \in Fixes(n) /\ <<"chmod", n>> \in Fixes(n)
      BY <2>1, <3>2 DEF Fixes
    <3> QED
      BY <1>1, <2>4, <3>3 DEF Fixing
  <2> QED
    BY <2>3, <2>4
<1>19. FmScan'
  BY <1>1, <1>2, <1>3, <1>6, <1>8, <1>17, <1>18 DEF FmScan, Scanned0
<1>20. FmTrees' /\ FmSource' /\ KeepsOld'
  <2>1. FmTrees'
    BY <1>1, TreesStay DEF FmInv, FmTrees
  <2> QED
    BY <1>1, <1>2, <1>3, <2>1 DEF FmInv, FmSource, Copied, KeepsOld
<1> QED
  BY <1>1, <1>15, <1>19, <1>20 DEF FmInv, FmRun, FmFix, FmSync

\* Everything is planned.
LEMMA ScannedStep == FmInv /\ Scanned => FmInv'
<1> SUFFICES ASSUME FmInv, Scanned PROVE FmInv'
  OBVIOUS
<1>1. /\ phase = "scan" /\ scan = << >> /\ phase' = "pre" /\ UNCHANGED kept
      /\ UNCHANGED <<src, dst, scan, pre, post>>
  BY DEF Scanned
<1>2. src0' = src0 /\ dst0' = dst0 /\ opts' = opts /\ Wanted' = Wanted
      /\ Entries(src0)' = Entries(src0)
  BY <1>1, KeptKeeps
<1>3. \A n \in Wanted : Scanned0(n)
  BY <1>1 DEF Scanned0, Range
<1>4. \A n \in Entries(src0) : n \in Wanted /\ n # Top
  BY DEF Wanted, Entries, Child
<1>5. FmRun'
  <2>1. opts.overwrite => /\ \A n \in Wanted : Planned(n)
                          /\ \A n \in Entries(src0) : Mentions(pre, n)
    BY <1>1, <1>3, <1>4 DEF FmInv, FmScan
  <2>2. dst0[Top].kind = "none" => \A n \in Wanted : Fixing(n)
    BY <1>1, <1>3 DEF FmInv, FmScan
  <2> QED
    BY <1>1, <1>2, <2>1, <2>2 DEF FmRun, Planned, Fixing
<1>6. FmPlan'
  BY <1>1, <1>2 DEF FmInv, FmPlan
<1>7. FmTrees' /\ FmSource' /\ KeepsOld'
  BY <1>1, <1>2, TreesStay DEF FmInv, FmTrees, FmSource, Copied, KeepsOld
<1> QED
  BY <1>1, <1>5, <1>6, <1>7 DEF FmInv, FmScan, FmFix, FmSync

\* One operation is done: what it is about is there, or still to be made.
LEMMA RunPreStep == FmInv /\ RunPre => FmInv'
<1> SUFFICES ASSUME FmInv, RunPre PROVE FmInv'
  OBVIOUS
<1> DEFINE n == Head(pre)[2]
           x == IF Head(pre)[1] = "remove" THEN Nothing ELSE Made(n)
<1>1. /\ phase = "pre" /\ phase' = "pre" /\ pre # << >> /\ UNCHANGED kept
      /\ UNCHANGED <<src, scan, post>> /\ dst' = WithThing(dst, n, x) /\ pre' = Tail(pre)
  BY DEF RunPre
<1>2. src0' = src0 /\ dst0' = dst0 /\ opts' = opts /\ Wanted' = Wanted
      /\ Entries(src0)' = Entries(src0)
  BY <1>1, KeptKeeps
<1>3. /\ FmTrees /\ src = src0 /\ dst \in Tree /\ pre \in Seq(Ops) /\ TopFirst(pre)
      /\ post \in SUBSET ({"utime", "chmod"} \X Wanted)
  BY <1>1 DEF FmInv, FmTrees, FmSource, FmPlan, Ops
<1>4. Head(pre) \in Ops /\ Tail(pre) \in Seq(Ops) /\ Head(pre) = pre[1] /\ 1 \in DOMAIN pre
      /\ \A i \in DOMAIN Tail(pre) : i + 1 \in DOMAIN pre /\ Tail(pre)[i] = pre[i + 1]
  BY <1>1, <1>3
<1>5. n \in Wanted /\ n \in Node
  BY <1>4, WantedNodes DEF Ops
<1>6. /\ x \in Things
      /\ x.kind = "none" => Head(pre)[1] = "remove"
      /\ Head(pre)[1] # "remove" => Same(x, src0[n])
  <2>1. src0[n].kind # "none"
    BY <1>3, <1>5 DEF FmTrees, Wanted, Entries, Child
  <2>2. Made(n) \in Things /\ Same(Made(n), src0[n]) /\ Made(n).kind = src0[n].kind
    BY <1>3, <1>5, MadeIsSame
  <2>3. Nothing \in Things
    BY DEF Nothing, Things
  <2> QED
    BY <2>1, <2>2, <2>3
<1> HIDE DEF x
<1>7. /\ dst' \in Tree /\ dst'[n] = x
      /\ \A m \in Node : m # n /\ ~(n = Top /\ x.kind = "none") => Same(dst'[m], dst[m])
  <2> HIDE DEF n
  <2>1. dst \in Tree /\ n \in Node /\ x \in Things
    BY <1>3, <1>5, <1>6
  <2> QED
    BY <1>1, <2>1, WithThingIs
<1>8. /\ \A m : Mentions(pre, m) <=> n = m \/ Mentions(pre', m)
      /\ \A m : EndsMade(pre, m) =>
            \/ EndsMade(pre', m)
            \/ ~Mentions(pre', m) /\ n = m /\ Head(pre)[1] # "remove"
      /\ TopFirst(pre')
      /\ Mentions(pre, Top) => n = Top
  BY <1>1, <1>3, OpsDone
<1> HIDE DEF n
<1>9. FmPlan'
  <2>1. ~opts.overwrite =>
           \A i \in DOMAIN pre' : pre'[i][1] # "remove" /\ dst0[pre'[i][2]].kind = "none"
    BY <1>1, <1>4 DEF FmInv, FmPlan
  <2> QED
    BY <1>1, <1>2, <1>3, <1>4, <1>8, <2>1 DEF FmPlan, Ops
<1>10. ASSUME opts.overwrite, NEW m \in Wanted PROVE Planned(m)'
  <2>1. Planned(m) /\ (Mentions(pre, Top) => \A e \in Entries(src0) : Mentions(pre, e))
    BY <1>1, <1>10 DEF FmInv, FmRun
  <2>2. CASE EndsMade(pre', m)
    BY <2>2 DEF Planned
  <2>3. CASE ~Mentions(pre', m) /\ n = m /\ Head(pre)[1] # "remove"
    BY <1>2, <1>6, <1>7, <2>3 DEF Planned
  <2>4. CASE ~Mentions(pre, m) /\ Same(dst[m], src0[m])
    <3>1. m # n /\ ~Mentions(pre', m)
      BY <1>8, <2>4
    <3>2. n # Top
      BY <1>8, <2>1, <2>4, <3>1 DEF Wanted
    <3>3. Same(dst'[m], dst[m])
      BY <1>7, <3>1, <3>2, WantedNodes
    <3> QED
      BY <1>2, <2>4, <3>1, <3>3 DEF Planned, Same
  <2> QED
    BY <1>8, <2>1, <2>2, <2>3, <2>4 DEF Planned
<1>11. FmRun'
  <2>1. ASSUME opts.overwrite, Mentions(pre', Top), NEW m \in Entries(src0)
        PROVE  Mentions(pre', m)
    <3>1. n = Top /\ m # Top
      BY <1>8, <2>1 DEF Entries, Child
    <3> QED
      BY <1>1, <1>8, <2>1, <3>1 DEF FmInv, FmRun
  <2>2. dst0[Top].kind = "none" => \A m \in Wanted : Fixing(m)
    BY <1>1 DEF FmInv, FmRun
  <2> QED
    BY <1>1, <1>2, <1>10, <2>1, <2>2 DEF FmRun, Fixing
<1>12. KeepsOld'
  <2> SUFFICES ASSUME ~opts.overwrite, NEW m \in Node, dst0[m].kind # "none"
               PROVE  Same(dst'[m], dst0[m])
    BY <1>2 DEF KeepsOld
  <2>1. Head(pre)[1] # "remove" /\ dst0[n].kind = "none"
    BY <1>1, <1>4 DEF FmInv, FmPlan, n
  <2>2. Same(dst'[m], dst[m])
    BY <1>6, <1>7, <2>1
  <2> QED
    BY <2>2 DEF FmInv, KeepsOld, Same
<1>13. FmTrees' /\ FmSource'
  BY <1>1, <1>2, <1>3, <1>7, TreesStay DEF FmInv, FmTrees, FmSource, Copied
<1> QED
  BY <1>1, <1>9, <1>11, <1>12, <1>13 DEF FmInv, FmScan, FmFix, FmSync

\* All operations are done: what was wanted has arrived.
LEMMA PreDoneStep == FmInv /\ PreDone => FmInv'
<1> SUFFICES ASSUME FmInv, PreDone PROVE FmInv'
  OBVIOUS
<1>1. /\ phase = "pre" /\ pre = << >> /\ phase' = "post" /\ UNCHANGED kept
      /\ UNCHANGED <<src, dst, scan, pre, post>>
  BY DEF PreDone
<1>2. src0' = src0 /\ dst0' = dst0 /\ opts' = opts /\ Wanted' = Wanted
      /\ \A n : Exempt(n)' <=> Exempt(n)
  BY <1>1, KeptKeeps
<1>3. \A n : ~EndsMade(pre, n)
  BY <1>1 DEF EndsMade
<1>4. opts.overwrite => Arrived
  BY <1>1, <1>3 DEF FmInv, FmRun, Planned, Arrived
<1>5. FmFix'
  BY <1>1, <1>2, <1>4 DEF FmInv, FmPlan, FmRun, FmFix, Fixing, Arrived
<1>6. FmTrees' /\ FmSource' /\ KeepsOld'
  BY <1>1, <1>2, TreesStay DEF FmInv, FmTrees, FmSource, Copied, KeepsOld
<1> QED
  BY <1>1, <1>5, <1>6 DEF FmInv, FmPlan, FmScan, FmRun, FmSync

\* A time or a mode is set, of a node that stays what it is.
LEMMA RunPostStep == FmInv /\ RunPost => FmInv'
<1> SUFFICES ASSUME FmInv, RunPost PROVE FmInv'
  OBVIOUS
<1>1. /\ phase = "post" /\ phase' = "post" /\ UNCHANGED kept /\ UNCHANGED <<src, scan, pre>>
  BY DEF RunPost
<1>2. PICK x \in post :
         /\ post' = post \ {x}
         /\ dst' = IF x[1] = "utime" THEN [dst EXCEPT ![x[2]].time = src[x[2]].time]
                   ELSE [dst EXCEPT ![x[2]].mode = src[x[2]].mode]
  BY DEF RunPost
<1>3. src0' = src0 /\ dst0' = dst0 /\ opts' = opts /\ Wanted' = Wanted
      /\ \A n : Exempt(n)' <=> Exempt(n)
  BY <1>1, KeptKeeps
<1>4. /\ src = src0 /\ src0 \in Tree /\ dst \in Tree /\ post \in SUBSET ({"utime", "chmod"} \X Wanted)
      /\ opts.overwrite => Arrived
      /\ ~opts.sync
  BY <1>1 DEF FmInv, FmTrees, FmSource, FmFix
<1>5. x[1] \in {"utime", "chmod"} /\ x[2] \in Wanted /\ x[2] \in Node /\ x = <<x[1], x[2]>>
  BY <1>4, WantedNodes
<1>6. /\ dst' \in Tree
      /\ \A m \in Node :
            /\ dst'[m].kind = dst[m].kind /\ dst'[m].data = dst[m].data
            /\ dst'[m].time = (IF x = <<"utime", m>> THEN src0[m].time ELSE dst[m].time)
            /\ dst'[m].mode = (IF x = <<"chmod", m>> THEN src0[m].mode ELSE dst[m].mode)
  BY <1>2, <1>4, <1>5 DEF Tree, Things
<1>7. \A m \in Node : Same(dst'[m], dst[m])
  BY <1>6 DEF Same
<1>8. opts.overwrite => Arrived'
  BY <1>3, <1>4, <1>7, WantedNodes DEF Arrived, Same
<1>9. FmFix'
  <2>1. ASSUME dst0[Top].kind = "none", NEW m \in Wanted
        PROVE  /\ <<"utime", m>> \in post' \/ dst'[m].time = src0[m].time
               /\ <<"chmod", m>> \in post' \/ dst'[m].mode = src0[m].mode
    <3>1. /\ <<"utime", m>> \in post \/ dst[m].time = src0[m].time
          /\ <<"chmod", m>> \in post \/ dst[m].mode = src0[m].mode
      BY <1>1, <2>1 DEF FmInv, FmFix
    <3>2. m \in Node
      BY WantedNodes
    <3> QED
      BY <1>2, <1>6, <3>1, <3>2
  <2> QED
    BY <1>2, <1>3, <1>4, <1>8, <2>1 DEF FmFix
<1>10. FmTrees' /\ FmSource' /\ KeepsOld'
  <2>1. KeepsOld'
    BY <1>3, <1>7 DEF FmInv, KeepsOld, Same
  <2> QED
    BY <1>1, <1>3, <1>4, <1>6, <2>1, TreesStay DEF FmInv, FmTrees, FmSource, Copied
<1> QED
  BY <1>1, <1>9, <1>10 DEF FmInv, FmPlan, FmScan, FmRun, FmSync

\* The copy ends.
LEMMA CopyEnds == FmInv /\ (PostDone \/ SyncDone) => FmInv'
<1> SUFFICES ASSUME FmInv, PostDone \/ SyncDone PROVE FmInv'
  OBVIOUS
<1>1. /\ phase \in {"post", "sync"} /\ phase' = After /\ UNCHANGED kept
      /\ UNCHANGED <<src, dst, scan, pre, post>> /\ src = src0
  BY DEF PostDone, SyncDone, FmInv, FmSource
<1>2. src0' = src0 /\ dst0' = dst0 /\ opts' = opts /\ Wanted' = Wanted
      /\ \A n : Exempt(n)' <=> Exempt(n)
  BY <1>1, KeptKeeps
<1>3. opts.overwrite => Arrived /\ Exact
  <2>1. CASE PostDone
    BY <2>1 DEF PostDone, FmInv, FmFix, Exact
  <2>2. CASE SyncDone
    <3>1. phase = "sync" /\ opts.sync /\ Range(scan) = {}
      BY <2>2 DEF SyncDone, FmInv, FmSource, Range
    <3> QED
      BY <3>1 DEF FmInv, FmSync, Arrived, Exact
  <2> QED
    BY <2>1, <2>2
<1>4. opts.overwrite => Arrived' /\ Exact'
  BY <1>1, <1>2, <1>3 DEF Arrived, Exact
<1>5. FmTrees' /\ KeepsOld'
  BY <1>1, <1>2, TreesStay DEF FmInv, FmTrees, KeepsOld
<1>6. FmSource'
  BY <1>1, <1>2, <1>4 DEF FmInv, FmSource, FmTrees, Copied, After
<1> QED
  BY <1>1, <1>5, <1>6 DEF After, FmInv, FmPlan, FmScan, FmRun, FmFix, FmSync

Todo == {"look", "write", "chmod"} \X Wanted

\* What copySync still has to do, but for the entry at the head.
LEMMA SyncThen ==
    ASSUME FmInv, InSync, NEW S \in Seq(Todo), Then(S), dst' \in Tree
    PROVE  /\ phase = "sync" /\ phase' = "sync" /\ opts.sync /\ src = src0 /\ scan \in Seq(Todo)
           /\ Head(scan)[2] \in Wanted /\ Head(scan) = <<Head(scan)[1], Head(scan)[2]>>
           /\ Range(scan) = {Head(scan)} \cup Range(Tail(scan))
           /\ scan' \in Seq(Todo) /\ Range(scan') = Range(S) \cup Range(Tail(scan))
           /\ src0' = src0 /\ dst0' = dst0 /\ opts' = opts /\ Wanted' = Wanted
           /\ \A n : Exempt(n)' <=> Exempt(n)
           /\ FmTrees' /\ FmSource'
<1>1. /\ phase = "sync" /\ phase' = "sync" /\ scan # << >> /\ UNCHANGED kept
      /\ scan' = S \o Tail(scan) /\ src' = src /\ UNCHANGED <<pre, post>>
  BY DEF InSync, Then
<1>2. opts.sync /\ src = src0 /\ scan \in Seq(Todo)
  BY <1>1 DEF FmInv, FmSource, FmSync, Todo
<1>3. src0' = src0 /\ dst0' = dst0 /\ opts' = opts /\ Wanted' = Wanted
      /\ \A n : Exempt(n)' <=> Exempt(n)
  BY <1>1, KeptKeeps
<1>4. Head(scan) \in Todo /\ Tail(scan) \in Seq(Todo) /\ Range(scan) = {Head(scan)} \cup Range(Tail(scan))
  BY <1>1, <1>2, RangeOfTail
<1> DEFINE rest == Tail(scan)
<1>5. rest \in Seq(Todo) /\ scan' = S \o rest
  BY <1>1, <1>4
<1> HIDE DEF rest
<1>6. S \o rest \in Seq(Todo) /\ Range(S \o rest) = Range(S) \cup Range(rest)
  BY <1>5, RangeOfConcat
<1>7. Head(scan)[2] \in Wanted /\ Head(scan) = <<Head(scan)[1], Head(scan)[2]>>
  BY <1>4 DEF Todo
<1>8. FmTrees' /\ FmSource'
  BY <1>1, <1>2, <1>3, TreesStay DEF FmInv, FmTrees, FmSource, Copied
<1> QED
  BY <1>1, <1>2, <1>3, <1>4, <1>5, <1>6, <1>7, <1>8 DEF rest

\* copySync looks at a directory, which is the path itself.
LEMMA SyncFolderStep == FmInv /\ SyncFolder => FmInv'
<1> SUFFICES ASSUME FmInv, SyncFolder PROVE FmInv'
  OBVIOUS
<1> DEFINE n == Head(scan)[2]
           looks == {<<"look", m>> : m \in Entries(src)}
           S == SetToSeq(looks) \o << <<"chmod", n>> >>
<1>1. /\ InSync /\ Head(scan)[1] = "look" /\ src[n].kind = "dir" /\ Then(S)
      /\ dst' = IF dst[n].kind = "none" THEN WithThing(dst, n, Made(n)) ELSE dst
  BY DEF SyncFolder
<1>2. /\ phase = "sync" /\ scan \in Seq(Todo) /\ scan # << >> /\ src = src0 /\ FmTrees /\ dst \in Tree
      /\ n \in Wanted /\ n \in Node
  <2>1. phase = "sync" /\ scan \in Seq(Todo) /\ scan # << >> /\ src = src0 /\ FmTrees /\ dst \in Tree
    BY <1>1 DEF InSync, FmInv, FmSource, FmSync, FmTrees, Todo
  <2>2. Head(scan) \in Todo
    BY <2>1
  <2> QED
    BY <2>1, <2>2, WantedNodes DEF Todo
<1>3. n = Top /\ src0[Top].kind = "dir"
  BY <1>1, <1>2 DEF FmTrees, Wanted, Entries
<1>4. S \in Seq(Todo) /\ Range(S) = looks \cup {<<"chmod", n>>}
  <2>1. looks \subseteq {"look"} \X Entries(src0) /\ looks \subseteq Todo /\ <<"chmod", n>> \in Todo
    BY <1>2 DEF Wanted, Todo
  <2>2. IsFiniteSet({"look"}) /\ IsFiniteSet(Entries(src0))
    BY WantedNodes, FS_Singleton
  <2>3. IsFiniteSet({"look"} \X Entries(src0))
    BY <2>2, FS_Product
  <2>4. IsFiniteSet(looks)
    BY <2>1, <2>3, FS_Subset
  <2> HIDE DEF looks, n
  <2>5. SetToSeq(looks) \in Seq(looks) /\ Range(SetToSeq(looks)) = looks
    BY <2>4, SetToSeqIsOnto
  <2>6. SetToSeq(looks) \in Seq(Todo)
    BY <2>1, <2>5
  <2>7. << <<"chmod", n>> >> \in Seq(Todo) /\ Range(<< <<"chmod", n>> >>) = {<<"chmod", n>>}
    BY <2>1 DEF Range
  <2> QED
    BY <2>5, <2>6, <2>7, RangeOfConcat
<1>5. /\ Made(n) \in Things /\ Made(n).kind = src0[n].kind
  BY <1>2, MadeIsSame
<1>6. dst' \in Tree /\ \A m \in Node : (m # n \/ dst[n].kind # "none") => Same(dst'[m], dst[m])
  <2> HIDE DEF n
  <2>1. \A m \in Node : Same(dst[m], dst[m])
    BY DEF Same
  <2>2. Made(n).kind # "none"
    BY <1>3, <1>5
  <2> QED
    BY <1>1, <1>2, <1>5, <2>1, <2>2, WithThingIs
<1> HIDE DEF S
<1>7. /\ phase' = "sync" /\ opts.sync
      /\ Range(scan) = {Head(scan)} \cup Range(Tail(scan)) /\ Head(scan) = <<Head(scan)[1], n>>
      /\ scan' \in Seq(Todo) /\ Range(scan') = Range(S) \cup Range(Tail(scan))
      /\ src0' = src0 /\ dst0' = dst0 /\ opts' = opts /\ Wanted' = Wanted
      /\ \A m : Exempt(m)' <=> Exempt(m)
      /\ FmTrees' /\ FmSource'
  BY <1>1, <1>4, <1>6, SyncThen
<1>8. FmSync'
  <2>1. \A m \in Wanted : Exempt(m) \/ <<"look", m>> \in Range(scan')
    BY <1>2, <1>3, <1>4, <1>7 DEF Wanted, Exempt
  <2>2. \A m \in Wanted : <<"write", m>> \in Range(scan') => <<"write", m>> \in Range(scan)
    BY <1>4, <1>7
  <2> QED
    BY <1>2, <1>7, <2>1, <2>2 DEF FmInv, FmSync, Todo
<1>9. KeepsOld'
  <2> SUFFICES ASSUME ~opts.overwrite, NEW m \in Node, dst0[m].kind # "none"
               PROVE  Same(dst'[m], dst0[m])
    BY <1>7 DEF KeepsOld
  <2>1. Same(dst[m], dst0[m]) /\ dst[m].kind # "none"
    BY DEF FmInv, KeepsOld, Same
  <2> QED
    BY <1>6, <2>1 DEF Same
<1> QED
  BY <1>7, <1>8, <1>9 DEF FmInv, FmPlan, FmScan, FmRun, FmFix

\* ... at a file or a link: what is there is removed first, or kept.
LEMMA SyncEntryStep == FmInv /\ SyncEntry => FmInv'
<1> SUFFICES ASSUME FmInv, SyncEntry PROVE FmInv'
  OBVIOUS
<1> DEFINE n == Head(scan)[2]
           keeps == dst[n].kind # "none" /\ ~opts.overwrite
           S == IF keeps THEN << <<"chmod", n>> >> ELSE << <<"write", n>>, <<"chmod", n>> >>
<1>1. /\ InSync /\ Head(scan)[1] = "look" /\ src[n].kind # "dir" /\ Then(S)
      /\ dst' = IF keeps THEN dst ELSE WithThing(dst, n, Nothing)
  BY DEF SyncEntry
<1>2. /\ phase = "sync" /\ scan \in Seq(Todo) /\ scan # << >> /\ src = src0 /\ FmTrees /\ dst \in Tree
      /\ n \in Wanted /\ n \in Node
  <2>1. phase = "sync" /\ scan \in Seq(Todo) /\ scan # << >> /\ src = src0 /\ FmTrees /\ dst \in Tree
    BY <1>1 DEF InSync, FmInv, FmSource, FmSync, FmTrees, Todo
  <2>2. Head(scan) \in Todo
    BY <2>1
  <2> QED
    BY <2>1, <2>2, WantedNodes DEF Todo
<1>3. S \in Seq(Todo) /\ (keeps => <<"write", n>> \notin Range(S))
      /\ (~keeps => <<"write", n>> \in Range(S))
      /\ \A m : m # n => <<"write", m>> \notin Range(S)
  <2>1. <<"chmod", n>> \in Todo /\ <<"write", n>> \in Todo
    BY <1>2 DEF Todo
  <2> HIDE DEF n
  <2>2. /\ << <<"chmod", n>> >> \in Seq(Todo)
        /\ << <<"write", n>>, <<"chmod", n>> >> \in Seq(Todo)
    BY <2>1
  <2>3. /\ Range(<< <<"chmod", n>> >>) = {<<"chmod", n>>}
        /\ Range(<< <<"write", n>>, <<"chmod", n>> >>) = {<<"write", n>>, <<"chmod", n>>}
    BY DEF Range
  <2> QED
    BY <2>2, <2>3
<1>4. n = Top => Wanted = {Top}
  BY <1>1, <1>2 DEF Wanted, Entries, Child
<1> HIDE DEF n
<1>5. /\ dst' \in Tree
      /\ \A m \in Node : (keeps \/ (m # n /\ n # Top)) => Same(dst'[m], dst[m])
  <2>1. Nothing \in Things /\ \A m \in Node : Same(dst[m], dst[m])
    BY DEF Nothing, Things, Same
  <2> QED
    BY <1>1, <1>2, <2>1, WithThingIs
<1> HIDE DEF S
<1>6. /\ phase' = "sync" /\ opts.sync
      /\ Range(scan) = {Head(scan)} \cup Range(Tail(scan)) /\ Head(scan) = <<Head(scan)[1], n>>
      /\ scan' \in Seq(Todo) /\ Range(scan') = Range(S) \cup Range(Tail(scan))
      /\ src0' = src0 /\ dst0' = dst0 /\ opts' = opts /\ Wanted' = Wanted
      /\ \A m : Exempt(m)' <=> Exempt(m)
      /\ FmTrees' /\ FmSource'
  BY <1>1, <1>3, <1>5, SyncThen DEF n
<1>7. Head(scan) = <<"look", n>>
  BY <1>1, <1>6
<1>8. ~keeps => dst0[n].kind = "none" \/ opts.overwrite
  BY <1>2 DEF FmInv, KeepsOld, Same
<1>9. ASSUME opts.overwrite, NEW m \in Wanted
      PROVE  \/ Same(dst'[m], src0[m]) \/ Exempt(m)
             \/ <<"look", m>> \in Range(scan') \/ <<"write", m>> \in Range(scan')
             \/ <<"look", Top>> \in Range(scan')
  <2>1. CASE m = n
    BY <1>3, <1>6, <1>9, <2>1
  <2>2. CASE m # n
    <3>1. n # Top
      BY <1>4, <2>2
    <3>2. \/ Same(dst[m], src0[m]) \/ Exempt(m)
          \/ <<"look", m>> \in Range(scan) \/ <<"write", m>> \in Range(scan)
          \/ <<"look", Top>> \in Range(scan)
      BY <1>2, <1>9 DEF FmInv, FmSync
    <3>3. Same(dst'[m], dst[m])
      BY <1>5, <2>2, <3>1, WantedNodes
    <3> QED
      BY <1>6, <1>7, <2>2, <3>1, <3>2, <3>3 DEF Same
  <2> QED
    BY <2>1, <2>2
<1>10. ASSUME ~opts.overwrite, NEW m \in Wanted, <<"write", m>> \in Range(scan')
       PROVE  dst0[m].kind = "none"
  <2>1. CASE <<"write", m>> \in Range(scan)
    BY <1>2, <1>10, <2>1 DEF FmInv, FmSync
  <2>2. CASE <<"write", m>> \in Range(S)
    BY <1>3, <1>8, <1>10, <2>2
  <2> QED
    BY <1>6, <1>10, <2>1, <2>2
<1>11. FmSync'
  BY <1>6, <1>9, <1>10 DEF FmSync, Todo
<1>12. KeepsOld'
  <2> SUFFICES ASSUME ~opts.overwrite, NEW m \in Node, dst0[m].kind # "none"
               PROVE  Same(dst'[m], dst0[m])
    BY <1>6 DEF KeepsOld
  <2>1. Same(dst[m], dst0[m])
    BY DEF FmInv, KeepsOld
  <2>2. ~keeps => m # n /\ n # Top
    BY <1>2, <1>8 DEF FmTrees, Node
  <2> QED
    BY <1>5, <2>1, <2>2 DEF Same
<1> QED
  BY <1>6, <1>11, <1>12 DEF FmInv, FmPlan, FmScan, FmRun, FmFix

\* ... writes a file, where nothing is any more.
LEMMA SyncWriteStep == FmInv /\ SyncWrite => FmInv'
<1> SUFFICES ASSUME FmInv, SyncWrite PROVE FmInv'
  OBVIOUS
<1> DEFINE n == Head(scan)[2]
<1>1. InSync /\ Head(scan)[1] = "write" /\ Then(<< >>) /\ dst' = WithThing(dst, n, Made(n))
  BY DEF SyncWrite
<1>2. /\ phase = "sync" /\ scan \in Seq(Todo) /\ scan # << >> /\ src = src0 /\ FmTrees /\ dst \in Tree
      /\ n \in Wanted /\ n \in Node
  <2>1. phase = "sync" /\ scan \in Seq(Todo) /\ scan # << >> /\ src = src0 /\ FmTrees /\ dst \in Tree
    BY <1>1 DEF InSync, FmInv, FmSource, FmSync, FmTrees, Todo
  <2>2. Head(scan) \in Todo
    BY <2>1
  <2> QED
    BY <2>1, <2>2, WantedNodes DEF Todo
<1> HIDE DEF n
<1>3. /\ Made(n) \in Things /\ Same(Made(n), src0[n]) /\ Made(n).kind # "none"
  <2>1. src0[n].kind # "none"
    BY <1>2 DEF FmTrees, Wanted, Entries, Child
  <2> QED
    BY <1>2, <2>1, MadeIsSame
<1>4. dst' \in Tree /\ dst'[n] = Made(n) /\ \A m \in Node : m # n => Same(dst'[m], dst[m])
  BY <1>1, <1>2, <1>3, WithThingIs
<1>5. << >> \in Seq(Todo) /\ Range(<< >>) = {}
  BY DEF Range
<1>6. /\ phase' = "sync" /\ opts.sync
      /\ Range(scan) = {Head(scan)} \cup Range(Tail(scan)) /\ Head(scan) = <<"write", n>>
      /\ scan' \in Seq(Todo) /\ Range(scan') = Range(Tail(scan))
      /\ src0' = src0 /\ dst0' = dst0 /\ opts' = opts /\ Wanted' = Wanted
      /\ \A m : Exempt(m)' <=> Exempt(m)
      /\ FmTrees' /\ FmSource'
  BY <1>1, <1>4, <1>5, SyncThen DEF n
<1>7. ASSUME opts.overwrite, NEW m \in Wanted
      PROVE  \/ Same(dst'[m], src0[m]) \/ Exempt(m)
             \/ <<"look", m>> \in Range(scan') \/ <<"write", m>> \in Range(scan')
             \/ <<"look", Top>> \in Range(scan')
  <2>1. CASE m = n
    BY <1>3, <1>4, <2>1
  <2>2. CASE m # n
    <3>1. \/ Same(dst[m], src0[m]) \/ Exempt(m)
          \/ <<"look", m>> \in Range(scan) \/ <<"write", m>> \in Range(scan)
          \/ <<"look", Top>> \in Range(scan)
      BY <1>2, <1>7 DEF FmInv, FmSync
    <3>2. Same(dst'[m], dst[m])
      BY <1>4, <2>2, WantedNodes
    <3> QED
      BY <1>6, <2>2, <3>1, <3>2 DEF Same
  <2> QED
    BY <2>1, <2>2
<1>8. ~opts.overwrite => \A m \in Wanted : <<"write", m>> \in Range(scan) => dst0[m].kind = "none"
  BY <1>2 DEF FmInv, FmSync
<1>9. FmSync'
  BY <1>6, <1>7, <1>8 DEF FmSync, Todo
<1>10. KeepsOld'
  <2> SUFFICES ASSUME ~opts.overwrite, NEW m \in Node, dst0[m].kind # "none"
               PROVE  Same(dst'[m], dst0[m])
    BY <1>6 DEF KeepsOld
  <2>1. Same(dst[m], dst0[m])
    BY DEF FmInv, KeepsOld
  <2>2. m # n
    BY <1>2, <1>6, <1>8
  <2> QED
    BY <1>4, <2>1, <2>2 DEF Same
<1> QED
  BY <1>6, <1>9, <1>10 DEF FmInv, FmPlan, FmScan, FmRun, FmFix

\* ... and gives it its mode.
LEMMA SyncChmodStep == FmInv /\ SyncChmod => FmInv'
<1> SUFFICES ASSUME FmInv, SyncChmod PROVE FmInv'
  OBVIOUS
<1> DEFINE n == Head(scan)[2]
<1>1. InSync /\ Head(scan)[1] = "chmod" /\ Then(<< >>) /\ dst' = [dst EXCEPT ![n].mode = src[n].mode]
  BY DEF SyncChmod
<1>2. phase = "sync" /\ dst \in Tree /\ src \in Tree /\ n \in Node
  <2>1. phase = "sync" /\ scan \in Seq(Todo) /\ scan # << >> /\ dst \in Tree /\ src \in Tree
    BY <1>1 DEF InSync, FmInv, FmSync, FmTrees, Todo
  <2>2. Head(scan) \in Todo
    BY <2>1
  <2> QED
    BY <2>1, <2>2, WantedNodes DEF Todo
<1> HIDE DEF n
<1>3. dst' \in Tree /\ \A m \in Node : Same(dst'[m], dst[m])
  <2>1. src[n].mode \in {"none", "x", "default"}
    BY <1>2 DEF Tree, Things
  <2> QED
    BY <1>1, <1>2, <2>1 DEF Tree, Things, Same
<1>4. << >> \in Seq(Todo) /\ Range(<< >>) = {}
  BY DEF Range
<1>5. /\ phase' = "sync" /\ opts.sync
      /\ Range(scan) = {Head(scan)} \cup Range(Tail(scan)) /\ Head(scan) = <<"chmod", n>>
      /\ scan' \in Seq(Todo) /\ Range(scan') = Range(Tail(scan))
      /\ src0' = src0 /\ dst0' = dst0 /\ opts' = opts /\ Wanted' = Wanted
      /\ \A m : Exempt(m)' <=> Exempt(m)
      /\ FmTrees' /\ FmSource'
  BY <1>1, <1>3, <1>4, SyncThen DEF n
<1>6. ASSUME opts.overwrite, NEW m \in Wanted
      PROVE  \/ Same(dst'[m], src0[m]) \/ Exempt(m)
             \/ <<"look", m>> \in Range(scan') \/ <<"write", m>> \in Range(scan')
             \/ <<"look", Top>> \in Range(scan')
  <2>1. \/ Same(dst[m], src0[m]) \/ Exempt(m)
        \/ <<"look", m>> \in Range(scan) \/ <<"write", m>> \in Range(scan)
        \/ <<"look", Top>> \in Range(scan)
    BY <1>2, <1>6 DEF FmInv, FmSync
  <2> QED
    BY <1>3, <1>5, <2>1, WantedNodes DEF Same
<1>7. ~opts.overwrite => \A m \in Wanted : <<"write", m>> \in Range(scan) => dst0[m].kind = "none"
  BY <1>2 DEF FmInv, FmSync
<1>8. FmSync'
  BY <1>5, <1>6, <1>7 DEF FmSync, Todo
<1>9. KeepsOld'
  BY <1>3, <1>5 DEF FmInv, KeepsOld, Same
<1> QED
  BY <1>5, <1>8, <1>9 DEF FmInv, FmPlan, FmScan, FmRun, FmFix

\* Every step of a move or a copy.
LEMMA FmStepInv == FmInv /\ [FmNext]_fmVars => FmInv'
<1>1. ASSUME FmInv, UNCHANGED fmVars PROVE FmInv'
  <2>1. /\ UNCHANGED kept /\ src' = src /\ dst' = dst /\ phase' = phase /\ scan' = scan
        /\ pre' = pre /\ post' = post
    BY <1>1 DEF fmVars, kept
  <2>2. src0' = src0 /\ dst0' = dst0 /\ opts' = opts /\ Wanted' = Wanted
        /\ Entries(src0)' = Entries(src0) /\ \A n : Exempt(n)' <=> Exempt(n)
    BY <2>1, KeptKeeps
  <2>3. FmTrees' /\ KeepsOld'
    BY <1>1, <2>1, <2>2, TreesStay DEF FmInv, FmTrees, KeepsOld
  <2>4. (Arrived => Arrived') /\ (Exact => Exact')
    BY <2>1, <2>2 DEF Arrived, Exact
  <2>5. FmSource' /\ FmPlan'
    BY <1>1, <2>1, <2>2, <2>4 DEF FmInv, FmSource, FmPlan, Copied
  <2>6. \A n : (Planned(n)' <=> Planned(n)) /\ (Fixing(n)' <=> Fixing(n))
               /\ (Scanned0(n)' <=> Scanned0(n))
    BY <2>1, <2>2 DEF Planned, Fixing, Scanned0
  <2>7. FmScan' /\ FmRun'
    BY <1>1, <2>1, <2>2, <2>6 DEF FmInv, FmScan, FmRun
  <2>8. FmFix' /\ FmSync'
    BY <1>1, <2>1, <2>2, <2>4 DEF FmInv, FmFix, FmSync
  <2> QED
    BY <2>3, <2>5, <2>7, <2>8 DEF FmInv
<1> QED
  BY <1>1, RenameStep, FailStep, RemovalStep, ScanStep, ScannedStep, RunPreStep, PreDoneStep,
     RunPostStep, CopyEnds, SyncFolderStep, SyncEntryStep, SyncWriteStep, SyncChmodStep
  DEF FmNext

\* A copy or a move of a directory with any entries loses nothing, wherever it
\* fails, and has done what it says when it ends.
THEOREM CopyHonestAlways == FmSpec => []CopyHonest
<1>1. FmInv => NothingLost
  <2> SUFFICES ASSUME FmInv, opts.call = "move", NEW n \in Node
               PROVE  \/ Same(src[n], src0[n]) \/ Same(dst[n], src0[n])
                      \/ (opts.sync /\ n = Top /\ src0[n].kind = "dir")
    BY DEF NothingLost
  <2>1. CASE src = src0
    BY <2>1 DEF Same
  <2>2. CASE Arrived /\ n \in Wanted
    BY <2>2 DEF Arrived, Exempt
  <2>3. CASE n \notin Wanted
    BY <2>3, OthersAreNothing DEF FmInv, FmSource
  <2> QED
    BY <2>1, <2>2, <2>3 DEF FmInv, FmSource
<1>2. FmInv => CopyFaithful
  <2> SUFFICES ASSUME FmInv, Copied, opts.overwrite, src = src0, NEW n \in {Top} \cup Entries(src)
               PROVE  /\ Same(dst[n], src[n]) \/ (opts.sync /\ n = Top)
                      /\ dst0[Top].kind = "none" /\ ~opts.sync => dst[n] = src[n]
    BY DEF CopyFaithful
  <2>1. n \in Wanted /\ n \in Node /\ Arrived /\ Exact
    BY WantedNodes DEF Wanted, FmInv, FmSource
  <2>2. Same(dst[n], src[n]) \/ (opts.sync /\ n = Top)
    BY <2>1 DEF Arrived, Exempt
  <2>3. ASSUME dst0[Top].kind = "none", ~opts.sync PROVE dst[n] = src[n]
    <3>1. Same(dst[n], src[n]) /\ dst[n].time = src[n].time /\ dst[n].mode = src[n].mode
      BY <2>1, <2>2, <2>3 DEF Exact
    <3>2. dst[n] \in Things /\ src[n] \in Things
      BY <2>1 DEF FmInv, FmTrees, Tree
    <3> QED
      BY <3>1, <3>2 DEF Things, Same
  <2> QED
    BY <2>2, <2>3
<1>3. FmInv => CopyHonest
  BY <1>1, <1>2 DEF FmInv, CopyHonest
<1> QED
  BY <1>3, FmInitInv, FmStepInv, PTL DEF FmSpec
=============================================================================
