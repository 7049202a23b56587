----------------------------- MODULE AppsProofs -----------------------------
(* Paket's installer lock, for any number of installations, reloads and     *)
(* failing requests, and its pages; the records of its server, for any      *)
(* requests and crashes; the graph of a lockfile, for any lockfile and      *)
(* manifest; what goof stores and tells.                                    *)
EXTENDS MCApps, FiniteSetTheorems, SequenceTheorems, WellFoundedInduction, TLAPS

\* The state the lock depends on.
PkTypes ==
    /\ post \in [Posts -> {"none", "sent", "stored", "refused", "done"}]
    /\ chain \in [Callers -> {"none", "timer", "jobs", "requirements"}]
    /\ lost \in Nat

PkInv == PkTypes /\ LockIsWatched

\* The invariant holds initially.
LEMMA PkInitInv == PkInit => PkInv
  BY DEF PkInit, PkInv, PkTypes, LockIsWatched, NoJobs, Created, Callers

\* Every step leaves the lock watched: a post ends in a chain, a chain in an
\* unlocked installer or is counted as lost.
LEMMA PkStepInv == PkInv /\ [PkNext]_pkVars => PkInv'
<1> SUFFICES ASSUME PkInv, [PkNext]_pkVars PROVE PkInv'
  OBVIOUS
<1> USE DEF PkInv, PkTypes, LockIsWatched, UnderWay
<1>1. CASE UNCHANGED pkVars
  BY <1>1 DEF pkVars, store, form, page, counts
<1>2. ASSUME NEW j \in Posts, ServerStep(j) PROVE PkInv'
  <2>1. UNCHANGED <<lock, chain, lost>>
    BY <1>2 DEF ServerStep, store, counts
  <2>2. post' \in [Posts -> {"none", "sent", "stored", "refused", "done"}]
    BY <1>2 DEF ServerStep, Accept, Refuse, Finish, Stored
  <2>3. \A k \in Posts : UnderWay(k) => UnderWay(k)'
    BY <1>2 DEF ServerStep, Accept, Refuse, Finish, Stored
  <2> QED
    BY <2>1, <2>2, <2>3
<1>3. ASSUME NEW j \in Posts, postJobs(j) PROVE PkInv'
  BY <1>3 DEF postJobs, counts
<1>4. ASSUME NEW j \in Posts, PostEnds(j) PROVE PkInv'
  <2>1. j \in Callers /\ chain' = [chain EXCEPT ![j] = "timer"]
    BY <1>4 DEF PostEnds, autoRefreshJobs, Callers
  <2> QED
    BY <1>4, <2>1 DEF PostEnds, counts
<1>5. ASSUME NEW c \in Callers, Answer(c) \/ JobsCollected(c) PROVE PkInv'
  BY <1>5 DEF Answer, JobsCollected, counts
<1>6. ASSUME NEW c \in Callers, TimerFires(c) PROVE PkInv'
  BY <1>6 DEF TimerFires, counts
<1>7. ASSUME NEW c \in Callers, JobsArrive(c) PROVE PkInv'
  BY <1>7 DEF JobsArrive, autoRefreshJobs
<1>8. ASSUME NEW c \in Callers, RequirementsArrive(c) PROVE PkInv'
  BY <1>8 DEF RequirementsArrive
<1>9. ASSUME Refetch PROVE PkInv'
  BY <1>9 DEF Refetch
<1>10. ASSUME Reload PROVE PkInv'
  BY <1>10 DEF Reload, Created
<1>11. ASSUME FirstArrives \/ ItemTimer \/ ItemArrives \/ Leave PROVE PkInv'
  BY <1>11 DEF FirstArrives, ItemTimer, ItemArrives, Leave, Elsewhere, store
<1> QED
  BY <1>1, <1>2, <1>3, <1>4, <1>5, <1>6, <1>7, <1>8, <1>9, <1>10, <1>11
     DEF PkNext, Install, InstallForm

\* The installer is never locked with nobody left to unlock it, unless a chain
\* was lost.
THEOREM InstallerIsWatched == PkSpec => []LockIsWatched
<1>1. PkInv => LockIsWatched
  BY DEF PkInv
<1> QED
  BY <1>1, PkInitInv, PkStepInv, PTL DEF PkSpec

-----------------------------------------------------------------------------
(* The server's file of jobs, for any jobs and any number of deletions.     *)

Statuses == {"none", "Pending", "Running", "Success", "Failed"}
WriteKinds == {"none", "store", "delete", "exitCode", "Running", "Success", "Failed"}

PsTypes ==
    /\ index \in [Jobs -> Statuses] /\ truth \in [Jobs -> Statuses]
    /\ overlap \in {"yes", "no"}
    /\ write \in [Writers -> [kind : WriteKinds, copy : [Jobs -> Statuses]]]

Writing(w) == write[w].kind # "none"

\* Without an overlap one process at most is between its reading and its
\* putting, and what it is about to put is the truth; with none, the file is.
OneWriter ==
    overlap = "no" =>
        /\ \A v, w \in Writers : Writing(v) /\ Writing(w) => v = w
        /\ \A w \in Writers : Writing(w) => write[w].copy = truth
        /\ (\A w \in Writers : ~Writing(w)) => index = truth

PsInv == PsTypes /\ OneWriter

\* The invariant of the server holds initially.
LEMMA PsInitInv == PsInit => PsInv
  BY DEF PsInit, PsInv, PsTypes, OneWriter, Writing, Absent, Unwritten, Statuses, WriteKinds, Writers

\* A change made to what the file says is the change that was meant, when the
\* file says the truth.
LEMMA WrittenIsMeant ==
  ASSUME NEW kind \in WriteKinds \ {"none"}, NEW j \in Jobs, PsTypes
  PROVE  /\ Written(kind, index, j) \in [Jobs -> Statuses]
         /\ Meant(kind, j) \in [Jobs -> Statuses]
         /\ index = truth => Written(kind, index, j) = Meant(kind, j)
<1> USE DEF PsTypes, Statuses, WriteKinds, Written, Meant, changeJobStatus
<1>1. CASE kind = "store"
  BY <1>1
<1>2. CASE kind = "delete"
  BY <1>2
<1>3. CASE kind = "exitCode"
  BY <1>3
<1>4. CASE kind \in {"Running", "Success", "Failed"}
  BY <1>4
<1> QED
  BY <1>1, <1>2, <1>3, <1>4

\* Reading jobs.json to change it.
LEMMA GetStep ==
  ASSUME PsInv, NEW w \in Writers, NEW kind \in WriteKinds \ {"none"}, NEW j \in Jobs,
         getIndex(w, kind, j)
  PROVE  PsInv'
<1> DEFINE c == Written(kind, index, j)
           m == Meant(kind, j)
<1>1. /\ write' = [write EXCEPT ![w] = [kind |-> kind, copy |-> c]]
      /\ overlap' = IF \E v \in Writers : Writing(v) THEN "yes" ELSE overlap
      /\ truth' = m /\ index' = index /\ ~Writing(w)
  BY DEF getIndex, Writing
<1>2. /\ c \in [Jobs -> Statuses] /\ m \in [Jobs -> Statuses]
      /\ index = truth => c = m
  BY WrittenIsMeant DEF PsInv
<1> HIDE DEF c, m
<1>3. PsTypes'
  BY <1>1, <1>2 DEF PsInv, PsTypes
<1>4. /\ write'[w] = [kind |-> kind, copy |-> c]
      /\ \A v \in Writers \ {w} : write'[v] = write[v]
  BY <1>1 DEF PsInv, PsTypes
<1>5. ASSUME overlap' = "no"  PROVE OneWriter'
  <2>1. overlap = "no" /\ \A v \in Writers : ~Writing(v)
    BY <1>1, <1>5
  <2>2. c = m
    BY <1>2, <2>1 DEF PsInv, OneWriter
  <2> QED
    BY <1>1, <1>4, <2>1, <2>2 DEF OneWriter, Writing
<1>6. ASSUME overlap' # "no"  PROVE OneWriter'
  BY <1>6 DEF OneWriter
<1> QED
  BY <1>3, <1>5, <1>6 DEF PsInv

\* Putting jobs.json back.
LEMMA PutStep ==
  ASSUME PsInv, NEW w \in Writers, Writing(w), putIndex(w)
  PROVE  PsInv'
<1>1. /\ index' = write[w].copy /\ write' = [write EXCEPT ![w] = Unwritten]
      /\ truth' = truth /\ overlap' = overlap
  BY DEF putIndex
<1>2. PsTypes'
  BY <1>1 DEF PsInv, PsTypes, Unwritten, Absent, Statuses, WriteKinds
<1>3. ~Writing(w)' /\ \A v \in Writers \ {w} : write'[v] = write[v]
  BY <1>1 DEF PsInv, PsTypes, Unwritten, Writing
<1>4. OneWriter'
  BY <1>1, <1>3 DEF PsInv, OneWriter, Writing
<1> QED
  BY <1>2, <1>4 DEF PsInv

\* No step makes the file lie without an overlap.
LEMMA PsStepInv == PsInv /\ [PsNext]_psVars => PsInv'
<1> SUFFICES ASSUME PsInv, [PsNext]_psVars PROVE PsInv'
  OBVIOUS
<1>1. CASE UNCHANGED psVars
  BY <1>1 DEF psVars, PsInv, PsTypes, OneWriter, Writing
<1>2. ASSUME NEW j \in Jobs, NEW at, NEW kind \in WriteKinds \ {"none"}, Begin(j, at, kind)
      PROVE  PsInv'
  BY <1>2, GetStep DEF Begin, Writers
<1>3. ASSUME NEW j \in Jobs, NEW at, NEW kind \in WriteKinds \ {"none"}, NEW next,
             End(j, at, kind, next)
      PROVE  PsInv'
  BY <1>3, PutStep DEF End, Writers, Writing
<1>4. ASSUME NEW j \in Jobs, PostAction(j) \/ RunJob(j)  PROVE PsInv'
  BY <1>2, <1>3, <1>4 DEF PostAction, RunJob, WriteKinds
<1>5. ASSUME NEW j \in Jobs, ComposerTimesOut(j)  PROVE PsInv'
  BY <1>5 DEF ComposerTimesOut, PsInv, PsTypes, OneWriter, Writing
<1>6. ASSUME NEW j \in Jobs, DeleteAction(j)  PROVE PsInv'
  BY <1>6, GetStep DEF DeleteAction, Writers, WriteKinds
<1>7. CASE DeleteEnds
  BY <1>7, PutStep DEF DeleteEnds, Writers, Writing
<1> QED
  BY <1>1, <1>4, <1>5, <1>6, <1>7 DEF PsNext

\* For any jobs, on either queue driver: as long as no process has read
\* jobs.json while another was about to put it, and none is about to, the file
\* says what happened to the jobs.
THEOREM RecordsTrueAlways == PsSpec => []RecordsTrue
<1>1. PsInv => RecordsTrue
  BY DEF PsInv, OneWriter, RecordsTrue, Writing
<1> QED
  BY <1>1, PsInitInv, PsStepInv, PTL DEF PsSpec

-----------------------------------------------------------------------------
(* The dependency graph, for any lock file, manifest and spellings.         *)

AnyName == Spellings \cup {"python"}
Frame == [names : SUBSET AnyName, parent : Spellings \cup {Root}]

\* The packages the walk has come to, and the names it has to add for each.
Visited == {Root} \cup nodes
NamesOf(a) ==
    IF a = Root THEN getDependencyNamesFrom(manifest, dev)
    ELSE UNION {p.dependencies : p \in {q \in ToSet(lockFile) : q.name = a}}

\* A call under way has name n still to add below a.
Waits(s, a, n) == \E i \in DOMAIN s : s[i].parent = a /\ n \in s[i].names

\* What name n below a stands for is connected, as far as it is locked.
Connected(es, a, n) ==
    n \in Ignored \/ \A p \in pkgLockInfoFor(n, lockFile) : <<a, p.name>> \in es

\* An edge that has to be there.
Wanted(a, b) ==
    \E n \in NamesOf(a) \ Ignored : \E p \in pkgLockInfoFor(n, lockFile) : p.name = b

PgTypes ==
    /\ stack \in Seq(Frame) /\ nodes \subseteq Spellings
    /\ edges \subseteq (Spellings \cup {Root}) \X Spellings
    /\ manifest.dependencies \subseteq AnyName /\ manifest.dev \subseteq Spellings
    /\ DOMAIN lockFile \subseteq Nat
    /\ \A i \in DOMAIN lockFile :
          lockFile[i].name \in Spellings /\ lockFile[i].dependencies \subseteq Spellings
    /\ \A i, j \in DOMAIN lockFile :
          lockFile[i].name = lockFile[j].name => lockFile[i] = lockFile[j]

\* Calls work for packages that are in the graph, on names they depend on.
CallsKnown ==
    \A i \in DOMAIN stack :
        stack[i].parent \in Visited /\ stack[i].names \subseteq NamesOf(stack[i].parent)

\* Each edge has to be there; each name is connected or waits for it; each
\* package but the project was reached by an edge from another.
EdgesWanted == \A e \in edges : e[1] \in Visited /\ Wanted(e[1], e[2])
NamesSeen ==
    \A a \in Visited : \A n \in NamesOf(a) : Connected(edges, a, n) \/ Waits(stack, a, n)
NodesReached == \A n \in nodes : \E e \in edges : e[2] = n /\ e[1] # n

PgInv == PgTypes /\ CallsKnown /\ EdgesWanted /\ NamesSeen /\ NodesReached

\* The first package of a name is one package of the lock file.
LEMMA FirstAlike ==
  ASSUME PgTypes, NEW n
  PROVE  /\ \A p \in pkgLockInfoFor(n, lockFile) : \E i \in DOMAIN lockFile : p = lockFile[i]
         /\ \A p, q \in pkgLockInfoFor(n, lockFile) : p = q
<1>1. \A i, j \in Nat : i <= j /\ j <= i => i = j
  OBVIOUS
<1> QED
  BY <1>1 DEF PgTypes, pkgLockInfoFor

\* A package's name names what its own entry depends on.
LEMMA NamedByEntry ==
  ASSUME PgTypes, NEW i \in DOMAIN lockFile
  PROVE  NamesOf(lockFile[i].name) = lockFile[i].dependencies
<1>1. lockFile[i].name # Root
  BY RootAssumption DEF PgTypes
<1>2. \A q \in ToSet(lockFile) : q.name = lockFile[i].name => q = lockFile[i]
  BY DEF PgTypes, ToSet
<1>3. lockFile[i] \in ToSet(lockFile)
  BY DEF ToSet
<1> QED
  BY <1>1, <1>2, <1>3 DEF NamesOf

\* The call on top goes on without name, and the others stay.
LEMMA RestStack ==
  ASSUME PgTypes, stack # << >>, NEW name
  PROVE  /\ Rest(name) \in Seq(Frame)
         /\ \A i \in DOMAIN Rest(name) : \E k \in DOMAIN stack :
               /\ Rest(name)[i].parent = stack[k].parent
               /\ Rest(name)[i].names \subseteq stack[k].names
         /\ \A a, n : Waits(stack, a, n) =>
               Waits(Rest(name), a, n) \/ (a = Call.parent /\ n = name)
<1> DEFINE f == [Call EXCEPT !.names = @ \ {name}]
           r == <<f>> \o Tail(stack)
<1>1. /\ stack \in Seq(Frame) /\ Len(stack) \in Nat \ {0} /\ DOMAIN stack = 1..Len(stack)
      /\ Call = stack[1] /\ Call \in Frame
  BY DEF PgTypes, Call
<1>2. f \in Frame /\ f.parent = Call.parent /\ f.names = Call.names \ {name}
  BY <1>1 DEF Frame
<1> HIDE DEF f
<1>3. /\ Tail(stack) \in Seq(Frame) /\ Len(Tail(stack)) = Len(stack) - 1
      /\ \A i \in 1..(Len(stack) - 1) : Tail(stack)[i] = stack[i + 1]
  BY <1>1
<1>4. r \in Seq(Frame) /\ Len(r) = Len(stack) /\ r[1] = f
  BY <1>1, <1>2, <1>3
<1>5. \A i \in 2..Len(stack) : r[i] = stack[i]
  BY <1>1, <1>2, <1>3
<1> HIDE DEF r
<1>6. DOMAIN r = DOMAIN stack /\ 1 \in DOMAIN stack /\ \A i \in DOMAIN stack \ {1} : r[i] = stack[i]
  BY <1>1, <1>4, <1>5
<1>7. \A i \in DOMAIN r : \E k \in DOMAIN stack :
         r[i].parent = stack[k].parent /\ r[i].names \subseteq stack[k].names
  BY <1>1, <1>2, <1>4, <1>6
<1>8. \A a, n : Waits(stack, a, n) => Waits(r, a, n) \/ (a = Call.parent /\ n = name)
  BY <1>1, <1>2, <1>4, <1>6 DEF Waits
<1>9. Rest(name) = r
  BY DEF Rest, r, f
<1> QED
  BY <1>4, <1>7, <1>8, <1>9

\* A step that adds nothing to the graph but maybe an edge that is wanted.
LEMMA EdgeStep ==
  ASSUME PgInv, stack # << >>, UNCHANGED <<manifest, dev, lockFile, nodes>>,
         NEW name, stack' = Rest(name), edges \subseteq edges',
         \A e \in edges' \ edges :
            e \in (Spellings \cup {Root}) \X Spellings /\ e[1] \in Visited /\ Wanted(e[1], e[2]),
         Connected(edges', Call.parent, name)
  PROVE  PgInv'
<1> USE DEF PgInv
<1>1. /\ Rest(name) \in Seq(Frame)
      /\ \A i \in DOMAIN Rest(name) : \E k \in DOMAIN stack :
            /\ Rest(name)[i].parent = stack[k].parent
            /\ Rest(name)[i].names \subseteq stack[k].names
      /\ \A a, n : Waits(stack, a, n) =>
            Waits(Rest(name), a, n) \/ (a = Call.parent /\ n = name)
  BY RestStack
<1>2. Visited' = Visited /\ \A a : NamesOf(a)' = NamesOf(a)
  BY DEF Visited, NamesOf
<1>3. PgTypes'
  BY <1>1 DEF PgTypes
<1>4. CallsKnown'
  BY <1>1, <1>2 DEF CallsKnown
<1>5. EdgesWanted'
  <2>1. \A a, b : Wanted(a, b)' = Wanted(a, b)
    BY <1>2 DEF Wanted
  <2> QED
    BY <1>2, <2>1 DEF EdgesWanted
<1>6. NamesSeen'
  <2> SUFFICES ASSUME NEW a \in Visited, NEW n \in NamesOf(a)
               PROVE  Connected(edges, a, n)' \/ Waits(Rest(name), a, n)
    BY <1>2 DEF NamesSeen
  <2>1. Connected(edges, a, n) => Connected(edges, a, n)'
    BY DEF Connected
  <2>2. Connected(edges', Call.parent, name) /\ n = name /\ a = Call.parent => Connected(edges, a, n)'
    BY DEF Connected
  <2> QED
    BY <1>1, <2>1, <2>2 DEF NamesSeen
<1>7. NodesReached'
  BY DEF NodesReached
<1> QED
  BY <1>3, <1>4, <1>5, <1>6, <1>7

\* s is r with f put in front of it.
Pushed(s, S, f, r) ==
    /\ s \in Seq(S) /\ Len(s) = Len(r) + 1 /\ DOMAIN s = 1..(Len(r) + 1)
    /\ s[1] = f /\ \A k \in 1..Len(r) : s[k + 1] = r[k]

\* ... as concatenation makes it.
LEMMA PushFront ==
  ASSUME NEW S, NEW f \in S, NEW r \in Seq(S)
  PROVE  Pushed(<<f>> \o r, S, f, r)
BY DEF Pushed

\* A new package comes with the edge to it, and its dependencies are next.
LEMMA AddStep ==
  ASSUME PgInv, stack # << >>, UNCHANGED <<manifest, dev, lockFile>>,
         NEW name \in Call.names \ Ignored, NEW pkg \in pkgLockInfoFor(name, lockFile),
         pkg.name \notin nodes, nodes' = nodes \cup {pkg.name},
         edges' = edges \cup {<<Call.parent, pkg.name>>},
         stack' = <<[names |-> pkg.dependencies, parent |-> pkg.name]>> \o Rest(name)
  PROVE  PgInv'
<1> USE DEF PgInv
<1> DEFINE f == [names |-> pkg.dependencies, parent |-> pkg.name]
           r == Rest(name)
           e0 == <<Call.parent, pkg.name>>
<1>1. /\ r \in Seq(Frame)
      /\ \A i \in DOMAIN r : \E k \in DOMAIN stack :
            r[i].parent = stack[k].parent /\ r[i].names \subseteq stack[k].names
      /\ \A a, n : Waits(stack, a, n) => Waits(r, a, n) \/ (a = Call.parent /\ n = name)
  BY RestStack
<1>2. PICK i0 \in DOMAIN lockFile : pkg = lockFile[i0]
  BY FirstAlike
<1>3. /\ pkg.name \in Spellings /\ pkg.dependencies \subseteq Spellings
      /\ NamesOf(pkg.name) = pkg.dependencies /\ pkg.name # Root
  BY <1>2, NamedByEntry, RootAssumption DEF PgTypes
<1>4. 1 \in DOMAIN stack /\ Call = stack[1] /\ Call \in Frame
  BY DEF PgTypes, Call
<1>5. /\ Call.parent \in Visited /\ name \in NamesOf(Call.parent)
      /\ Call.parent \in Spellings \cup {Root}
  BY <1>4 DEF CallsKnown, Frame
<1>6. f \in Frame /\ f.names = pkg.dependencies /\ f.parent = pkg.name
  BY <1>3 DEF Frame, AnyName
<1> HIDE DEF f, r
<1>7. /\ stack' \in Seq(Frame) /\ 1 \in DOMAIN stack' /\ stack'[1] = f
      /\ \A i \in DOMAIN stack' : stack'[i] = f \/ \E k \in DOMAIN r : stack'[i] = r[k]
      /\ \A k \in DOMAIN r : \E i \in DOMAIN stack' : stack'[i] = r[k]
  <2>1. stack' = <<f>> \o r
    BY DEF f, r
  <2>2. Len(r) \in Nat /\ DOMAIN r = 1..Len(r)
    BY <1>1
  <2>3. /\ stack' \in Seq(Frame) /\ Len(stack') = Len(r) + 1 /\ DOMAIN stack' = 1..(Len(r) + 1)
        /\ stack'[1] = f /\ \A k \in 1..Len(r) : stack'[k + 1] = r[k]
    <3>1. f \in Frame /\ r \in Seq(Frame)
      BY <1>1, <1>6
    <3>2. Pushed(<<f>> \o r, Frame, f, r)
      BY <3>1, PushFront
    <3> QED
      BY <2>1, <3>2 DEF Pushed
  <2>4. \A i \in DOMAIN stack' : stack'[i] = f \/ \E k \in DOMAIN r : stack'[i] = r[k]
    <3> TAKE i \in DOMAIN stack'
    <3>1. CASE i = 1
      BY <3>1, <2>3
    <3>2. CASE i # 1
      <4>1. i - 1 \in 1..Len(r) /\ (i - 1) + 1 = i
        BY <3>2, <2>2, <2>3
      <4> QED
        BY <4>1, <2>2, <2>3
    <3> QED
      BY <3>1, <3>2
  <2>5. \A k \in DOMAIN r : k + 1 \in DOMAIN stack'
    BY <2>2, <2>3
  <2> QED
    BY <2>2, <2>3, <2>4, <2>5
<1>8. Visited' = Visited \cup {pkg.name} /\ \A a : NamesOf(a)' = NamesOf(a)
  BY DEF Visited, NamesOf
<1>9. PgTypes'
  BY <1>3, <1>5, <1>7 DEF PgTypes
<1>10. CallsKnown'
  <2> SUFFICES ASSUME NEW i \in DOMAIN stack'
               PROVE  stack'[i].parent \in Visited' /\ stack'[i].names \subseteq NamesOf(stack'[i].parent)
    BY <1>8 DEF CallsKnown
  <2>1. CASE stack'[i] = f
    BY <1>3, <1>6, <1>8, <2>1
  <2>2. ASSUME NEW k \in DOMAIN r, stack'[i] = r[k]
        PROVE  stack'[i].parent \in Visited' /\ stack'[i].names \subseteq NamesOf(stack'[i].parent)
    <3>1. PICK l \in DOMAIN stack :
             stack'[i].parent = stack[l].parent /\ stack'[i].names \subseteq stack[l].names
      BY <1>1, <2>2
    <3> QED
      BY <1>8, <3>1 DEF CallsKnown
  <2> QED
    BY <1>7, <2>1, <2>2
<1>11. EdgesWanted'
  <2>1. \A a, b : Wanted(a, b)' = Wanted(a, b)
    BY <1>8 DEF Wanted
  <2>2. Wanted(Call.parent, pkg.name)
    BY <1>5 DEF Wanted
  <2>3. e0[1] = Call.parent /\ e0[2] = pkg.name
    OBVIOUS
  <2> HIDE DEF e0
  <2>4. \A e \in edges' : e \in edges \/ e = e0
    BY DEF e0
  <2> QED
    BY <1>5, <1>8, <2>1, <2>2, <2>3, <2>4 DEF EdgesWanted
<1>12. NamesSeen'
  <2> SUFFICES ASSUME NEW a \in Visited', NEW n \in NamesOf(a)
               PROVE  Connected(edges, a, n)' \/ Waits(stack', a, n)
    BY <1>8 DEF NamesSeen
  <2>1. CASE a = pkg.name
    BY <1>3, <1>6, <1>7, <2>1 DEF Waits
  <2>2. CASE a # pkg.name
    <3>1. a \in Visited
      BY <1>8, <2>2
    <3>2. Connected(edges, a, n) => Connected(edges, a, n)'
      BY DEF Connected
    <3>3. Waits(r, a, n) => Waits(stack', a, n)
      BY <1>7 DEF Waits
    <3>4. a = Call.parent /\ n = name => Connected(edges, a, n)'
      <4>1. \A p \in pkgLockInfoFor(name, lockFile) : p = pkg
        BY FirstAlike
      <4> QED
        BY <4>1 DEF Connected
    <3> QED
      BY <1>1, <3>1, <3>2, <3>3, <3>4 DEF NamesSeen
  <2> QED
    BY <2>1, <2>2
<1>13. NodesReached'
  <2>1. e0[1] = Call.parent /\ e0[2] = pkg.name /\ e0 \in edges'
    OBVIOUS
  <2>2. Call.parent # pkg.name
    BY <1>3, <1>5 DEF Visited
  <2>3. edges \subseteq edges'
    OBVIOUS
  <2> HIDE DEF e0
  <2> QED
    BY <2>1, <2>2, <2>3 DEF NodesReached
<1> QED
  BY <1>9, <1>10, <1>11, <1>12, <1>13

\* A call that is done has added all its names.
LEMMA ReturnStep ==
  ASSUME PgInv, stack # << >>, UNCHANGED <<manifest, dev, lockFile, nodes, edges>>,
         Call.names = {}, stack' = Tail(stack)
  PROVE  PgInv'
<1> USE DEF PgInv
<1>1. /\ stack \in Seq(Frame) /\ Len(stack) \in Nat \ {0} /\ DOMAIN stack = 1..Len(stack)
      /\ Call = stack[1]
  BY DEF PgTypes, Call
<1>2. /\ stack' \in Seq(Frame) /\ DOMAIN stack' = 1..(Len(stack) - 1)
      /\ \A i \in 1..(Len(stack) - 1) : stack'[i] = stack[i + 1]
  BY <1>1
<1>3. \A i \in DOMAIN stack' : \E k \in DOMAIN stack : stack'[i] = stack[k]
  <2> TAKE i \in DOMAIN stack'
  <2>1. i + 1 \in DOMAIN stack /\ stack'[i] = stack[i + 1]
    BY <1>1, <1>2
  <2> QED
    BY <2>1
<1>4. \A k \in DOMAIN stack : k = 1 \/ \E i \in DOMAIN stack' : stack'[i] = stack[k]
  <2> TAKE k \in DOMAIN stack
  <2>1. k = 1 \/ (k - 1 \in 1..(Len(stack) - 1) /\ (k - 1) + 1 = k)
    BY <1>1
  <2> QED
    BY <1>2, <2>1
<1>5. \A a, n : Waits(stack, a, n) => Waits(stack', a, n)
  BY <1>1, <1>4 DEF Waits
<1>6. Visited' = Visited /\ \A a : NamesOf(a)' = NamesOf(a)
  BY DEF Visited, NamesOf
<1>7. PgTypes' /\ CallsKnown'
  BY <1>2, <1>3, <1>6 DEF PgTypes, CallsKnown
<1>8. EdgesWanted' /\ NodesReached'
  <2>1. \A a, b : Wanted(a, b)' = Wanted(a, b)
    BY <1>6 DEF Wanted
  <2> QED
    BY <1>6, <2>1 DEF EdgesWanted, NodesReached
<1>9. NamesSeen'
  BY <1>5, <1>6 DEF NamesSeen, Connected
<1> QED
  BY <1>7, <1>8, <1>9

\* The walk begins at the project, with all that its manifest names.
LEMMA PgInitInv == PgInit => PgInv
<1> SUFFICES ASSUME PgInit  PROVE PgInv
  OBVIOUS
<1> DEFINE f == [names |-> getDependencyNamesFrom(manifest, dev), parent |-> Root]
<1>1. stack = <<f>> /\ nodes = {} /\ edges = {}
  BY DEF PgInit
<1>2. manifest.dependencies \subseteq AnyName /\ manifest.dev \subseteq Spellings
  BY DEF PgInit, AtMost, AnyName
<1>3. f \in Frame /\ f.names = NamesOf(Root) /\ f.parent = Root
  BY <1>2 DEF Frame, AnyName, getDependencyNamesFrom, NamesOf
<1>4. PICK names \in SeqOf(Spellings, MaxPkgs) : IsInjective(names) /\
        \E deps \in [DOMAIN names -> AtMost(MaxDeps, Spellings)] :
           lockFile = [i \in DOMAIN names |-> [name |-> names[i], dependencies |-> deps[i]]]
  BY DEF PgInit
<1>5. PICK deps \in [DOMAIN names -> AtMost(MaxDeps, Spellings)] :
           lockFile = [i \in DOMAIN names |-> [name |-> names[i], dependencies |-> deps[i]]]
  BY <1>4
<1>6. DOMAIN names \subseteq Nat /\ \A i \in DOMAIN names : names[i] \in Spellings
  BY DEF SeqOf
<1>7. \A i \in DOMAIN names : deps[i] \subseteq Spellings
  BY DEF AtMost
<1>8. /\ DOMAIN lockFile = DOMAIN names
      /\ \A i \in DOMAIN names : lockFile[i].name = names[i] /\ lockFile[i].dependencies = deps[i]
  BY <1>5
<1>9. \A i, j \in DOMAIN lockFile : lockFile[i].name = lockFile[j].name => i = j
  BY <1>4, <1>8 DEF IsInjective
<1> HIDE DEF f
<1>10. stack \in Seq(Frame) /\ DOMAIN stack = {1} /\ stack[1] = f
  BY <1>1, <1>3
<1>11. PgTypes
  BY <1>1, <1>2, <1>6, <1>7, <1>8, <1>9, <1>10 DEF PgTypes
<1>12. CallsKnown /\ EdgesWanted /\ NodesReached
  BY <1>1, <1>3, <1>10 DEF CallsKnown, EdgesWanted, NodesReached, Visited
<1>13. NamesSeen
  BY <1>1, <1>3, <1>10 DEF NamesSeen, Visited, Waits
<1> QED
  BY <1>11, <1>12, <1>13 DEF PgInv

\* Each turn of the loop of addDependenciesToGraph keeps the invariant.
LEMMA PgStepInv == PgInv /\ [PgNext]_pgVars => PgInv'
<1> SUFFICES ASSUME PgInv, [PgNext]_pgVars PROVE PgInv'
  OBVIOUS
<1>1. CASE UNCHANGED pgVars
  <2>1. UNCHANGED <<manifest, dev, lockFile, stack, nodes, edges>>
    BY <1>1 DEF pgVars
  <2>2. Visited' = Visited /\ (\A a : NamesOf(a)' = NamesOf(a)) /\ \A a, b : Wanted(a, b)' = Wanted(a, b)
    BY <2>1 DEF Visited, NamesOf, Wanted
  <2> QED
    BY <2>1, <2>2 DEF PgInv, PgTypes, CallsKnown, EdgesWanted, NamesSeen, NodesReached, Waits, Connected
<1>2. ASSUME PgNext  PROVE PgInv'
  <2>1. stack # << >> /\ UNCHANGED <<manifest, dev, lockFile>>
    BY <1>2 DEF PgNext
  <2>2. CASE Return
    BY <2>1, <2>2, ReturnStep DEF Return
  <2>3. ASSUME NEW name \in Call.names, Ignore(name) \/ NotLocked(name)  PROVE PgInv'
    <3>1. Connected(edges', Call.parent, name)
      BY <2>3 DEF Ignore, NotLocked, Connected
    <3> QED
      BY <2>1, <2>3, <3>1, EdgeStep DEF Ignore, NotLocked
  <2>4. ASSUME NEW name \in Call.names, Known(name)  PROVE PgInv'
    <3>1. PICK pkg \in pkgLockInfoFor(name, lockFile) : pkg.name \in nodes /\ ConnectKnown(name, pkg)
      BY <2>4 DEF Known
    <3>2. /\ edges' = edges \cup {<<Call.parent, pkg.name>>} /\ stack' = Rest(name)
          /\ nodes' = nodes /\ name \notin Ignored
      BY <2>4, <3>1 DEF ConnectKnown, Known
    <3>3. \A p \in pkgLockInfoFor(name, lockFile) : p = pkg
      BY FirstAlike DEF PgInv
    <3>4. Connected(edges', Call.parent, name)
      BY <3>2, <3>3 DEF Connected
    <3>5. 1 \in DOMAIN stack /\ Call = stack[1] /\ Call \in Frame
      BY <2>1 DEF PgInv, PgTypes, Call
    <3>6. /\ Call.parent \in Visited /\ Call.parent \in Spellings \cup {Root}
          /\ name \in NamesOf(Call.parent) \ Ignored /\ pkg.name \in Spellings
      BY <3>1, <3>2, <3>5 DEF PgInv, PgTypes, CallsKnown, Frame
    <3>7. Wanted(Call.parent, pkg.name)
      BY <3>6 DEF Wanted
    <3>8. \A e \in edges' \ edges :
             /\ e \in (Spellings \cup {Root}) \X Spellings
             /\ e[1] \in Visited /\ Wanted(e[1], e[2])
      <4> SUFFICES ASSUME NEW e \in edges' \ edges
                   PROVE  /\ e \in (Spellings \cup {Root}) \X Spellings
                          /\ e[1] \in Visited /\ Wanted(e[1], e[2])
        OBVIOUS
      <4>1. e = <<Call.parent, pkg.name>> /\ e[1] = Call.parent /\ e[2] = pkg.name
        BY <3>2
      <4> QED
        BY <3>6, <3>7, <4>1
    <3> QED
      BY <2>1, <3>2, <3>4, <3>8, EdgeStep
  <2>5. ASSUME NEW name \in Call.names, AddPkg(name)  PROVE PgInv'
    BY <2>1, <2>5, AddStep DEF AddPkg
  <2> QED
    BY <1>2, <2>2, <2>3, <2>4, <2>5 DEF PgNext
<1> QED
  BY <1>1, <1>2

\* For any lock file, manifest and rule of spelling, in whatever order the
\* names of a package are taken: when the walk ends, the edges are those of
\* the locked dependencies of the packages reached, and no other, and every
\* package was reached from another.
THEOREM GraphCompleteAlways == PgSpec => []GraphComplete
<1>1. PgInv => GraphComplete
  <2> SUFFICES ASSUME PgInv, stack = << >>  PROVE GraphComplete
    BY DEF GraphComplete
  <2> DEFINE Locked(names) ==
               UNION {{p.name : p \in pkgLockInfoFor(n, lockFile)} : n \in names \ Ignored}
             Deps(n) ==
               IF n = Root THEN Locked(getDependencyNamesFrom(manifest, dev))
               ELSE Locked(UNION {p.dependencies : p \in {q \in ToSet(lockFile) : q.name = n}})
  <2>1. \A a, b : b \in Deps(a) <=> Wanted(a, b)
    BY DEF NamesOf, Wanted
  <2>2. \A a, n : ~Waits(stack, a, n)
    BY DEF Waits
  <2> HIDE DEF Deps
  <2>3. ASSUME NEW a \in Visited, NEW b \in Deps(a)  PROVE <<a, b>> \in edges
    <3>1. PICK n \in NamesOf(a) \ Ignored : \E p \in pkgLockInfoFor(n, lockFile) : p.name = b
      BY <2>1, <2>3 DEF Wanted
    <3>2. Connected(edges, a, n)
      BY <2>2, <2>3, <3>1 DEF PgInv, NamesSeen
    <3> QED
      BY <3>1, <3>2 DEF Connected
  <2>4. ASSUME NEW e \in edges  PROVE e[1] \in Visited /\ e \in {e[1]} \X Deps(e[1])
    <3>1. e \in (Spellings \cup {Root}) \X Spellings
      BY DEF PgInv, PgTypes
    <3>2. e = <<e[1], e[2]>>
      BY <3>1
    <3>3. e[1] \in Visited /\ e[2] \in Deps(e[1])
      BY <2>1 DEF PgInv, EdgesWanted
    <3> QED
      BY <3>2, <3>3
  <2>5. edges = UNION {{n} \X Deps(n) : n \in Visited}
    BY <2>3, <2>4
  <2> QED
    BY <2>5 DEF PgInv, NodesReached, GraphComplete, Deps, Visited
<1> QED
  BY <1>1, PgInitInv, PgStepInv, PTL DEF PgSpec

-----------------------------------------------------------------------------
(* Goof: what the to-do application tells and what its chat deletes.        *)

Asking == [kind : Kinds \cup {"none"}, at : {"none", "called", "found", "done", "silent", "cut"},
           todo : Todos \cup {"none"}, doc : {0}]
Telling == {"page", "error", "stored", "redirect", "nothing", "late", "added", "next"}
GfTypes ==
    /\ request \in [Requests -> Asking] /\ answer \in [Requests -> Seq(Telling)]

\* Who has asked nothing has been told nothing of the kind.
NothingTold == \A r \in Requests : request[r].kind = "none" => ~Told(r, "stored")

\* The chat counts its own ids: they grow from message to message.
IdsGrow ==
    /\ lastId \in Nat /\ taken \in 0 .. 1
    /\ messages \in Seq([id : 0 .. (lastId - 1), user : {"user", "admin"}])
    /\ \A i, j \in DOMAIN messages : i < j => messages[i].id < messages[j].id

GfInv == GfTypes /\ NothingTold /\ ToldIsStored /\ IdsGrow

\* What is told in one step, and to whom.
LEMMA Telling1 ==
    ASSUME GfTypes, NEW r \in Requests, NEW what \in Telling, Says(r, what)
    PROVE  /\ answer' \in [Requests -> Seq(Telling)]
           /\ \A q \in Requests, w \in Telling :
                 Told(q, w)' => Told(q, w) \/ (q = r /\ w = what)
<1>1. answer' \in [Requests -> Seq(Telling)]
  BY DEF GfTypes, Says
<1>2. ASSUME NEW q \in Requests, NEW w \in Telling, Told(q, w)' PROVE Told(q, w) \/ (q = r /\ w = what)
  <2>1. CASE q # r
    BY <1>2, <2>1 DEF GfTypes, Says, Told
  <2>2. CASE q = r
    <3>1. answer'[q] = Append(answer[q], what) /\ answer[q] \in Seq(Telling)
      BY <2>2 DEF GfTypes, Says
    <3>2. PICK i \in DOMAIN answer'[q] : answer'[q][i] = w
      BY <1>2 DEF Told
    <3>3. CASE i \in DOMAIN answer[q]
      BY <3>1, <3>2, <3>3 DEF Told
    <3>4. CASE i \notin DOMAIN answer[q]
      BY <2>2, <3>1, <3>2, <3>4
    <3> QED
      BY <3>3, <3>4
  <2> QED
    BY <2>1, <2>2
<1> QED
  BY <1>1, <1>2

\* Only a create says that a to-do is stored, and only an addUser that a user
\* was added; what was there remains known.
Kept ==
    /\ request' \in [Requests -> Asking] /\ answer' \in [Requests -> Seq(Telling)]
    /\ kept \subseteq kept' /\ people \subseteq people'
    /\ \A q \in Requests :
          /\ request[q].kind # "none" => request'[q].todo = request[q].todo
          /\ request'[q].kind = "none" => request[q].kind = "none"
          /\ Told(q, "stored")' => Told(q, "stored") \/ (request[q].kind # "none" /\ request[q].todo \in kept')
          /\ Told(q, "added")' => Told(q, "added") \/ q \in people'

\* Then what was told stays true.
LEMMA KeptTold ==
    ASSUME GfTypes, NothingTold, ToldIsStored, Kept
    PROVE  GfTypes' /\ NothingTold' /\ ToldIsStored'
BY DEF GfTypes, NothingTold, ToldIsStored, Kept

\* Telling anything else, or nothing.
LEMMA SaysKept ==
    ASSUME GfInv, NEW r \in Requests, NEW what \in Telling \ {"stored", "added"},
           Says(r, what), kept \subseteq kept', people \subseteq people',
           request' \in [Requests -> Asking],
           \A q \in Requests : request'[q].todo = request[q].todo /\ request'[q].kind = request[q].kind
    PROVE  Kept
<1>1. what \in Telling
  OBVIOUS
<1>2. /\ answer' \in [Requests -> Seq(Telling)]
      /\ \A q \in Requests, w \in Telling : Told(q, w)' => Told(q, w) \/ (q = r /\ w = what)
  BY <1>1, Telling1 DEF GfInv
<1>3. "stored" \in Telling /\ "added" \in Telling /\ what # "stored" /\ what # "added"
  BY DEF Telling
<1>4. \A q \in Requests : (Told(q, "stored")' => Told(q, "stored")) /\ (Told(q, "added")' => Told(q, "added"))
  BY <1>2, <1>3
<1> QED
  BY <1>2, <1>4 DEF Kept

\* A step that says nothing.
LEMMA SilentKept ==
    ASSUME GfInv, UNCHANGED answer, kept \subseteq kept', people \subseteq people',
           request' \in [Requests -> Asking],
           \A q \in Requests : /\ request[q].kind # "none" => request'[q].todo = request[q].todo
                               /\ request'[q].kind = "none" => request[q].kind = "none"
    PROVE  Kept
BY DEF Kept, GfInv, GfTypes, Told

\* A request that goes on keeps what it asked for.
LEMMA GoesOn ==
    ASSUME GfTypes, NEW r \in Requests, NEW at \in {"done", "silent", "found"}, Goes(r, at)
    PROVE  /\ request' \in [Requests -> Asking]
           /\ \A q \in Requests : request'[q].todo = request[q].todo /\ request'[q].kind = request[q].kind
BY DEF GfTypes, Goes, Asking

\* A route tells what it did.
LEMMA RouteKept ==
    ASSUME GfInv, NEW r \in Requests, TodoStep(r)
    PROVE  Kept
<1>0. GfTypes
  BY DEF GfInv
<1>1. CASE AddUser(r)
  <2>1. Goes(r, "done") /\ UNCHANGED <<todos, saving, kept>>
    BY <1>1 DEF AddUser
  <2>2. /\ request' \in [Requests -> Asking]
        /\ \A q \in Requests : request'[q].todo = request[q].todo /\ request'[q].kind = request[q].kind
    BY <1>0, <2>1, GoesOn
  <2>3. CASE people' = people \cup {r} /\ Says(r, "added")
    <3>1. "added" \in Telling /\ "stored" \in Telling
      BY DEF Telling
    <3>2. /\ answer' \in [Requests -> Seq(Telling)]
          /\ \A q \in Requests, w \in Telling : Told(q, w)' => Told(q, w) \/ (q = r /\ w = "added")
      BY <1>0, <2>3, <3>1, Telling1
    <3>3. \A q \in Requests : /\ Told(q, "stored")' => Told(q, "stored")
                              /\ Told(q, "added")' => Told(q, "added") \/ q = r
      BY <3>1, <3>2
    <3> QED
      BY <2>1, <2>2, <2>3, <3>2, <3>3 DEF Kept
  <2>4. CASE UNCHANGED people /\ Says(r, "next")
    <3>1. "next" \in Telling \ {"stored", "added"}
      BY DEF Telling
    <3> QED
      BY <2>1, <2>2, <2>4, <3>1, SaysKept
  <2> QED
    BY <1>1, <2>3, <2>4 DEF AddUser
<1>2. CASE UNCHANGED people /\ TodoRoute(r)
  <2> SUFFICES ASSUME UNCHANGED people, TodoRoute(r) PROVE Kept
    BY <1>2
  <2>1. \A what \in {"page", "error", "redirect", "nothing", "late"} :
            what \in Telling \ {"stored", "added"}
    BY DEF Telling
  <2>2. CASE Create(r)
    <3>1. Goes(r, "done") /\ request[r].kind = "create"
      BY <2>2 DEF Create, Is
    <3>2. /\ request' \in [Requests -> Asking]
          /\ \A q \in Requests : request'[q].todo = request[q].todo /\ request'[q].kind = request[q].kind
      BY <1>0, <3>1, GoesOn
    <3>3. CASE Stores(request[r].todo, 1) /\ Says(r, "stored")
      <4>1. kept' = kept \cup {request[r].todo}
        BY <3>3 DEF Stores
      <4>2. "added" \in Telling /\ "stored" \in Telling
        BY DEF Telling
      <4>3. /\ answer' \in [Requests -> Seq(Telling)]
            /\ \A q \in Requests, w \in Telling : Told(q, w)' => Told(q, w) \/ (q = r /\ w = "stored")
        BY <1>0, <3>3, <4>2, Telling1
      <4>4. \A q \in Requests : /\ Told(q, "stored")' => Told(q, "stored") \/ q = r
                                /\ Told(q, "added")' => Told(q, "added")
        BY <4>2, <4>3
      <4> QED
        BY <3>1, <3>2, <4>1, <4>3, <4>4 DEF Kept
    <3>4. CASE Says(r, "error") /\ UNCHANGED <<todos, kept>>
      BY <2>1, <3>2, <3>4, SaysKept
    <3> QED
      BY <2>2, <3>3, <3>4 DEF Create
  <2>3. CASE \E t \in Todos : up = "yes" /\ SaveEnds(r, t)
    <3>1. PICK t \in Todos : SaveEnds(r, t)
      BY <2>3
    <3>2. /\ request' \in [Requests -> Asking]
          /\ \A q \in Requests : request'[q].todo = request[q].todo /\ request'[q].kind = request[q].kind
      BY <1>0, <3>1 DEF SaveEnds, GfTypes
    <3>3. CASE Stores(t, 1) /\ UNCHANGED answer
      BY <3>2, <3>3, SilentKept DEF Stores
    <3>4. CASE Says(r, "late") /\ UNCHANGED <<todos, kept>>
      BY <2>1, <3>2, <3>4, SaysKept
    <3> QED
      BY <3>1, <3>3, <3>4 DEF SaveEnds
  <2>4. ASSUME NEW at \in {"done", "silent", "found"}, Goes(r, at), UNCHANGED kept,
               UNCHANGED answer \/ \E what \in {"page", "error", "redirect", "nothing"} : Says(r, what)
        PROVE Kept
    <3>1. /\ request' \in [Requests -> Asking]
          /\ \A q \in Requests : request'[q].todo = request[q].todo /\ request'[q].kind = request[q].kind
      BY <1>0, <2>4, GoesOn
    <3>2. CASE UNCHANGED answer
      BY <2>4, <3>1, <3>2, SilentKept
    <3>3. CASE \E what \in {"page", "error", "redirect", "nothing"} : Says(r, what)
      BY <2>1, <2>4, <3>1, <3>3, SaysKept
    <3> QED
      BY <2>4, <3>2, <3>3
  <2>5. CASE Find(r)
    BY <2>4, <2>5 DEF Find
  <2>6. CASE DestroyFinds(r)
    BY <2>4, <2>6 DEF DestroyFinds
  <2>7. CASE DestroyRemoves(r)
    BY <2>4, <2>7 DEF DestroyRemoves
  <2>8. CASE UpdateFinds(r)
    BY <2>4, <2>8 DEF UpdateFinds
  <2>9. CASE UpdateSaves(r)
    BY <2>4, <2>9 DEF UpdateSaves
  <2>10. CASE Import(r)
    BY <2>4, <2>10 DEF Import
  <2>11. CASE AdminFinds(r)
    BY <2>4, <2>11 DEF AdminFinds
  <2>12. CASE UsersFind(r)
    BY <2>4, <2>12 DEF UsersFind
  <2> QED
    BY <2>2, <2>3, <2>5, <2>6, <2>7, <2>8, <2>9, <2>10, <2>11, <2>12 DEF TodoRoute
<1> QED
  BY <1>1, <1>2 DEF TodoStep

\* So do a new request, a crash and a start: they tell nothing.
LEMMA QuietKept ==
    ASSUME GfInv,
           \/ \E r \in Requests, t \in Todos, kind \in Kinds : Receive(r, kind, t)
           \/ \E r \in Requests : Crash(r)
           \/ Restart
    PROVE  Kept
<1>0. GfTypes
  BY DEF GfInv
<1>1. ASSUME NEW r \in Requests, NEW t \in Todos, NEW kind \in Kinds, Receive(r, kind, t) PROVE Kept
  <2>1. PICK x : x = [kind |-> kind, at |-> "called", todo |-> t, doc |-> 0]
    OBVIOUS
  <2>2. x \in Asking /\ x.kind = kind
    BY <2>1 DEF Asking
  <2>3. /\ request' = [request EXCEPT ![r] = x] /\ request[r].kind = "none"
        /\ UNCHANGED <<answer, kept, people>>
    BY <1>1, <2>1 DEF Receive
  <2>4. kind # "none"
    BY DEF Kinds
  <2> QED
    BY <1>0, <2>2, <2>3, <2>4, SilentKept DEF GfTypes
<1>2. ASSUME NEW r \in Requests, Crash(r) PROVE Kept
  <2>1. \A x \in Asking : LET y == [x EXCEPT !.at = "cut"]
                          IN y \in Asking /\ y.kind = x.kind /\ y.todo = x.todo
    BY DEF Asking
  <2>2. /\ request' = [q \in Requests |-> IF request[q].at \in {"called", "found"}
                                          THEN [request[q] EXCEPT !.at = "cut"] ELSE request[q]]
        /\ UNCHANGED <<answer, kept, people>>
    BY <1>2 DEF Crash
  <2>3. ASSUME NEW q \in Requests
        PROVE  request'[q] \in Asking /\ request'[q].kind = request[q].kind /\ request'[q].todo = request[q].todo
    BY <1>0, <2>1, <2>2 DEF GfTypes
  <2>4. request' \in [Requests -> Asking]
    BY <2>2, <2>3
  <2> QED
    BY <2>2, <2>3, <2>4, SilentKept
<1>3. CASE Restart
  BY <1>0, <1>3, SilentKept DEF Restart, GfTypes
<1> QED
  BY <1>1, <1>2, <1>3

-----------------------------------------------------------------------------
(* Filters: what a recursion over the elements of a sequence keeps.         *)

\* A set of numbers that is not empty has a least one.
LEMMA LeastNumber ==
  ASSUME NEW N, N \subseteq Nat, N # {}
  PROVE  \E x \in N : \A y \in N : x <= y
<1> DEFINE less == {ss \in Nat \X Nat : ss[1] < ss[2]}
<1>1. IsWellFoundedOn(less, Nat)
  BY NatLessThanWellFounded, Zenon DEF OpToRel
<1>2. PICK x \in N : \A y \in N : ~(<<y, x>> \in less)
  BY <1>1, WFMin
<1>3. ASSUME NEW y \in N PROVE x <= y
  <2>1. x \in Nat /\ y \in Nat /\ <<y, x>> \notin less
    BY <1>2
  <2>2. <<y, x>>[1] = y /\ <<y, x>>[2] = x
    OBVIOUS
  <2> QED
    BY <2>1, <2>2
<1> QED
  BY <1>3

\* What holds at 0 and is handed on from each number to the next holds up to n.
LEMMA StepByStep ==
  ASSUME NEW n \in Nat, NEW Good, 0 \in Good, \A i \in 1..n : i - 1 \in Good => i \in Good
  PROVE  \A i \in 0..n : i \in Good
<1> DEFINE Bad == {i \in 0..n : i \notin Good}
<1> SUFFICES ASSUME Bad # {} PROVE FALSE
  OBVIOUS
<1>0. Bad \subseteq Nat
  OBVIOUS
<1>1. PICK x \in Bad : \A y \in Bad : x <= y
  BY <1>0, LeastNumber
<1>2. x \in 1..n /\ x - 1 \in 0..n /\ x - 1 < x
  BY <1>1
<1>3. x - 1 \in Good
  BY <1>1, <1>2
<1> QED
  BY <1>1, <1>2, <1>3

\* The values of a recursion over the first n numbers.
Recurs(f, n, T, base, F) ==
  f \in [0..n -> T] /\ \A i \in 0..n : f[i] = IF i = 0 THEN base ELSE F[i][f[i - 1]]

\* The value at 0 and a step for each number make a function.
LEMMA RecursionExists ==
  ASSUME NEW n \in Nat, NEW T, NEW base \in T, NEW F \in [1..n -> [T -> T]]
  PROVE  \E f : Recurs(f, n, T, base, F)
<1> DEFINE Run(f, k) == Recurs(f, k, T, base, F)
           Good == {k \in 0..n : \E f : Run(f, k)}
<1>1. 0 \in Good
  <2>1. Run([i \in 0..0 |-> base], 0)
    BY DEF Recurs
  <2> HIDE DEF Run
  <2> QED
    BY <2>1
<1>2. ASSUME NEW k \in 1..n, k - 1 \in Good PROVE k \in Good
  <2>1. PICK f : Run(f, k - 1)
    BY <1>2
  <2> DEFINE g == [i \in 0..k |-> IF i = k THEN F[k][f[k - 1]] ELSE f[i]]
  <2>2. k - 1 \in 0..(k - 1) /\ F[k] \in [T -> T] /\ f[k - 1] \in T
    BY <2>1 DEF Recurs
  <2>3. g \in [0..k -> T]
    BY <2>1, <2>2 DEF Recurs
  <2>4. ASSUME NEW i \in 0..k PROVE g[i] = IF i = 0 THEN base ELSE F[i][g[i - 1]]
    <3>1. ASSUME i # k PROVE g[i] = IF i = 0 THEN base ELSE F[i][g[i - 1]]
      <4>1. i \in 0..(k - 1) /\ g[i] = f[i] /\ (i # 0 => g[i - 1] = f[i - 1])
        BY <3>1
      <4> QED
        BY <2>1, <4>1 DEF Recurs
    <3>2. k # 0 /\ g[k] = F[k][f[k - 1]] /\ g[k - 1] = f[k - 1]
      BY <1>2
    <3> QED
      BY <3>1, <3>2
  <2>5. Run(g, k)
    BY <2>3, <2>4 DEF Recurs
  <2> HIDE DEF Run, g
  <2> QED
    BY <2>5
<1>3. \A k \in 0..n : k \in Good
  <2> HIDE DEF Good
  <2> QED
    BY <1>1, <1>2, StepByStep
<1> QED
  BY <1>3

\* The elements of s at the places m are those of the first n that are in S.
Picks(t, s, n, S, m) ==
    /\ m \in [1 .. Len(t) -> 1 .. n]
    /\ \A i, j \in 1 .. Len(t) : i < j => m[i] < m[j]
    /\ \A i \in 1 .. Len(t) : t[i] = s[m[i]]
    /\ \A k \in 1 .. n : s[k] \in S <=> \E i \in 1 .. Len(t) : m[i] = k
Filtered(t, s, n, S) == \E m : Picks(t, s, n, S, m)

IsOnly(f, s, S) ==
    f = [i \in 0 .. Len(s) |->
            IF i = 0 THEN << >>
            ELSE IF s[i] \in S THEN Append(f[i - 1], s[i]) ELSE f[i - 1]]
Chosen(s, S) == CHOOSE f : IsOnly(f, s, S)

\* The recursion of the filter has a value.
LEMMA ChosenIs ==
    ASSUME NEW T, NEW s \in Seq(T), NEW S
    PROVE  /\ IsOnly(Chosen(s, S), s, S) /\ Only(s, S) = Chosen(s, S)[Len(s)]
           /\ \A i \in 0 .. Len(s) : Chosen(s, S)[i] \in Seq(T)
<1>1. PICK n \in Nat : n = Len(s)
  OBVIOUS
<1> DEFINE F == [i \in 1 .. n |-> [x \in Seq(T) |-> IF s[i] \in S THEN Append(x, s[i]) ELSE x]]
<1>2. F \in [1 .. n -> [Seq(T) -> Seq(T)]]
  BY <1>1
<1>3. PICK f : Recurs(f, n, Seq(T), << >>, F)
  <2>1. << >> \in Seq(T)
    OBVIOUS
  <2> HIDE DEF F
  <2> QED
    BY <1>2, <2>1, RecursionExists
<1>4. IsOnly(f, s, S)
  <2>1. ASSUME NEW i \in 0 .. n
        PROVE  f[i] = IF i = 0 THEN << >> ELSE IF s[i] \in S THEN Append(f[i - 1], s[i]) ELSE f[i - 1]
    <3>1. f[i] = IF i = 0 THEN << >> ELSE F[i][f[i - 1]]
      BY <1>3 DEF Recurs
    <3>2. i # 0 => i \in 1 .. n /\ i - 1 \in 0 .. n
      OBVIOUS
    <3>3. i # 0 => f[i - 1] \in Seq(T)
      BY <1>3, <3>2 DEF Recurs
    <3> QED
      BY <3>1, <3>2, <3>3
  <2> QED
    BY <1>1, <1>3, <2>1 DEF IsOnly, Recurs
<1>5. PICK c : c = Chosen(s, S)
  OBVIOUS
<1>6. IsOnly(c, s, S)
  BY <1>4, <1>5, Zenon DEF Chosen
<1>7. Only(s, S) = c[Len(s)]
  BY <1>5, Zenon DEF Only, Chosen, IsOnly
<1> DEFINE Good == {i \in 0 .. n : c[i] \in Seq(T)}
<1>0. PICK e \in Seq(T) : e = << >>
  <2>1. << >> \in Seq(T)
    OBVIOUS
  <2> QED
    BY <2>1, Zenon
<1>8. \A i \in 0 .. n : c[i] = IF i = 0 THEN e ELSE IF s[i] \in S THEN Append(c[i - 1], s[i]) ELSE c[i - 1]
  <2>1. c = [i \in 0 .. n |->
               IF i = 0 THEN e ELSE IF s[i] \in S THEN Append(c[i - 1], s[i]) ELSE c[i - 1]]
    BY <1>0, <1>1, <1>6, Zenon DEF IsOnly
  <2> QED
    BY <2>1, Zenon
<1>9. 0 \in Good
  BY <1>8
<1>10. ASSUME NEW i \in 1 .. n, i - 1 \in Good PROVE i \in Good
  <2>1. s[i] \in T /\ i \in 0 .. n /\ i # 0
    BY <1>1
  <2>2. c[i] = IF s[i] \in S THEN Append(c[i - 1], s[i]) ELSE c[i - 1]
    BY <1>8, <2>1
  <2>3. PICK x \in Seq(T) : x = c[i - 1]
    BY <1>10
  <2>4. Append(x, s[i]) \in Seq(T)
    BY <2>1
  <2> QED
    BY <2>1, <2>2, <2>3, <2>4
<1>11. \A i \in 0 .. n : i \in Good
  <2> HIDE DEF Good
  <2> QED
    BY <1>9, <1>10, StepByStep
<1> QED
  BY <1>1, <1>5, <1>6, <1>7, <1>11

\* One more element is picked or passed over.
LEMMA PickedOn ==
    ASSUME NEW T, NEW s \in Seq(T), NEW S, NEW n \in 1 .. Len(s), NEW t \in Seq(T),
           Filtered(t, s, n - 1, S)
    PROVE  Filtered(IF s[n] \in S THEN Append(t, s[n]) ELSE t, s, n, S)
<1>1. PICK m : Picks(t, s, n - 1, S, m)
  BY DEF Filtered
<1>2. PICK l \in Nat : l = Len(t)
  OBVIOUS
<1>3. \A k \in 1 .. n : k \in 1 .. (n - 1) \/ k = n
  OBVIOUS
<1>4. CASE s[n] \notin S
  <2>1. \A i \in 1 .. l : m[i] \in 1 .. (n - 1)
    BY <1>1, <1>2 DEF Picks
  <2>2. Picks(t, s, n, S, m)
    BY <1>1, <1>2, <1>3, <1>4, <2>1 DEF Picks
  <2> QED
    BY <1>4, <2>2 DEF Filtered
<1>5. CASE s[n] \in S
  <2>1. PICK u : u = Append(t, s[n])
    OBVIOUS
  <2>2. s[n] \in T /\ Len(u) = l + 1 /\ u[l + 1] = s[n] /\ \A i \in 1 .. l : u[i] = t[i]
    BY <1>2, <2>1
  <2>3. PICK g : g = [i \in 1 .. (l + 1) |-> IF i = l + 1 THEN n ELSE m[i]]
    OBVIOUS
  <2>4. g[l + 1] = n /\ \A i \in 1 .. l : g[i] = m[i] /\ m[i] \in 1 .. (n - 1)
    BY <1>1, <1>2, <2>3 DEF Picks
  <2>5. g \in [1 .. (l + 1) -> 1 .. n]
    <3>1. ASSUME NEW i \in 1 .. (l + 1) PROVE (IF i = l + 1 THEN n ELSE m[i]) \in 1 .. n
      <4>1. CASE i = l + 1
        BY <4>1
      <4>2. CASE i # l + 1
        <5>1. m[i] \in 1 .. (n - 1)
          BY <2>4, <4>2
        <5> QED
          BY <4>2, <5>1
      <4> QED
        BY <4>1, <4>2
    <3> QED
      BY <2>3, <3>1
  <2>6. \A i \in 1 .. (l + 1) : i \in 1 .. l \/ i = l + 1
    OBVIOUS
  <2>7. \A i, j \in 1 .. (l + 1) : i < j => g[i] < g[j]
    BY <1>1, <1>2, <2>4, <2>6 DEF Picks
  <2>8. \A i \in 1 .. (l + 1) : u[i] = s[g[i]]
    BY <1>1, <1>2, <2>2, <2>4, <2>6 DEF Picks
  <2>9. \A k \in 1 .. n : s[k] \in S <=> \E i \in 1 .. (l + 1) : g[i] = k
    <3>1. ASSUME NEW k \in 1 .. (n - 1) PROVE s[k] \in S <=> \E i \in 1 .. (l + 1) : g[i] = k
      <4>1. s[k] \in S <=> \E i \in 1 .. l : m[i] = k
        BY <1>1, <1>2 DEF Picks
      <4>2. g[l + 1] # k
        BY <2>4
      <4>3. ASSUME NEW i \in 1 .. (l + 1), g[i] = k PROVE \E x \in 1 .. l : m[x] = k
        <5>1. i \in 1 .. l
          BY <2>6, <4>2, <4>3
        <5> QED
          BY <2>4, <4>3, <5>1
      <4>4. ASSUME NEW i \in 1 .. l, m[i] = k PROVE \E x \in 1 .. (l + 1) : g[x] = k
        <5>1. i \in 1 .. (l + 1)
          OBVIOUS
        <5> QED
          BY <2>4, <4>4, <5>1
      <4> QED
        BY <4>1, <4>3, <4>4
    <3> QED
      BY <1>3, <1>5, <2>4, <3>1
  <2>10. Picks(u, s, n, S, g)
    BY <2>2, <2>5, <2>7, <2>8, <2>9 DEF Picks
  <2> QED
    BY <1>5, <2>1, <2>10 DEF Filtered
<1> QED
  BY <1>4, <1>5

\* The filter keeps the elements of the set, in their order.
LEMMA OnlyIs ==
    ASSUME NEW T, NEW s \in Seq(T), NEW S
    PROVE  Only(s, S) \in Seq(T) /\ Filtered(Only(s, S), s, Len(s), S)
<1>1. PICK n \in Nat : n = Len(s)
  OBVIOUS
<1>2. PICK c : c = Chosen(s, S)
  OBVIOUS
<1>3. /\ Only(s, S) = c[n] /\ \A i \in 0 .. n : c[i] \in Seq(T)
      /\ \A i \in 0 .. n : c[i] = IF i = 0 THEN << >> ELSE IF s[i] \in S THEN Append(c[i - 1], s[i]) ELSE c[i - 1]
  <2>1. IsOnly(c, s, S) /\ Only(s, S) = c[n] /\ \A i \in 0 .. n : c[i] \in Seq(T)
    BY <1>1, <1>2, ChosenIs
  <2>2. \A i \in 0 .. n : c[i] = IF i = 0 THEN << >> ELSE IF s[i] \in S THEN Append(c[i - 1], s[i]) ELSE c[i - 1]
    BY <1>1, <2>1, Zenon DEF IsOnly
  <2> QED
    BY <2>1, <2>2, Zenon
<1> DEFINE Good == {i \in 0 .. n : Filtered(c[i], s, i, S)}
<1>4. 0 \in Good
  <2>1. c[0] = << >> /\ 0 \in 0 .. n
    BY <1>3
  <2>2. PICK m : m = [i \in 1 .. 0 |-> i]
    OBVIOUS
  <2>3. Picks(<< >>, s, 0, S, m)
    BY <2>2 DEF Picks
  <2> QED
    BY <2>1, <2>3 DEF Filtered
<1>5. ASSUME NEW i \in 1 .. n, i - 1 \in Good PROVE i \in Good
  <2>1. PICK t \in Seq(T) : t = c[i - 1]
    BY <1>3
  <2>2. Filtered(t, s, i - 1, S)
    BY <1>5, <2>1
  <2>3. Filtered(IF s[i] \in S THEN Append(t, s[i]) ELSE t, s, i, S)
    BY <1>1, <2>2, PickedOn
  <2>4. c[i] = IF s[i] \in S THEN Append(t, s[i]) ELSE t
    BY <1>3, <2>1
  <2> QED
    BY <2>3, <2>4
<1>6. \A i \in 0 .. n : i \in Good
  <2> HIDE DEF Good
  <2> QED
    BY <1>4, <1>5, StepByStep
<1>7. n \in 0 .. n
  OBVIOUS
<1> QED
  BY <1>1, <1>3, <1>6, <1>7

\* A filter that passes over one element at most makes the sequence shorter by
\* one at most.
LEMMA OnlyLength ==
    ASSUME NEW T, NEW s \in Seq(T), NEW S,
           \A i, j \in 1 .. Len(s) : s[i] \notin S /\ s[j] \notin S => i = j
    PROVE  Len(s) - Len(Only(s, S)) \in 0 .. 1
<1>1. PICK n \in Nat : n = Len(s)
  OBVIOUS
<1>2. PICK t \in Seq(T) : t = Only(s, S) /\ Filtered(t, s, n, S)
  BY <1>1, OnlyIs
<1>3. PICK l \in Nat : l = Len(t)
  OBVIOUS
<1>4. PICK m : Picks(t, s, n, S, m)
  BY <1>2 DEF Filtered
<1>5. PICK K : K = {k \in 1 .. n : s[k] \in S}
  OBVIOUS
<1>6. IsFiniteSet(1 .. n) /\ Cardinality(1 .. n) = n /\ IsFiniteSet(1 .. l) /\ Cardinality(1 .. l) = l
  BY FS_Interval
<1>7. IsFiniteSet(K) /\ Cardinality(K) \in Nat /\ Cardinality(K) <= n
  BY <1>5, <1>6, FS_Subset, FS_CardinalityType
<1>8. Cardinality(K) = l
  <2>1. m \in [1 .. l -> K]
    BY <1>3, <1>4, <1>5 DEF Picks
  <2>2. \A i, j \in 1 .. l : m[i] = m[j] => i = j
    <3>1. ASSUME NEW i \in 1 .. l, NEW j \in 1 .. l, i < j PROVE m[i] # m[j]
      <4>1. m[i] < m[j] /\ m[i] \in 1 .. n /\ m[j] \in 1 .. n
        BY <1>3, <1>4, <3>1 DEF Picks
      <4> QED
        BY <4>1
    <3> QED
      BY <3>1
  <2>3. \A k \in K : \E i \in 1 .. l : m[i] = k
    BY <1>3, <1>4, <1>5 DEF Picks
  <2>4. m \in Bijection(1 .. l, K)
    BY <2>1, <2>2, <2>3 DEF Bijection, Injection, Surjection, IsInjective
  <2>5. ExistsBijection(1 .. l, K)
    BY <2>4 DEF ExistsBijection
  <2> QED
    BY <1>6, <2>5, FS_Bijection
<1>9. n - Cardinality(K) \in 0 .. 1
  <2>1. CASE K = 1 .. n
    BY <1>6, <2>1
  <2>2. CASE K # 1 .. n
    <3>1. PICK k \in 1 .. n : s[k] \notin S
      BY <1>5, <2>2
    <3>2. K = (1 .. n) \ {k}
      BY <1>1, <1>5, <3>1
    <3>3. Cardinality((1 .. n) \ {k}) = n - 1
      BY <1>6, FS_RemoveElement
    <3> QED
      BY <3>2, <3>3
  <2> QED
    BY <2>1, <2>2
<1> QED
  BY <1>1, <1>2, <1>3, <1>8, <1>9

\* A deletion takes the message with the id, of which there is one.
LEMMA DeletedOne ==
    ASSUME IdsGrow, NEW id, ChatDelete(id)
    PROVE  IdsGrow'
<1>1. PICK T : T = [id : 0 .. (lastId - 1), user : {"user", "admin"}]
  OBVIOUS
<1>2. messages \in Seq(T) /\ lastId' = lastId /\ lastId \in Nat
  BY <1>1 DEF IdsGrow, ChatDelete
<1>3. PICK S : S = {m \in Range(messages) : m.id # id}
  OBVIOUS
<1>4. PICK n \in Nat : n = Len(messages) /\ DOMAIN messages = 1 .. n
  BY <1>2
<1>5. PICK t \in Seq(T) : t = messages' /\ t = Only(messages, S) /\ taken' = n - Len(t)
  BY <1>2, <1>3, <1>4, OnlyIs DEF ChatDelete
<1>6. \A i, j \in 1 .. n : i < j => messages[i].id < messages[j].id
  BY <1>4, Zenon DEF IdsGrow
<1>7. \A i \in 1 .. n : messages[i].id \in 0 .. (lastId - 1)
  <2>1. \A x \in T : x.id \in 0 .. (lastId - 1)
    BY <1>1
  <2>2. \A i \in 1 .. n : messages[i] \in T
    BY <1>2, <1>4
  <2> QED
    BY <2>1, <2>2
<1>8. taken' \in 0 .. 1
  <2>1. \A i \in 1 .. n : messages[i] \notin S => messages[i].id = id
    BY <1>2, <1>3, <1>4 DEF Range
  <2>2. \A i, j \in 1 .. n : messages[i].id = messages[j].id => i = j
    <3>1. ASSUME NEW i \in 1 .. n, NEW j \in 1 .. n, i < j PROVE messages[i].id # messages[j].id
      BY <1>6, <1>7, <3>1
    <3> QED
      BY <3>1
  <2>3. \A i, j \in 1 .. Len(messages) : messages[i] \notin S /\ messages[j] \notin S => i = j
    BY <1>4, <2>1, <2>2
  <2> QED
    BY <1>2, <1>4, <1>5, <2>3, OnlyLength
<1>9. \A i, j \in DOMAIN t : i < j => t[i].id < t[j].id
  <2>1. Filtered(t, messages, n, S)
    BY <1>2, <1>4, <1>5, OnlyIs
  <2>2. PICK m : Picks(t, messages, n, S, m)
    BY <2>1 DEF Filtered
  <2>3. ASSUME NEW i \in 1 .. Len(t), NEW j \in 1 .. Len(t), i < j PROVE t[i].id < t[j].id
    <3>1. m[i] \in 1 .. n /\ m[j] \in 1 .. n /\ m[i] < m[j] /\ t[i] = messages[m[i]] /\ t[j] = messages[m[j]]
      BY <2>2, <2>3 DEF Picks
    <3> QED
      BY <1>6, <3>1
  <2> QED
    BY <2>3
<1> QED
  BY <1>1, <1>2, <1>5, <1>8, <1>9 DEF IdsGrow

\* A message gets the next id.
LEMMA AddedLast ==
    ASSUME IdsGrow, NEW user \in {"user", "admin"}, NEW own, ChatAdd(user, own)
    PROVE  IdsGrow'
<1>1. PICK T : T = [id : 0 .. (lastId' - 1), user : {"user", "admin"}]
  OBVIOUS
<1>2. PICK x : x = [id |-> lastId, user |-> user]
  OBVIOUS
<1>3. lastId \in Nat /\ lastId' = lastId + 1 /\ messages' = Append(messages, x) /\ taken' = 0
  BY <1>2 DEF IdsGrow, ChatAdd, MessageId
<1>4. PICK n \in Nat : n = Len(messages) /\ DOMAIN messages = 1 .. n
  BY DEF IdsGrow
<1>5. \A i \in 1 .. n : messages[i] \in T /\ messages[i].id < lastId
  <2>1. PICK V : V = [id : 0 .. (lastId - 1), user : {"user", "admin"}]
    OBVIOUS
  <2>2. \A y \in V : y \in T /\ y.id < lastId
    BY <1>1, <1>3, <2>1
  <2>3. messages \in Seq(V)
    BY <2>1 DEF IdsGrow
  <2>4. \A i \in 1 .. n : messages[i] \in V
    BY <1>4, <2>3
  <2> QED
    BY <2>2, <2>4
<1>6. messages \in Seq(T)
  <2>1. messages = [i \in 1 .. n |-> messages[i]]
    BY <1>4 DEF IdsGrow
  <2> QED
    BY <1>5, <2>1
<1>7. x \in T /\ x.id = lastId
  BY <1>1, <1>2, <1>3
<1>8. PICK t \in Seq(T) : t = messages'
  BY <1>3, <1>6, <1>7
<1>9. DOMAIN t = 1 .. (n + 1) /\ t[n + 1] = x /\ \A i \in 1 .. n : t[i] = messages[i]
  BY <1>3, <1>4, <1>6, <1>8
<1>10. \A i, j \in 1 .. (n + 1) : i < j => t[i].id < t[j].id
  <2>1. \A i, j \in 1 .. n : i < j => messages[i].id < messages[j].id
    BY <1>4, Zenon DEF IdsGrow
  <2>2. \A i \in 1 .. (n + 1) : i \in 1 .. n \/ i = n + 1
    OBVIOUS
  <2> QED
    BY <1>5, <1>7, <1>9, <2>1, <2>2
<1>11. taken' \in 0 .. 1 /\ lastId' \in Nat
  BY <1>3
<1> QED
  BY <1>1, <1>8, <1>9, <1>10, <1>11 DEF IdsGrow

\* A start begins with nothing told and no messages.
LEMMA GfInitInv == GfInit => GfInv
<1> SUFFICES ASSUME GfInit PROVE GfInv
  OBVIOUS
<1>1. NoRequest \in Asking /\ NoRequest.kind = "none"
  BY DEF NoRequest, Asking
<1>2. << >> \in Seq(Telling) /\ DOMAIN << >> = {}
  OBVIOUS
<1>3. GfTypes
  BY <1>1, <1>2 DEF GfInit, GfTypes
<1>4. \A r \in Requests : ~Told(r, "stored") /\ ~Told(r, "added")
  BY <1>2 DEF GfInit, Told
<1>5. IdsGrow
  BY DEF GfInit, IdsGrow
<1> QED
  BY <1>3, <1>4, <1>5 DEF GfInv, NothingTold, ToldIsStored

\* Every step tells what it has done, and gives or takes one id.
LEMMA GfStepInv == GfInv /\ [GfNext]_gfVars => GfInv'
<1> SUFFICES ASSUME GfInv, [GfNext]_gfVars PROVE GfInv'
  OBVIOUS
<1>1. ASSUME Kept, IdsGrow' PROVE GfInv'
  BY <1>1, KeptTold DEF GfInv
<1>2. ASSUME UNCHANGED chatVars PROVE IdsGrow'
  BY <1>2 DEF GfInv, IdsGrow, chatVars
<1>3. ASSUME UNCHANGED todoVars PROVE GfTypes' /\ NothingTold' /\ ToldIsStored'
  BY <1>3 DEF GfInv, GfTypes, NothingTold, ToldIsStored, Told, todoVars
<1>4. ASSUME NEW r \in Requests, TodoStep(r) PROVE GfInv'
  BY <1>1, <1>2, <1>4, RouteKept DEF TodoStep
<1>5. CASE \/ \E r \in Requests, t \in Todos, kind \in Kinds : Receive(r, kind, t)
           \/ \E r \in Requests : Crash(r)
  <2>1. Kept
    BY <1>5, QuietKept
  <2>2. UNCHANGED chatVars
    BY <1>5 DEF Receive, Crash
  <2> QED
    BY <1>1, <1>2, <2>1, <2>2
<1>6. CASE Restart
  <2>1. Kept
    BY <1>6, QuietKept
  <2>2. messages' = << >> /\ lastId' = 1 /\ taken' = 0
    BY <1>6 DEF Restart
  <2>3. IdsGrow'
    BY <2>2 DEF IdsGrow
  <2> QED
    BY <1>1, <2>1, <2>3
<1>7. ASSUME NEW user \in {"user", "admin"}, NEW own, ChatAdd(user, own) PROVE GfInv'
  BY <1>3, <1>7, AddedLast DEF GfInv, ChatAdd
<1>8. ASSUME NEW id, ChatDelete(id) PROVE GfInv'
  BY <1>3, <1>8, DeletedOne DEF GfInv, ChatDelete
<1>9. CASE Seed \/ UNCHANGED gfVars
  BY <1>2, <1>3, <1>9 DEF Seed, gfVars, GfInv
<1> QED
  BY <1>4, <1>5, <1>6, <1>7, <1>8, <1>9 DEF GfNext

\* Whatever requests overlap, whenever the process crashes: who was told that
\* a to-do or a user is stored finds it in the database, and a deletion in the
\* chat takes one message at most.
THEOREM DataKeptAlways == GfSpec => []DataKept
<1>1. GfInv => DataKept
  BY DEF GfInv, DataKept, IdsGrow, DeletesOne
<1> QED
  BY <1>1, GfInitInv, GfStepInv, PTL DEF GfSpec

-----------------------------------------------------------------------------
(* Paket: the form and the page of a job.                                   *)

\* What is left in the form is of a command still being posted; the page that
\* waits for its first answer has seen nothing yet, and goes on asking.
FormIsEmpty == view = "form" /\ ~(\E j \in Posts : UnderWay(j)) => left = {}
PageGoesOn ==
    poll.late = "no" =>
        /\ itemActive => poll.next # "none"
        /\ poll.first = "asked" => item = "unknown" /\ poll.next = "timer"
PageTypes == poll \in [first : {"asked", "none"}, next : {"timer", "asked", "none"}, late : {"yes", "no"}]
ClientInv == PkInv /\ PageTypes /\ FormIsEmpty /\ SendsWhatIsTyped /\ PageGoesOn

\* The page begins so.
LEMMA ClientInitInv == PkInit => ClientInv
<1> SUFFICES ASSUME PkInit PROVE ClientInv
  OBVIOUS
<1>1. PkInv
  BY PkInitInv
<1> QED
  BY <1>1 DEF PkInit, ClientInv, PageTypes, FormIsEmpty, SendsWhatIsTyped, PageGoesOn, ItemPage, NoPage

\* Every step keeps it: a form is emptied when its post ends, and the first
\* answer is the only one a page does not ask for again.
LEMMA ClientStepInv == ClientInv /\ [PkNext]_pkVars => ClientInv'
<1> SUFFICES ASSUME ClientInv, [PkNext]_pkVars PROVE ClientInv'
  OBVIOUS
<1>0. PkInv'
  BY PkStepInv DEF ClientInv
<1>1. ASSUME UNCHANGED <<form, view, page>>, \A j \in Posts : UnderWay(j) => UnderWay(j)' PROVE ClientInv'
  BY <1>0, <1>1 DEF ClientInv, PageTypes, FormIsEmpty, SendsWhatIsTyped, PageGoesOn, itemActive, form, page
<1>2. ASSUME UNCHANGED <<form, view, page, post>> PROVE ClientInv'
  BY <1>1, <1>2 DEF UnderWay
<1>3. ASSUME NEW j \in Posts, ServerStep(j) PROVE ClientInv'
  <2>1. UNCHANGED <<form, view, page>>
    BY <1>3 DEF ServerStep
  <2>2. ASSUME NEW k \in Posts, UnderWay(k) PROVE UnderWay(k)'
    BY <1>3, <2>2 DEF ServerStep, Accept, Refuse, Finish, Stored, UnderWay, ClientInv, PkInv, PkTypes
  <2> QED
    BY <1>1, <2>1, <2>2
<1>4. ASSUME NEW j \in Posts, Install(j) PROVE ClientInv'
  <2>1. UNCHANGED <<form, view, page>>
    BY <1>4 DEF Install, postJobs
  <2>2. ASSUME NEW k \in Posts, UnderWay(k) PROVE UnderWay(k)'
    BY <1>4, <2>2 DEF Install, postJobs, UnderWay, ClientInv, PkInv, PkTypes
  <2> QED
    BY <1>1, <2>1, <2>2
<1>5. ASSUME NEW j \in Posts, NEW flags \in Flags, InstallForm(j, flags) PROVE ClientInv'
  <2>1. /\ view = "form" /\ UNCHANGED <<view, page>> /\ post' = [post EXCEPT ![j] = "sent"]
        /\ left' = left \cup flags
        /\ mixed' = IF left' # flags /\ ~\E k \in Posts : UnderWay(k) THEN "yes" ELSE mixed
    BY <1>5 DEF InstallForm, postJobs
  <2>2. UnderWay(j)'
    BY <2>1 DEF UnderWay, ClientInv, PkInv, PkTypes
  <2>3. mixed' = "no"
    BY <2>1 DEF ClientInv, FormIsEmpty, SendsWhatIsTyped
  <2> QED
    BY <1>0, <2>1, <2>2, <2>3
       DEF ClientInv, PageTypes, FormIsEmpty, SendsWhatIsTyped, PageGoesOn, itemActive, page
<1>6. ASSUME NEW j \in Posts, PostEnds(j) PROVE ClientInv'
  BY <1>0, <1>6 DEF PostEnds, forgetInput, ClientInv, PageTypes, FormIsEmpty, SendsWhatIsTyped,
                    PageGoesOn, itemActive, page
<1>7. CASE Reload
  BY <1>0, <1>7 DEF Reload, form, page, ClientInv, PageTypes, FormIsEmpty, SendsWhatIsTyped, PageGoesOn, itemActive
<1>8. CASE \/ \E c \in Callers : Answer(c) \/ TimerFires(c) \/ JobsArrive(c) \/ RequirementsArrive(c) \/ JobsCollected(c)
           \/ Refetch
  BY <1>2, <1>8 DEF Answer, TimerFires, JobsArrive, RequirementsArrive, JobsCollected, Refetch
<1>9. ASSUME UNCHANGED <<view, post, left, mixed>>, PageTypes', PageGoesOn' PROVE ClientInv'
  BY <1>0, <1>9 DEF ClientInv, FormIsEmpty, SendsWhatIsTyped, UnderWay
<1>10. UNCHANGED Elsewhere => UNCHANGED <<view, post, left, mixed>>
  BY DEF Elsewhere, form
<1>11. CASE FirstArrives
  <2>1. PageTypes' /\ PageGoesOn'
    BY <1>11 DEF FirstArrives, ClientInv, PageTypes, PageGoesOn, itemActive
  <2> QED
    BY <1>9, <1>10, <1>11, <2>1 DEF FirstArrives
<1>12. CASE ItemTimer
  <2>1. PageTypes' /\ PageGoesOn'
    BY <1>12 DEF ItemTimer, ClientInv, PageTypes, PageGoesOn, itemActive
  <2> QED
    BY <1>9, <1>10, <1>12, <2>1 DEF ItemTimer
<1>13. CASE ItemArrives
  <2>1. PageTypes' /\ PageGoesOn'
    BY <1>13 DEF ItemArrives, Again, ClientInv, PageTypes, PageGoesOn, itemActive
  <2> QED
    BY <1>9, <1>10, <1>13, <2>1 DEF ItemArrives
<1>14. CASE Leave
  <2>1. PageTypes' /\ PageGoesOn'
    BY <1>14 DEF Leave, NoPage, PageTypes, PageGoesOn
  <2> QED
    BY <1>9, <1>10, <1>14, <2>1 DEF Leave
<1>15. CASE UNCHANGED pkVars
  BY <1>2, <1>15 DEF pkVars
<1> QED
  BY <1>3, <1>4, <1>5, <1>6, <1>7, <1>8, <1>11, <1>12, <1>13, <1>14, <1>15 DEF PkNext

-----------------------------------------------------------------------------
(* Screens: what they list and what they offer to uninstall.                *)

Elems(s) == {s[i] : i \in 1 .. Len(s)}
ThereNow == {n \in Names : installed[n].in # "nothing"}
ScTypes == installed \in [Names -> States]

\* The elements of a filtered sequence.
LEMMA OnlyElems ==
    ASSUME NEW T, NEW s \in Seq(T), NEW S
    PROVE  Only(s, S) \in Seq(T) /\ Elems(Only(s, S)) = Elems(s) \cap S
<1>1. PICK t \in Seq(T) : t = Only(s, S) /\ Filtered(t, s, Len(s), S)
  BY OnlyIs
<1>2. PICK m : Picks(t, s, Len(s), S, m)
  BY <1>1 DEF Filtered
<1>3. ASSUME NEW i \in 1 .. Len(t) PROVE t[i] \in Elems(s) \cap S
  <2>1. m[i] \in 1 .. Len(s) /\ t[i] = s[m[i]] /\ s[m[i]] \in S
    BY <1>2 DEF Picks
  <2> QED
    BY <2>1 DEF Elems
<1>4. ASSUME NEW k \in 1 .. Len(s), s[k] \in S PROVE s[k] \in Elems(t)
  <2>1. PICK i \in 1 .. Len(t) : m[i] = k
    BY <1>2, <1>4 DEF Picks
  <2>2. t[i] = s[k]
    BY <1>2, <2>1 DEF Picks
  <2> QED
    BY <2>2 DEF Elems
<1>5. Elems(t) = Elems(s) \cap S
  BY <1>3, <1>4 DEF Elems
<1> QED
  BY <1>1, <1>5

\* The last element of one of two sequences.
LEMMA FinalElems ==
    ASSUME NEW T, NEW s \in Seq(T), NEW e \in Seq(T)
    PROVE  Final(s, e) \in Seq(T) /\ Elems(Final(s, e)) \subseteq Elems(s) \cup Elems(e)
<1>1. CASE s = <<>>
  BY <1>1 DEF Final
<1>2. CASE s # <<>>
  <2>1. Len(s) \in 1 .. Len(s) /\ s[Len(s)] \in T
    BY <1>2
  <2>2. PICK x \in T : x = s[Len(s)]
    BY <2>1
  <2>3. x \in Elems(s)
    BY <2>1, <2>2 DEF Elems
  <2>4. Final(s, e) = <<x>>
    BY <1>2, <2>2 DEF Final
  <2>5. Elems(<<x>>) = {x} /\ <<x>> \in Seq(T)
    BY DEF Elems
  <2> QED
    BY <2>3, <2>4, <2>5
<1> QED
  BY <1>1, <1>2

\* The elements of two sequences.
LEMMA JoinedElems ==
    ASSUME NEW T, NEW s \in Seq(T), NEW t \in Seq(T)
    PROVE  s \o t \in Seq(T) /\ Elems(s \o t) = Elems(s) \cup Elems(t)
<1>1. /\ s \o t \in Seq(T) /\ Len(s \o t) = Len(s) + Len(t)
      /\ \A i \in 1 .. Len(s) + Len(t) : (s \o t)[i] = IF i <= Len(s) THEN s[i] ELSE t[i - Len(s)]
  BY ConcatProperties, Zenon
<1>2. PICK u \in Seq(T) : u = s \o t
  BY <1>1
<1>3. PICK k \in Nat : k = Len(s)
  OBVIOUS
<1>4. PICK l \in Nat : l = Len(t)
  OBVIOUS
<1>5. Len(u) = k + l /\ \A i \in 1 .. k + l : u[i] = IF i <= k THEN s[i] ELSE t[i - k]
  BY <1>1, <1>2, <1>3, <1>4, Zenon
<1>6. ASSUME NEW i \in 1 .. (k + l) PROVE u[i] \in Elems(s) \cup Elems(t)
  <2>1. i <= k => i \in 1 .. k
    OBVIOUS
  <2>2. ~(i <= k) => i - k \in 1 .. l
    OBVIOUS
  <2> QED
    BY <1>3, <1>4, <1>5, <2>1, <2>2 DEF Elems
<1>7. ASSUME NEW i \in 1 .. k PROVE s[i] \in Elems(u)
  <2>1. i \in 1 .. (k + l) /\ i <= k
    OBVIOUS
  <2> QED
    BY <1>5, <2>1 DEF Elems
<1>8. ASSUME NEW i \in 1 .. l PROVE t[i] \in Elems(u)
  <2>1. PICK j \in 1 .. (k + l) : j = k + i /\ ~(j <= k) /\ j - k = i
    OBVIOUS
  <2>2. u[j] = t[i]
    BY <1>5, <2>1
  <2> QED
    BY <1>5, <2>2 DEF Elems
<1>9. Elems(u) = Elems(s) \cup Elems(t)
  <2>1. Elems(u) \subseteq Elems(s) \cup Elems(t)
    BY <1>5, <1>6 DEF Elems
  <2>2. Elems(s) \subseteq Elems(u)
    BY <1>3, <1>7 DEF Elems
  <2>3. Elems(t) \subseteq Elems(u)
    BY <1>4, <1>8 DEF Elems
  <2> QED
    BY <2>1, <2>2, <2>3
<1> QED
  BY <1>2, <1>9

\* What each list of the lock file has.
LEMMA ListedElems ==
    ASSUME NEW list
    PROVE  /\ Listed(list) \in Seq(Names)
           /\ Elems(Listed(list)) = {n \in Names : installed[n].in = list}
<1>1. Order \in Seq(Names) /\ Elems(Order) = Names
  BY OrderAssumption DEF Names, Elems
<1> QED
  BY <1>1, OnlyElems DEF Listed

\* The roots and the others of a list are the whole list.
LEMMA RootsAndOthers ==
    ASSUME NEW s \in Seq(Names)
    PROVE  /\ Roots(s) \in Seq(Names) /\ Others(s) \in Seq(Names)
           /\ Elems(Roots(s)) \cup Elems(Others(s)) = Elems(s)
<1>1. Elems(s) \subseteq Names
  BY DEF Elems
<1>2. Roots(s) \in Seq(Names) /\ Elems(Roots(s)) = Elems(s) \cap {n \in Names : IsRoot(n)}
  BY OnlyElems DEF Roots
<1>3. Others(s) \in Seq(Names) /\ Elems(Others(s)) = Elems(s) \cap {n \in Names : ~IsRoot(n)}
  BY OnlyElems DEF Others
<1> QED
  BY <1>1, <1>2, <1>3

\* The place the reference is to reads as a name that is in the lock file.
LEMMA AliasedElems ==
    /\ FirstDev \in Seq(Names) /\ AliasedRoot \in Seq(Names) /\ AliasedOther \in Seq(Names)
    /\ Elems(FirstDev) \subseteq Elems(DevListed)
    /\ \A n \in Elems(DevListed) \ Elems(FirstDev) : n = DevListed[Len(DevListed)]
    /\ Elems(AliasedRoot) \cup Elems(AliasedOther) \subseteq Elems(DevListed) \cup Elems(Listed("packages"))
<1>1. PICK d \in Seq(Names) : d = DevListed
  BY ListedElems DEF DevListed
<1>2. PICK p \in Seq(Names) : p = Listed("packages")
  BY ListedElems
<1>0. PICK e \in Seq(Names) : e = <<>>
  <2>1. <<>> \in Seq(Names)
    OBVIOUS
  <2> QED
    BY <2>1, Zenon
<1>3. PICK f \in Seq(Names) : /\ f = FirstDev /\ Elems(f) \subseteq Elems(d)
                              /\ \A n \in Elems(d) \ Elems(f) : n = d[Len(d)]
  <2>1. CASE d = <<>>
    <3>1. Elems(d) = {} /\ FirstDev = e
      BY <1>0, <1>1, <2>1 DEF FirstDev, Elems
    <3>2. Elems(e) = {}
      BY <1>0 DEF Elems
    <3> QED
      BY <3>1, <3>2
  <2>2. CASE d # <<>>
    <3>1. PICK l \in Nat : l = Len(d) /\ l # 0
      BY <2>2
    <3>2. PICK f \in Seq(Names) : f = SubSeq(d, 1, l - 1)
      <4>1. PICK k \in Int : k = l - 1
        OBVIOUS
      <4>2. \A i \in 1 .. k : d[i] \in Names
        BY <3>1, <4>1
      <4>3. 1 \in Int
        OBVIOUS
      <4>4. SubSeq(d, 1, k) \in Seq(Names)
        BY <4>2, <4>3, SubSeqProperties, Zenon
      <4> QED
        BY <4>1, <4>4
    <3>3. f = FirstDev
      BY <1>1, <2>2, <3>1, <3>2, Zenon DEF FirstDev
    <3>4. Len(f) = l - 1 /\ \A i \in 1 .. (l - 1) : f[i] = d[i]
      BY <3>1, <3>2
    <3>5. Elems(f) \subseteq Elems(d)
      <4>1. \A i \in 1 .. (l - 1) : i \in 1 .. l
        BY <3>1
      <4> QED
        BY <3>1, <3>4, <4>1 DEF Elems
    <3>6. ASSUME NEW n \in Elems(d) \ Elems(f) PROVE n = d[Len(d)]
      <4>1. PICK i \in 1 .. l : n = d[i]
        BY <3>1 DEF Elems
      <4>2. i \in 1 .. (l - 1) => n \in Elems(f)
        BY <3>4, <4>1 DEF Elems
      <4>3. i = l
        BY <3>6, <4>1, <4>2
      <4> QED
        BY <3>1, <4>1, <4>3
    <3> QED
      BY <3>3, <3>5, <3>6
  <2> QED
    BY <2>1, <2>2
<1>4. PICK r \in Seq(Names) : r = AliasedRoot /\ Elems(r) \subseteq Elems(d) \cup Elems(p)
  <2>1. CASE d = <<>>
    <3>1. AliasedRoot = e /\ Elems(e) = {}
      BY <1>0, <1>1, <2>1 DEF AliasedRoot, Elems
    <3> QED
      BY <3>1
  <2>2. CASE d # <<>>
    <3>1. PICK x \in Seq(Names) : x = Final(p, d) /\ Elems(x) \subseteq Elems(d) \cup Elems(p)
      BY FinalElems
    <3>2. PICK y \in Seq(Names) : y = Final(f, x) /\ Elems(y) \subseteq Elems(f) \cup Elems(x)
      BY FinalElems
    <3>3. AliasedRoot = y
      BY <1>1, <1>2, <1>3, <2>2, <3>1, <3>2, Zenon DEF AliasedRoot
    <3> QED
      BY <1>3, <3>1, <3>2, <3>3
  <2> QED
    BY <2>1, <2>2
<1>5. PICK o \in Seq(Names) : o = AliasedOther /\ Elems(o) \subseteq Elems(d) \cup Elems(p)
  <2>1. CASE Others(r) = <<>>
    <3>1. AliasedOther = e /\ Elems(e) = {}
      BY <1>0, <1>4, <2>1 DEF AliasedOther, Elems
    <3> QED
      BY <3>1
  <2>2. CASE Others(r) # <<>>
    <3>1. PICK q \in Seq(Names) : q = Others(p) /\ Elems(q) \subseteq Elems(p)
      BY RootsAndOthers
    <3>2. PICK g \in Seq(Names) : g = Others(f) /\ Elems(g) \subseteq Elems(f)
      BY RootsAndOthers
    <3>3. PICK x \in Seq(Names) : x = Final(q, r) /\ Elems(x) \subseteq Elems(q) \cup Elems(r)
      BY FinalElems
    <3>4. PICK y \in Seq(Names) : y = Final(g, x) /\ Elems(y) \subseteq Elems(g) \cup Elems(x)
      BY FinalElems
    <3>5. AliasedOther = y
      BY <1>2, <1>3, <1>4, <2>2, <3>1, <3>2, <3>3, <3>4, Zenon DEF AliasedOther
    <3> QED
      BY <1>3, <1>4, <3>1, <3>2, <3>3, <3>4, <3>5
  <2> QED
    BY <2>1, <2>2
<1> QED
  BY <1>1, <1>2, <1>3, <1>4, <1>5

\* The names in one part of the list.
LEMMA NamesListed ==
    ASSUME NEW s \in Seq(Names), NEW x, x = Named(s)
    PROVE  {x[i].name : i \in DOMAIN x} = Elems(s)
<1>1. DOMAIN x = 1 .. Len(s) /\ \A i \in 1 .. Len(s) : x[i].name = s[i]
  BY DEF Named, Requirement
<1> QED
  BY <1>1 DEF Elems

ListTrue(list, there) ==
    /\ \A l \in DOMAIN list, e \in {"essential", "dev"} :
          {list[l][e][i].name : i \in DOMAIN list[l][e]} \subseteq there
    /\ \A n \in there : \/ \E l \in DOMAIN list, e \in {"essential", "dev"} :
                             n \in {list[l][e][i].name : i \in DOMAIN list[l][e]}
                       \/ n = DevListed[Len(DevListed)]

\* The list has every package there is but perhaps the last of packages-dev.
LEMMA ListIsTrue == ScTypes => ListsAllButTheLast
<1> SUFFICES ASSUME ScTypes PROVE ListsAllButTheLast
  OBVIOUS
<1>1. PICK p \in Seq(Names) : p = Listed("packages") /\ Elems(p) = {n \in Names : installed[n].in = "packages"}
  BY ListedElems
<1>2. PICK d \in Seq(Names) :
         d = DevListed /\ Elems(d) = {n \in Names : installed[n].in = "packages-dev"}
  BY ListedElems DEF DevListed
<1>3. PICK f \in Seq(Names) : /\ f = FirstDev /\ Elems(f) \subseteq Elems(d)
                              /\ \A n \in Elems(d) \ Elems(f) : n = d[Len(d)]
  BY <1>2, AliasedElems
<1>4. PICK r \in Seq(Names) : r = AliasedRoot /\ Elems(r) \subseteq Elems(d) \cup Elems(p)
  BY <1>1, <1>2, AliasedElems
<1>5. PICK ao \in Seq(Names) : ao = AliasedOther /\ Elems(ao) \subseteq Elems(d) \cup Elems(p)
  BY <1>1, <1>2, AliasedElems
<1>6. PICK fr \in Seq(Names) : fr = f \o r /\ Elems(fr) = Elems(f) \cup Elems(r)
  BY JoinedElems, Zenon
<1>7. PICK ff \in Seq(Names) : ff = Others(f)
  BY RootsAndOthers
<1>8. PICK b \in Seq(Names) : b = Roots(fr)
  BY RootsAndOthers
<1>9. PICK c \in Seq(Names) : c = ff \o ao /\ Elems(c) = Elems(ff) \cup Elems(ao)
  <2>1. ff \o ao \in Seq(Names) /\ Elems(ff \o ao) = Elems(ff) \cup Elems(ao)
    BY JoinedElems, Zenon
  <2> QED
    BY <2>1, Zenon
<1>10. PICK a \in Seq(Names) : a = Roots(p)
  BY RootsAndOthers
<1>11. PICK e \in Seq(Names) : e = Others(p)
  BY RootsAndOthers
<1>12. PICK list : list = CollectAction
  OBVIOUS
<1> DEFINE At(l, g) == {list[l][g][i].name : i \in DOMAIN list[l][g]}
<1>13. list = [roots |-> [essential |-> Named(a), dev |-> Named(b)],
               dependencies |-> [essential |-> Named(e), dev |-> Named(c)]]
  BY <1>1, <1>3, <1>4, <1>5, <1>6, <1>7, <1>8, <1>9, <1>10, <1>11, <1>12, Zenon DEF CollectAction
<1>14. /\ DOMAIN list = {"roots", "dependencies"}
       /\ At("roots", "essential") = Elems(a) /\ At("roots", "dev") = Elems(b)
       /\ At("dependencies", "essential") = Elems(e) /\ At("dependencies", "dev") = Elems(c)
  <2>1. PICK na : na = Named(a)
    OBVIOUS
  <2>2. PICK nb : nb = Named(b)
    OBVIOUS
  <2>3. PICK ne : ne = Named(e)
    OBVIOUS
  <2>4. PICK nc : nc = Named(c)
    OBVIOUS
  <2>5. /\ DOMAIN list = {"roots", "dependencies"}
        /\ list["roots"]["essential"] = na /\ list["roots"]["dev"] = nb
        /\ list["dependencies"]["essential"] = ne /\ list["dependencies"]["dev"] = nc
    BY <1>13, <2>1, <2>2, <2>3, <2>4
  <2> QED
    BY <2>1, <2>2, <2>3, <2>4, <2>5, NamesListed, Zenon
<1>15. Elems(a) \cup Elems(e) = Elems(p)
  BY <1>10, <1>11, RootsAndOthers
<1>16. Elems(b) \subseteq Elems(f) \cup Elems(r) /\ Elems(f) \subseteq Elems(b) \cup Elems(ff) /\ Elems(ff) \subseteq Elems(f)
  <2>1. Elems(b) = Elems(fr) \cap {n \in Names : IsRoot(n)}
    BY <1>8, OnlyElems DEF Roots
  <2>2. Elems(ff) = Elems(f) \cap {n \in Names : ~IsRoot(n)}
    BY <1>7, OnlyElems DEF Others
  <2>3. Elems(f) \subseteq Names
    BY <1>2, <1>3
  <2> QED
    BY <1>6, <2>1, <2>2, <2>3
<1>17. PICK there : there = {n \in Names : installed[n] # NotThere}
  OBVIOUS
<1>18. there = Elems(p) \cup Elems(d)
  <2>1. ASSUME NEW x \in States PROVE x # NotThere <=> x.in \in {"packages", "packages-dev"}
    <3>1. PICK z : z = NotThere
      OBVIOUS
    <3>2. z.in = "nothing"
      BY <3>1 DEF NotThere
    <3>3. x = z \/ x.in \in {"packages", "packages-dev"}
      BY <3>1 DEF States
    <3> QED
      BY <3>1, <3>2, <3>3
  <2> QED
    BY <1>1, <1>2, <1>17, <2>1 DEF ScTypes
<1>19. /\ Elems(a) \subseteq there /\ Elems(b) \subseteq there
       /\ Elems(e) \subseteq there /\ Elems(c) \subseteq there
  BY <1>3, <1>4, <1>5, <1>9, <1>15, <1>16, <1>18
<1>20. ASSUME NEW n \in there
       PROVE  n \in Elems(a) \cup Elems(b) \cup Elems(e) \cup Elems(c) \/ n = d[Len(d)]
  BY <1>3, <1>9, <1>15, <1>16, <1>18
<1> HIDE DEF At
<1>21. ASSUME NEW l \in DOMAIN list, NEW g \in {"essential", "dev"} PROVE At(l, g) \subseteq there
  BY <1>14, <1>19
<1>22. ASSUME NEW n \in there
       PROVE  (\E l \in DOMAIN list, g \in {"essential", "dev"} : n \in At(l, g)) \/ n = d[Len(d)]
  <2>1. "roots" \in DOMAIN list /\ "dependencies" \in DOMAIN list
    BY <1>14
  <2> QED
    BY <1>14, <1>20, <2>1
<1>23. ListTrue(list, there)
  BY <1>2, <1>21, <1>22, Zenon DEF ListTrue, At
<1>24. ListTrue(CollectAction, {n \in Names : installed[n] # NotThere})
  BY <1>12, <1>17, <1>23, Zenon
<1> QED
  BY <1>24, Zenon DEF ListsAllButTheLast, ListTrue

\* No job takes a protected package away.
OffersKeep == offered.kind = "uninstall" => offered.what.name \notin Protected
ScInv == ScTypes /\ ProtectedStays /\ OffersKeep

\* An installation is not a removal, and a removal is of what was asked for.
LEMMA InstallIs ==
    ASSUME NEW r
    PROVE  InstallOf(r).kind # "uninstall" /\ Uninstall(r).what = r
BY DEF InstallOf, Uninstall

\* What a click may post.
LEMMA ClickKeeps ==
    ASSUME Click
    PROVE  offered'.kind = "uninstall" => offered'.what.name \notin Protected
<1> DEFINE Good(x) == x.kind = "uninstall" => x.what.name \notin Protected
<1>1. \A r : Good(InstallOf(r))
  BY InstallIs
<1>2. \A r : r.name \notin Protected => Good(Uninstall(r))
  BY InstallIs
<1> HIDE DEF Good
<1>3. \A x \in CardOffers : Good(x)
  BY <1>1, <1>2, CardsAssumption DEF CardOffers
<1>4. \A x \in RequirementOffers : Good(x)
  BY <1>2 DEF RequirementOffers, isNotProtectedRequirement
<1>5. \A x \in SuggestionOffers : Good(x)
  BY <1>1, <1>2 DEF SuggestionOffers, isUninstallable, isNotProtectedRequirement
<1>6. \A x \in FormOffers : Good(x)
  BY <1>1 DEF FormOffers
<1>7. Good(offered')
  BY <1>3, <1>4, <1>5, <1>6 DEF Click
<1> QED
  BY <1>7 DEF Good

\* At first protected packages are required, and nothing is offered.
LEMMA ScInitInv == ScInit => ScInv
<1> SUFFICES ASSUME ScInit PROVE ScInv
  OBVIOUS
<1>1. offered.kind # "uninstall"
  BY DEF ScInit, Nothing
<1>2. ProtectedStays
  BY DEF ScInit, ProtectedStays, IsRoot
<1> QED
  BY <1>1, <1>2 DEF ScInit, ScInv, ScTypes, OffersKeep

\* Composer takes away what was offered, which is not protected; an
\* installation only gives.
LEMMA ComposerKeeps ==
    ASSUME ScInv, ComposerDone
    PROVE  ProtectedStays'
<1>1. PICK n : n = offered.what.name
  OBVIOUS
<1>2. PICK by : by = Where(offered.what)
  OBVIOUS
<1>3. by # "nobody"
  BY <1>2 DEF Where
<1>4. /\ \A m \in Names \ {n} : installed'[m].by = installed[m].by
      /\ \/ offered.kind = "install" /\ installed'[n].by = by
         \/ offered.kind = "uninstall"
  BY <1>1, <1>2, Zenon DEF ComposerDone
<1>5. ASSUME NEW m \in Names, m \in Protected PROVE installed'[m].by # "nobody"
  <2>1. installed[m].by # "nobody"
    BY <1>5 DEF ScInv, ProtectedStays, IsRoot
  <2>2. CASE m # n
    BY <1>4, <2>1, <2>2
  <2>3. CASE m = n
    <3>1. offered.kind # "uninstall"
      BY <1>1, <1>5, <2>3 DEF ScInv, OffersKeep
    <3> QED
      BY <1>3, <1>4, <2>3, <3>1
  <2> QED
    BY <2>2, <2>3
<1> QED
  BY <1>5 DEF ProtectedStays, IsRoot

\* Every step keeps that: only Composer changes what is installed.
LEMMA ScStepInv == ScInv /\ [ScNext]_scVars => ScInv'
<1> SUFFICES ASSUME ScInv, [ScNext]_scVars PROVE ScInv'
  OBVIOUS
<1>1. ASSUME UNCHANGED installed, OffersKeep' PROVE ScInv'
  BY <1>1 DEF ScInv, ScTypes, ProtectedStays, IsRoot
<1>2. ASSUME offered' = Nothing PROVE OffersKeep'
  BY <1>2 DEF OffersKeep, Nothing
<1>3. CASE Click
  BY <1>1, <1>3, ClickKeeps DEF OffersKeep, Click
<1>4. CASE collectRequirements \/ UNCHANGED scVars
  BY <1>1, <1>4 DEF collectRequirements, scVars, ScInv, OffersKeep
<1>5. CASE ComposerDone
  <2>1. ScTypes' /\ OffersKeep'
    BY <1>2, <1>5 DEF ComposerDone, ScTypes
  <2> QED
    BY <1>5, <2>1, ComposerKeeps DEF ScInv
<1>6. CASE ComposerFails
  BY <1>1, <1>2, <1>6 DEF ComposerFails
<1> QED
  BY <1>3, <1>4, <1>5, <1>6 DEF ScNext

\* For any packages in any order, however old the list on the page is and
\* whatever the server answers: no click removes a protected package, the list
\* has all packages but perhaps the last of packages-dev, the form posts the
\* flags that were typed, and the page of an active job goes on asking.
THEOREM PagesTrueAlways == PkSpec /\ ScSpec => []PagesTrue
<1>1. ClientInv => ClientTrue
  BY DEF ClientInv, ClientTrue, PageGoesOn, PageFollows
<1>2. ScInv => ScreensTrue
  BY ListIsTrue DEF ScInv, ScreensTrue
<1>3. PkSpec => []ClientInv
  BY ClientInitInv, ClientStepInv, PTL DEF PkSpec
<1>4. ScSpec => []ScInv
  BY ScInitInv, ScStepInv, PTL DEF ScSpec
<1>5. ClientInv /\ ScInv => PagesTrue
  BY <1>1, <1>2 DEF PagesTrue
<1> QED
  BY <1>3, <1>4, <1>5, PTL

=============================================================================
