------------------------------- MODULE Solver -------------------------------
(***************************************************************************)
(* The backtracking solver (gps/solver.go, satisfy.go, selection.go,       *)
(* version_queue.go): pick one version of every project that the root      *)
(* project imports, directly or not, so that every constraint holds and    *)
(* every imported package exists.                                          *)
(*                                                                         *)
(* What the source manager would answer is a universe u, chosen once.  A   *)
(* constraint is the set of versions it admits.  Go maps are iterated in   *)
(* any order.                                                              *)
(***************************************************************************)
EXTENDS Naturals, FiniteSets, SequencesExt

CONSTANTS
  Proj,      \* project roots, numbers: Less() compares them by name
  Pkg,       \* names of packages within a project
  Ver,       \* versions
  Root,      \* the current project, not in Proj
  None,      \* no version
  Universe,  \* what there is to solve; each of its elements u has
  Versions(_, _),        \* the versions of a project, in the order they are tried
  Tree(_, _, _),         \* the packages of a project at a version
  Internal(_, _, _, _),  \* the packages of its own project a package reaches
  External(_, _, _, _),  \* the packages of other projects it reaches
  Rule(_, _, _, _),      \* the constraint of a version of a project on another
  Hint(_, _, _, _),      \* the version of another project in its lock
  Imports(_),            \* the packages the root reaches
  RootRule(_, _),        \* the root's constraint on a project
  Lock(_, _),            \* the version of a project in the root's lock
  Changing(_),           \* the projects the caller asked to change
  Gone(_)                \* the projects without a source

ASSUME SolverConstants ==
  Proj \subseteq Nat /\ IsFiniteSet(Proj) /\ Root \notin Proj /\ None \notin Ver

\* What a package reaches is closed: with a package of its own project it reaches
\* all that this one reaches.
ASSUME UniverseAssumption ==
  \A x \in Universe :
    /\ Imports(x) \subseteq Proj \X Pkg
    /\ \A p \in Proj :
         /\ Lock(x, p) \in Ver \cup {None} /\ RootRule(x, p) \subseteq Ver
         /\ \A v \in Ver :
              /\ \A p2 \in Proj : Rule(x, p, v, p2) \subseteq Ver /\ Hint(x, p, v, p2) \in Ver \cup {None}
              /\ \A k \in Pkg :
                   /\ Internal(x, p, v, k) \subseteq Pkg
                   /\ External(x, p, v, k) \subseteq (Proj \ {p}) \X Pkg
                   /\ \A k2 \in Internal(x, p, v, k) :
                        /\ Internal(x, p, v, k2) \subseteq Internal(x, p, v, k)
                        /\ External(x, p, v, k2) \subseteq External(x, p, v, k)

VARIABLES
  u,          \* the universe
  projects,   \* stack of selections: project, version, packages, first or not
  deps,       \* for each project the stack of dependencies on it
  unsel,      \* heap of packages of projects still to be selected
  vqs,        \* stack of version queues
  q,          \* the version queue being worked on, if any
  goal,       \* the packages wanted of it
  phase

sVars == <<u, projects, deps, unsel, vqs, q, goal, phase>>

Dependency == [by : Proj \cup {Root}, v : Ver \cup {None}, pl : SUBSET Pkg, c : SUBSET Ver]
Final == {"solved", "unsolvable", "cancelled", "panic"}

SolverInit ==
  /\ u \in Universe
  /\ projects = <<>>
  /\ deps = [p \in Proj |-> <<>>]
  /\ unsel = <<>>
  /\ vqs = <<>>
  /\ q = None
  /\ goal = {}
  /\ phase = "start"
-----------------------------------------------------------------------------
\* The reach map: a package that reaches a missing one is left out of it.
Reachable(p, v) == {k \in Tree(u, p, v) : Internal(u, p, v, k) \subseteq Tree(u, p, v)}

\* getImportsAndConstraintsOf: an error if a package is not in the reach map,
\* else the packages with the internal ones they reach, and the dependencies.
Analyzable(p, v, pl) == pl \subseteq Reachable(p, v)
WithInternal(p, v, pl) == pl \cup UNION {Internal(u, p, v, k) : k \in pl}

RuleOf(p, v, p2) == IF p = Root THEN RootRule(u, p2) ELSE Rule(u, p, v, p2)

DependenciesOf(p, v, imports) ==
  {[on |-> p2, by |-> p, v |-> v, c |-> RuleOf(p, v, p2),
    pl |-> {k \in Pkg : <<p2, k>> \in imports}] : p2 \in {i[1] : i \in imports}}

DepsOf(p, v, pl) == DependenciesOf(p, v, UNION {External(u, p, v, k) : k \in pl})

Edge(d) == [by |-> d.by, v |-> d.v, pl |-> d.pl, c |-> d.c]
-----------------------------------------------------------------------------
(***************************************************************************)
(* selection and unselected.                                               *)
(***************************************************************************)
IsSelected(sel, p) == \E i \in DOMAIN sel : sel[i].p = p
Selected(sel, p) == sel[CHOOSE i \in DOMAIN sel :
                          sel[i].p = p /\ \A j \in 1..(i - 1) : sel[j].p # p].v

Constraint(p) == {v \in Ver : \A i \in DOMAIN deps[p] : v \in deps[p][i].c}

\* unselectedComparator: packages of selected projects come first, then locked
\* projects, then those with fewer versions, then by name.
Less(sel, a, b) ==
  LET selected(x) == IsSelected(sel, x.p)
      locked(x) == Lock(u, x.p) # None
      count(x) == IF x.p \in Gone(u) THEN 0 ELSE Len(Versions(u, x.p)) IN
  IF selected(a) # selected(b) THEN selected(a)
  ELSE IF locked(a) # locked(b) THEN locked(a)
  ELSE IF ~locked(a) /\ count(a) # count(b) THEN count(a) < count(b)
  ELSE a.p < b.p

\* heap.Push: the new element rises past its ancestors n \div 2, n \div 4, ...,
\* fewer than n, as long as it is less than they are.
HeapPush(sel, h, x) ==
  LET n == Len(h) + 1
      up[i \in 0..n] == IF i = 0 THEN n ELSE up[i - 1] \div 2
      rises(m) == \A i \in 1..m : up[i] >= 1 /\ Less(sel, x, h[up[i]])
      m == CHOOSE m \in 0..(n - 1) : rises(m) /\ \A k \in 0..(n - 1) : rises(k) => k <= m IN
  [k \in 1..n |-> IF k = up[m] THEN x
                  ELSE IF \E i \in 0..(m - 1) : k = up[i] THEN h[k \div 2]
                  ELSE h[k]]

\* One after the other.
HeapPushAll(sel, h, xs) ==
  LET heap[i \in 0..Len(xs)] == IF i = 0 THEN h ELSE HeapPush(sel, heap[i - 1], xs[i]) IN
  heap[Len(xs)]

\* unselected.remove: the first entry with this project and these packages is
\* spliced out; the heap is not put in order again.
Removed(h, p, pl) ==
  LET matches == {i \in DOMAIN h : h[i].p = p /\ h[i].pl = pl} IN
  IF matches = {} THEN h
  ELSE RemoveAt(h, CHOOSE i \in matches : \A j \in matches : i <= j)

\* Removed for each of some dependencies.
RemovedAll(h, ds) ==
  LET left[i \in 0..Len(ds)] == IF i = 0 THEN h ELSE Removed(left[i - 1], ds[i].on, ds[i].pl) IN
  left[Len(ds)]

\* solver.fail for each project of marks: its queue is marked as failed.
Fail(qs, marks) ==
  [i \in DOMAIN qs |-> IF qs[i].p \in marks THEN [qs[i] EXCEPT !.failed = TRUE] ELSE qs[i]]

\* What goes to the heap for a dependency of a selection that is pushed: the
\* packages that nobody else requires, with the version the depender's lock
\* prefers.
Required(p) == UNION {deps[p][i].pl : i \in DOMAIN deps[p]}
Introduced(fromRoot, d) == IF fromRoot THEN d.pl ELSE d.pl \ Required(d.on)
Unselected(fromRoot, d) ==
  [p |-> d.on, pl |-> Introduced(fromRoot, d), fromRoot |-> fromRoot,
   prefv |-> IF fromRoot THEN None ELSE Hint(u, d.by, d.v, d.on)]

\* The dependencies of a selection, at most one on a project, are pushed.
PushDeps(sel, fromRoot, h, ds) ==
  /\ deps' = [p \in Proj |-> IF \E d \in ds : d.on = p
                              THEN Append(deps[p], Edge(CHOOSE d \in ds : d.on = p)) ELSE deps[p]]
  /\ \E order \in SetToSeqs({Unselected(fromRoot, d) : d \in {x \in ds : Introduced(fromRoot, x) # {}}}) :
       unsel' = HeapPushAll(sel, h, order)

\* selectRoot
SelectRoot ==
  /\ phase = "start"
  /\ projects' = <<[p |-> Root, v |-> None, pl |-> {}, first |-> TRUE]>>
  /\ PushDeps(projects', TRUE, unsel, DependenciesOf(Root, None, Imports(u)))
  /\ phase' = "loop"
  /\ UNCHANGED <<u, vqs, q, goal>>

\* selectAtom
SelectAtom(p, v, pl, pkgonly) ==
  /\ projects' = Append(projects, [p |-> p, v |-> v, pl |-> WithInternal(p, v, pl),
                                   first |-> ~pkgonly])
  /\ PushDeps(projects', FALSE, Removed(unsel, p, pl), DepsOf(p, v, pl))
-----------------------------------------------------------------------------
(***************************************************************************)
(* check: the ways in which an atom can be unacceptable, each with the     *)
(* projects whose queues it marks as failed; none if it is acceptable.     *)
(***************************************************************************)
Deppers(p) == {deps[p][i] : i \in DOMAIN deps[p]}

\* The first check that fails is the one that is reported.
OrElse(first, second) == IF first # {} THEN first ELSE second

CheckAtomAllowable(p, v) ==
  IF v \in Constraint(p) THEN {} ELSE {{d.by : d \in {x \in Deppers(p) : v \notin x.c}}}

CheckRequiredPackagesExist(p, v) ==
  IF \A d \in Deppers(p) : d.pl \subseteq Tree(u, p, v) THEN {} ELSE {{}}

CheckDepsConstraintsAllowable(d) ==
  IF Constraint(d.on) \cap d.c # {} THEN {}
  ELSE {{s.by : s \in {x \in Deppers(d.on) : x.c \cap d.c = {}}}}

\* Mutant: the version already selected is not compared.
CheckNothingSelected(d) == {}

CheckDepsDisallowsSelected(d) ==
  IF IsSelected(projects, d.on) /\ Selected(projects, d.on) \notin d.c THEN {{d.on}} ELSE {}

CheckPackageImportsFromDepExist(d) ==
  IF IsSelected(projects, d.on) /\ ~(d.pl \subseteq Tree(u, d.on, Selected(projects, d.on)))
    THEN {{}} ELSE {}

DepFailure(d) ==
  OrElse(CheckDepsConstraintsAllowable(d),
         OrElse(CheckDepsDisallowsSelected(d), CheckPackageImportsFromDepExist(d)))

Failures(p, v, pl, pkgonly) ==
  OrElse(IF pkgonly THEN {} ELSE CheckAtomAllowable(p, v),
    OrElse(CheckRequiredPackagesExist(p, v),
      IF Analyzable(p, v, pl) THEN UNION {DepFailure(d) : d \in DepsOf(p, v, pl)} ELSE {{}}))
-----------------------------------------------------------------------------
(***************************************************************************)
(* Version queues.                                                         *)
(***************************************************************************)

NewVersionQueue(p, lockv, prefv) ==
  LET given(v) == IF v = None THEN <<>> ELSE <<v>>
      preset == given(lockv) \o given(prefv) IN
  [p |-> p, lockv |-> lockv, prefv |-> prefv, failed |-> FALSE,
   pi |-> IF preset = <<>> THEN Versions(u, p) ELSE preset,
   allLoaded |-> preset = <<>>]

\* The versions that were not given when the queue was made.
OtherVersions(vq) == SelectSeq(Versions(u, vq.p), LAMBDA v : v \notin {vq.lockv, vq.prefv})

\* Mutant: it is not remembered that all versions have been loaded.
AdvanceReloads(vq) ==
  LET rest == Tail(vq.pi)
      loaded == IF rest = <<>> /\ ~vq.allLoaded THEN OtherVersions(vq) ELSE rest IN
  [vq EXCEPT !.pi = loaded, !.failed = @ /\ loaded = <<>>]

\* advance: when the queue runs dry all other versions are loaded, once; a
\* queue that still has a version is not failed any more.
Advance(vq) ==
  LET rest == Tail(vq.pi)
      loaded == IF rest = <<>> /\ ~vq.allLoaded THEN OtherVersions(vq) ELSE rest IN
  [vq EXCEPT !.pi = loaded,
             !.allLoaded = @ \/ rest = <<>>,
             !.failed = @ /\ loaded = <<>>]

\* getLockVersionIfValid
LockVersion(p) == IF p \in Changing(u) THEN None ELSE Lock(u, p)

\* For what the root imports, the last lock among its dependers that has it.
PreferredVersion(bmi) ==
  LET hints == SelectSeq([i \in DOMAIN deps[bmi.p] |->
                            LET d == deps[bmi.p][i] IN
                            IF d.by = Root THEN None ELSE Hint(u, d.by, d.v, bmi.p)],
                         LAMBDA v : v # None) IN
  IF ~bmi.fromRoot THEN bmi.prefv
  ELSE IF hints = <<>> THEN None ELSE Last(hints)
-----------------------------------------------------------------------------
(***************************************************************************)
(* The main loop.                                                          *)
(***************************************************************************)
Solved ==
  /\ phase = "loop" /\ unsel = <<>>
  /\ phase' = "solved"
  /\ UNCHANGED <<u, projects, deps, unsel, vqs, q, goal>>

\* A project that is not selected: make its queue and search it.
CreateVersionQueue ==
  /\ phase = "loop" /\ unsel # <<>>
  /\ LET bmi == unsel[1] IN
     /\ ~IsSelected(projects, bmi.p)
     /\ IF bmi.p \in Gone(u)
          THEN phase' = "backtrack" /\ UNCHANGED <<q, goal>>
          ELSE /\ q' = NewVersionQueue(bmi.p, LockVersion(bmi.p), PreferredVersion(bmi))
               /\ goal' = bmi.pl
               /\ phase' = "search"
  /\ UNCHANGED <<u, projects, deps, unsel, vqs>>

\* findValidVersion: the version is good, and selected.
TryGood ==
  /\ phase = "search"
  /\ Failures(q.p, Head(q.pi), goal, FALSE) = {}
  /\ SelectAtom(q.p, Head(q.pi), goal, FALSE)
  /\ vqs' = Append(vqs, q)
  /\ q' = None
  /\ phase' = "loop"
  /\ UNCHANGED <<u, goal>>

\* It is not: go on to the next one; when there is none, blame the first
\* depender and go back.
TryBad ==
  /\ phase = "search"
  /\ \E marks \in Failures(q.p, Head(q.pi), goal, FALSE) :
       LET next == Advance(q) IN
       IF next.pi # <<>>
         THEN vqs' = Fail(vqs, marks) /\ q' = next /\ UNCHANGED phase
         ELSE /\ q' = None
              /\ IF deps[q.p] = <<>>
                   THEN vqs' = Fail(vqs, marks) /\ phase' = "panic"
                   ELSE vqs' = Fail(vqs, marks \cup {deps[q.p][1].by}) /\ phase' = "backtrack"
  /\ UNCHANGED <<u, projects, deps, unsel, goal>>

\* More packages of a selected project.
AddPackages ==
  /\ phase = "loop" /\ unsel # <<>>
  /\ LET bmi == unsel[1]
         v == Selected(projects, bmi.p) IN
     /\ IsSelected(projects, bmi.p)
     /\ \/ /\ Failures(bmi.p, v, bmi.pl, TRUE) = {}
           /\ SelectAtom(bmi.p, v, bmi.pl, TRUE)
           /\ UNCHANGED <<vqs, phase>>
        \/ /\ \E marks \in Failures(bmi.p, v, bmi.pl, TRUE) : vqs' = Fail(vqs, marks)
           /\ phase' = "backtrack"
           /\ UNCHANGED <<projects, deps, unsel>>
  /\ UNCHANGED <<u, q, goal>>
-----------------------------------------------------------------------------
(***************************************************************************)
(* backtrack: drop queues until one is marked as failed, with all that was *)
(* selected since; advance that one and search it again.                   *)
(***************************************************************************)
Backtrack ==
  /\ phase = "backtrack"
  /\ IF vqs = <<>>
       THEN phase' = "unsolvable" /\ UNCHANGED <<vqs, q>>
       ELSE /\ vqs' = Front(vqs)
            /\ q' = Last(vqs)
            /\ phase' = IF Last(vqs).failed THEN "revisit" ELSE "discard"
  /\ UNCHANGED <<u, projects, deps, unsel, goal>>

\* Mutant: popDep only when nobody else depends on it.
PopDepsOfLast(ds) ==
  [p \in Proj |-> IF Len(deps[p]) = 1 /\ \E d \in ds : d.on = p THEN <<>> ELSE deps[p]]

\* popDep for each of them.
PopDeps(ds) ==
  [p \in Proj |-> IF \E d \in ds : d.on = p THEN Front(deps[p]) ELSE deps[p]]

\* unselectLast, until a project is reached.
UnselectLast ==
  /\ phase \in {"discard", "revisit"}
  /\ LET s == Last(projects)
         ds == DepsOf(s.p, s.v, s.pl)
         pushed == HeapPush(Front(projects), unsel,
                            [p |-> s.p, pl |-> s.pl, fromRoot |-> FALSE, prefv |-> None])
         unneeded == {d \in ds : Len(deps[d.on]) = 1}
         next == Advance(q) IN
     /\ projects' = Front(projects)
     /\ deps' = PopDeps(ds)
     /\ \E order \in SetToSeqs(unneeded) : unsel' = RemovedAll(pushed, order)
     /\ goal' = s.pl
     /\ IF ~s.first THEN UNCHANGED <<q, phase>>
        ELSE IF phase = "revisit" /\ s.p # q.p THEN phase' = "panic" /\ UNCHANGED q
        ELSE IF phase = "revisit" /\ next.pi # <<>> THEN phase' = "search" /\ q' = next
        ELSE phase' = "backtrack" /\ q' = None
  /\ UNCHANGED <<u, vqs>>

\* The context is cancelled: it is looked at in both loops.
Cancel ==
  /\ phase \in {"loop", "backtrack"}
  /\ phase' = "cancelled"
  /\ UNCHANGED <<u, projects, deps, unsel, vqs, q, goal>>

SolverNext ==
  \/ SelectRoot
  \/ Solved
  \/ CreateVersionQueue
  \/ TryGood
  \/ TryBad
  \/ AddPackages
  \/ Backtrack
  \/ UnselectLast
  \/ Cancel

SolverSpec == SolverInit /\ [][SolverNext]_sVars
SolverFairSpec == SolverSpec /\ WF_sVars(SolverNext)
-----------------------------------------------------------------------------
\* The projects of the solution with their versions, and their packages.
Chosen == {s.p : s \in ToSet(projects)} \ {Root}
Version(p) == Selected(projects, p)
Packages(p) == UNION {s.pl : s \in {x \in ToSet(projects) : x.p = p}}

\* What the choice of a version for some projects imports.
Needs(version, packages, p) ==
  UNION {External(u, p, version[p], k) : k \in packages[p]}

\* A solution, stated without the solver: versions and packages of some projects
\* such that all that is imported is there, exists, and satisfies every rule.
IsSolution(version, packages) ==
  LET chosen == DOMAIN version
      imports == Imports(u) \cup UNION {Needs(version, packages, p) : p \in chosen} IN
  /\ \A i \in imports : i[1] \in chosen /\ i[2] \in packages[i[1]]
  /\ \A p \in chosen :
       /\ packages[p] \subseteq Reachable(p, version[p])
       /\ \A k \in packages[p] : Internal(u, p, version[p], k) \subseteq packages[p]
       /\ (\E i \in Imports(u) : i[1] = p) => version[p] \in RootRule(u, p)
       /\ \A p2 \in chosen :
            (\E i \in Needs(version, packages, p2) : i[1] = p)
              => version[p] \in Rule(u, p2, version[p2], p)

\* Every solution Solve returns is complete and satisfies all active rules,
\* whatever was tried, selected and taken back on the way.
SolutionSound ==
  phase = "solved" => IsSolution([p \in Chosen |-> Version(p)], [p \in Chosen |-> Packages(p)])

\* Between two selections the queues are exactly those of the selected
\* projects, in the same order and at the selected versions.
Firsts == {i \in DOMAIN projects : projects[i].first /\ projects[i].p # Root}
StacksAligned ==
  phase = "loop" =>
    \E at \in [DOMAIN vqs -> Firsts] :
      /\ \A i, j \in DOMAIN vqs : i < j => at[i] < at[j]
      /\ \A k \in Firsts : \E i \in DOMAIN vqs : at[i] = k
      /\ \A i \in DOMAIN vqs : vqs[i].p = projects[at[i]].p /\ Head(vqs[i].pi) = projects[at[i]].v

\* The stacks of dependencies hold what the selected atoms import and nothing
\* else: unselecting takes back what selecting pushed, though both iterate over
\* maps.
DepsOfSelected ==
  phase \in {"loop", "backtrack"} =>
    \A p \in Proj :
      ToSet(deps[p]) =
        {Edge(d) : d \in {x \in DependenciesOf(Root, None, Imports(u))
                            \cup UNION {DepsOf(s.p, s.v, s.pl) : s \in ToSet(Tail(projects))}
                          : x.on = p}}

\* Nothing is forgotten: a package that a selected atom imports is selected, or
\* is still on the heap.
ImportsPending ==
  phase = "loop" =>
    \A p \in Proj : \A d \in Deppers(p) :
      d.pl \subseteq Packages(p) \cup UNION {b.pl : b \in {x \in ToSet(unsel) : x.p = p}}

\* The four stacks and the heap agree through every selection and backtrack.
StacksAgree == StacksAligned /\ DepsOfSelected /\ ImportsPending

\* The versions of the lock are a solution.
LockSolves ==
  \E chosen \in SUBSET {p \in Proj : Lock(u, p) # None} :
    \E packages \in [chosen -> SUBSET Pkg] :
      IsSolution([p \in chosen |-> Lock(u, p)], packages)

\* When the lock is a solution and nothing is to change, Solve returns its
\* versions: the solver never leaves the lock of its own accord.
LockKept ==
  (phase \in {"solved", "unsolvable"} /\ Changing(u) = {} /\ Gone(u) = {} /\ LockSolves) =>
    phase = "solved" /\ \A p \in Chosen : Version(p) = Lock(u, p)

\* What Solve returns is a solution, and the lock's where that is one.
SolutionRight == SolutionSound /\ LockKept

\* Solve ends.
Terminates == <>(phase \in Final)
=============================================================================
