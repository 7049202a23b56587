----------------------------- MODULE PoetryGraph ----------------------------
(* snyk-poetry-lockfile-parser: the dependency graph of a project, built    *)
(* from the names in its manifest and the packages in its lock file by a    *)
(* walk that goes depth first and adds every package once.                  *)
EXTENDS Naturals, FiniteSets, Sequences, SequencesExt

CONSTANTS
    Spellings,      \* how a name may be written; two may be one package
    Canonical,      \* case folded, _ and - alike: the same for the same package
    Ignored,        \* IGNORED_DEPENDENCIES
    MaxPkgs,        \* bounds: packages of the lock file, names in a section
    MaxNamed,       \* of the manifest, dependencies of a package
    MaxDeps

VARIABLES
    manifest,       \* dependencies and dev-dependencies of pyproject.toml
    dev,            \* includeDevDependencies
    lockFile,       \* the packages of poetry.lock, in order
    stack,          \* the calls under way: names still to add, and their parent
    nodes,          \* the graph: nodes by the name in the lock file, edges
    edges,
    missing         \* names without an entry in the lock file

pgVars == <<manifest, dev, lockFile, stack, nodes, edges, missing>>

ASSUME CanonicalAssumption == Canonical \in [Spellings -> Spellings]

\* The root node has an id of its own in the graph.
Root == "the project"
ASSUME RootAssumption == Root \notin Spellings

-----------------------------------------------------------------------------
\* manifest-parser: what the manifest names, without the interpreter
getDependencyNamesFrom(m, withDev) ==
    (m.dependencies \cup IF withDev = "yes" THEN m.dev ELSE {}) \ {"python"}

\* the first package of the lock file that is spelled alike
SameName(name, pkg) == Canonical[pkg.name] = Canonical[name]
pkgLockInfoFor(name, pkgs) ==
    LET at == {i \in DOMAIN pkgs : SameName(name, pkgs[i])}
    IN {pkgs[i] : i \in {k \in at : \A l \in at : k <= l}}

AtMost(n, names) == {d \in SUBSET names : Cardinality(d) <= n}
PgInit ==
    /\ manifest \in [dependencies : AtMost(MaxNamed, Spellings \cup {"python"}), dev : AtMost(MaxNamed, Spellings)]
    /\ dev \in {"yes", "no"}
    /\ \E names \in {s \in SeqOf(Spellings, MaxPkgs) : IsInjective(s)} :
         \E deps \in [DOMAIN names -> AtMost(MaxDeps, Spellings)] :
           lockFile = [i \in DOMAIN names |-> [name |-> names[i], dependencies |-> deps[i]]]
    /\ stack = <<[names |-> getDependencyNamesFrom(manifest, dev), parent |-> Root]>>
    /\ nodes = {} /\ edges = {} /\ missing = {}

-----------------------------------------------------------------------------
(* addDependenciesForPkg for the next name of the call on top.              *)

Call == Head(stack)
Rest(name) == <<[Call EXCEPT !.names = @ \ {name}]>> \o Tail(stack)

Ignore(name) == name \in Ignored /\ stack' = Rest(name) /\ UNCHANGED <<nodes, edges, missing>>

NotLocked(name) ==
    /\ name \notin Ignored /\ pkgLockInfoFor(name, lockFile) = {}
    /\ missing' = missing \cup {name} /\ stack' = Rest(name) /\ UNCHANGED <<nodes, edges>>

\* Mutant: a package that is there gets no edge.
SkipKnown(name, pkg) == stack' = Rest(name) /\ UNCHANGED <<nodes, edges>>

\* A package that is in the graph gets the edge and nothing else.
ConnectKnown(name, pkg) ==
    edges' = edges \cup {<<Call.parent, pkg.name>>} /\ stack' = Rest(name) /\ UNCHANGED nodes
Known(name) ==
    /\ name \notin Ignored /\ UNCHANGED missing
    /\ \E pkg \in pkgLockInfoFor(name, lockFile) : pkg.name \in nodes /\ ConnectKnown(name, pkg)

\* A new one is added and its own dependencies are next.
AddPkg(name) ==
    /\ name \notin Ignored /\ UNCHANGED missing
    /\ \E pkg \in pkgLockInfoFor(name, lockFile) :
          /\ pkg.name \notin nodes /\ nodes' = nodes \cup {pkg.name}
          /\ edges' = edges \cup {<<Call.parent, pkg.name>>}
          /\ stack' = <<[names |-> pkg.dependencies, parent |-> pkg.name]>> \o Rest(name)

Return == Call.names = {} /\ stack' = Tail(stack) /\ UNCHANGED <<nodes, edges, missing>>

PgNext ==
    /\ stack # << >> /\ UNCHANGED <<manifest, dev, lockFile>>
    /\ \/ Return
       \/ \E name \in Call.names : Ignore(name) \/ NotLocked(name) \/ Known(name) \/ AddPkg(name)
PgSpec == PgInit /\ [][PgNext]_pgVars

-----------------------------------------------------------------------------
\* The finished graph has an edge for every dependency that can be reached
\* and is locked, and no other: cycles, packages with several dependers and
\* names spelled in two ways included.
GraphComplete ==
    LET Locked(names) == UNION {{p.name : p \in pkgLockInfoFor(n, lockFile)} : n \in names \ Ignored}
        Deps(n) == IF n = Root THEN Locked(getDependencyNamesFrom(manifest, dev))
                   ELSE Locked(UNION {p.dependencies : p \in {q \in ToSet(lockFile) : q.name = n}})
        Reached == {Root} \cup nodes
    IN stack = << >> => edges = UNION {{n} \X Deps(n) : n \in Reached}
                        /\ \A n \in nodes : \E e \in edges : e[2] = n /\ e[1] # n
=============================================================================
