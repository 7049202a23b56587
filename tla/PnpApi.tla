------------------------------- MODULE PnpApi ------------------------------
(* What an instance of the Plug'n'Play runtime answers: the owner of a path *)
(* and the file a request stands for, computed from the tables the install  *)
(* wrote into .pnp.js.  A path is its components and whether it was written *)
(* with a trailing slash; d is a hydrated state, see Hydrate.               *)
EXTENDS Naturals, Sequences, SequencesExt, FiniteSets

CONSTANTS
    Disk,          \* function: existing path (components) -> "file" or "dir"
    Main,          \* function: directory -> what the "main" of its package.json
                   \* names, for the directories that have one
    Link,          \* function: path of a symbolic link -> what it points to
    Extensions,    \* the sequence Module._extensions
    Native         \* function: package name -> path node_modules gives it

Path(at, dir) == [at |-> at, dir |-> dir]
File(at) == Path(at, FALSE)
Dirname(at) == IF at = << >> THEN at ELSE Front(at)

\* ppath.normalize of an absolute path.
Step(at, c) == CASE c = "."  -> at
                 [] c = ".." -> Dirname(at)
                 [] OTHER    -> Append(at, c)
Join(at, more) ==
    LET joined[n \in 0 .. Len(more)] == IF n = 0 THEN at ELSE Step(joined[n - 1], more[n])
    IN joined[Len(more)]

-----------------------------------------------------------------------------
(* Virtual folders: <base>/$$virtual/<component>/<depth>/<rest> stands for  *)
(* <rest>, depth folders above <base>.                                      *)

Virtual == "$$virtual"
IsVirtual(at) == \E i \in DOMAIN at : at[i] = Virtual
VirtualAt(at) == CHOOSE i \in DOMAIN at :
                     at[i] = Virtual /\ \A j \in 1 .. (i - 1) : at[j] # Virtual

CONSTANTS Hashes, Depths   \* components VALID_COMPONENT accepts; a depth's number

Outer(above, rest, at) ==
    CASE rest # << >> /\ rest[1] \notin Hashes -> at
      [] Len(rest) < 2 /\ (rest # << >> => rest[1] \in Hashes) -> above
      [] Len(rest) >= 2 /\ rest[1] \in Hashes /\ rest[2] \notin DOMAIN Depths -> at
      [] OTHER -> Join(Join(above, [i \in 1 .. Depths[rest[2]] |-> ".."]),
                       SubSeq(rest, 3, Len(rest)))
SplitAt(at, v) == Outer(SubSeq(at, 1, v - 1), SubSeq(at, v + 1, Len(at)), at)
\* resolveVirtual: each turn takes a folder away, or nothing more is found.
Peel(at) == IF IsVirtual(at) THEN SplitAt(at, VirtualAt(at)) ELSE at
ResolveVirtual(at) ==
    LET peeled[n \in 0 .. Len(at)] == IF n = 0 THEN at ELSE Peel(peeled[n - 1])
    IN IF IsVirtual(at) THEN peeled[Len(at)] ELSE at

Common(s, t) == LongestCommonPrefix({s, t})
Beyond(s, t) == SubSeq(t, Len(Common(s, t)) + 1, Len(t))
MakeVirtualPath(above, hash, to) ==
    above \o <<Virtual, hash,
               CHOOSE k \in DOMAIN Depths : Depths[k] = Len(Beyond(to, above))>>
          \o Beyond(above, to)

-----------------------------------------------------------------------------
(* The file system below: everything inside a virtual folder is looked up   *)
(* where the folder really stands.                                          *)

Linked(at) == IF at \in DOMAIN Link THEN Link[at] ELSE at
On(at) == Linked(ResolveVirtual(at))
Listing(at) == IF at \in DOMAIN Disk THEN Disk[at] ELSE "none"
Kind(at) == Listing(On(at))
Exists(at) == On(at) \in DOMAIN Disk
Realpath(at) ==
    IF ~IsVirtual(at) \/ ResolveVirtual(at) = at THEN On(at)
    ELSE LET v == VirtualAt(at)
         IN IF Len(at) < v + 3 THEN at
            ELSE MakeVirtualPath(SubSeq(at, 1, v - 1), at[v + 1], On(at))

-----------------------------------------------------------------------------
(* hydrateRuntimeState.  raw.packages is the registry in its order; of two  *)
(* packages at one location the later one owns it.  A path is looked up at  *)
(* the lengths of the packages' locations, not at those of the blacklist: a *)
(* blacklisted location of another length is never met.                     *)

None == << >>                   \* null
Undefined == <<"undefined">>
Forbidden == <<"blacklisted">>
TopLevel == <<"", "">>          \* the locator of the project itself

\* The text of a location relative to the base: "./a/b/" or "../b/".
Size(base, at) ==
    LET ups == Len(Beyond(at, base))
    IN FoldLeft(LAMBDA n, c : n + Len(c) + 1,
                IF ups = 0 THEN 2 ELSE 3 * ups, Beyond(base, at))

Listed(raw) == {i \in DOMAIN raw.packages : ~raw.packages[i].discard}
Spots(raw) == {raw.packages[i].at : i \in Listed(raw)}
Owners(raw, at) == {i \in Listed(raw) : raw.packages[i].at = at}
Locators(raw) == {raw.packages[i].locator : i \in DOMAIN raw.packages}
Hydrate(raw) ==
    LET lengths == {Size(raw.base, at) : at \in Spots(raw)}
        tried == {at \in Spots(raw) \cup raw.blacklist : Size(raw.base, at) \in lengths}
    IN [base |-> raw.base, ignored |-> raw.ignored, roots |-> raw.roots,
        fallback |-> raw.fallback, pool |-> raw.pool, excluded |-> raw.excluded,
        store |-> [l \in Locators(raw) |-> CHOOSE p \in Range(raw.packages) : p.locator = l],
        owner |-> [at \in tried |->
                      IF at \in raw.blacklist THEN 0
                      ELSE CHOOSE i \in Owners(raw, at) : \A j \in Owners(raw, at) : j <= i],
        order |-> [i \in DOMAIN raw.packages |-> raw.packages[i].locator]]

\* ignorePattern, tested on the path below the base.
IsPathIgnored(d, p) == \E at \in d.ignored : IsPrefix(at, p.at) /\ IsPrefix(d.base, p.at)

\* Mutant: the lengths are tried from the shortest.
FindShortestLocator(d, p) ==
    LET hits == {at \in DOMAIN d.owner : IsPrefix(at, p.at) /\ (p.at = at => p.dir)}
        best == CHOOSE at \in hits : \A b \in hits : Len(at) <= Len(b)
    IN CASE IsPathIgnored(d, p) \/ hits = {} -> None
         [] d.owner[best] = 0 -> Forbidden
         [] OTHER -> d.order[d.owner[best]]

\* findPackageLocator: the longest location the path's text begins with.
Holds(at, p) == IsPrefix(at, p.at) /\ (p.at = at => p.dir)
FindPackageLocator(d, p) ==
    LET hits == {at \in DOMAIN d.owner : Holds(at, p)}
        best == CHOOSE at \in hits : \A b \in hits : Len(b) <= Len(at)
    IN CASE IsPathIgnored(d, p) \/ hits = {} -> None
         [] d.owner[best] = 0 -> Forbidden
         [] OTHER -> d.order[d.owner[best]]

-----------------------------------------------------------------------------
(* resolveToUnqualified.  A dependency is a locator, None for a missing     *)
(* peer, and absent when it is not declared.                                *)

Found(p) == [path |-> p, error |-> "", blame |-> {}]
Failed(code) == [path |-> Path(<< >>, TRUE), error |-> code, blame |-> {}]

Dependency(d, locator, name) ==
    LET deps == d.store[locator].deps IN IF name \in DOMAIN deps THEN deps[name] ELSE Undefined
Given(ref) == ref \notin {None, Undefined}

\* The packages others may fall back to, in turn: the top level, then those
\* of the compatibility list in the registry's order, then the pool.
Lenders(d) == {l \in DOMAIN d.store : (l = TopLevel /\ d.fallback) \/ l[1] \in {"react-scripts", "gatsby"}}
Place(d, l) == CHOOSE i \in DOMAIN d.order : d.order[i] = l
Turn(d, l) == CASE l = TopLevel -> 0
                [] l # TopLevel /\ l[1] = "react-scripts" -> Place(d, l)
                [] OTHER -> Len(d.order) + Place(d, l)
CanUseFallbacks(d, issuer) == issuer # TopLevel /\ issuer \notin d.excluded
Fallback(d, name) ==
    LET giving == {l \in Lenders(d) : Given(Dependency(d, l, name))}
        first == CHOOSE l \in giving : \A m \in giving : Turn(d, l) <= Turn(d, m)
    IN CASE giving # {} -> Dependency(d, first, name)
         [] giving = {} /\ d.fallback /\ name \in DOMAIN d.pool -> d.pool[name]
         [] OTHER -> Undefined

Reference(d, issuer, name) ==
    LET own == Dependency(d, issuer, name)
        lent == IF CanUseFallbacks(d, issuer) THEN Fallback(d, name) ELSE Undefined
    IN IF Given(own) \/ ~Given(lent) THEN own ELSE lent

CallNativeResolution(req) ==
    IF req.name \in DOMAIN Native THEN Found(File(Native[req.name]))
    ELSE Failed("BUILTIN_NODE_RESOLUTION_FAILED")

\* A project's own package: the application, when it comes to blame.
IsDependencyTreeRoot(d, l) == l[1] = "" \/ l \in d.roots

\* findPackageDependents: who depends on l, in the registry's order.
Dependents(d, l) ==
    SelectSeq(d.order, LAMBDA m : m # TopLevel /\ m # l /\ Dependency(d, m, l[1]) = l)

\* findBrokenPeerDependencies: up from a package that lacks a peer, through
\* those that pass the peer on, to those that do not.  A package is visited
\* once by its name, whatever the reference.
Visits(d) == [seen : SUBSET {l[1] : l \in DOMAIN d.store}, broken : SUBSET DOMAIN d.store]
BrokenPeers(d, peer, from) ==
    LET traverse[w \in Visits(d), l \in DOMAIN d.store] ==
            IF l[1] \in w.seen THEN w
            ELSE FoldLeft(LAMBDA v, m : IF peer \in d.store[m].peers THEN traverse[v, m]
                                        ELSE [v EXCEPT !.broken = @ \cup {m}],
                          [w EXCEPT !.seen = @ \cup {l[1]}], Dependents(d, l))
    IN traverse[[seen |-> {}, broken |-> {}], from].broken

\* Whom the error names: the application, the package, or its ancestors.
Blame(d, issuer, name, ref) ==
    CASE IsDependencyTreeRoot(d, issuer) -> {TopLevel}
      [] ref = Undefined /\ ~IsDependencyTreeRoot(d, issuer) -> {issuer}
      [] OTHER -> BrokenPeers(d, name, issuer)
Refused(d, issuer, name, ref) ==
    [Failed(IF ref = None THEN "MISSING_PEER_DEPENDENCY" ELSE "UNDECLARED_DEPENDENCY")
        EXCEPT !.blame = Blame(d, issuer, name, ref)]

\* The location joined with the rest of the request, which keeps its slash.
Located(d, ref, sub) ==
    IF ref \notin DOMAIN d.store THEN Failed("INTERNAL")
    ELSE Found(Path(Join(d.store[ref].at, sub), sub = << >>))

OfPackage(d, req, issuer) ==
    LET from == FindPackageLocator(d, issuer)
        ref == Reference(d, from, req.name)
    IN CASE from = Forbidden -> Failed("BLACKLISTED")
         [] from = None -> CallNativeResolution(req)
         [] from \notin {None, Forbidden} /\ Given(ref) -> Located(d, ref, req.sub)
         [] OTHER -> Refused(d, from, req.name, ref)

\* A relative request starts from the issuer's directory.
Absolute(req, issuer) ==
    IF req.abs THEN req.to
    ELSE Join(IF issuer.dir THEN issuer.at ELSE Dirname(issuer.at), req.to)

OfPath(d, req, issuer) ==
    LET p == Path(Absolute(req, issuer), FALSE)
    IN IF FindPackageLocator(d, p) = Forbidden THEN Failed("BLACKLISTED") ELSE Found(p)

ResolveToUnqualified(d, req, issuer) ==
    CASE /\ IsPathIgnored(d, issuer)
         /\ ~(req.kind = "path" /\ req.abs /\ FindPackageLocator(d, File(req.to)) # None) ->
             IF req.kind = "path" THEN Found(File(Absolute(req, issuer)))
                                  ELSE CallNativeResolution(req)
      [] req.kind = "path" -> OfPath(d, req, issuer)
      [] OTHER -> OfPackage(d, req, issuer)

-----------------------------------------------------------------------------
(* resolveUnqualified: the file itself (its real path), the main of its     *)
(* package.json, an extension, an index.                                    *)

WithExtension(at, e) == Append(Dirname(at), Last(at) \o e)
There(candidates) == {i \in DOMAIN candidates : Exists(candidates[i])}
Earliest(candidates, there) ==
    IF there = {} THEN << >> ELSE candidates[CHOOSE i \in there : \A j \in there : i <= j]
FirstOf(candidates) == Earliest(candidates, There(candidates))
Entry(at) ==
    IF Kind(at) = "dir" /\ ResolveVirtual(at) \in DOMAIN Main
    THEN Join(at, Main[ResolveVirtual(at)]) ELSE at
Suffixed(at) == FirstOf([i \in DOMAIN Extensions |-> WithExtension(at, Extensions[i])])
Index(at) == FirstOf([i \in DOMAIN Extensions |-> Append(at, "index" \o Extensions[i])])
OrBeside(main, at, suffixed) ==
    CASE main # << >> -> main
      [] main = << >> /\ suffixed # << >> -> suffixed
      [] main = << >> /\ suffixed = << >> /\ Kind(at) = "dir" -> Index(at)
      [] OTHER -> << >>

Extended(from) ==
    LET extended[at \in Seq(STRING), seen \in SUBSET Seq(STRING)] ==
            CASE at \in seen -> <<"overflow">>
              [] at \notin seen /\ Kind(at) = "file" -> Realpath(at)
              [] OTHER -> OrBeside(IF Entry(at) = at THEN << >> ELSE extended[Entry(at), seen \cup {at}],
                                   at, Suffixed(at))
    IN extended[from, {}]

ResolveUnqualified(p) ==
    LET at == Extended(p.at)
    IN CASE at = << >> -> Failed("QUALIFIED_PATH_RESOLUTION_FAILED")
         [] at = <<"overflow">> -> Failed("RangeError")
         [] OTHER -> Found(File(at))

\* The native answer is already a file: it passes through unchanged.
ResolveRequest(d, req, issuer) ==
    LET r == ResolveToUnqualified(d, req, issuer)
    IN IF r.error # "" THEN r ELSE ResolveUnqualified(r.path)

=============================================================================
