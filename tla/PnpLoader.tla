----------------------------- MODULE PnpLoader -----------------------------
(* require() under Plug'n'Play: the patched Module._load, the manager that  *)
(* keeps one API instance (and one module cache) per .pnp.js, and an        *)
(* install that rewrites a .pnp.js while the program runs.  The program is  *)
(* single threaded: a require is one step up to the point where the new     *)
(* module's code starts to run; that code then requires more.               *)
EXTENDS PnpApi

CONSTANTS
    Apis,          \* the .pnp.js files
    Initial,       \* the one the program was started with
    Raw,           \* [Apis -> sequence]: the tables of each version of the file
    Requests,      \* what programs require
    Places,        \* the directories modules are loaded from
    Asks,          \* bound: the paths programs call findPnpApi with
    MaxLoads,      \* bound: module.load calls
    MaxDepth,      \* bound: modules being loaded at once
    MaxWrites      \* bound: writes of a .pnp.js

ASSUME InitialIsAnApi == Initial \in Apis

\* Every file has a first version, and stands in a directory.
ASSUME RawAssumption ==
    \A a \in Apis : 1 \in DOMAIN Raw[a] /\ Raw[a][1].base \in Seq(STRING)

\* What an install writes: only the project itself shares its location with a
\* package after it; a location that is looked up is neither forbidden nor
\* ignored; and what packages depend on is in the registry.
WellMade(raw) ==
    /\ raw.packages \in Seq(Range(raw.packages)) /\ Spots(raw) \cup raw.blacklist \subseteq Seq(STRING)
    /\ \A i, j \in Listed(raw) :
          i < j /\ raw.packages[i].at = raw.packages[j].at => raw.packages[i].locator = TopLevel
    /\ Spots(raw) \cap raw.blacklist = {}
    /\ \A at \in Spots(raw), under \in raw.ignored : ~IsPrefix(under, at)
    /\ \A i \in DOMAIN raw.packages : \A name \in DOMAIN raw.packages[i].deps :
          Given(raw.packages[i].deps[name]) => raw.packages[i].deps[name] \in Locators(raw)
    /\ \A name \in DOMAIN raw.pool : Given(raw.pool[name]) => raw.pool[name] \in Locators(raw)
ASSUME TablesAssumption == \A a \in Apis : \A v \in DOMAIN Raw[a] : WellMade(Raw[a][v])

VARIABLES
    pnp,           \* the .pnp.js files on disk
    meta,          \* apiMetadata
    near,          \* findApiPathCache
    cache,         \* the module caches, as a set of modules
    stack,         \* the modules whose code is running, outermost first
    loads,         \* counter of module.load calls
    slipped,       \* history: instances created while their file was replaced
    failed         \* history: loads that threw and are still in a cache

pnpVars == <<pnp, meta, near, cache, stack, loads, slipped, failed>>

Null == "null"       \* no API: outside every Plug'n'Play project
Unset == "undefined" \* pnpApiPath not computed yet
Default == "default" \* defaultCache
ASSUME NoMarkIsAnApi == Apis \cap {Null, Unset, Default} = {}

Hydrated == [a \in Apis |-> [v \in DOMAIN Raw[a] |-> Hydrate(Raw[a][v])]]
Data(m, a) == Hydrated[a][m[a].version]
Answers == [a \in Apis |-> [v \in DOMAIN Raw[a] |-> [req \in Requests |-> [at \in Places |->
               ResolveRequest(Hydrated[a][v], req, Path(at, TRUE))]]]]

\* What the native loader makes of a request.
Natively(req, issuer) ==
    IF req.kind = "path" THEN ResolveUnqualified(File(Absolute(req, issuer)))
    ELSE CallNativeResolution(req)

\* Places has the project's directory and every directory a request made in
\* one of its directories leads to.
IsPlaced(answer) == answer.path.at \in Seq(STRING) /\ Dirname(answer.path.at) \in Places
ASSUME PlacesAssumption ==
    /\ << >> \in Places /\ Asks \cup Places \subseteq Seq(STRING)
    /\ \A req \in Requests, at \in Places :
          /\ req.kind = "path" => Absolute(req, Path(at, TRUE)) \in Seq(STRING)
          /\ IsPlaced(Natively(req, Path(at, TRUE)))
          /\ \A a \in Apis : \A v \in DOMAIN Raw[a] : IsPlaced(Answers[a][v][req][at])

\* Module._cache is the initial API's cache: native loads share it.
CacheOf(a) == IF a = Null THEN Default ELSE a
Module(where, at, api) == [cache |-> where, at |-> at, api |-> api]
NoParent == Module(Null, << >>, Initial)

PnpInit ==
    /\ pnp = [a \in Apis |-> [version |-> 1, mtime |-> 1, state |-> "good"]]
    /\ meta = [a \in {Initial} |-> [version |-> 1, mtime |-> 1, recent |-> TRUE]]
    /\ near = << >> /\ cache = {} /\ stack = << >> /\ loads = 0
    /\ slipped = {} /\ failed = {}

\* Every write of a .pnp.js makes its mtime larger by one.
Writes == MapThenSumSet(LAMBDA a : pnp[a].mtime - 1, Apis)

-----------------------------------------------------------------------------
(* A require passes a world from call to call: the manager's maps, and the  *)
(* error that ends it.                                                      *)

World == [meta |-> meta, near |-> near, slipped |-> slipped,
          val |-> Null, file |-> << >>, error |-> ""]
Throw(w, e) == [w EXCEPT !.error = e]
Ok(w) == w.error = ""

\* Mutant: the new stats are kept, the instance is not loaded again.
RefreshStatsOnly(w, a) ==
    IF w.meta[a].recent \/ pnp[a].mtime <= w.meta[a].mtime THEN w
    ELSE [w EXCEPT !.meta[a].recent = TRUE, !.meta[a].mtime = pnp[a].mtime]

\* refreshApiEntry: at most twice a second, and the new stats are kept even
\* when the file cannot be loaded.
RefreshApiEntry(w, a) ==
    LET seen == [w EXCEPT !.meta[a].recent = TRUE]
        noted == [seen EXCEPT !.meta[a].mtime = pnp[a].mtime]
    IN CASE w.meta[a].recent -> w
         [] ~w.meta[a].recent /\ pnp[a].state = "gone" -> Throw(seen, "ENOENT")
         [] ~w.meta[a].recent /\ pnp[a].state # "gone" /\ pnp[a].mtime <= w.meta[a].mtime -> seen
         [] ~w.meta[a].recent /\ pnp[a].state = "bad" /\ pnp[a].mtime > w.meta[a].mtime ->
                Throw(noted, "SyntaxError")
         [] OTHER -> [noted EXCEPT !.meta[a].version = pnp[a].version]

\* Map.set for every key of entries.
Put(entries, map) ==
    [k \in DOMAIN entries \cup DOMAIN map |-> IF k \in DOMAIN entries THEN entries[k] ELSE map[k]]

\* getApiEntry.  A new entry loads the file first and takes its stats after:
\* slip says that an install replaced the file in between.
GetApiEntry(w, a, refresh, slip) ==
    CASE ~Ok(w) \/ a = Null -> w
      [] Ok(w) /\ a \in DOMAIN w.meta -> IF refresh THEN RefreshApiEntry(w, a) ELSE w
      [] Ok(w) /\ a \in Apis \ DOMAIN w.meta /\ pnp[a].state # "good" -> Throw(w, "SyntaxError")
      [] OTHER ->
           [w EXCEPT !.meta = Put([b \in {a} |->
                                      [version |-> pnp[a].version, recent |-> TRUE,
                                       mtime |-> pnp[a].mtime + (IF slip THEN 1 ELSE 0)]], @),
                     !.slipped = IF slip THEN @ \cup {a} ELSE @]

\* findApiPathFor: an instance that owns the path, else the nearest .pnp.js
\* above it, remembered for every directory on the way.
Controlling(w, at) == {a \in DOMAIN w.meta : FindPackageLocator(Data(w.meta, a), File(at)) # None}
Base(a) == Raw[a][1].base
Up(at, n) == SubSeq(at, 1, n)
Answer(w, at) ==
    IF at \in DOMAIN w.near THEN {w.near[at]}
    ELSE {a \in Apis : Base(a) = at /\ pnp[a].state # "gone"}
Answered(w, at) == {n \in 0 .. Len(at) : Answer(w, Up(at, n)) # {}}

\* The directory the search stops at: the nearest with an answer, or the root.
StopAt(answered) ==
    IF answered = {} THEN 0 ELSE CHOOSE n \in answered : \A m \in answered : m <= n
Nearest(w, at, stop) ==
    LET found == Answer(w, Up(at, stop))
    IN IF found = {} THEN Null ELSE CHOOSE a \in found : TRUE
Remembered(w, at, stop, target) ==
    [w EXCEPT !.val = target,
              !.near = Put([n \in {Up(at, k) : k \in stop .. Len(at)} |-> target], @)]
NearestApi(w, at, stop) == Remembered(w, at, stop, Nearest(w, at, stop))

ControlledBy(w, at, by) ==
    CASE \E a \in by : FindPackageLocator(Data(w.meta, a), File(at)) = Forbidden ->
             Throw(w, "BLACKLISTED")
      [] by = {} -> NearestApi(w, at, StopAt(Answered(w, at)))
      [] Cardinality(by) > 1 /\ \A a \in by : FindPackageLocator(Data(w.meta, a), File(at)) # Forbidden ->
             Throw(w, "SEVERAL_INSTANCES")
      [] OTHER -> [w EXCEPT !.val = CHOOSE a \in by : TRUE]
FindApiPathFor(w, at) == IF Ok(w) THEN ControlledBy(w, at, Controlling(w, at)) ELSE w

-----------------------------------------------------------------------------
(* Module._resolveFilename and Module._load.                                *)

\* The API a parent belongs to; a module the native loader made has none yet.
ApiPathFromParent(w, parent) ==
    IF parent.api = Unset THEN FindApiPathFor(w, parent.at) ELSE [w EXCEPT !.val = parent.api]

\* One issuer spec: the instance's answer, or the native loader's.
Ask(w, a, issuer, req) ==
    IF a = Null THEN Natively(req, issuer) ELSE Answers[a][w.meta[a].version][req][issuer.at]
Heard(w, answer) ==
    [w EXCEPT !.file = answer.path.at,
              !.val = IF answer.error = "" THEN "found" ELSE "next"]
AskOpened(w, a, issuer, req) == IF Ok(w) THEN Heard(w, Ask(w, a, issuer, req)) ELSE w
Try(w, a, parent, req, slip) ==
    AskOpened(GetApiEntry(w, a, TRUE, slip), a, Path(Dirname(parent.at), TRUE), req)

\* A path is tried with the API of its target first, then with the parent's.
\* Loading an API may fail; that error is not one the next spec gets to mend.
TargetApi(w, parent, req, to) ==
    CASE req.kind # "path" -> [w EXCEPT !.val = Null]
      [] /\ req.kind = "path" /\ Dirname(to) = Dirname(parent.at)
         /\ parent # NoParent /\ parent.api \notin {Null, Unset} -> [w EXCEPT !.val = parent.api]
      [] OTHER -> FindApiPathFor(w, to)
TryTarget(w, parent, req, slip) ==
    IF ~Ok(w) \/ w.val = Null THEN [w EXCEPT !.val = "next"] ELSE Try(w, w.val, parent, req, slip)
TryParent(w, a, parent, req, slip) ==
    IF ~Ok(w) \/ w.val = "found" THEN w ELSE Try(w, a, parent, req, slip)
OrNotFound(w) == IF Ok(w) /\ w.val # "found" THEN Throw(w, "MODULE_NOT_FOUND") ELSE w

ResolveFilename(w, a, parent, req, slip) ==
    OrNotFound(TryParent(TryTarget(TargetApi(w, parent, req, Absolute(req, File(parent.at))),
                                   parent, req, slip),
                         a, parent, req, slip))

\* The API whose cache the file belongs to: the parent's if it owns the file,
\* else the one found from the file's directory.
KeptBy(w, a, owner) ==
    CASE owner = Forbidden -> Throw(w, "BLACKLISTED")
      [] owner = None -> FindApiPathFor(w, Dirname(w.file))
      [] OTHER -> [w EXCEPT !.val = a]
OwnerOf(w, a) ==
    IF Ok(w) THEN KeptBy(w, a, FindPackageLocator(Data(w.meta, a), File(w.file))) ELSE w

\* The module a require stands for.  A parent outside Plug'n'Play loads
\* natively: into Module._cache, with no API of its own.
Wanted(w, a) == IF a = Null THEN Module(Initial, w.file, Unset)
                ELSE Module(CacheOf(w.val), w.file, w.val)
Runs(m) == \E i \in DOMAIN stack : stack[i].cache = m.cache /\ stack[i].at = m.at

Cached(m) == \E c \in cache : c.cache = m.cache /\ c.at = m.at

Named(m, parent, api) ==
    IF m.cache = parent.cache /\ m.at = parent.at THEN [m EXCEPT !.api = api] ELSE m

Parents == IF stack # << >> THEN {Last(stack)} ELSE cache \cup {NoParent}

Resolved(w, a, parent, req, slip) ==
    IF Ok(w) THEN ResolveFilename(w, a, parent, req, slip) ELSE w
OwnerOpened(w, a, slip) == IF a = Null THEN w ELSE GetApiEntry(w, w.val, FALSE, slip)
LoadedBy(w, a, parent, req, slip) ==
    OwnerOpened(IF a = Null THEN Resolved(w, a, parent, req, slip)
                ELSE OwnerOf(Resolved(w, a, parent, req, slip), a), a, slip)
Outcome(w, a, parent) == [world |-> w, wanted |-> Wanted(w, a), parent |-> parent]
LoadingOf(named, a, parent, req, slip) ==
    Outcome(LoadedBy(GetApiEntry(named, a, TRUE, slip), a, parent, req, slip), a,
            IF Ok(named) THEN Named(parent, parent, a) ELSE parent)
LoadingNamed(named, parent, req, slip) == LoadingOf(named, named.val, parent, req, slip)
Loading(parent, req, slip) ==
    LoadingNamed(ApiPathFromParent(World, parent), parent, req, slip)

Replaced(file) ==
    [version |-> file.version + 1, mtime |-> file.mtime + 1, state |-> file.state]

Require(parent, req, slip) == \E load \in {Loading(parent, req, slip)} :
    LET wanted == load.wanted
        runs == Ok(load.world) /\ ~Cached(wanted)
        stack2 == IF stack = << >> THEN stack ELSE Append(Front(stack), load.parent)
    IN /\ meta' = load.world.meta /\ near' = load.world.near /\ slipped' = load.world.slipped
       /\ slip <=> slipped' # slipped
       /\ pnp' = [f \in Apis |-> IF f \in slipped' \ slipped THEN Replaced(pnp[f]) ELSE pnp[f]]
       /\ \A f \in Apis : pnp'[f].version \in DOMAIN Raw[f]
       /\ slip => Writes < MaxWrites
       /\ runs => loads < MaxLoads /\ Len(stack) < MaxDepth
       /\ loads' = loads + (IF runs THEN 1 ELSE 0)
       /\ cache' = {Named(m, parent, load.parent.api) : m \in cache} \cup
                   (IF runs THEN {wanted} ELSE {})
       /\ stack' = IF runs THEN Append(stack2, wanted) ELSE stack2
       /\ failed' = IF runs THEN failed \ {[cache |-> wanted.cache, at |-> wanted.at]} ELSE failed

\* One path of Module._findPath: the API of the path is asked, or the native
\* loader; an error only means that the next path is tried.
Asked(at) == LET w == FindApiPathFor(World, at) IN GetApiEntry(w, w.val, TRUE, FALSE)

\* The program calls findPnpApi.
FindPnpApi(at) == \E w \in {Asked(at)} :
    /\ meta' = w.meta /\ near' = w.near
    /\ UNCHANGED <<pnp, cache, stack, loads, slipped, failed>>

-----------------------------------------------------------------------------
(* The running module returns or throws; a throw reaches the requirer, whose *)
(* own code catches it or throws in turn.                                    *)

Return == /\ stack # << >> /\ stack' = Front(stack)
          /\ UNCHANGED <<pnp, meta, near, cache, loads, slipped, failed>>

\* delete Module._cache[modulePath], whichever cache the module went into.
Uncached(at) == {m \in cache : ~(m.cache = Initial /\ m.at = at)}
Fail ==
    /\ stack # << >> /\ stack' = Front(stack)
    /\ cache' = Uncached(Last(stack).at)
    /\ failed' = failed \cup {[cache |-> Last(stack).cache, at |-> Last(stack).at]}
    /\ UNCHANGED <<pnp, meta, near, loads, slipped>>

\* The program runs delete require.cache[file].
Delete(m) ==
    /\ m.cache = Initial /\ cache' = Uncached(m.at)
    /\ UNCHANGED <<pnp, meta, near, stack, loads, slipped, failed>>

\* Half a second passes.
Tick == /\ \E a \in DOMAIN meta : meta[a].recent
        /\ meta' = [a \in DOMAIN meta |-> [meta[a] EXCEPT !.recent = FALSE]]
        /\ UNCHANGED <<pnp, near, cache, stack, loads, slipped, failed>>

\* An install: it writes the file in pieces, so a reader may find it broken,
\* and a change of linker removes it.
Install(a, state) ==
    /\ Writes < MaxWrites
    /\ pnp' = [pnp EXCEPT ![a] = [version |-> IF state = "good" THEN @.version + 1 ELSE @.version,
                                  mtime |-> @.mtime + 1, state |-> state]]
    /\ pnp'[a].version \in DOMAIN Raw[a]
    /\ UNCHANGED <<meta, near, cache, stack, loads, slipped, failed>>

PnpNext ==
    \/ \E parent \in Parents, req \in Requests, slip \in {FALSE, DOMAIN meta # Apis} :
          Require(parent, req, slip)
    \/ Return \/ Fail \/ Tick
    \/ \E at \in Asks : FindPnpApi(at)
    \/ \E m \in cache : Delete(m)
    \/ \E a \in Apis, state \in {"good", "bad", "gone"} : Install(a, state)

PnpSpec == PnpInit /\ [][PnpNext]_pnpVars

-----------------------------------------------------------------------------
(* Properties.                                                              *)

\* An instance whose stats are those of its file was made from that file: a
\* reload (refreshApiEntry) can be missed only when the file was replaced
\* between the load and the stat of getApiEntry.
InstanceMatchesStats ==
    \A a \in DOMAIN meta :
        pnp[a].state = "good" /\ meta[a].mtime = pnp[a].mtime /\ a \notin slipped =>
            meta[a].version = pnp[a].version

\* The comment on the load: "remove it from the cache if it fails".
FailedIsForgotten ==
    \A f \in failed : ~\E m \in cache : m.cache = f.cache /\ m.at = f.at /\ ~Runs(m)

\* A dependency's file belongs to the dependency: what an instance answers
\* for a package is owned, in the same tables, by the package it stands for.
DependencyOwned ==
    \A a \in DOMAIN meta :
        LET d == Data(meta, a)
        IN \A l \in DOMAIN d.store : \A name \in DOMAIN d.store[l].deps :
              LET ref == Reference(d, l, name)
                  own == FindPackageLocator(d, Path(d.store[ref].at, TRUE))
              IN Given(ref) /\ ~d.store[ref].discard => own = ref \/ ref = TopLevel

\* A remembered answer is an API at or above the directory, and the
\* directories between the two give the same answer.
NearIsAbove ==
    \A d \in DOMAIN near :
        near[d] # Null =>
            /\ IsPrefix(Base(near[d]), d)
            /\ \A n \in Len(Base(near[d])) .. Len(d) :
                   Up(d, n) \in DOMAIN near /\ near[Up(d, n)] = near[d]

\* Requiring in a circle ends: a module that is still being loaded is found in
\* its cache, as long as nobody deletes it from there.
NoReentry ==
    \A i, j \in DOMAIN stack :
        i < j /\ stack[i].at = stack[j].at /\ stack[i].cache = stack[j].cache =>
            stack[i].cache = Initial

\* What the manager remembers - instances, the API of a directory, modules
\* that are being loaded - is what it would find if it looked.
LoadsTrue == InstanceMatchesStats /\ NearIsAbove /\ NoReentry
=============================================================================
