------------------------------ MODULE PnpProofs ------------------------------
(* Plug'n'Play: what the manager of PnpLoader remembers, for any .pnp.js    *)
(* files, requests, installations and modules deleted from the cache.       *)
EXTENDS PnpLoader, PnpProgram, FiniteSetTheorems, SequenceTheorems, WellFoundedInduction,
        TLAPS

Text == Seq(STRING)
ApiOrNull == Apis \cup {Null}

-----------------------------------------------------------------------------
(* The inductive invariant of the loader.                                   *)

Entries == [version : Nat, mtime : Nat, recent : BOOLEAN]
Files == [Apis -> [version : Nat, mtime : Nat, state : {"good", "bad", "gone"}]]
IsMeta(m) == DOMAIN m \subseteq Apis /\ m \in [DOMAIN m -> Entries]

\* An instance that is as new as its file was made from it; none is newer.
\* What an instance was made from is a version of its file.
UpToDate(a, e, file, slip) ==
    /\ e.version \in DOMAIN Raw[a] /\ e.mtime <= file.mtime
    /\ file.state = "good" /\ e.mtime = file.mtime /\ ~slip => e.version = file.version

\* The remembered answers: each is for a path, and is an API at or above it
\* which the paths between are given too.
AnswerHolds(n, d) ==
    n[d] # Null =>
        /\ IsPrefix(Base(n[d]), d)
        /\ \A k \in Len(Base(n[d])) .. Len(d) : Up(d, k) \in DOMAIN n /\ n[Up(d, k)] = n[d]
IsNear(n) ==
    /\ DOMAIN n \subseteq Text
    /\ \A d \in DOMAIN n : n[d] \in ApiOrNull /\ AnswerHolds(n, d)

\* A module is loaded from a place, into the cache of an API or the default one.
Modules ==
    {m \in [cache : Apis \cup {Null, Default}, at : Text, api : ApiOrNull \cup {Unset}] :
        Dirname(m.at) \in Places}

FilesKnown ==
    /\ pnp \in Files /\ \A a \in Apis : pnp[a].version \in DOMAIN Raw[a]
    /\ IsMeta(meta) /\ slipped \subseteq DOMAIN meta
    /\ \A a \in DOMAIN meta : UpToDate(a, meta[a], pnp[a], a \in slipped)
ModulesKnown ==
    /\ cache \subseteq Modules /\ stack \in Seq(Modules)
    /\ \A i \in DOMAIN stack : stack[i].cache # Initial => Cached(stack[i])

PnpInv == FilesKnown /\ IsNear(near) /\ ModulesKnown /\ NoReentry

-----------------------------------------------------------------------------
(* The world a require passes on.                                           *)

IsWorld(w) == w \in [meta : {w.meta}, near : {w.near}, slipped : {w.slipped},
                     val : {w.val}, file : {w.file}, error : {w.error}]
New(w) == w.slipped \ slipped
InstanceKnown(w, a) ==
    /\ w.meta[a].version \in DOMAIN Raw[a]
    /\ a \in New(w) => w.meta[a].mtime = pnp[a].mtime + 1
    /\ a \notin New(w) => UpToDate(a, w.meta[a], pnp[a], a \in w.slipped)
InstancesKnown(w) ==
    /\ IsMeta(w.meta) /\ slipped \subseteq w.slipped /\ w.slipped \subseteq DOMAIN w.meta
    /\ \A a \in DOMAIN w.meta : InstanceKnown(w, a)
Known(w) == IsWorld(w) /\ InstancesKnown(w) /\ IsNear(w.near)

\* A require begins with what the manager knows.
LEMMA WorldKnown == PnpInv => Known(World) /\ Ok(World) /\ World.val = Null
BY DEF PnpInv, FilesKnown, Known, World, IsWorld, InstancesKnown, InstanceKnown, New, Ok, UpToDate

\* The instances and answers are all that is known: an error, an answer or a
\* file change nothing of that.
LEMMA SameKnown ==
    ASSUME NEW w, NEW x, Known(w), IsWorld(x), x.meta = w.meta, x.near = w.near,
           x.slipped = w.slipped
    PROVE  Known(x)
BY DEF Known, InstancesKnown, InstanceKnown, New

\* Throwing an error keeps what is known.
LEMMA ThrowKnown ==
    ASSUME NEW w, Known(w), NEW e
    PROVE  Known(Throw(w, e)) /\ (e # "" => ~Ok(Throw(w, e)))
<1>1. /\ IsWorld(Throw(w, e)) /\ Throw(w, e).meta = w.meta /\ Throw(w, e).near = w.near
      /\ Throw(w, e).slipped = w.slipped /\ Throw(w, e).error = e
  BY DEF Known, IsWorld, Throw
<1>2. e # "" => ~Ok(Throw(w, e))
  BY <1>1, Zenon DEF Ok
<1>3. Known(Throw(w, e))
  BY <1>1, SameKnown
<1> QED
  BY <1>2, <1>3, Zenon

\* So does an answer.
LEMMA ValKnown ==
    ASSUME NEW w, Known(w), NEW v
    PROVE  /\ Known([w EXCEPT !.val = v]) /\ [w EXCEPT !.val = v].val = v
           /\ [w EXCEPT !.val = v].file = w.file
           /\ Ok([w EXCEPT !.val = v]) <=> Ok(w)
<1> DEFINE x == [w EXCEPT !.val = v]
<1>1. /\ IsWorld(x) /\ x.meta = w.meta /\ x.near = w.near /\ x.slipped = w.slipped /\ x.val = v
      /\ x.file = w.file /\ x.error = w.error
  BY DEF Known, IsWorld
<1>2. Ok(x) <=> Ok(w)
  BY <1>1, Zenon DEF Ok
<1>3. Known(x)
  BY <1>1, SameKnown
<1> QED
  BY <1>1, <1>2, <1>3, Zenon

\* An error ends the require.
LEMMA ErrorsEnd ==
    ASSUME NEW w, Known(w), NEW e \in {"ENOENT", "SyntaxError", "BLACKLISTED", "MODULE_NOT_FOUND",
                                      "SEVERAL_INSTANCES"}
    PROVE  ~Ok(Throw(w, e))
BY ThrowKnown, Zenon

\* What a step with an API hands on: the value and the file it was given, and an
\* instance of the API unless there was an error.
Opened(w, x, a, slip) ==
    /\ Known(x) /\ x.val = w.val /\ x.file = w.file /\ DOMAIN w.meta \subseteq DOMAIN x.meta
    /\ ~slip => x.slipped = w.slipped
    /\ Ok(x) => Ok(w) /\ (a # Null => a \in DOMAIN x.meta)

\* An instance may change as long as it is not newer than its file.
LEMMA InstanceChanged ==
    ASSUME NEW w, Known(w), FilesKnown, NEW x, IsWorld(x), NEW a \in DOMAIN w.meta,
           x.meta = [w.meta EXCEPT ![a] = x.meta[a]], x.meta[a] \in Entries,
           x.near = w.near, x.slipped = w.slipped, InstanceKnown(x, a)
    PROVE  Known(x)
<1>1. DOMAIN x.meta = DOMAIN w.meta /\ x.meta \in [DOMAIN w.meta -> Entries]
  BY DEF Known, InstancesKnown, IsMeta
<1>2. ASSUME NEW b \in DOMAIN x.meta PROVE InstanceKnown(x, b)
  <2>1. CASE b = a
    BY <2>1
  <2>2. CASE b # a
    <3>1. x.meta[b] = w.meta[b]
      BY <2>2, <1>1
    <3> QED
      BY <3>1, <1>1 DEF Known, InstancesKnown, InstanceKnown, New
  <2> QED
    BY <2>1, <2>2
<1> QED
  BY <1>1, <1>2 DEF Known, InstancesKnown, IsMeta, New

\* Entries, field by field.
LEMMA EntryIs ==
    ASSUME NEW x \in Entries, NEW n \in Nat
    PROVE  /\ [x EXCEPT !.mtime = n] \in Entries
           /\ [x EXCEPT !.mtime = n].version = x.version /\ [x EXCEPT !.mtime = n].mtime = n
           /\ [x EXCEPT !.version = n] \in Entries
           /\ [x EXCEPT !.version = n].version = n /\ [x EXCEPT !.version = n].mtime = x.mtime
BY DEF Entries

\* An entry that has just been asked for.
LEMMA EntryAsked ==
    ASSUME NEW x \in Entries, NEW r \in BOOLEAN
    PROVE  /\ [x EXCEPT !.recent = r] \in Entries
           /\ [x EXCEPT !.recent = r].version = x.version /\ [x EXCEPT !.recent = r].mtime = x.mtime
BY DEF Entries

\* Two changes of one entry.
LEMMA ChangedTwice ==
    ASSUME NEW D, NEW T, NEW m \in [D -> T], NEW a \in D, NEW x, NEW y, NEW m2,
           m2 = [m EXCEPT ![a] = x]
    PROVE  [m2 EXCEPT ![a] = y] = [m EXCEPT ![a] = y] /\ m2[a] = x
OBVIOUS

\* A refresh keeps instances up to date or reports what it could not load.
LEMMA RefreshKnown ==
    ASSUME NEW w, Known(w), FilesKnown, NEW a \in DOMAIN w.meta, NEW slip \in BOOLEAN
    PROVE  Opened(w, RefreshApiEntry(w, a), a, slip)
<1> DEFINE seen == [w EXCEPT !.meta[a].recent = TRUE]
           noted == [seen EXCEPT !.meta[a].mtime = pnp[a].mtime]
           loaded == [noted EXCEPT !.meta[a].version = pnp[a].version]
           e == w.meta[a]
<1>1. e \in Entries /\ a \in Apis /\ pnp[a] \in [version : Nat, mtime : Nat, state : {"good", "bad", "gone"}]
      /\ pnp[a].version \in DOMAIN Raw[a] /\ InstanceKnown(w, a)
  BY DEF Known, InstancesKnown, IsMeta, FilesKnown, Files
<1>2. /\ IsWorld(seen) /\ seen.near = w.near /\ seen.slipped = w.slipped
      /\ seen.val = w.val /\ seen.file = w.file /\ seen.error = w.error
      /\ seen.meta = [w.meta EXCEPT ![a].recent = TRUE]
  BY DEF Known, IsWorld
<1>3. /\ IsWorld(noted) /\ noted.near = w.near /\ noted.slipped = w.slipped
      /\ noted.val = w.val /\ noted.file = w.file /\ noted.error = w.error
      /\ noted.meta = [seen.meta EXCEPT ![a].mtime = pnp[a].mtime]
  <2> HIDE DEF seen
  <2> QED
    BY <1>2 DEF IsWorld
<1>4. /\ IsWorld(loaded) /\ loaded.near = w.near /\ loaded.slipped = w.slipped
      /\ loaded.val = w.val /\ loaded.file = w.file /\ loaded.error = w.error
      /\ loaded.meta = [noted.meta EXCEPT ![a].version = pnp[a].version]
  <2> HIDE DEF noted
  <2> QED
    BY <1>3 DEF IsWorld
<1>5. /\ seen.meta = [w.meta EXCEPT ![a] = seen.meta[a]]
      /\ seen.meta[a] \in Entries /\ seen.meta[a].version = e.version /\ seen.meta[a].mtime = e.mtime
  <2>1. PICK t \in BOOLEAN : t = TRUE
    OBVIOUS
  <2>2. PICK x : x = [e EXCEPT !.recent = t]
    OBVIOUS
  <2> HIDE DEF seen
  <2>3. x \in Entries /\ x.version = e.version /\ x.mtime = e.mtime
    BY <1>1, <2>2, EntryAsked
  <2>4. seen.meta = [w.meta EXCEPT ![a] = x]
    BY <1>2, <2>1, <2>2, Zenon
  <2>5. w.meta \in [DOMAIN w.meta -> Entries]
    BY DEF Known, InstancesKnown, IsMeta
  <2>6. seen.meta[a] = x
    BY <2>4, <2>5
  <2> QED
    BY <2>3, <2>4, <2>6

<1>6. /\ noted.meta = [w.meta EXCEPT ![a] = noted.meta[a]]
      /\ noted.meta[a] \in Entries
      /\ noted.meta[a].version = e.version /\ noted.meta[a].mtime = pnp[a].mtime
  <2>1. PICK x : x = [seen.meta[a] EXCEPT !.mtime = pnp[a].mtime]
    OBVIOUS
  <2> HIDE DEF seen, noted
  <2>2. noted.meta = [seen.meta EXCEPT ![a] = x]
    BY <1>3, <2>1
  <2>3. w.meta \in [DOMAIN w.meta -> Entries]
    BY DEF Known, InstancesKnown, IsMeta
  <2>4. noted.meta = [w.meta EXCEPT ![a] = x] /\ noted.meta[a] = x
    BY <2>2, <2>3, <1>5, ChangedTwice
  <2>5. x \in Entries /\ x.version = e.version /\ x.mtime = pnp[a].mtime
    BY <2>1, <1>1, <1>5, EntryIs
  <2> QED
    BY <2>4, <2>5
<1>7. /\ loaded.meta = [w.meta EXCEPT ![a] = loaded.meta[a]]
      /\ loaded.meta[a] \in Entries
      /\ loaded.meta[a].version = pnp[a].version /\ loaded.meta[a].mtime = pnp[a].mtime
  <2>1. PICK x : x = [noted.meta[a] EXCEPT !.version = pnp[a].version]
    OBVIOUS
  <2> HIDE DEF seen, noted, loaded
  <2>2. loaded.meta = [noted.meta EXCEPT ![a] = x]
    BY <1>4, <2>1
  <2>3. w.meta \in [DOMAIN w.meta -> Entries]
    BY DEF Known, InstancesKnown, IsMeta
  <2>4. loaded.meta = [w.meta EXCEPT ![a] = x] /\ loaded.meta[a] = x
    BY <2>2, <2>3, <1>6, ChangedTwice
  <2>5. x \in Entries /\ x.version = pnp[a].version /\ x.mtime = pnp[a].mtime
    BY <2>1, <1>1, <1>6, EntryIs
  <2> QED
    BY <2>4, <2>5
<1>8. \/ RefreshApiEntry(w, a) = w
      \/ RefreshApiEntry(w, a) \in {seen, Throw(seen, "ENOENT")}
      \/ /\ RefreshApiEntry(w, a) = Throw(noted, "SyntaxError")
         /\ pnp[a].state = "bad" /\ pnp[a].mtime > e.mtime
      \/ RefreshApiEntry(w, a) = loaded /\ pnp[a].state = "good" /\ ~(pnp[a].mtime <= e.mtime)
  <2> HIDE DEF seen, noted, loaded
  <2>1. RefreshApiEntry(w, a) =
          CASE e.recent -> w
            [] ~e.recent /\ pnp[a].state = "gone" -> Throw(seen, "ENOENT")
            [] ~e.recent /\ pnp[a].state # "gone" /\ pnp[a].mtime <= e.mtime -> seen
            [] ~e.recent /\ pnp[a].state = "bad" /\ pnp[a].mtime > e.mtime -> Throw(noted, "SyntaxError")
            [] OTHER -> loaded
    BY Zenon DEF RefreshApiEntry, seen, noted, loaded
  <2>2. e.mtime \in Nat /\ pnp[a].mtime \in Nat /\ pnp[a].state \in {"good", "bad", "gone"}
    BY <1>1 DEF Entries
  <2>3. CASE e.recent
    BY <2>1, <2>3
  <2>4. CASE ~e.recent /\ pnp[a].state = "gone"
    BY <2>1, <2>4
  <2>5. CASE ~e.recent /\ pnp[a].state = "bad"
    BY <2>1, <2>2, <2>5
  <2>6. CASE ~e.recent /\ pnp[a].state = "good"
    BY <2>1, <2>2, <2>6
  <2> QED
    BY <2>2, <2>3, <2>4, <2>5, <2>6
<1> HIDE DEF seen, noted, loaded
<1>9. e.version \in Nat /\ e.mtime \in Nat /\ pnp[a].mtime \in Nat /\ pnp[a].version \in Nat
  BY <1>1 DEF Entries
<1>10. Known(seen)
  <2>1. InstanceKnown(seen, a)
    BY <1>1, <1>2, <1>5 DEF InstanceKnown, UpToDate, New
  <2> QED
    BY <2>1, <1>2, <1>5, <1>9, InstanceChanged DEF Entries
<1>11. ASSUME pnp[a].state = "bad", pnp[a].mtime > e.mtime PROVE Known(noted)
  <2>1. InstanceKnown(noted, a)
    BY <1>1, <1>3, <1>2, <1>6, <1>9, <1>11 DEF InstanceKnown, UpToDate, New
  <2>2. noted.meta[a] \in Entries /\ noted.near = w.near /\ noted.slipped = w.slipped
    BY <1>2, <1>3, <1>6
  <2> QED
    BY <2>1, <2>2, <1>3, <1>6, InstanceChanged
<1>12. ASSUME pnp[a].state = "good", ~(pnp[a].mtime <= e.mtime) PROVE Known(loaded)
  <2>1. InstanceKnown(loaded, a)
    BY <1>1, <1>2, <1>3, <1>4, <1>7, <1>9, <1>12 DEF InstanceKnown, UpToDate, New
  <2>2. loaded.meta[a] \in Entries /\ loaded.near = w.near /\ loaded.slipped = w.slipped
    BY <1>2, <1>3, <1>4, <1>7
  <2> QED
    BY <2>1, <2>2, <1>4, <1>7, InstanceChanged
<1>13. /\ DOMAIN seen.meta = DOMAIN w.meta /\ DOMAIN noted.meta = DOMAIN w.meta
       /\ DOMAIN loaded.meta = DOMAIN w.meta
  BY <1>5, <1>6, <1>7
<1>14. /\ Ok(seen) <=> Ok(w)
       /\ Ok(loaded) <=> Ok(w)
  BY <1>2, <1>3, <1>4, Zenon DEF Ok
<1>15. Opened(w, w, a, slip) /\ Opened(w, seen, a, slip)
  BY <1>2, <1>10, <1>13, <1>14 DEF Opened
<1>16. Opened(w, Throw(seen, "ENOENT"), a, slip)
  <2>1. Known(Throw(seen, "ENOENT")) /\ ~Ok(Throw(seen, "ENOENT"))
    BY <1>10, ErrorsEnd, ThrowKnown, Zenon
  <2>2. /\ Throw(seen, "ENOENT").meta = seen.meta /\ Throw(seen, "ENOENT").val = seen.val
        /\ Throw(seen, "ENOENT").file = seen.file
        /\ Throw(seen, "ENOENT").slipped = seen.slipped
    BY <1>2 DEF Throw, IsWorld
  <2> QED
    BY <2>1, <2>2, <1>2, <1>13 DEF Opened
<1>17. ASSUME pnp[a].state = "bad", pnp[a].mtime > e.mtime
       PROVE  Opened(w, Throw(noted, "SyntaxError"), a, slip)
  <2>1. Known(Throw(noted, "SyntaxError")) /\ ~Ok(Throw(noted, "SyntaxError"))
    BY <1>11, <1>17, ErrorsEnd, ThrowKnown, Zenon
  <2>2. /\ Throw(noted, "SyntaxError").meta = noted.meta /\ Throw(noted, "SyntaxError").val = noted.val
        /\ Throw(noted, "SyntaxError").file = noted.file
        /\ Throw(noted, "SyntaxError").slipped = noted.slipped
    BY <1>3 DEF Throw, IsWorld
  <2> QED
    BY <2>1, <2>2, <1>2, <1>3, <1>13 DEF Opened
<1>18. ASSUME pnp[a].state = "good", ~(pnp[a].mtime <= e.mtime) PROVE Opened(w, loaded, a, slip)
  BY <1>12, <1>18, <1>2, <1>3, <1>4, <1>13, <1>14 DEF Opened
<1> QED
  BY <1>8, <1>15, <1>16, <1>17, <1>18

\* A new instance is made from its file, or from the file it had before an
\* installation that came between load and stat.
LEMMA NewInstance ==
    ASSUME NEW w, Known(w), FilesKnown, NEW a \in Apis \ DOMAIN w.meta, NEW slip \in BOOLEAN,
           NEW x, IsWorld(x), NEW e \in Entries, e.version = pnp[a].version,
           e.mtime = pnp[a].mtime + (IF slip THEN 1 ELSE 0),
           x.meta = [b \in {a} \cup DOMAIN w.meta |-> IF b = a THEN e ELSE w.meta[b]],
           x.near = w.near, x.slipped = IF slip THEN w.slipped \cup {a} ELSE w.slipped
    PROVE  Known(x)
<1>1. /\ IsMeta(w.meta) /\ slipped \subseteq w.slipped /\ w.slipped \subseteq DOMAIN w.meta
      /\ IsNear(w.near)
      /\ \A b \in DOMAIN w.meta : InstanceKnown(w, b)
  BY DEF Known, InstancesKnown
<1>2. DOMAIN x.meta = {a} \cup DOMAIN w.meta /\ x.meta \in [DOMAIN x.meta -> Entries]
  BY <1>1 DEF IsMeta
<1>3. a \notin w.slipped /\ a \notin slipped
  BY <1>1
<1>4. pnp[a].version \in DOMAIN Raw[a] /\ pnp[a].mtime \in Nat
  BY DEF FilesKnown, Files

<1>5. InstanceKnown(x, a)
  <2>1. x.meta[a] = e
    BY <1>2
  <2>2. CASE slip
    BY <2>1, <2>2, <1>3, <1>4 DEF InstanceKnown, New
  <2>3. CASE ~slip
    <3>1. a \notin New(x) /\ e.mtime = pnp[a].mtime
      BY <2>3, <1>3, <1>4 DEF New
    <3> QED
      BY <2>1, <3>1, <1>4 DEF InstanceKnown, UpToDate
  <2> QED
    BY <2>2, <2>3
<1>6. ASSUME NEW b \in DOMAIN w.meta PROVE InstanceKnown(x, b)
  <2>1. x.meta[b] = w.meta[b] /\ (b \in x.slipped <=> b \in w.slipped) /\ (b \in New(x) <=> b \in New(w))
    BY <1>2 DEF New
  <2> QED
    BY <2>1, <1>1 DEF InstanceKnown, UpToDate
<1>7. slipped \subseteq x.slipped /\ x.slipped \subseteq DOMAIN x.meta
  BY <1>1, <1>2
<1> QED
  BY <1>1, <1>2, <1>5, <1>6, <1>7 DEF Known, InstancesKnown, IsMeta

\* Opening an API gives an instance of it or an error.
LEMMA GetKnown ==
    ASSUME NEW w, Known(w), FilesKnown, NEW a \in ApiOrNull, NEW refresh \in BOOLEAN, NEW slip \in BOOLEAN
    PROVE  Opened(w, GetApiEntry(w, a, refresh, slip), a, slip)
<1> DEFINE e == [version |-> pnp[a].version, recent |-> TRUE,
                 mtime |-> pnp[a].mtime + (IF slip THEN 1 ELSE 0)]
           new == [w EXCEPT !.meta = Put([b \in {a} |-> e], @), !.slipped = IF slip THEN @ \cup {a} ELSE @]
<1>1. Opened(w, w, Null, slip) /\ (~Ok(w) => Opened(w, w, a, slip)) /\ (a \in DOMAIN w.meta => Opened(w, w, a, slip))
  BY DEF Opened
<1>2. CASE ~Ok(w) \/ a = Null
  <2>1. GetApiEntry(w, a, refresh, slip) = w
    <3>1. ~(Ok(w) /\ a \in DOMAIN w.meta) /\ ~(Ok(w) /\ a \in Apis \ DOMAIN w.meta /\ pnp[a].state # "good")
      BY <1>2, NoMarkIsAnApi DEF Known, InstancesKnown, IsMeta
    <3> QED
      BY <1>2, <3>1, Zenon DEF GetApiEntry
  <2> QED
    BY <2>1, <1>1, <1>2
<1>3. CASE Ok(w) /\ a # Null /\ a \in DOMAIN w.meta
  <2>1. GetApiEntry(w, a, refresh, slip) = IF refresh THEN RefreshApiEntry(w, a) ELSE w
    BY <1>3, Zenon DEF GetApiEntry
  <2> QED
    BY <2>1, <1>1, <1>3, RefreshKnown
<1>4. CASE Ok(w) /\ a # Null /\ a \in Apis \ DOMAIN w.meta /\ pnp[a].state # "good"
  <2>1. GetApiEntry(w, a, refresh, slip) = Throw(w, "SyntaxError")
    BY <1>4 DEF GetApiEntry
  <2>2. Known(Throw(w, "SyntaxError")) /\ ~Ok(Throw(w, "SyntaxError"))
    BY ErrorsEnd, ThrowKnown, Zenon
  <2>3. /\ Throw(w, "SyntaxError").meta = w.meta /\ Throw(w, "SyntaxError").val = w.val
        /\ Throw(w, "SyntaxError").file = w.file /\ Throw(w, "SyntaxError").slipped = w.slipped
    BY DEF Throw, Known, IsWorld
  <2> QED
    BY <2>1, <2>2, <2>3 DEF Opened
<1>5. CASE Ok(w) /\ a # Null /\ a \in Apis \ DOMAIN w.meta /\ ~(pnp[a].state # "good")
  <2>1. GetApiEntry(w, a, refresh, slip) = new
    BY <1>5 DEF GetApiEntry
  <2>2. pnp[a].version \in Nat /\ pnp[a].mtime \in Nat
    BY <1>5 DEF FilesKnown, Files
  <2>3. PICK y : y = e
    OBVIOUS
  <2>4. y \in Entries /\ y.version = pnp[a].version /\ y.mtime = pnp[a].mtime + (IF slip THEN 1 ELSE 0)
    BY <2>2, <2>3 DEF Entries
  <2>5. /\ IsWorld(new) /\ new.near = w.near /\ new.val = w.val /\ new.file = w.file
        /\ new.error = w.error /\ new.meta = Put([b \in {a} |-> y], w.meta)
        /\ new.slipped = IF slip THEN w.slipped \cup {a} ELSE w.slipped
    BY <2>3 DEF Known, IsWorld
  <2> HIDE DEF new
  <2>6. new.meta = [b \in {a} \cup DOMAIN w.meta |-> IF b = a THEN y ELSE w.meta[b]]
    <3>1. PICK m : m = w.meta
      OBVIOUS
    <3>2. Put([b \in {a} |-> y], m) = [b \in {a} \cup DOMAIN m |-> IF b = a THEN y ELSE m[b]]
      BY DEF Put
    <3>3. new.meta = Put([b \in {a} |-> y], m)
      BY <2>5, <3>1, Zenon
    <3> QED
      BY <3>1, <3>2, <3>3, Zenon
  <2>7. Known(new)
    BY <1>5, <2>4, <2>5, <2>6, NewInstance
  <2>8. Ok(new) <=> Ok(w)
    BY <2>5, Zenon DEF Ok
  <2> QED
    BY <2>1, <2>5, <2>6, <2>7, <2>8, <1>5 DEF Opened
<1>6. a = Null \/ a \in Apis
  BY DEF ApiOrNull
<1> QED
  BY <1>2, <1>3, <1>4, <1>5, <1>6

-----------------------------------------------------------------------------
(* The nearest .pnp.js above a path.                                        *)

\* The directories above a path.
LEMMA UpIs ==
    ASSUME NEW S, NEW at \in Seq(S), NEW k \in 0 .. Len(at)
    PROVE  Up(at, k) \in Seq(S) /\ Len(Up(at, k)) = k /\ \A i \in 1 .. k : Up(at, k)[i] = at[i]
<1>1. \A i \in 1 .. k : at[i] \in S
  OBVIOUS
<1> QED
  BY <1>1, SubSeqProperties DEF Up

\* A directory above a directory above a path is above the path.
LEMMA UpOfUp ==
    ASSUME NEW S, NEW at \in Seq(S), NEW j \in 0 .. Len(at), NEW k \in 0 .. j
    PROVE  Up(Up(at, j), k) = Up(at, k)
<1>1. k \in 0 .. Len(at) /\ k \in 0 .. Len(Up(at, j)) /\ Up(at, j) \in Seq(S)
  BY UpIs
<1>2. /\ Up(Up(at, j), k) \in Seq(S) /\ Len(Up(Up(at, j), k)) = k
      /\ \A i \in 1 .. k : Up(Up(at, j), k)[i] = Up(at, j)[i]
  BY <1>1, UpIs
<1>3. Up(at, k) \in Seq(S) /\ Len(Up(at, k)) = k /\ \A i \in 1 .. k : Up(at, k)[i] = at[i]
  BY <1>1, UpIs
<1>4. \A i \in 1 .. k : Up(at, j)[i] = at[i]
  BY UpIs
<1> QED
  BY <1>2, <1>3, <1>4

\* The path itself counts.
LEMMA UpWhole ==
    ASSUME NEW S, NEW at \in Seq(S)
    PROVE  Up(at, Len(at)) = at
BY UpIs

\* A path begins with another when that one is a directory above it.
LEMMA PrefixIsUp ==
    ASSUME NEW S, NEW b \in Seq(S), NEW d \in Seq(S)
    PROVE  IsPrefix(b, d) <=> Len(b) <= Len(d) /\ b = Up(d, Len(b))
BY UpWhole DEF IsPrefix, Up

\* A search that stops at the nearest directory with an answer, and remembers
\* the answer for the directories it met before, keeps the answers right.
LEMMA PutKnown ==
    ASSUME NEW n, IsNear(n), NEW at \in Text, NEW stop \in 0 .. Len(at), NEW target \in ApiOrNull,
           \A k \in (stop + 1) .. Len(at) : Up(at, k) \notin DOMAIN n,
           Up(at, stop) \in DOMAIN n => n[Up(at, stop)] = target,
           target # Null => Up(at, stop) \in DOMAIN n \/ Base(target) = Up(at, stop),
           \A a \in Apis : Base(a) \in Text
    PROVE  IsNear(Put([x \in {Up(at, k) : k \in stop .. Len(at)} |-> target], n))
<1> DEFINE on == {Up(at, k) : k \in stop .. Len(at)}
           put == Put([x \in on |-> target], n)
<1>1. /\ DOMAIN put = on \cup DOMAIN n
      /\ \A d \in on : put[d] = target
      /\ \A d \in DOMAIN n \ on : put[d] = n[d]
  BY DEF Put
<1>2. on \subseteq Text /\ DOMAIN n \subseteq Text
  BY UpIs DEF Text, IsNear
<1>3. ASSUME NEW d \in DOMAIN n PROVE put[d] = n[d]
  <2>1. CASE d \in on
    <3>1. PICK k \in stop .. Len(at) : d = Up(at, k)
      BY <2>1
    <3>2. k = stop
      BY <3>1
    <3> QED
      BY <3>1, <3>2, <1>1, <2>1
  <2>2. CASE d \notin on
    BY <2>2, <1>1
  <2> QED
    BY <2>1, <2>2
<1>4. ASSUME NEW d \in DOMAIN n PROVE put[d] \in ApiOrNull /\ AnswerHolds(put, d)
  <2>1. n[d] \in ApiOrNull /\ AnswerHolds(n, d)
    BY DEF IsNear
  <2> QED
    BY <2>1, <1>1, <1>3 DEF AnswerHolds
<1>5. ASSUME target # Null
      PROVE  /\ Base(target) \in Text /\ Len(Base(target)) <= stop
             /\ Base(target) = Up(at, Len(Base(target)))
             /\ \A k \in Len(Base(target)) .. (stop - 1) : Up(at, k) \in DOMAIN n /\ n[Up(at, k)] = target
  <2>0. Base(target) \in Text /\ Up(at, stop) \in Text /\ Len(Up(at, stop)) = stop
    BY <1>5, UpIs DEF ApiOrNull, Text
  <2>1. CASE Base(target) = Up(at, stop)
    BY <2>0, <2>1
  <2>2. CASE Up(at, stop) \in DOMAIN n
    <3>1. /\ n[Up(at, stop)] = target /\ IsPrefix(Base(target), Up(at, stop))
          /\ \A k \in Len(Base(target)) .. Len(Up(at, stop)) :
                Up(Up(at, stop), k) \in DOMAIN n /\ n[Up(Up(at, stop), k)] = target
      BY <1>5, <2>2 DEF IsNear, AnswerHolds
    <3>2. Len(Base(target)) <= stop /\ Base(target) = Up(Up(at, stop), Len(Base(target)))
      BY <2>0, <3>1, PrefixIsUp DEF Text
    <3>3. Len(Base(target)) \in 0 .. stop
      BY <2>0, <3>2 DEF Text
    <3>4. \A k \in 0 .. stop : Up(Up(at, stop), k) = Up(at, k)
      BY UpOfUp DEF Text
    <3> QED
      BY <2>0, <3>1, <3>2, <3>3, <3>4
  <2> QED
    BY <1>5, <2>1, <2>2
<1>6. ASSUME NEW d \in on PROVE put[d] \in ApiOrNull /\ AnswerHolds(put, d)
  <2>1. PICK j \in stop .. Len(at) : d = Up(at, j)
    OBVIOUS
  <2>2. put[d] = target
    BY <1>1
  <2>3. CASE target = Null
    BY <2>2, <2>3 DEF AnswerHolds
  <2>4. CASE target # Null
    <3>1. d \in Text /\ Len(d) = j /\ j \in 0 .. Len(at)
      BY <2>1, UpIs DEF Text
    <3>2. Len(Base(target)) \in 0 .. stop
      BY <1>5, <2>4 DEF Text
    <3>3. \A k \in 0 .. j : Up(d, k) = Up(at, k)
      BY <2>1, <3>1, UpOfUp DEF Text
    <3>4. IsPrefix(Base(target), d)
      BY <1>5, <2>4, <3>1, <3>2, <3>3, PrefixIsUp DEF Text
    <3>5. ASSUME NEW k \in Len(Base(target)) .. j PROVE Up(at, k) \in DOMAIN put /\ put[Up(at, k)] = target
      <4>1. CASE k < stop
        BY <4>1, <1>1, <1>3, <1>5, <2>4, <3>2
      <4>2. CASE k >= stop
        BY <4>2, <1>1, <3>1, <3>2
      <4> QED
        BY <4>1, <4>2, <3>2
    <3>6. \A k \in Len(Base(target)) .. Len(d) : Up(d, k) \in DOMAIN put /\ put[Up(d, k)] = target
      BY <3>1, <3>2, <3>3, <3>5
    <3> HIDE DEF put
    <3> QED
      BY <2>2, <3>4, <3>6 DEF AnswerHolds
  <2> QED
    BY <2>3, <2>4
<1> HIDE DEF put, on
<1>7. IsNear(put)
  BY <1>1, <1>2, <1>4, <1>6 DEF IsNear
<1> QED
  BY <1>7 DEF put, on

\* Of numbers up to n one is the greatest.
LEMMA GreatestNumber ==
    ASSUME NEW n \in Nat, NEW N, N \subseteq 0 .. n, N # {}
    PROVE  \E x \in N : \A y \in N : y <= x
<1> DEFINE left == {n - x : x \in N}
           less == {ss \in Nat \X Nat : ss[1] < ss[2]}
<1>1. left \subseteq Nat /\ left # {}
  <2> HIDE DEF less
  <2>1. \A x \in N : n - x \in Nat
    OBVIOUS
  <2> QED
    BY <2>1
<1>2. IsWellFoundedOn(less, Nat)
  BY NatLessThanWellFounded, Zenon DEF OpToRel
<1>3. PICK l \in left : \A m \in left : ~(<<m, l>> \in less)
  <2> HIDE DEF left, less
  <2> QED
    BY <1>1, <1>2, WFMin
<1>4. PICK x \in N : l = n - x
  BY <1>3
<1>5. ASSUME NEW y \in N PROVE y <= x
  <2>1. n - y \in left /\ l \in Nat /\ n - y \in Nat
    BY <1>1, <1>3
  <2>2. <<n - y, l>> \notin less /\ <<n - y, l>>[1] = n - y /\ <<n - y, l>>[2] = l
    BY <1>3, <2>1
  <2>3. ~(n - y < l)
    BY <2>1, <2>2
  <2> QED
    BY <2>3, <1>4
<1> QED
  BY <1>5

\* The search stops at the nearest directory with an answer.
LEMMA StopIs ==
    ASSUME NEW w, NEW at \in Text
    PROVE  LET stop == StopAt(Answered(w, at))
           IN /\ stop \in 0 .. Len(at)
              /\ \A k \in (stop + 1) .. Len(at) : Answer(w, Up(at, k)) = {}
<1> DEFINE answered == Answered(w, at)
<1>1. answered \subseteq 0 .. Len(at) /\ Len(at) \in Nat
  BY DEF Answered, Text
<1>2. \A k \in 0 .. Len(at) : k \notin answered => Answer(w, Up(at, k)) = {}
  BY DEF Answered
<1>3. /\ StopAt(answered) \in 0 .. Len(at)
      /\ \A k \in answered : k <= StopAt(answered)
  <2> HIDE DEF answered
  <2>1. CASE answered = {}
    BY <2>1, <1>1 DEF StopAt
  <2>2. CASE answered # {}
    <3>1. \E n \in answered : \A m \in answered : m <= n
      BY <1>1, <2>2, GreatestNumber
    <3>2. StopAt(answered) \in answered /\ \A m \in answered : m <= StopAt(answered)
      BY <3>1, <2>2, Zenon DEF StopAt
    <3> QED
      BY <3>2, <1>1
  <2> QED
    BY <2>1, <2>2
<1> HIDE DEF answered
<1>4. ASSUME NEW k \in (StopAt(answered) + 1) .. Len(at) PROVE Answer(w, Up(at, k)) = {}
  <2>1. k \in 0 .. Len(at) /\ k \notin answered
    BY <1>3, <1>1
  <2> QED
    BY <2>1, <1>2
<1> QED
  BY <1>3, <1>4 DEF answered

\* What a search hands on: the file, the instances, and an API or none.
Searched(w, x) ==
    /\ Known(x) /\ x.file = w.file /\ x.meta = w.meta /\ x.slipped = w.slipped
    /\ Ok(x) => Ok(w) /\ x.val \in ApiOrNull

\* A search that fails.
LEMMA ErrorIsNoAnswer ==
    ASSUME NEW w, Known(w), NEW e \in {"ENOENT", "SyntaxError", "BLACKLISTED", "MODULE_NOT_FOUND",
                                      "SEVERAL_INSTANCES"}
    PROVE  Searched(w, Throw(w, e))
<1>1. Known(Throw(w, e)) /\ ~Ok(Throw(w, e))
  BY ThrowKnown, ErrorsEnd, Zenon
<1>2. /\ Throw(w, e).file = w.file /\ Throw(w, e).meta = w.meta
      /\ Throw(w, e).slipped = w.slipped
  BY DEF Throw, Known, IsWorld
<1> QED
  BY <1>1, <1>2 DEF Searched

\* A search that ends at the nearest answer.
LEMMA NearestKnown ==
    ASSUME NEW w, Known(w), NEW at \in Text, NEW stop \in 0 .. Len(at),
           \A k \in (stop + 1) .. Len(at) : Answer(w, Up(at, k)) = {}
    PROVE  Searched(w, NearestApi(w, at, stop))
<1> DEFINE target == Nearest(w, at, stop)
           put == Put([n \in {Up(at, k) : k \in stop .. Len(at)} |-> target], w.near)
           x == NearestApi(w, at, stop)
<1>1. IsNear(w.near)
  BY DEF Known
<1>2. \A a \in Apis : Base(a) \in Text
  BY RawAssumption DEF Base, Text
<1>3. \A k \in (stop + 1) .. Len(at) : Up(at, k) \notin DOMAIN w.near
  BY DEF Answer
<1>4. /\ target \in ApiOrNull
      /\ Up(at, stop) \in DOMAIN w.near => w.near[Up(at, stop)] = target
      /\ target # Null => Up(at, stop) \in DOMAIN w.near \/ Base(target) = Up(at, stop)
  <2> DEFINE found == Answer(w, Up(at, stop))
  <2>1. CASE Up(at, stop) \in DOMAIN w.near
    <3>1. found = {w.near[Up(at, stop)]}
      BY <2>1 DEF Answer
    <3>2. target = w.near[Up(at, stop)]
      BY <3>1 DEF Nearest
    <3> QED
      BY <2>1, <3>2, <1>1 DEF IsNear
  <2>2. CASE Up(at, stop) \notin DOMAIN w.near
    <3>1. found \subseteq {a \in Apis : Base(a) = Up(at, stop)}
      BY <2>2 DEF Answer
    <3>2. target = Null \/ target \in found
      BY Zenon DEF Nearest
    <3> HIDE DEF target, found
    <3> QED
      BY <2>2, <3>1, <3>2 DEF ApiOrNull
  <2> QED
    BY <2>1, <2>2
<1>5. /\ IsWorld(x) /\ x.meta = w.meta /\ x.slipped = w.slipped /\ x.file = w.file
      /\ x.error = w.error /\ x.val = target /\ x.near = put
  <2> HIDE DEF target
  <2> QED
    BY DEF Known, IsWorld, NearestApi, Remembered, target
<1> HIDE DEF target, x
<1>6. IsNear(put)
  BY <1>1, <1>2, <1>3, <1>4, PutKnown
<1> HIDE DEF put
<1>7. Known(x)
  BY <1>5, <1>6 DEF Known, InstancesKnown, InstanceKnown, New
<1>8. Ok(x) <=> Ok(w)
  BY <1>5, Zenon DEF Ok
<1>9. Searched(w, x)
  BY <1>4, <1>5, <1>7, <1>8 DEF Searched
<1> QED
  BY <1>9 DEF x

\* findApiPathFor keeps the remembered answers right.
LEMMA FindKnown ==
    ASSUME NEW w, Known(w), NEW at \in Text
    PROVE  Searched(w, FindApiPathFor(w, at))
<1> DEFINE by == Controlling(w, at)
           forbidden == \E a \in by : FindPackageLocator(Data(w.meta, a), File(at)) = Forbidden
<1>1. by \subseteq ApiOrNull
  BY DEF Controlling, Known, InstancesKnown, IsMeta, ApiOrNull
<1>2. Searched(w, ControlledBy(w, at, by))
  <2> HIDE DEF by
  <2>1. CASE forbidden
    <3>1. ControlledBy(w, at, by) = Throw(w, "BLACKLISTED")
      BY <2>1, Zenon DEF ControlledBy
    <3> QED
      BY <3>1, ErrorIsNoAnswer
  <2>2. CASE by = {}
    <3>1. ControlledBy(w, at, by) = NearestApi(w, at, StopAt(Answered(w, at)))
      <4>1. ~(Cardinality(by) > 1)
        BY <2>2, FS_EmptySet
      <4> QED
        BY <2>2, <4>1, Zenon DEF ControlledBy
    <3> QED
      BY <3>1, StopIs, NearestKnown
  <2>3. CASE ~forbidden /\ by # {} /\ Cardinality(by) > 1
    <3>1. ControlledBy(w, at, by) = Throw(w, "SEVERAL_INSTANCES")
      BY <2>3 DEF ControlledBy
    <3> QED
      BY <3>1, ErrorIsNoAnswer
  <2>4. CASE ~forbidden /\ by # {} /\ ~(Cardinality(by) > 1)
    <3>1. ControlledBy(w, at, by) = [w EXCEPT !.val = CHOOSE a \in by : TRUE]
      BY <2>4, Zenon DEF ControlledBy
    <3>2. PICK v : v = CHOOSE a \in by : TRUE
      OBVIOUS
    <3>3. v \in ApiOrNull
      BY <3>2, <2>4, <1>1
    <3>4. [w EXCEPT !.val = v].meta = w.meta /\ [w EXCEPT !.val = v].slipped = w.slipped
      BY DEF Known, IsWorld
    <3>5. ControlledBy(w, at, by) = [w EXCEPT !.val = v]
      BY <3>1, <3>2, Zenon
    <3> QED
      BY <3>3, <3>4, <3>5, ValKnown DEF Searched
  <2> QED
    BY <2>1, <2>2, <2>3, <2>4, Zenon
<1>3. CASE Ok(w)
  BY <1>2, <1>3, Zenon DEF FindApiPathFor
<1>4. CASE ~Ok(w)
  <2>1. FindApiPathFor(w, at) = w
    BY <1>4, Zenon DEF FindApiPathFor
  <2> QED
    BY <2>1, <1>4 DEF Searched
<1> QED
  BY <1>3, <1>4

-----------------------------------------------------------------------------
(* The file a request stands for.                                           *)

\* The file in hand is in one of the places.
FileKnown(w) == w.file \in Text /\ Dirname(w.file) \in Places

\* What every step of a require hands on.
Kept(w, x) ==
    /\ Known(x) /\ FileKnown(x) /\ DOMAIN w.meta \subseteq DOMAIN x.meta
    /\ Ok(x) => Ok(w)

\* One step after the other.
LEMMA KeptTwice ==
    ASSUME NEW w, NEW x, NEW y, Kept(w, x), Kept(x, y)
    PROVE  Kept(w, y)
BY DEF Kept

\* A step that does nothing, or only gives an answer.
LEMMA KeptSame ==
    ASSUME NEW w, Known(w), FileKnown(w), NEW v
    PROVE  /\ Kept(w, w)
           /\ Kept(w, [w EXCEPT !.val = v]) /\ [w EXCEPT !.val = v].val = v
<1> DEFINE x == [w EXCEPT !.val = v]
<1>1. Known(x) /\ x.val = v /\ x.file = w.file /\ (Ok(x) <=> Ok(w))
  BY ValKnown
<1>2. x.meta = w.meta
  BY DEF Known, IsWorld
<1> QED
  BY <1>1, <1>2 DEF Kept, FileKnown

\* A search is such a step, and so is the opening of an API.
LEMMA SearchedKept ==
    ASSUME NEW w, FileKnown(w), NEW x, Searched(w, x)
    PROVE  Kept(w, x) /\ (Ok(x) => x.val \in ApiOrNull)
BY DEF Kept, Searched, FileKnown

\* Opening an API.
LEMMA OpenedKept ==
    ASSUME NEW w, FileKnown(w), NEW x, NEW a, NEW slip, Opened(w, x, a, slip)
    PROVE  Kept(w, x)
BY DEF Kept, Opened, FileKnown

\* An error.
LEMMA ThrowKept ==
    ASSUME NEW w, Known(w), FileKnown(w), NEW e, ~Ok(Throw(w, e))
    PROVE  Kept(w, Throw(w, e))
<1>1. Known(Throw(w, e))
  BY ThrowKnown, Zenon
<1>2. Throw(w, e).file = w.file /\ Throw(w, e).meta = w.meta
  BY DEF Throw, Known, IsWorld
<1> QED
  BY <1>1, <1>2 DEF Kept, FileKnown

\* Once there is an error no API is opened.
LEMMA GetFailed ==
    ASSUME NEW w, ~Ok(w), NEW a, NEW refresh, NEW slip
    PROVE  GetApiEntry(w, a, refresh, slip) = w
BY Zenon DEF GetApiEntry

\* What an instance or the native loader answers.
LEMMA HeardKnown ==
    ASSUME NEW w, Known(w), NEW answer, IsPlaced(answer)
    PROVE  Kept(w, Heard(w, answer))
<1> DEFINE x == Heard(w, answer)
<1>1. /\ IsWorld(x) /\ x.meta = w.meta /\ x.near = w.near /\ x.slipped = w.slipped
      /\ x.file = answer.path.at /\ x.error = w.error
  <2>1. PICK v : v = IF answer.error = "" THEN "found" ELSE "next"
    BY Zenon
  <2>2. x = [w EXCEPT !.file = answer.path.at, !.val = v]
    BY <2>1, Zenon DEF Heard
  <2> QED
    BY <2>2 DEF Known, IsWorld
<1>2. Known(x)
  BY <1>1, SameKnown
<1>3. FileKnown(x)
  BY <1>1 DEF FileKnown, IsPlaced, Text
<1>4. Ok(x) <=> Ok(w)
  BY <1>1, Zenon DEF Ok
<1> HIDE DEF x
<1>5. Kept(w, x)
  BY <1>1, <1>2, <1>3, <1>4 DEF Kept
<1> QED
  BY <1>5 DEF x

\* Asking one API, or the native loader.
LEMMA TryKnown ==
    ASSUME NEW w, Known(w), FileKnown(w), FilesKnown, NEW a \in ApiOrNull,
           NEW parent \in Modules, NEW req \in Requests, NEW slip \in BOOLEAN
    PROVE  Kept(w, Try(w, a, parent, req, slip))
<1>1. PICK t \in BOOLEAN : t = TRUE
  OBVIOUS
<1>2. PICK x : x = GetApiEntry(w, a, t, slip)
  OBVIOUS
<1>3. PICK at : at = Dirname(parent.at)
  OBVIOUS
<1>4. Opened(w, x, a, slip)
  BY <1>2, GetKnown
<1>5. Kept(w, x)
  BY <1>4, OpenedKept
<1>6. at \in Places
  BY <1>3 DEF Modules
<1>7. PICK issuer : issuer = Path(at, t)
  OBVIOUS
<1>8. Try(w, a, parent, req, slip) = AskOpened(x, a, issuer, req)
  BY <1>1, <1>2, <1>3, <1>7, Zenon DEF Try
<1>9. Kept(x, AskOpened(x, a, issuer, req))
  <2>1. CASE Ok(x)
    <3>1. IsPlaced(Ask(x, a, issuer, req))
      <4>1. CASE a = Null
        <5>1. Ask(x, a, issuer, req) = Natively(req, Path(at, TRUE))
          BY <1>1, <1>7, <4>1, Zenon DEF Ask
        <5> QED
          BY <5>1, <1>6, PlacesAssumption, Zenon
      <4>2. CASE a # Null
        <5>1. a \in DOMAIN x.meta /\ a \in Apis /\ x.meta[a].version \in DOMAIN Raw[a]
          BY <1>4, <2>1, <4>2 DEF Opened, Known, InstancesKnown, InstanceKnown, IsMeta
        <5>2. issuer.at = at
          BY <1>7 DEF Path
        <5>3. Ask(x, a, issuer, req) = Answers[a][x.meta[a].version][req][at]
          BY <4>2, <5>2, Zenon DEF Ask
        <5> QED
          BY <5>1, <5>3, <1>6, PlacesAssumption, Zenon
      <4> QED
        BY <4>1, <4>2
    <3>2. AskOpened(x, a, issuer, req) = Heard(x, Ask(x, a, issuer, req))
      BY <2>1, Zenon DEF AskOpened
    <3>3. Known(x)
      BY <1>5 DEF Kept
    <3> QED
      BY <3>1, <3>2, <3>3, HeardKnown, Zenon
  <2>2. CASE ~Ok(x)
    <3>1. AskOpened(x, a, issuer, req) = x
      BY <2>2, Zenon DEF AskOpened
    <3> QED
      BY <3>1, <1>5 DEF Kept
  <2> QED
    BY <2>1, <2>2
<1> QED
  BY <1>5, <1>8, <1>9, KeptTwice

\* The API of the request's target is tried first.
LEMMA TargetKnown ==
    ASSUME NEW w, Known(w), FileKnown(w), NEW parent \in Modules, NEW req \in Requests,
           NEW to, req.kind = "path" => to \in Text
    PROVE  Kept(w, TargetApi(w, parent, req, to))
           /\ (Ok(TargetApi(w, parent, req, to)) => TargetApi(w, parent, req, to).val \in ApiOrNull)
<1> DEFINE near1 == /\ req.kind = "path" /\ Dirname(to) = Dirname(parent.at)
                    /\ parent # NoParent /\ parent.api \notin {Null, Unset}
<1>0. PICK x : x = TargetApi(w, parent, req, to)
  OBVIOUS
<1>1. CASE req.kind # "path"
  <2>1. x = [w EXCEPT !.val = Null]
    BY <1>0, <1>1 DEF TargetApi
  <2> QED
    BY <1>0, <2>1, KeptSame DEF ApiOrNull
<1>2. CASE near1
  <2>1. x = [w EXCEPT !.val = parent.api]
    BY <1>0, <1>2, Zenon DEF TargetApi
  <2>2. parent.api \in ApiOrNull
    BY <1>2 DEF Modules
  <2> QED
    BY <1>0, <2>1, <2>2, KeptSame
<1>3. CASE req.kind = "path" /\ ~near1
  <2>1. x = FindApiPathFor(w, to)
    BY <1>0, <1>3, Zenon DEF TargetApi
  <2>2. to \in Text
    BY <1>3
  <2> HIDE DEF near1
  <2> QED
    BY <1>0, <2>1, <2>2, FindKnown, SearchedKept
<1> QED
  BY <1>1, <1>2, <1>3

\* The API found is asked, if there is one.
LEMMA TryTargetKnown ==
    ASSUME NEW w, Known(w), FileKnown(w), FilesKnown, Ok(w) => w.val \in ApiOrNull,
           NEW parent \in Modules, NEW req \in Requests, NEW slip \in BOOLEAN
    PROVE  Kept(w, TryTarget(w, parent, req, slip))
<1>1. CASE ~Ok(w) \/ w.val = Null
  <2>1. PICK v : v = "next"
    OBVIOUS
  <2>2. TryTarget(w, parent, req, slip) = [w EXCEPT !.val = v]
    BY <1>1, <2>1, Zenon DEF TryTarget
  <2> QED
    BY <2>2, KeptSame
<1>2. CASE ~(~Ok(w) \/ w.val = Null)
  <2>1. TryTarget(w, parent, req, slip) = Try(w, w.val, parent, req, slip)
    BY <1>2, Zenon DEF TryTarget
  <2>2. PICK v \in ApiOrNull : v = w.val
    BY <1>2
  <2> QED
    BY <2>1, <2>2, TryKnown
<1> QED
  BY <1>1, <1>2

\* A relative request starts from the directory of its parent.
LEMMA AbsoluteIs ==
    ASSUME NEW parent \in Modules, NEW req \in Requests, req.kind = "path"
    PROVE  Absolute(req, File(parent.at)) \in Text
<1>1. PICK at : at = Dirname(parent.at)
  OBVIOUS
<1>2. at \in Places
  BY <1>1 DEF Modules
<1>3. Absolute(req, Path(at, TRUE)) \in Seq(STRING)
  BY <1>2, PlacesAssumption, Zenon
<1>4. Absolute(req, Path(at, TRUE)) = IF req.abs THEN req.to ELSE Join(at, req.to)
  <2>1. Path(at, TRUE).dir /\ Path(at, TRUE).at = at
    BY DEF Path
  <2> QED
    BY <2>1, Zenon DEF Absolute
<1>5. Absolute(req, File(parent.at)) = IF req.abs THEN req.to ELSE Join(at, req.to)
  <2>1. ~File(parent.at).dir /\ File(parent.at).at = parent.at
    BY DEF File, Path
  <2> QED
    BY <2>1, <1>1, Zenon DEF Absolute
<1>6. PICK from : from = Absolute(req, Path(at, TRUE))
  BY Zenon
<1>7. from \in Text
  BY <1>3, <1>6, Zenon DEF Text
<1>8. from = IF req.abs THEN req.to ELSE Join(at, req.to)
  BY <1>4, <1>6, Zenon
<1> QED
  BY <1>5, <1>7, <1>8, Zenon

\* Module._resolveFilename.
LEMMA ResolveKnown ==
    ASSUME NEW w, Known(w), FileKnown(w), FilesKnown, NEW a \in ApiOrNull,
           NEW parent \in Modules, NEW req \in Requests, NEW slip \in BOOLEAN
    PROVE  Kept(w, ResolveFilename(w, a, parent, req, slip))
<1>1. PICK to : to = Absolute(req, File(parent.at))
  OBVIOUS
<1>2. PICK x : x = TargetApi(w, parent, req, to)
  OBVIOUS
<1>3. PICK y : y = TryTarget(x, parent, req, slip)
  OBVIOUS
<1>4. PICK z : z = TryParent(y, a, parent, req, slip)
  OBVIOUS
<1>5. Kept(w, x) /\ (Ok(x) => x.val \in ApiOrNull)
  BY <1>1, <1>2, AbsoluteIs, TargetKnown
<1>6. Kept(x, y)
  BY <1>3, <1>5, TryTargetKnown DEF Kept
<1>7. Kept(y, z)
  <2>1. CASE ~Ok(y) \/ y.val = "found"
    <3>1. z = y
      BY <2>1, <1>4, Zenon DEF TryParent
    <3> QED
      BY <3>1, <1>6, KeptSame DEF Kept
  <2>2. CASE ~(~Ok(y) \/ y.val = "found")
    <3>1. z = Try(y, a, parent, req, slip)
      BY <2>2, <1>4, Zenon DEF TryParent
    <3> QED
      BY <3>1, <1>6, TryKnown DEF Kept
  <2> QED
    BY <2>1, <2>2
<1>8. ResolveFilename(w, a, parent, req, slip) = OrNotFound(z)
  BY <1>1, <1>2, <1>3, <1>4, Zenon DEF ResolveFilename
<1>9. Kept(z, OrNotFound(z))
  <2>0. Known(z) /\ FileKnown(z)
    BY <1>7 DEF Kept
  <2>1. CASE Ok(z) /\ z.val # "found"
    <3>1. OrNotFound(z) = Throw(z, "MODULE_NOT_FOUND")
      BY <2>1, Zenon DEF OrNotFound
    <3> QED
      BY <3>1, <2>0, ErrorsEnd, ThrowKept
  <2>2. CASE ~(Ok(z) /\ z.val # "found")
    <3>1. OrNotFound(z) = z
      BY <2>2, Zenon DEF OrNotFound
    <3> QED
      BY <3>1, <2>0, KeptSame
  <2> QED
    BY <2>1, <2>2
<1>10. Kept(w, y)
  BY <1>5, <1>6, KeptTwice
<1>11. Kept(w, z)
  BY <1>7, <1>10, KeptTwice
<1> QED
  BY <1>8, <1>9, <1>11, KeptTwice

-----------------------------------------------------------------------------
(* Module._load.                                                            *)

\* The API whose cache a file belongs to.
LEMMA OwnerKnown ==
    ASSUME NEW w, Known(w), FileKnown(w), NEW a \in ApiOrNull
    PROVE  Kept(w, OwnerOf(w, a)) /\ (Ok(OwnerOf(w, a)) => OwnerOf(w, a).val \in ApiOrNull)
<1> DEFINE owner == FindPackageLocator(Data(w.meta, a), File(w.file))
<1>0. PICK x : x = OwnerOf(w, a)
  OBVIOUS
<1>1. CASE ~Ok(w)
  <2>1. x = w
    BY <1>0, <1>1, Zenon DEF OwnerOf
  <2> QED
    BY <1>0, <1>1, <2>1, KeptSame
<1>2. CASE Ok(w)
  <2>1. x = KeptBy(w, a, owner)
    BY <1>0, <1>2, Zenon DEF OwnerOf
  <2>2. CASE owner = Forbidden
    <3>1. owner # None
      BY <2>2 DEF Forbidden, None
    <3>2. x = Throw(w, "BLACKLISTED")
      BY <2>1, <2>2, <3>1, Zenon DEF KeptBy
    <3> HIDE DEF owner
    <3> QED
      BY <1>0, <3>2, ErrorsEnd, ThrowKept
  <2>3. CASE owner = None
    <3>1. owner # Forbidden
      BY <2>3 DEF Forbidden, None
    <3>2. x = FindApiPathFor(w, Dirname(w.file))
      BY <2>1, <2>3, <3>1, Zenon DEF KeptBy
    <3>3. Dirname(w.file) \in Text
      BY PlacesAssumption DEF FileKnown, Text
    <3> HIDE DEF owner
    <3> QED
      BY <1>0, <3>2, <3>3, FindKnown, SearchedKept
  <2>4. CASE owner # Forbidden /\ owner # None
    <3>1. x = [w EXCEPT !.val = a]
      BY <2>1, <2>4, Zenon DEF KeptBy
    <3> HIDE DEF owner
    <3> QED
      BY <1>0, <3>1, KeptSame
  <2> HIDE DEF owner
  <2> QED
    BY <2>2, <2>3, <2>4
<1> QED
  BY <1>1, <1>2

\* The file of a request, and the API that keeps it.
LEMMA LoadedKnown ==
    ASSUME NEW w, Known(w), FileKnown(w), FilesKnown, NEW a \in ApiOrNull,
           NEW parent \in Modules, NEW req \in Requests, NEW slip \in BOOLEAN
    PROVE  LET x == LoadedBy(w, a, parent, req, slip)
           IN Kept(w, x) /\ (Ok(x) /\ a # Null => x.val \in ApiOrNull)
<1> DEFINE x == LoadedBy(w, a, parent, req, slip)
<1>1. PICK y : y = Resolved(w, a, parent, req, slip)
  OBVIOUS
<1>2. Kept(w, y)
  <2>1. CASE Ok(w)
    <3>1. y = ResolveFilename(w, a, parent, req, slip)
      BY <1>1, <2>1, Zenon DEF Resolved
    <3> QED
      BY <3>1, ResolveKnown
  <2>2. CASE ~Ok(w)
    <3>1. y = w
      BY <1>1, <2>2, Zenon DEF Resolved
    <3> QED
      BY <3>1, KeptSame
  <2> QED
    BY <2>1, <2>2
<1>3. ASSUME a = Null PROVE Kept(w, x) /\ (Ok(x) /\ a # Null => x.val \in ApiOrNull)
  <2>1. x = y
    BY <1>1, <1>3, Zenon DEF LoadedBy, OwnerOpened
  <2> HIDE DEF x
  <2> QED
    BY <2>1, <1>2, <1>3
<1>4. ASSUME a # Null PROVE Kept(w, x) /\ (Ok(x) /\ a # Null => x.val \in ApiOrNull)
  <2>1. PICK z : z = OwnerOf(y, a)
    OBVIOUS
  <2>2. PICK f \in BOOLEAN : f = FALSE
    OBVIOUS
  <2>3. x = GetApiEntry(z, z.val, f, slip)
    BY <1>1, <1>4, <2>1, <2>2, Zenon DEF LoadedBy, OwnerOpened
  <2> HIDE DEF x
  <2>4. Known(y) /\ FileKnown(y)
    BY <1>2 DEF Kept
  <2>5. Kept(y, z) /\ (Ok(z) => z.val \in ApiOrNull)
    BY <2>1, <2>4, OwnerKnown
  <2>6. Kept(w, z) /\ Known(z) /\ FileKnown(z)
    BY <1>2, <2>5, KeptTwice DEF Kept
  <2>7. CASE Ok(z)
    <3>1. PICK v \in ApiOrNull : v = z.val
      BY <2>5, <2>7
    <3>2. Opened(z, x, v, slip)
      BY <2>3, <2>6, <3>1, GetKnown
    <3>3. Kept(z, x) /\ x.val = z.val
      BY <2>6, <3>2, OpenedKept DEF Opened
    <3>4. Kept(w, x)
      BY <2>6, <3>3, KeptTwice
    <3> QED
      BY <3>1, <3>3, <3>4
  <2>8. CASE ~Ok(z)
    <3>1. x = z
      BY <2>3, <2>8, GetFailed
    <3> QED
      BY <2>6, <2>8, <3>1
  <2> QED
    BY <2>7, <2>8
<1> HIDE DEF x
<1>5. Kept(w, x) /\ (Ok(x) /\ a # Null => x.val \in ApiOrNull)
  BY <1>3, <1>4
<1> QED
  BY <1>5 DEF x

\* The module that a file becomes.
LEMMA WantedKnown ==
    ASSUME NEW w, FileKnown(w), NEW a \in ApiOrNull, a # Null => w.val \in ApiOrNull
    PROVE  Wanted(w, a) \in Modules
<1> DEFINE m == Wanted(w, a)
<1>1. CASE a = Null
  <2>1. m = [cache |-> Initial, at |-> w.file, api |-> Unset]
    BY <1>1 DEF Wanted, Module
  <2> HIDE DEF m
  <2>2. m \in Modules
    BY <2>1, InitialIsAnApi DEF Modules, FileKnown
  <2> QED
    BY <2>2 DEF m
<1>2. CASE a # Null
  <2>1. PICK v \in ApiOrNull : v = w.val
    BY <1>2
  <2>2. m = [cache |-> CacheOf(v), at |-> w.file, api |-> v]
    BY <1>2, <2>1 DEF Wanted, Module
  <2>3. CacheOf(v) \in Apis \cup {Null, Default}
    BY <2>1 DEF CacheOf, ApiOrNull
  <2> HIDE DEF m
  <2>4. m \in Modules
    BY <2>2, <2>3 DEF Modules, FileKnown
  <2> QED
    BY <2>4 DEF m
<1> QED
  BY <1>1, <1>2

\* A module that gets an API stays in its cache and its file.
LEMMA NamedKnown ==
    ASSUME NEW m \in Modules, NEW parent, NEW api \in ApiOrNull \cup {Unset}
    PROVE  /\ Named(m, parent, api) \in Modules
           /\ Named(m, parent, api).cache = m.cache /\ Named(m, parent, api).at = m.at
BY DEF Named, Modules

\* What a require hands to the caches and to the stack.
LEMMA LoadingKnown ==
    ASSUME PnpInv, NEW parent \in Modules, NEW req \in Requests, NEW slip \in BOOLEAN
    PROVE  LET load == Loading(parent, req, slip)
           IN /\ Known(load.world)
              /\ load.parent \in Modules
              /\ load.parent.cache = parent.cache /\ load.parent.at = parent.at
              /\ Ok(load.world) => load.wanted \in Modules
<1> DEFINE load == Loading(parent, req, slip)
<1>1. FilesKnown /\ Known(World) /\ Ok(World) /\ FileKnown(World)
  <2>1. World.file = << >> /\ << >> \in Places /\ << >> \in Text /\ Dirname(<< >>) = << >>
    BY PlacesAssumption DEF World, Text, Dirname
  <2>2. FileKnown(World)
    BY <2>1 DEF FileKnown
  <2> QED
    BY <2>2, WorldKnown DEF PnpInv
<1>2. PICK first : first = World
  OBVIOUS
<1>3. PICK named : named = ApiPathFromParent(first, parent)
  OBVIOUS
<1>4. parent.at \in Text /\ parent.api \in ApiOrNull \cup {Unset}
  BY DEF Modules
<1>5. Kept(first, named) /\ (Ok(named) => named.val \in ApiOrNull)
  <2>1. CASE parent.api = Unset
    <3>1. named = FindApiPathFor(first, parent.at)
      BY <1>3, <2>1, Zenon DEF ApiPathFromParent
    <3> QED
      BY <3>1, <1>1, <1>2, <1>4, FindKnown, SearchedKept
  <2>2. CASE parent.api # Unset
    <3>1. named = [first EXCEPT !.val = parent.api]
      BY <1>3, <2>2, Zenon DEF ApiPathFromParent
    <3>2. PICK v \in ApiOrNull : v = parent.api
      BY <1>4, <2>2
    <3> QED
      BY <3>1, <3>2, <1>1, <1>2, KeptSame
  <2> QED
    BY <2>1, <2>2
<1>6. PICK a : a = named.val
  OBVIOUS
<1>7. PICK t \in BOOLEAN : t = TRUE
  OBVIOUS
<1>8. PICK opened : opened = GetApiEntry(named, a, t, slip)
  OBVIOUS
<1>9. PICK loaded : loaded = LoadedBy(opened, a, parent, req, slip)
  OBVIOUS
<1>10. PICK kept : kept = IF Ok(named) THEN Named(parent, parent, a) ELSE parent
  BY Zenon
<1>11. load = Outcome(loaded, a, kept)
  BY <1>2, <1>3, <1>6, <1>7, <1>8, <1>9, <1>10, Zenon DEF Loading, LoadingNamed, LoadingOf
<1>12. load.world = loaded /\ load.wanted = Wanted(loaded, a) /\ load.parent = kept
  <2> HIDE DEF load
  <2> QED
    BY <1>11 DEF Outcome
<1> HIDE DEF load
<1>13. kept \in Modules /\ kept.cache = parent.cache /\ kept.at = parent.at
  <2>1. CASE Ok(named)
    <3>1. kept = Named(parent, parent, a) /\ a \in ApiOrNull
      BY <1>5, <1>6, <1>10, <2>1, Zenon
    <3> QED
      BY <3>1, NamedKnown
  <2>2. CASE ~Ok(named)
    <3>1. kept = parent
      BY <1>10, <2>2, Zenon
    <3> QED
      BY <3>1
  <2> QED
    BY <2>1, <2>2
<1>14. Known(loaded) /\ (Ok(loaded) => Wanted(loaded, a) \in Modules)
  <2>0. Known(named) /\ FileKnown(named)
    BY <1>5 DEF Kept
  <2>1. CASE Ok(named)
    <3>1. a \in ApiOrNull
      BY <1>5, <1>6, <2>1
    <3>2. Kept(named, opened)
      BY <1>1, <1>8, <2>0, <3>1, GetKnown, OpenedKept
    <3>3. Kept(opened, loaded) /\ (Ok(loaded) /\ a # Null => loaded.val \in ApiOrNull)
      BY <1>1, <1>9, <3>1, <3>2, LoadedKnown DEF Kept
    <3> QED
      BY <3>1, <3>3, WantedKnown DEF Kept
  <2>2. CASE ~Ok(named)
    <3>1. opened = named
      BY <1>8, <2>2, GetFailed
    <3>2. PICK y : y = Resolved(named, a, parent, req, slip)
      OBVIOUS
    <3>3. y = named
      BY <2>2, <3>2, Zenon DEF Resolved
    <3>4. OwnerOf(named, a) = named
      BY <2>2, Zenon DEF OwnerOf
    <3>5. PICK f \in BOOLEAN : f = FALSE
      OBVIOUS
    <3>6. GetApiEntry(named, named.val, f, slip) = named
      BY <2>2, GetFailed
    <3>7. OwnerOpened(named, a, slip) = named
      BY <3>5, <3>6, Zenon DEF OwnerOpened
    <3>8. loaded = named
      BY <1>9, <3>1, <3>2, <3>3, <3>4, <3>7, Zenon DEF LoadedBy
    <3> QED
      BY <3>8, <2>0, <2>2
  <2> QED
    BY <2>1, <2>2
<1>15. /\ Known(load.world)
       /\ load.parent \in Modules
       /\ load.parent.cache = parent.cache /\ load.parent.at = parent.at
       /\ Ok(load.world) => load.wanted \in Modules
  BY <1>12, <1>13, <1>14
<1> QED
  BY <1>15 DEF load

-----------------------------------------------------------------------------
(* The steps of the loader.                                                 *)

\* A require comes from a module, or from the program itself.
LEMMA ParentsAreModules == ModulesKnown => Parents \subseteq Modules
<1> SUFFICES ASSUME ModulesKnown PROVE Parents \subseteq Modules
  OBVIOUS
<1>1. NoParent \in Modules
  <2>1. NoParent = [cache |-> Null, at |-> << >>, api |-> Initial]
    BY DEF NoParent, Module
  <2>2. << >> \in Text /\ << >> \in Places /\ Dirname(<< >>) = << >>
    BY PlacesAssumption DEF Text, Dirname
  <2>3. PICK m : m = NoParent
    OBVIOUS
  <2>4. m \in [cache : Apis \cup {Null, Default}, at : Text, api : ApiOrNull \cup {Unset}] /\ m.at = << >>
    BY <2>1, <2>2, <2>3, InitialIsAnApi DEF ApiOrNull
  <2> QED
    BY <2>2, <2>3, <2>4 DEF Modules
<1>2. CASE stack # << >>
  <2>1. Last(stack) \in Modules
    BY <1>2 DEF ModulesKnown, Last
  <2> QED
    BY <1>2, <2>1 DEF Parents
<1>3. CASE stack = << >>
  BY <1>1, <1>3 DEF Parents, ModulesKnown
<1> QED
  BY <1>2, <1>3

\* A file replaced by an installation.
LEMMA ReplacedIs ==
    ASSUME NEW file \in [version : Nat, mtime : Nat, state : {"good", "bad", "gone"}]
    PROVE  /\ Replaced(file) \in [version : Nat, mtime : Nat, state : {"good", "bad", "gone"}]
           /\ Replaced(file).mtime = file.mtime + 1
BY DEF Replaced

\* A require leaves the instances as they were found, and the files too: only
\* one that was replaced between load and stat is newer.
LEMMA FilesAfterRequire ==
    ASSUME FilesKnown, NEW w, Known(w), meta' = w.meta, slipped' = w.slipped,
           pnp' = [f \in Apis |-> IF f \in slipped' \ slipped THEN Replaced(pnp[f]) ELSE pnp[f]],
           \A f \in Apis : pnp'[f].version \in DOMAIN Raw[f]
    PROVE  FilesKnown'
<1>1. pnp' \in Files
  <2>1. ASSUME NEW f \in Apis
        PROVE  pnp'[f] \in [version : Nat, mtime : Nat, state : {"good", "bad", "gone"}]
    <3>1. pnp[f] \in [version : Nat, mtime : Nat, state : {"good", "bad", "gone"}]
      BY DEF FilesKnown, Files
    <3> QED
      BY <3>1, ReplacedIs
  <2> QED
    BY <2>1 DEF Files
<1>2. IsMeta(meta') /\ slipped' \subseteq DOMAIN meta'
  BY DEF Known, InstancesKnown
<1>3. ASSUME NEW a \in DOMAIN meta' PROVE UpToDate(a, meta'[a], pnp'[a], a \in slipped')
  <2>0. a \in Apis /\ InstanceKnown(w, a) /\ w.meta[a] \in Entries
        /\ pnp[a] \in [version : Nat, mtime : Nat, state : {"good", "bad", "gone"}]
    BY DEF Known, InstancesKnown, IsMeta, FilesKnown, Files
  <2>1. CASE a \in New(w)
    <3>1. pnp'[a].mtime = pnp[a].mtime + 1
      BY <2>0, <2>1, ReplacedIs DEF New
    <3>2. w.meta[a].mtime = pnp'[a].mtime /\ w.meta[a].mtime \in Nat /\ w.meta[a].version \in DOMAIN Raw[a]
      BY <2>0, <2>1, <3>1 DEF InstanceKnown, Entries
    <3>3. a \in slipped'
      BY <2>1 DEF New
    <3> QED
      BY <3>2, <3>3 DEF UpToDate
  <2>2. CASE a \notin New(w)
    <3>1. pnp'[a] = pnp[a]
      BY <2>0, <2>2 DEF New
    <3>2. UpToDate(a, w.meta[a], pnp[a], a \in w.slipped)
      BY <2>0, <2>2 DEF InstanceKnown
    <3> QED
      BY <3>1, <3>2 DEF UpToDate
  <2> QED
    BY <2>1, <2>2
<1> QED
  BY <1>1, <1>2, <1>3 DEF FilesKnown

\* Modules in the caches stay there when one of them gets an API.
LEMMA CacheAfterRequire ==
    ASSUME cache \subseteq Modules, NEW parent, NEW api \in ApiOrNull \cup {Unset},
           NEW more, more \subseteq Modules,
           cache' = {Named(m, parent, api) : m \in cache} \cup more
    PROVE  /\ cache' \subseteq Modules
           /\ \A m : Cached(m) => Cached(m)'
           /\ \A m \in more : Cached(m)'
<1>1. cache' \subseteq Modules
  BY NamedKnown
<1>2. ASSUME NEW m, Cached(m) PROVE Cached(m)'
  <2>1. PICK c \in cache : c.cache = m.cache /\ c.at = m.at
    BY <1>2 DEF Cached
  <2>2. Named(c, parent, api) \in cache'
    OBVIOUS
  <2>3. Named(c, parent, api).cache = m.cache /\ Named(c, parent, api).at = m.at
    BY <2>1, NamedKnown
  <2> QED
    BY <2>2, <2>3 DEF Cached
<1>3. ASSUME NEW m \in more PROVE Cached(m)'
  BY DEF Cached
<1> QED
  BY <1>1, <1>2, <1>3

\* The same code runs, whatever API its modules have.
SameFiles(s, t) ==
    /\ t \in Seq(Modules) /\ Len(t) = Len(s)
    /\ \A i \in DOMAIN s : t[i].cache = s[i].cache /\ t[i].at = s[i].at

\* A sequence without its last element.
LEMMA FrontIs ==
    ASSUME NEW S, NEW s \in Seq(S), s # << >>
    PROVE  /\ Front(s) \in Seq(S) /\ Len(Front(s)) = Len(s) - 1
           /\ \A i \in 1 .. (Len(s) - 1) : Front(s)[i] = s[i]
<1>1. Front(s) = Up(s, Len(s) - 1)
  BY DEF Front, Up
<1>2. Len(s) - 1 \in 0 .. Len(s)
  OBVIOUS
<1> QED
  BY <1>1, <1>2, UpIs

\* The module that requires may get an API.
LEMMA NamedOnTop ==
    ASSUME stack \in Seq(Modules), stack # << >>, NEW m \in Modules,
           m.cache = Last(stack).cache, m.at = Last(stack).at
    PROVE  SameFiles(stack, Append(Front(stack), m))
<1>1. PICK s \in Seq(Modules) : s = stack
  OBVIOUS
<1>2. s # << >> /\ m.cache = s[Len(s)].cache /\ m.at = s[Len(s)].at
  BY <1>1 DEF Last
<1>3. PICK t : t = Front(s)
  OBVIOUS
<1>4. Len(s) \in Nat /\ Len(s) >= 1
  BY <1>2
<1>5. t \in Seq(Modules) /\ Len(t) = Len(s) - 1 /\ \A i \in 1 .. (Len(s) - 1) : t[i] = s[i]
  BY <1>2, <1>3, FrontIs
<1>6. SameFiles(s, Append(t, m))
  <2>1. Append(t, m) \in Seq(Modules) /\ Len(Append(t, m)) = Len(s)
    BY <1>4, <1>5
  <2>2. \A i \in 1 .. Len(s) : Append(t, m)[i] = IF i = Len(s) THEN m ELSE s[i]
    BY <1>4, <1>5
  <2> QED
    BY <1>2, <2>1, <2>2 DEF SameFiles
<1>7. Front(stack) = t
  BY <1>1, <1>3
<1> QED
  BY <1>1, <1>6, <1>7

\* A module is put on the stack only when it was not in its cache.
LEMMA StackAfterRequire ==
    ASSUME ModulesKnown, NoReentry, NEW t, SameFiles(stack, t), \A m : Cached(m) => Cached(m)',
           cache' \subseteq Modules,
           \/ stack' = t
           \/ \E m \in Modules : stack' = Append(t, m) /\ ~Cached(m) /\ Cached(m)'
    PROVE  ModulesKnown' /\ NoReentry'
<1>1. /\ t \in Seq(Modules) /\ Len(t) = Len(stack)
      /\ \A i \in 1 .. Len(t) : t[i].cache # Initial => Cached(t[i]) /\ Cached(t[i])'
      /\ \A i, j \in 1 .. Len(t) : i < j /\ t[i].at = t[j].at /\ t[i].cache = t[j].cache =>
                                      t[i].cache = Initial
  <2>1. /\ t \in Seq(Modules) /\ Len(t) = Len(stack) /\ stack \in Seq(Modules)
        /\ \A i \in 1 .. Len(t) : t[i].cache = stack[i].cache /\ t[i].at = stack[i].at
    BY DEF SameFiles, ModulesKnown
  <2>2. \A i \in 1 .. Len(t) : t[i].cache # Initial => Cached(t[i])
    BY <2>1 DEF ModulesKnown, Cached
  <2> QED
    BY <2>1, <2>2 DEF NoReentry
<1>2. CASE stack' = t
  BY <1>1, <1>2 DEF ModulesKnown, NoReentry
<1>3. CASE \E m \in Modules : stack' = Append(t, m) /\ ~Cached(m) /\ Cached(m)'
  <2>1. PICK m \in Modules : stack' = Append(t, m) /\ ~Cached(m) /\ Cached(m)'
    BY <1>3
  <2>2. /\ stack' \in Seq(Modules) /\ DOMAIN stack' = 1 .. (Len(t) + 1)
        /\ stack'[Len(t) + 1] = m /\ \A i \in 1 .. Len(t) : stack'[i] = t[i]
    BY <1>1, <2>1
  <2>3. ModulesKnown'
    BY <1>1, <2>1, <2>2 DEF ModulesKnown
  <2>4. ASSUME NEW i \in DOMAIN stack', NEW j \in DOMAIN stack', i < j,
               stack'[i].at = stack'[j].at, stack'[i].cache = stack'[j].cache
        PROVE  stack'[i].cache = Initial
    <3>1. i \in 1 .. Len(t) /\ stack'[i] = t[i]
      BY <1>1, <2>2, <2>4
    <3>2. CASE j = Len(t) + 1
      BY <1>1, <2>1, <2>2, <2>4, <3>1, <3>2 DEF Cached
    <3>3. CASE j # Len(t) + 1
      <4>1. j \in 1 .. Len(t) /\ stack'[j] = t[j]
        BY <2>2, <3>3
      <4> QED
        BY <1>1, <2>4, <3>1, <4>1
    <3> QED
      BY <3>2, <3>3
  <2> QED
    BY <2>3, <2>4 DEF NoReentry
<1> QED
  BY <1>2, <1>3

\* A require keeps the invariant, whatever it finds and whoever asks.
LEMMA RequireKept ==
    ASSUME PnpInv, NEW parent \in Parents, NEW req \in Requests, NEW slip \in BOOLEAN,
           Require(parent, req, slip)
    PROVE  PnpInv'
<1>0. FilesKnown /\ ModulesKnown /\ NoReentry /\ parent \in Modules
  BY ParentsAreModules DEF PnpInv
<1>1. PICK load : load = Loading(parent, req, slip)
  OBVIOUS
<1>2. /\ Known(load.world)
      /\ load.parent \in Modules
      /\ load.parent.cache = parent.cache /\ load.parent.at = parent.at
      /\ Ok(load.world) => load.wanted \in Modules
  BY <1>0, <1>1, LoadingKnown
<1>3. PICK w : w = load.world
  OBVIOUS
<1>4. PICK wanted : wanted = load.wanted
  OBVIOUS
<1>5. PICK runs \in BOOLEAN : runs <=> Ok(w) /\ ~Cached(wanted)
  <2>1. (Ok(w) /\ ~Cached(wanted)) \/ ~(Ok(w) /\ ~Cached(wanted))
    BY Zenon
  <2> QED
    BY <2>1, Zenon
<1>6. PICK t : t = IF stack = << >> THEN stack ELSE Append(Front(stack), load.parent)
  OBVIOUS
<1>7. /\ meta' = w.meta /\ near' = w.near /\ slipped' = w.slipped
      /\ pnp' = [f \in Apis |-> IF f \in slipped' \ slipped THEN Replaced(pnp[f]) ELSE pnp[f]]
      /\ \A f \in Apis : pnp'[f].version \in DOMAIN Raw[f]
      /\ cache' = {Named(m, parent, load.parent.api) : m \in cache} \cup (IF runs THEN {wanted} ELSE {})
      /\ stack' = IF runs THEN Append(t, wanted) ELSE t
  <2>1. /\ meta' = w.meta /\ near' = w.near /\ slipped' = w.slipped
        /\ pnp' = [f \in Apis |-> IF f \in slipped' \ slipped THEN Replaced(pnp[f]) ELSE pnp[f]]
        /\ \A f \in Apis : pnp'[f].version \in DOMAIN Raw[f]
    BY <1>1, <1>3, Zenon DEF Require
  <2>2. /\ cache' = {Named(m, parent, load.parent.api) : m \in cache} \cup
                    (IF Ok(w) /\ ~Cached(wanted) THEN {wanted} ELSE {})
        /\ stack' = IF Ok(w) /\ ~Cached(wanted) THEN Append(t, wanted) ELSE t
    <3>1. cache' = {Named(m, parent, load.parent.api) : m \in cache} \cup
                   (IF Ok(load.world) /\ ~Cached(load.wanted) THEN {load.wanted} ELSE {})
      BY <1>1, Zenon DEF Require
    <3>2. stack' = IF Ok(load.world) /\ ~Cached(load.wanted)
                   THEN Append(IF stack = << >> THEN stack ELSE Append(Front(stack), load.parent),
                               load.wanted)
                   ELSE IF stack = << >> THEN stack ELSE Append(Front(stack), load.parent)
      BY <1>1, Zenon DEF Require
    <3>3. CASE Ok(w) /\ ~Cached(wanted)
      BY <3>1, <3>2, <3>3, <1>3, <1>4, <1>6, Zenon
    <3>4. CASE ~(Ok(w) /\ ~Cached(wanted))
      BY <3>1, <3>2, <3>4, <1>3, <1>4, <1>6, Zenon
    <3> QED
      BY <3>3, <3>4, Zenon
  <2>3. CASE runs
    BY <2>1, <2>2, <2>3, <1>5, Zenon
  <2>4. CASE ~runs
    BY <2>1, <2>2, <2>4, <1>5, Zenon
  <2> QED
    BY <2>3, <2>4
<1>8. FilesKnown'
  BY <1>0, <1>2, <1>3, <1>7, FilesAfterRequire
<1>9. IsNear(near)'
  BY <1>2, <1>3, <1>7 DEF Known, IsNear, AnswerHolds
<1>10. SameFiles(stack, t)
  <2>1. CASE stack = << >>
    BY <1>0, <1>6, <2>1 DEF SameFiles, ModulesKnown
  <2>2. CASE stack # << >>
    <3>1. parent = Last(stack)
      BY <2>2 DEF Parents
    <3>2. stack \in Seq(Modules)
      BY <1>0 DEF ModulesKnown
    <3> QED
      BY <1>2, <1>6, <2>2, <3>1, <3>2, NamedOnTop
  <2> QED
    BY <2>1, <2>2
<1>11. PICK more : more = IF runs THEN {wanted} ELSE {}
  OBVIOUS
<1>12. more \subseteq Modules
  <2>1. CASE runs
    <3>1. wanted \in Modules
      BY <1>2, <1>3, <1>4, <1>5, <2>1, Zenon
    <3> QED
      BY <3>1, <1>11, <2>1
  <2>2. CASE ~runs
    BY <1>11, <2>2
  <2> QED
    BY <2>1, <2>2
<1>13. PICK api \in ApiOrNull \cup {Unset} : api = load.parent.api
  BY <1>2 DEF Modules
<1>14. /\ cache' \subseteq Modules
       /\ \A m : Cached(m) => Cached(m)'
       /\ \A m \in more : Cached(m)'
  <2>1. cache' = {Named(m, parent, api) : m \in cache} \cup more
    BY <1>7, <1>11, <1>13
  <2>2. cache \subseteq Modules
    BY <1>0 DEF ModulesKnown
  <2> QED
    BY <2>1, <2>2, <1>12, CacheAfterRequire
<1>15. \/ stack' = t
       \/ \E m \in Modules : stack' = Append(t, m) /\ ~Cached(m) /\ Cached(m)'
  <2>1. CASE runs
    <3>1. wanted \in more /\ ~Cached(wanted) /\ stack' = Append(t, wanted)
      BY <1>5, <1>7, <1>11, <2>1
    <3>2. wanted \in Modules /\ Cached(wanted)'
      BY <3>1, <1>12, <1>14
    <3> QED
      BY <3>1, <3>2
  <2>2. CASE ~runs
    BY <1>7, <2>2
  <2> QED
    BY <2>1, <2>2
<1>16. ModulesKnown' /\ NoReentry'
  BY <1>0, <1>10, <1>14, <1>15, StackAfterRequire
<1> QED
  BY <1>8, <1>9, <1>16 DEF PnpInv

\* The program's question changes no file.
LEMMA FindKept ==
    ASSUME PnpInv, NEW at \in Asks, FindPnpApi(at)
    PROVE  PnpInv'
<1>1. PICK t \in BOOLEAN : t = TRUE
  OBVIOUS
<1>2. PICK f \in BOOLEAN : f = FALSE
  OBVIOUS
<1>3. PICK first : first = World
  OBVIOUS
<1>4. PICK found : found = FindApiPathFor(first, at)
  OBVIOUS
<1>5. PICK w : w = GetApiEntry(found, found.val, t, f)
  OBVIOUS
<1>6. /\ meta' = w.meta /\ near' = w.near
      /\ UNCHANGED <<pnp, cache, stack, loads, slipped, failed>>
  BY <1>1, <1>2, <1>3, <1>4, <1>5, Zenon DEF FindPnpApi, Asked
<1>7. Known(first) /\ first.slipped = slipped /\ at \in Text
  <2>1. Known(first)
    BY <1>3, WorldKnown
  <2>2. World.slipped = slipped
    BY DEF World
  <2>3. at \in Text
    BY PlacesAssumption DEF Text
  <2> QED
    BY <2>1, <2>2, <2>3, <1>3
<1>8. Searched(first, found)
  BY <1>4, <1>7, FindKnown
<1>9. Known(w) /\ w.slipped = slipped
  <2>1. CASE Ok(found)
    <3>1. PICK a \in ApiOrNull : a = found.val
      BY <1>8, <2>1 DEF Searched
    <3>2. Opened(found, w, a, f)
      BY <1>5, <1>8, <3>1, GetKnown DEF Searched, PnpInv
    <3> QED
      BY <1>2, <1>7, <1>8, <3>2 DEF Opened, Searched
  <2>2. CASE ~Ok(found)
    <3>1. w = found
      BY <1>5, <2>2, GetFailed
    <3> QED
      BY <3>1, <1>7, <1>8 DEF Searched
  <2> QED
    BY <2>1, <2>2
<1>10. FilesKnown'
  <2>1. IsMeta(meta') /\ slipped' \subseteq DOMAIN meta'
    BY <1>6, <1>9 DEF Known, InstancesKnown
  <2>2. ASSUME NEW a \in DOMAIN meta' PROVE UpToDate(a, meta'[a], pnp'[a], a \in slipped')
    <3>1. InstanceKnown(w, a) /\ a \notin New(w)
      BY <1>6, <1>9 DEF Known, InstancesKnown, New
    <3> QED
      BY <3>1, <1>6, <1>9 DEF InstanceKnown
  <2> QED
    BY <2>1, <2>2, <1>6 DEF PnpInv, FilesKnown
<1>11. IsNear(near)'
  BY <1>6, <1>9 DEF Known, IsNear, AnswerHolds
<1>12. ModulesKnown' /\ NoReentry'
  BY <1>6 DEF PnpInv, ModulesKnown, NoReentry, Cached
<1> QED
  BY <1>10, <1>11, <1>12 DEF PnpInv

\* Modules that end, return or throw, and those deleted from Module._cache.
LEMMA EndKept ==
    ASSUME PnpInv, Return \/ Fail \/ \E m \in cache : Delete(m)
    PROVE  PnpInv'
<1>1. FilesKnown' /\ IsNear(near)'
  BY DEF PnpInv, FilesKnown, IsNear, AnswerHolds, Return, Fail, Delete
<1>2. /\ stack \in Seq(Modules) /\ cache \subseteq Modules /\ NoReentry
      /\ \A i \in DOMAIN stack : stack[i].cache # Initial => Cached(stack[i])
  BY DEF PnpInv, ModulesKnown
<1>3. cache' \subseteq cache /\ \A m \in cache : m.cache # Initial => m \in cache'
  BY DEF Return, Fail, Delete, Uncached
<1>4. stack' = stack \/ (stack # << >> /\ stack' = Front(stack))
  BY DEF Return, Fail, Delete
<1>5. /\ stack' \in Seq(Modules) /\ Len(stack') <= Len(stack)
      /\ \A i \in DOMAIN stack' : stack'[i] = stack[i]
  <2>1. CASE stack' = stack
    BY <1>2, <2>1
  <2>2. CASE stack # << >> /\ stack' = Front(stack)
    BY <1>2, <2>2, FrontIs
  <2> QED
    BY <1>4, <2>1, <2>2
<1>6. DOMAIN stack' \subseteq DOMAIN stack
  BY <1>2, <1>5
<1>7. ModulesKnown'
  <2>1. ASSUME NEW m, NEW i \in DOMAIN stack', m = stack'[i], m.cache # Initial
        PROVE  Cached(m)'
    <3>1. m = stack[i] /\ stack'[i] = stack[i] /\ stack[i].cache # Initial /\ i \in DOMAIN stack
      BY <2>1, <1>5, <1>6
    <3>2. PICK c \in cache : c.cache = stack[i].cache /\ c.at = stack[i].at
      BY <3>1, <1>2 DEF Cached
    <3>3. c \in cache'
      BY <3>1, <3>2, <1>3
    <3> QED
      BY <3>1, <3>2, <3>3 DEF Cached
  <2> QED
    <3>1. cache' \subseteq Modules /\ stack' \in Seq(Modules)
      BY <1>2, <1>3, <1>5
    <3> QED
      BY <2>1, <3>1 DEF ModulesKnown, Cached
<1>8. NoReentry'
  BY <1>2, <1>5, <1>6 DEF NoReentry
<1> QED
  BY <1>1, <1>7, <1>8 DEF PnpInv

\* Time that passes and installations make no instance newer than its file.
LEMMA TickKept ==
    ASSUME PnpInv, Tick
    PROVE  PnpInv'
<1>1. FilesKnown
  BY DEF PnpInv
<1>2. PICK r \in BOOLEAN : r = FALSE
  OBVIOUS
<1>3. meta' = [a \in DOMAIN meta |-> [meta[a] EXCEPT !.recent = r]]
  BY <1>2, Zenon DEF Tick
<1>4. ASSUME NEW a \in DOMAIN meta
      PROVE  /\ meta'[a] \in Entries
             /\ meta'[a].version = meta[a].version /\ meta'[a].mtime = meta[a].mtime
  <2>1. meta[a] \in Entries
    BY <1>1 DEF FilesKnown, IsMeta
  <2>2. meta'[a] = [meta[a] EXCEPT !.recent = r]
    BY <1>3
  <2> QED
    BY <2>1, <2>2, EntryAsked
<1>5. IsMeta(meta')
  BY <1>1, <1>3, <1>4 DEF FilesKnown, IsMeta
<1>6. FilesKnown'
  BY <1>1, <1>3, <1>4, <1>5 DEF FilesKnown, UpToDate, Tick
<1>7. IsNear(near)' /\ ModulesKnown' /\ NoReentry'
  BY DEF PnpInv, Tick, IsNear, AnswerHolds, ModulesKnown, NoReentry, Cached
<1> QED
  BY <1>6, <1>7 DEF PnpInv

\* An installation that is done.
LEMMA InstallKept ==
    ASSUME PnpInv, NEW a \in Apis, NEW state \in {"good", "bad", "gone"}, Install(a, state)
    PROVE  PnpInv'
<1>1. FilesKnown
  BY DEF PnpInv
<1>2. PICK v : v = IF state = "good" THEN pnp[a].version + 1 ELSE pnp[a].version
  OBVIOUS
<1>3. pnp[a] \in [version : Nat, mtime : Nat, state : {"good", "bad", "gone"}] /\ pnp \in Files
  BY <1>1 DEF FilesKnown, Files
<1>4. v \in Nat
  BY <1>2, <1>3
<1>5. PICK file : file = [version |-> v, mtime |-> pnp[a].mtime + 1, state |-> state]
  OBVIOUS
<1>6. /\ pnp' = [pnp EXCEPT ![a] = file] /\ pnp'[a].version \in DOMAIN Raw[a]
      /\ UNCHANGED <<meta, near, cache, stack, loads, slipped, failed>>
  BY <1>2, <1>5, Zenon DEF Install
<1>7. file \in [version : Nat, mtime : Nat, state : {"good", "bad", "gone"}]
      /\ file.mtime = pnp[a].mtime + 1
  BY <1>3, <1>4, <1>5
<1>8. pnp' \in Files /\ pnp'[a] = file /\ \A b \in Apis : b # a => pnp'[b] = pnp[b]
  BY <1>3, <1>6, <1>7 DEF Files
<1>9. ASSUME NEW b \in DOMAIN meta PROVE UpToDate(b, meta[b], pnp'[b], b \in slipped)
  <2>1. b \in Apis /\ UpToDate(b, meta[b], pnp[b], b \in slipped) /\ meta[b] \in Entries
    BY <1>1 DEF FilesKnown, IsMeta
  <2>2. CASE b = a
    BY <2>1, <2>2, <1>3, <1>7, <1>8 DEF UpToDate, Entries
  <2>3. CASE b # a
    BY <2>1, <2>3, <1>8
  <2> QED
    BY <2>2, <2>3
<1>10. FilesKnown'
  BY <1>1, <1>6, <1>8, <1>9 DEF FilesKnown
<1>11. IsNear(near)' /\ ModulesKnown' /\ NoReentry'
  BY <1>6 DEF PnpInv, IsNear, AnswerHolds, ModulesKnown, NoReentry, Cached
<1> QED
  BY <1>10, <1>11 DEF PnpInv

\* The program starts with the instance it was started with.
LEMMA InitKnown == PnpInit => PnpInv
<1> SUFFICES ASSUME PnpInit PROVE PnpInv
  OBVIOUS
<1>1. PICK t \in BOOLEAN : t = TRUE
  OBVIOUS
<1>2. PICK e : e = [version |-> 1, mtime |-> 1, recent |-> t]
  OBVIOUS
<1>3. meta = [a \in {Initial} |-> e] /\ e \in Entries /\ e.version = 1 /\ e.mtime = 1
  <2>1. meta = [a \in {Initial} |-> e]
    BY <1>1, <1>2, Zenon DEF PnpInit
  <2>2. e \in Entries /\ e.version = 1 /\ e.mtime = 1
    BY <1>2 DEF Entries
  <2> QED
    BY <2>1, <2>2
<1>4. pnp = [a \in Apis |-> [version |-> 1, mtime |-> 1, state |-> "good"]] /\ slipped = {}
  BY DEF PnpInit
<1>5. IsMeta(meta)
  BY <1>3, InitialIsAnApi DEF IsMeta
<1>6. pnp \in Files /\ \A a \in Apis : pnp[a].version = 1 /\ pnp[a].mtime = 1
  BY <1>4 DEF Files
<1>7. FilesKnown
  BY <1>3, <1>4, <1>5, <1>6, InitialIsAnApi, RawAssumption DEF FilesKnown, UpToDate
<1>8. IsNear(near) /\ ModulesKnown /\ NoReentry
  BY DEF PnpInit, IsNear, AnswerHolds, ModulesKnown, NoReentry
<1> QED
  BY <1>7, <1>8 DEF PnpInv

\* What is known is what the property says.
LEMMA KnownIsTrue == PnpInv => LoadsTrue
<1> SUFFICES ASSUME PnpInv PROVE LoadsTrue
  OBVIOUS
<1>1. InstanceMatchesStats
  BY DEF PnpInv, FilesKnown, UpToDate, InstanceMatchesStats
<1>2. NearIsAbove
  BY DEF PnpInv, IsNear, AnswerHolds, NearIsAbove
<1> QED
  BY <1>1, <1>2 DEF PnpInv, LoadsTrue

\* Every step keeps the invariant.
LEMMA StepKept == PnpInv /\ [PnpNext]_pnpVars => PnpInv'
<1> SUFFICES ASSUME PnpInv, [PnpNext]_pnpVars PROVE PnpInv'
  OBVIOUS
<1>1. ASSUME NEW parent \in Parents, NEW req \in Requests, NEW slip \in {FALSE, DOMAIN meta # Apis},
             Require(parent, req, slip)
      PROVE  PnpInv'
  BY <1>1, RequireKept
<1>2. CASE Return \/ Fail \/ \E m \in cache : Delete(m)
  BY <1>2, EndKept
<1>3. CASE Tick
  BY <1>3, TickKept
<1>4. CASE \E at \in Asks : FindPnpApi(at)
  BY <1>4, FindKept
<1>5. CASE \E a \in Apis, state \in {"good", "bad", "gone"} : Install(a, state)
  BY <1>5, InstallKept
<1>6. CASE UNCHANGED pnpVars
  BY <1>6 DEF pnpVars, PnpInv, FilesKnown, IsNear, AnswerHolds, ModulesKnown, NoReentry, Cached
<1> QED
  BY <1>1, <1>2, <1>3, <1>4, <1>5, <1>6, Zenon DEF PnpNext

\* For any .pnp.js files, requests, installations and deletions: an instance
\* whose stats are those of its file was made from it, a remembered answer is an
\* API at or above its directory, and a module that is being loaded is not
\* loaded a second time unless somebody deletes it from Module._cache.
THEOREM LoadsTrueAlways == PnpSpec => []LoadsTrue
<1>1. PnpInit => PnpInv
  BY InitKnown
<1>2. PnpInv /\ [PnpNext]_pnpVars => PnpInv'
  BY StepKept
<1>3. PnpInv => LoadsTrue
  BY KnownIsTrue
<1> QED
  BY <1>1, <1>2, <1>3, PTL DEF PnpSpec

-----------------------------------------------------------------------------
(* What an instance answers for a dependency is owned by it.                *)

\* The tables of an instance, field by field.
LEMMA OwnersAre ==
    ASSUME NEW raw
    PROVE  LET lengths == {Size(raw.base, at) : at \in Spots(raw)}
               tried == {at \in Spots(raw) \cup raw.blacklist : Size(raw.base, at) \in lengths}
           IN Hydrate(raw).owner =
                 [at \in tried |->
                    IF at \in raw.blacklist THEN 0
                    ELSE CHOOSE i \in Owners(raw, at) : \A j \in Owners(raw, at) : j <= i]
BY DEF Hydrate

\* The registry, by locator.
LEMMA StoredAre ==
    ASSUME NEW raw
    PROVE  Hydrate(raw).store = [l \in Locators(raw) |-> CHOOSE p \in Range(raw.packages) : p.locator = l]
BY DEF Hydrate

\* The other fields the proofs look at.
LEMMA HydrateIs ==
    ASSUME NEW raw
    PROVE  /\ Hydrate(raw).ignored = raw.ignored /\ Hydrate(raw).base = raw.base
           /\ Hydrate(raw).pool = raw.pool /\ DOMAIN Hydrate(raw).store = Locators(raw)
           /\ Hydrate(raw).order = [i \in DOMAIN raw.packages |-> raw.packages[i].locator]
BY DEF Hydrate

\* The owner of a location that is looked up is the last of the packages there.
LEMMA LastOwns ==
    ASSUME NEW raw, WellMade(raw), NEW i \in Listed(raw)
    PROVE  LET d == Hydrate(raw)  at == raw.packages[i].at
           IN /\ at \in DOMAIN d.owner /\ DOMAIN d.owner \subseteq Text
              /\ d.owner[at] \in Owners(raw, at) /\ i <= d.owner[at]
<1> DEFINE at == raw.packages[i].at
           owners == Owners(raw, at)
           last == CHOOSE k \in owners : \A j \in owners : j <= k
           lengths == {Size(raw.base, x) : x \in Spots(raw)}
           tried == {x \in Spots(raw) \cup raw.blacklist : Size(raw.base, x) \in lengths}
           owner == [x \in tried |->
                        IF x \in raw.blacklist THEN 0
                        ELSE CHOOSE k \in Owners(raw, x) : \A j \in Owners(raw, x) : j <= k]
<1>1. Hydrate(raw).owner = owner
  BY OwnersAre, Zenon
<1>2. at \in Spots(raw) /\ at \notin raw.blacklist /\ tried \subseteq Text
  BY DEF Spots, WellMade, Text
<1>3. at \in tried
  BY <1>2
<1>4. PICK n \in Nat : n = Len(raw.packages) /\ DOMAIN raw.packages = 1 .. n
  BY DEF WellMade
<1>5. owners \subseteq 0 .. n /\ i \in owners
  BY <1>4 DEF Owners, Listed
<1>6. \E k \in owners : \A j \in owners : j <= k
  <2> HIDE DEF owners
  <2> QED
    BY <1>5, GreatestNumber
<1>7. last \in owners /\ \A j \in owners : j <= last
  <2> HIDE DEF owners
  <2> QED
    BY <1>6
<1>8. owner[at] = last /\ DOMAIN owner = tried
  BY <1>2, <1>3
<1> HIDE DEF last, owner, owners, tried
<1>9. /\ at \in DOMAIN owner /\ DOMAIN owner \subseteq Text
      /\ owner[at] \in owners /\ i <= owner[at]
  BY <1>2, <1>3, <1>5, <1>7, <1>8
<1> QED
  BY <1>1, <1>9, Zenon DEF owners

\* A package that is looked up owns its location, unless it is the project,
\* which may share it with a package of its own.
LEMMA LocationOwned ==
    ASSUME NEW raw, WellMade(raw), NEW i \in Listed(raw)
    PROVE  \/ FindPackageLocator(Hydrate(raw), Path(raw.packages[i].at, TRUE)) = raw.packages[i].locator
           \/ raw.packages[i].locator = TopLevel
<1> DEFINE at == raw.packages[i].at
<1>1. PICK d : d = Hydrate(raw)
  OBVIOUS
<1>2. /\ at \in DOMAIN d.owner /\ DOMAIN d.owner \subseteq Text
      /\ d.owner[at] \in Owners(raw, at) /\ i <= d.owner[at]
  BY <1>1, LastOwns
<1>3. at \in Spots(raw) /\ at \in Text
  BY DEF Spots, WellMade, Text
<1>t. PICK t \in BOOLEAN : t = TRUE
  OBVIOUS
<1>p. PICK p : p = Path(at, t)
  OBVIOUS
<1>4. p.at = at /\ p.dir
  BY <1>t, <1>p DEF Path
<1>5. ~IsPathIgnored(d, p)
  BY <1>1, <1>3, <1>4, HydrateIs DEF IsPathIgnored, WellMade
<1>6. Holds(at, p)
  <2>1. IsPrefix(at, at)
    BY <1>3 DEF IsPrefix, Text
  <2> QED
    BY <2>1, <1>4 DEF Holds
<1> DEFINE hits == {x \in DOMAIN d.owner : Holds(x, p)}
           best == CHOOSE x \in hits : \A b \in hits : Len(b) <= Len(x)
<1>7. \A x \in hits : x \in Text /\ Len(x) <= Len(at) /\ (Len(x) = Len(at) => x = at)
  <2> SUFFICES ASSUME NEW x \in hits
               PROVE  x \in Text /\ Len(x) <= Len(at) /\ (Len(x) = Len(at) => x = at)
    OBVIOUS
  <2>1. x \in Text /\ IsPrefix(x, at)
    BY <1>2, <1>4 DEF Holds
  <2>2. Len(x) <= Len(at) /\ x = Up(at, Len(x))
    BY <2>1, <1>3, PrefixIsUp DEF Text
  <2>3. Up(at, Len(at)) = at
    BY <1>3, UpWhole DEF Text
  <2> QED
    BY <2>1, <2>2, <2>3
<1>8. at \in hits
  BY <1>2, <1>6
<1>9. best = at
  <2> HIDE DEF hits
  <2>1. \A b \in hits : Len(b) <= Len(at)
    BY <1>7
  <2>2. best \in hits /\ \A b \in hits : Len(b) <= Len(best)
    BY <2>1, <1>8
  <2>3. Len(at) <= Len(best) /\ Len(best) <= Len(at) /\ Len(at) \in Nat /\ Len(best) \in Nat
    BY <2>2, <1>7, <1>8, <1>3 DEF Text
  <2> QED
    BY <2>2, <2>3, <1>7
<1>10. d.owner[at] \in DOMAIN raw.packages /\ d.owner[at] # 0 /\ d.owner[at] \in Listed(raw)
  BY <1>2 DEF Owners, Listed, WellMade
<1>11. FindPackageLocator(d, p) = d.order[d.owner[at]]
  <2>1. hits # {} /\ d.owner[best] # 0 /\ d.owner[best] = d.owner[at]
    BY <1>8, <1>9, <1>10
  <2>2. FindPackageLocator(d, p) = d.order[d.owner[best]]
    BY <1>5, <2>1, Zenon DEF FindPackageLocator
  <2> QED
    BY <2>1, <2>2
<1>12. PICK k : k = d.owner[at]
  OBVIOUS
<1>13. k \in Listed(raw) /\ raw.packages[k].at = at /\ i <= k
  BY <1>2, <1>12 DEF Owners
<1>14. d.order[k] = raw.packages[k].locator
  <2>1. d.order = [j \in DOMAIN raw.packages |-> raw.packages[j].locator]
    BY <1>1, HydrateIs, Zenon
  <2> QED
    BY <2>1, <1>10, <1>12
<1>15. FindPackageLocator(Hydrate(raw), Path(at, TRUE)) = raw.packages[k].locator
  BY <1>1, <1>t, <1>p, <1>11, <1>12, <1>14, Zenon
<1>16. CASE k = i
  BY <1>15, <1>16
<1>17. CASE k # i
  <2>1. i \in Listed(raw) /\ k \in Int /\ i \in Int
    BY <1>13 DEF Listed, WellMade
  <2>2. i < k
    BY <2>1, <1>13, <1>17
  <2> QED
    BY <2>1, <2>2, <1>13 DEF WellMade
<1> QED
  BY <1>16, <1>17

\* A package of the registry is one of the packages the tables list.
LEMMA StoreIs ==
    ASSUME NEW raw, NEW l \in Locators(raw)
    PROVE  /\ DOMAIN Hydrate(raw).store = Locators(raw)
           /\ \E i \in DOMAIN raw.packages :
                 Hydrate(raw).store[l] = raw.packages[i] /\ raw.packages[i].locator = l
<1>1. PICK k \in DOMAIN raw.packages : raw.packages[k].locator = l
  BY DEF Locators
<1> DEFINE q == CHOOSE p \in Range(raw.packages) : p.locator = l
<1>2. \E p \in Range(raw.packages) : p.locator = l
  BY <1>1 DEF Range
<1>3. q \in Range(raw.packages) /\ q.locator = l
  BY <1>2
<1>4. DOMAIN Hydrate(raw).store = Locators(raw) /\ Hydrate(raw).store[l] = q
  <2>1. Hydrate(raw).store = [m \in Locators(raw) |-> CHOOSE p \in Range(raw.packages) : p.locator = m]
    BY StoredAre, Zenon
  <2> QED
    BY <2>1
<1> HIDE DEF q
<1>5. PICK i \in DOMAIN raw.packages : raw.packages[i] = q
  BY <1>3 DEF Range
<1> QED
  BY <1>3, <1>4, <1>5

\* Of numbers one is the least.
LEMMA LeastOf ==
    ASSUME NEW N, N \subseteq Nat, N # {}
    PROVE  \E x \in N : \A y \in N : x <= y
<1> DEFINE less == {ss \in Nat \X Nat : ss[1] < ss[2]}
<1>1. IsWellFoundedOn(less, Nat)
  BY NatLessThanWellFounded, Zenon DEF OpToRel
<1>2. PICK x \in N : \A y \in N : ~(<<y, x>> \in less)
  <2> HIDE DEF less
  <2> QED
    BY <1>1, WFMin
<1>3. ASSUME NEW y \in N PROVE x <= y
  <2>1. <<y, x>> \notin less /\ x \in Nat /\ y \in Nat
    BY <1>2
  <2>2. ~(y < x)
    BY <2>1
  <2> QED
    BY <2>1, <2>2
<1> QED
  BY <1>3

\* Of packages that may be fallen back to, one comes first.
LEMMA FirstLends ==
    ASSUME NEW raw, WellMade(raw), NEW G, G \subseteq Locators(raw), G # {}
    PROVE  LET d == Hydrate(raw)
           IN (CHOOSE l \in G : \A m \in G : Turn(d, l) <= Turn(d, m)) \in G
<1>1. PICK d : d = Hydrate(raw)
  OBVIOUS
<1>2. PICK n \in Nat : n = Len(raw.packages) /\ DOMAIN raw.packages = 1 .. n
  BY DEF WellMade
<1>3. d.order = [i \in 1 .. n |-> raw.packages[i].locator] /\ Len(d.order) = n
  BY <1>1, <1>2, HydrateIs
<1>4. ASSUME NEW l \in Locators(raw) PROVE Turn(d, l) \in Nat
  <2>1. \E i \in DOMAIN d.order : d.order[i] = l
    BY <1>2, <1>3 DEF Locators
  <2>2. Place(d, l) \in DOMAIN d.order
    BY <2>1 DEF Place
  <2>3. Place(d, l) \in Nat
    BY <1>3, <2>2
  <2>4. Turn(d, l) \in {0, Place(d, l), Len(d.order) + Place(d, l)}
    BY Zenon DEF Turn
  <2> QED
    BY <1>3, <2>3, <2>4
<1> DEFINE turns == {Turn(d, l) : l \in G}
<1>5. turns \subseteq Nat /\ turns # {}
  BY <1>4
<1>6. PICK x \in turns : \A y \in turns : x <= y
  <2> HIDE DEF turns
  <2> QED
    BY <1>5, LeastOf
<1>7. PICK l \in G : x = Turn(d, l)
  OBVIOUS
<1>8. \A m \in G : Turn(d, l) <= Turn(d, m)
  BY <1>6, <1>7
<1>9. (CHOOSE k \in G : \A m \in G : Turn(d, k) <= Turn(d, m)) \in G
  BY <1>8
<1> QED
  BY <1>1, <1>9, Zenon

\* A reference that is given, whether by the package itself, by the packages
\* it may fall back to or by the pool, is of a package in the registry.
LEMMA ReferenceListed ==
    ASSUME NEW raw, WellMade(raw), NEW l \in Locators(raw), NEW name,
           name \in DOMAIN Hydrate(raw).store[l].deps, Given(Reference(Hydrate(raw), l, name))
    PROVE  Reference(Hydrate(raw), l, name) \in Locators(raw)
<1>1. PICK d : d = Hydrate(raw)
  OBVIOUS
<1>2. ASSUME NEW m \in Locators(raw), Given(Dependency(d, m, name))
      PROVE  Dependency(d, m, name) \in Locators(raw)
  <2>1. PICK i \in DOMAIN raw.packages : d.store[m] = raw.packages[i]
    BY <1>1, StoreIs
  <2>2. PICK deps : deps = raw.packages[i].deps
    OBVIOUS
  <2>3. Dependency(d, m, name) = IF name \in DOMAIN deps THEN deps[name] ELSE Undefined
    BY <2>1, <2>2, Zenon DEF Dependency
  <2>4. name \in DOMAIN deps
    BY <1>2, <2>3, Zenon DEF Given
  <2> QED
    BY <1>2, <2>2, <2>3, <2>4 DEF WellMade
<1>3. ASSUME Given(Fallback(d, name)) PROVE Fallback(d, name) \in Locators(raw)
  <2> DEFINE giving == {m \in Lenders(d) : Given(Dependency(d, m, name))}
             first == CHOOSE m \in giving : \A k \in giving : Turn(d, m) <= Turn(d, k)
  <2>1. CASE giving # {}
    <3>1. first \in giving
      <4>1. giving \subseteq Locators(raw)
        BY <1>1, HydrateIs DEF Lenders
      <4> HIDE DEF giving
      <4> QED
        BY <2>1, <4>1, FirstLends, <1>1
    <3>2. Fallback(d, name) = Dependency(d, first, name)
      BY <2>1, Zenon DEF Fallback
    <3>3. first \in Locators(raw) /\ Given(Dependency(d, first, name))
      BY <3>1, <1>1, HydrateIs DEF Lenders
    <3> QED
      BY <1>2, <3>2, <3>3
  <2>2. CASE giving = {}
    <3>1. Fallback(d, name) = IF d.fallback /\ name \in DOMAIN d.pool THEN d.pool[name] ELSE Undefined
      BY <2>2, Zenon DEF Fallback
    <3>2. name \in DOMAIN d.pool /\ Fallback(d, name) = d.pool[name]
      BY <1>3, <3>1, Zenon DEF Given
    <3> QED
      <4>1. d.pool = raw.pool
        BY <1>1, HydrateIs, Zenon
      <4>2. PICK pool : pool = raw.pool
        OBVIOUS
      <4>3. \A x \in DOMAIN pool : Given(pool[x]) => pool[x] \in Locators(raw)
        BY <4>2, Zenon DEF WellMade
      <4> QED
        BY <4>1, <4>2, <4>3, <1>3, <3>2
  <2> QED
    BY <2>1, <2>2
<1>4. Reference(d, l, name) \in {Dependency(d, l, name), Fallback(d, name), Undefined}
  BY Zenon DEF Reference
<1>5. ~Given(Undefined)
  BY Zenon DEF Given
<1> QED
  BY <1>1, <1>2, <1>3, <1>4, <1>5, Zenon

\* So what every instance answers is owned, whichever version it was made from.
LEMMA AnswersOwned == PnpInv => DependencyOwned
<1> SUFFICES ASSUME PnpInv, NEW a \in DOMAIN meta, NEW l \in DOMAIN Data(meta, a).store,
                    NEW name \in DOMAIN Data(meta, a).store[l].deps,
                    Given(Reference(Data(meta, a), l, name)),
                    ~Data(meta, a).store[Reference(Data(meta, a), l, name)].discard
             PROVE  LET d == Data(meta, a)  ref == Reference(d, l, name)
                    IN FindPackageLocator(d, Path(d.store[ref].at, TRUE)) = ref \/ ref = TopLevel
  BY Zenon DEF DependencyOwned
<1>1. a \in Apis /\ meta[a].version \in DOMAIN Raw[a]
  BY DEF PnpInv, FilesKnown, IsMeta, UpToDate
<1>2. PICK raw : raw = Raw[a][meta[a].version]
  OBVIOUS
<1>3. WellMade(raw) /\ Data(meta, a) = Hydrate(raw)
  BY <1>1, <1>2, TablesAssumption DEF Data, Hydrated
<1>4. PICK ref : ref = Reference(Hydrate(raw), l, name)
  OBVIOUS
<1>5. l \in Locators(raw)
  BY <1>3, HydrateIs
<1>6. ref \in Locators(raw)
  BY <1>3, <1>4, <1>5, ReferenceListed
<1>7. PICK i \in DOMAIN raw.packages :
          Hydrate(raw).store[ref] = raw.packages[i] /\ raw.packages[i].locator = ref
  BY <1>6, StoreIs
<1>8. i \in Listed(raw)
  BY <1>3, <1>4, <1>7 DEF Listed
<1>9. \/ FindPackageLocator(Hydrate(raw), Path(raw.packages[i].at, TRUE)) = ref
      \/ ref = TopLevel
  BY <1>3, <1>7, <1>8, LocationOwned
<1> QED
  BY <1>3, <1>4, <1>7, <1>9, Zenon

\* For any .pnp.js files, tables and installations, whichever version an
\* instance was made from: the location it answers for a dependency belongs to
\* that very dependency, or to the project when it depends on itself.
THEOREM DependencyOwnedAlways == PnpSpec => []DependencyOwned
<1>1. PnpInit => PnpInv
  BY InitKnown
<1>2. PnpInv /\ [PnpNext]_pnpVars => PnpInv'
  BY StepKept
<1>3. PnpInv => DependencyOwned
  BY AnswersOwned
<1> QED
  BY <1>1, <1>2, <1>3, PTL DEF PnpSpec

-----------------------------------------------------------------------------
(* .pnp.js run as a program.                                                *)

Words == DOMAIN Queries \cup {Garbled}

\* What has been read when q bytes have arrived: a line is four bytes and three
\* characters, and the first byte of a character waits for the second.
HeldAt(q) == IF q % 4 = 2 THEN <<"first">> ELSE << >>
Count(q) == 3 * (q \div 4) + (IF q % 4 = 0 THEN 0 ELSE IF q % 4 = 3 THEN 2 ELSE 1)
CharAt(p) ==
    IF (p - 1) % 3 = 0 THEN input[(p - 1) \div 3 + 1]
    ELSE IF (p - 1) % 3 = 1 THEN "char" ELSE "newline"
Span(lo, hi) == [p \in 1 .. (hi - lo) |-> CharAt(lo + p)]

Reply(line) == IF line = Garbled THEN <<Garbled, "INVALID_JSON">> ELSE <<line, Queries[line]>>
Replies(m) == [i \in 1 .. m |-> Reply(input[i])]

PrInv ==
    args = 0 =>
        /\ input \in Seq(Words) /\ arrived \in 0 .. 4 * Len(input)
        /\ held = HeldAt(arrived) /\ buffer = Span(3 * (arrived \div 4), Count(arrived))
        /\ answers = Replies(arrived \div 4)

\* The bytes and the characters of a line.
LEMMA PlaceOfByte ==
    ASSUME NEW q \in Nat
    PROVE  /\ q \div 4 \in Nat /\ q % 4 \in 0 .. 3 /\ q = 4 * (q \div 4) + (q % 4)
           /\ q % 4 # 3 => (q + 1) \div 4 = q \div 4 /\ (q + 1) % 4 = (q % 4) + 1
           /\ q % 4 = 3 => (q + 1) \div 4 = (q \div 4) + 1 /\ (q + 1) % 4 = 0
OBVIOUS

\* A character more for every byte, but for the first one of a character.
LEMMA CountIs ==
    ASSUME NEW q \in Nat
    PROVE  /\ Count(q) \in Nat /\ Count(q) \div 3 = q \div 4
           /\ 3 * (q \div 4) <= Count(q) /\ Count(q) <= 3 * (q \div 4) + 2
           /\ q % 4 = 1 => Count(q + 1) = Count(q)
           /\ q % 4 # 1 => Count(q + 1) = Count(q) + 1
<1>1. PICK k \in Nat : k = q \div 4
  BY PlaceOfByte
<1>2. PICK r \in 0 .. 3 : r = q % 4
  BY PlaceOfByte
<1>3. Count(q) = 3 * k + (IF r = 0 THEN 0 ELSE IF r = 3 THEN 2 ELSE 1)
  BY <1>1, <1>2 DEF Count
<1>4. PICK e \in 0 .. 2 : e = IF r = 0 THEN 0 ELSE IF r = 3 THEN 2 ELSE 1
  OBVIOUS
<1>5. (3 * k + e) \div 3 = k
  OBVIOUS
<1>6. Count(q + 1) = 3 * ((q + 1) \div 4) + (IF (q + 1) % 4 = 0 THEN 0 ELSE IF (q + 1) % 4 = 3 THEN 2 ELSE 1)
  BY DEF Count
<1>7. CASE r = 3
  <2>1. Count(q + 1) = 3 * (k + 1) + 0
    BY <1>1, <1>2, <1>6, <1>7, PlaceOfByte
  <2> QED
    BY <1>1, <1>2, <1>3, <1>4, <1>5, <1>7, <2>1
<1>8. CASE r # 3
  <2>1. (q + 1) \div 4 = k /\ (q + 1) % 4 = r + 1
    BY <1>1, <1>2, <1>8, PlaceOfByte
  <2>2. Count(q + 1) = 3 * k + (IF r = 2 THEN 2 ELSE 1)
    BY <1>6, <1>8, <2>1
  <2> QED
    BY <1>1, <1>2, <1>3, <1>4, <1>5, <1>8, <2>2
<1> QED
  BY <1>7, <1>8

\* More bytes are not fewer characters.
LEMMA CountGrows ==
    ASSUME NEW a \in Nat, NEW q \in Nat, a <= q
    PROVE  Count(a) <= Count(q)
<1>1. PICK k \in Nat : k = a \div 4
  BY PlaceOfByte
<1>2. PICK r \in 0 .. 3 : r = a % 4
  BY PlaceOfByte
<1>3. PICK l \in Nat : l = q \div 4
  BY PlaceOfByte
<1>4. PICK t \in 0 .. 3 : t = q % 4
  BY PlaceOfByte
<1>5. a = 4 * k + r /\ q = 4 * l + t
  BY <1>1, <1>2, <1>3, <1>4, PlaceOfByte
<1>6. Count(a) = 3 * k + (IF r = 0 THEN 0 ELSE IF r = 3 THEN 2 ELSE 1)
  BY <1>1, <1>2 DEF Count
<1>7. Count(q) = 3 * l + (IF t = 0 THEN 0 ELSE IF t = 3 THEN 2 ELSE 1)
  BY <1>3, <1>4 DEF Count
<1>8. k < l \/ (k = l /\ r <= t)
  BY <1>5
<1> QED
  BY <1>6, <1>7, <1>8

\* Characters that follow each other.
LEMMA SpanIs ==
    ASSUME NEW lo \in Nat, NEW hi \in Nat, lo <= hi
    PROVE  /\ Span(lo, hi) \in Seq({CharAt(p) : p \in Nat}) /\ Len(Span(lo, hi)) = hi - lo
           /\ Append(Span(lo, hi), CharAt(hi + 1)) = Span(lo, hi + 1)
<1>1. PICK n \in Nat : n = hi - lo
  OBVIOUS
<1>2. \A p \in 1 .. (n + 1) : lo + p \in Nat
  OBVIOUS
<1>3. Span(lo, hi) = [p \in 1 .. n |-> CharAt(lo + p)] /\ hi - lo = n
  BY <1>1 DEF Span
<1>4. Span(lo, hi + 1) = [p \in 1 .. (n + 1) |-> CharAt(lo + p)]
  <2>1. hi + 1 - lo = n + 1
    BY <1>1
  <2> QED
    BY <2>1 DEF Span
<1>5. hi + 1 = lo + (n + 1)
  BY <1>1
<1> QED
  <2>1. CharAt(lo + (n + 1)) = [p \in 1 .. (n + 1) |-> CharAt(lo + p)][n + 1]
    OBVIOUS
  <2> QED
    BY <2>1, <1>1, <1>2, <1>3, <1>4, <1>5

\* Two stretches of characters make one.
LEMMA SpanJoined ==
    ASSUME NEW lo \in Nat, NEW mid \in Nat, NEW hi \in Nat, lo <= mid, mid <= hi
    PROVE  Span(lo, mid) \o Span(mid, hi) = Span(lo, hi)
<1>1. PICK m \in Nat : m = mid - lo
  OBVIOUS
<1>2. PICK n \in Nat : n = hi - mid
  OBVIOUS
<1>3. Span(lo, mid) = [p \in 1 .. m |-> CharAt(lo + p)] /\ Len(Span(lo, mid)) = m
  BY <1>1, SpanIs DEF Span
<1>4. Span(mid, hi) = [p \in 1 .. n |-> CharAt(mid + p)] /\ Len(Span(mid, hi)) = n
  BY <1>2, SpanIs DEF Span
<1>5. Span(lo, hi) = [p \in 1 .. (m + n) |-> CharAt(lo + p)] /\ Len(Span(lo, hi)) = m + n
  <2>1. hi - lo = m + n /\ lo <= hi
    BY <1>1, <1>2
  <2> QED
    BY <2>1, SpanIs DEF Span
<1>6. PICK S : S = {CharAt(p) : p \in Nat}
  OBVIOUS
<1>7. PICK s \in Seq(S) : s = Span(lo, mid)
  BY <1>6, SpanIs
<1>8. PICK t \in Seq(S) : t = Span(mid, hi)
  BY <1>6, SpanIs
<1>9. PICK u \in Seq(S) : u = Span(lo, hi)
  <2>1. lo <= hi
    OBVIOUS
  <2> QED
    BY <1>6, <2>1, SpanIs
<1>10. PICK st \in Seq(S) :
          /\ st = s \o t /\ Len(st) = m + n
          /\ \A i \in 1 .. (m + n) : st[i] = IF i <= m THEN s[i] ELSE t[i - m]
  <2>1. Len(s) = m /\ Len(t) = n
    BY <1>3, <1>4, <1>7, <1>8
  <2>2. /\ s \o t \in Seq(S) /\ Len(s \o t) = Len(s) + Len(t)
        /\ \A i \in 1 .. Len(s) + Len(t) : (s \o t)[i] = IF i <= Len(s) THEN s[i] ELSE t[i - Len(s)]
    BY ConcatProperties, Zenon
  <2> QED
    BY <2>1, <2>2, Zenon
<1>11. ASSUME NEW p \in 1 .. (m + n) PROVE st[p] = u[p]
  <2>1. CASE p <= m
    BY <2>1, <1>3, <1>5, <1>7, <1>9, <1>10
  <2>2. CASE p > m
    <3>1. p - m \in 1 .. n /\ mid + (p - m) = lo + p
      BY <2>2, <1>1
    <3>2. st[p] = t[p - m]
      BY <2>2, <1>10
    <3>3. t[p - m] = CharAt(lo + p)
      BY <1>4, <1>8, <3>1
    <3> QED
      BY <1>5, <1>9, <3>2, <3>3
  <2> QED
    BY <2>1, <2>2
<1>12. Len(u) = m + n
  BY <1>5, <1>9
<1>13. st = u
  BY <1>10, <1>11, <1>12, SeqEqual
<1> QED
  BY <1>7, <1>8, <1>9, <1>10, <1>13

\* What holds at 0 and is handed on from each number to the next holds up to n.
LEMMA StepByStep ==
    ASSUME NEW n \in Nat, NEW Good, 0 \in Good, \A i \in 1 .. n : i - 1 \in Good => i \in Good
    PROVE  \A i \in 0 .. n : i \in Good
<1> DEFINE bad == {n - i : i \in {j \in 0 .. n : j \notin Good}}
<1> SUFFICES ASSUME bad # {} PROVE FALSE
  OBVIOUS
<1>1. bad \subseteq 0 .. n
  OBVIOUS
<1>2. PICK x \in bad : \A y \in bad : y <= x
  <2> HIDE DEF bad
  <2> QED
    BY <1>1, GreatestNumber
<1>3. PICK i \in 0 .. n : i \notin Good /\ x = n - i
  BY <1>2
<1>4. i \in 1 .. n /\ i - 1 \in 0 .. n
  BY <1>3
<1>5. i - 1 \notin Good
  BY <1>3, <1>4
<1>6. n - (i - 1) \in bad
  BY <1>4, <1>5
<1> QED
  BY <1>2, <1>3, <1>4, <1>6

\* A decoding and a draining, byte by byte and character by character.
IsDecoding(f, bytes) ==
    f = [n \in 0 .. Len(bytes) |->
            IF n = 0 THEN [text |-> << >>, rest |-> << >>] ELSE Byte(f[n - 1], bytes[n])]
IsDraining(f, text) ==
    f = [n \in 0 .. Len(text) |->
            IF n = 0 THEN [line |-> << >>, out |-> answers] ELSE Char(f[n - 1], text[n])]
Decoding(bytes) == CHOOSE f : IsDecoding(f, bytes)
Draining(text) == CHOOSE f : IsDraining(f, text)

\* What follows the decoder byte by byte is what it decodes.
LEMMA CharsAre ==
    ASSUME NEW bytes, Len(bytes) \in Nat, NEW f, IsDecoding(f, bytes)
    PROVE  Chars(bytes) = f[Len(bytes)]
<1>1. PICK n \in Nat : n = Len(bytes)
  OBVIOUS
<1>2. PICK g : g = Decoding(bytes)
  OBVIOUS
<1>3. IsDecoding(g, bytes)
  BY <1>2, Zenon DEF Decoding
<1>4. Chars(bytes) = g[n]
  BY <1>1, <1>2, Zenon DEF Chars, Decoding, IsDecoding
<1> DEFINE Good == {i \in 0 .. n : f[i] = g[i]}
<1>5. 0 \in Good
  <2>1. PICK start : start = [text |-> << >>, rest |-> << >>]
    OBVIOUS
  <2>2. 0 \in 0 .. n /\ f[0] = start /\ g[0] = start
    BY <1>1, <1>3, <2>1 DEF IsDecoding
  <2> QED
    BY <2>2
<1>6. ASSUME NEW i \in 1 .. n, i - 1 \in Good PROVE i \in Good
  <2>1. f[i] = Byte(f[i - 1], bytes[i]) /\ g[i] = Byte(g[i - 1], bytes[i])
    <3>1. i \in 0 .. Len(bytes) /\ i # 0
      BY <1>1
    <3>2. f[i] = IF i = 0 THEN [text |-> << >>, rest |-> << >>] ELSE Byte(f[i - 1], bytes[i])
      BY <3>1, Zenon DEF IsDecoding
    <3>3. g[i] = IF i = 0 THEN [text |-> << >>, rest |-> << >>] ELSE Byte(g[i - 1], bytes[i])
      BY <3>1, <1>3, Zenon DEF IsDecoding
    <3> QED
      BY <3>1, <3>2, <3>3, Zenon
  <2> QED
    BY <1>6, <2>1
<1>7. \A i \in 0 .. n : i \in Good
  <2> HIDE DEF Good
  <2> QED
    BY <1>5, <1>6, StepByStep
<1> QED
  BY <1>1, <1>4, <1>7

\* What follows the loop character by character is what it drains.
LEMMA DrainedIs ==
    ASSUME NEW text, Len(text) \in Nat, NEW f, IsDraining(f, text)
    PROVE  Drained(text) = f[Len(text)]
<1>1. PICK n \in Nat : n = Len(text)
  OBVIOUS
<1>2. PICK g : g = Draining(text)
  OBVIOUS
<1>3. IsDraining(g, text)
  BY <1>2, Zenon DEF Draining
<1>4. Drained(text) = g[n]
  BY <1>1, <1>2, Zenon DEF Drained, Draining, IsDraining
<1> DEFINE Good == {i \in 0 .. n : f[i] = g[i]}
<1>5. 0 \in Good
  <2>1. PICK start : start = [line |-> << >>, out |-> answers]
    OBVIOUS
  <2>2. 0 \in 0 .. n /\ f[0] = start /\ g[0] = start
    BY <1>1, <1>3, <2>1 DEF IsDraining
  <2> QED
    BY <2>2
<1>6. ASSUME NEW i \in 1 .. n, i - 1 \in Good PROVE i \in Good
  <2>1. f[i] = Char(f[i - 1], text[i]) /\ g[i] = Char(g[i - 1], text[i])
    <3>1. i \in 0 .. Len(text) /\ i # 0
      BY <1>1
    <3>2. f[i] = IF i = 0 THEN [line |-> << >>, out |-> answers] ELSE Char(f[i - 1], text[i])
      BY <3>1, Zenon DEF IsDraining
    <3>3. g[i] = IF i = 0 THEN [line |-> << >>, out |-> answers] ELSE Char(g[i - 1], text[i])
      BY <3>1, <1>3, Zenon DEF IsDraining
    <3> QED
      BY <3>1, <3>2, <3>3, Zenon
  <2> QED
    BY <1>6, <2>1
<1>7. \A i \in 0 .. n : i \in Good
  <2> HIDE DEF Good
  <2> QED
    BY <1>5, <1>6, StepByStep
<1> QED
  BY <1>1, <1>4, <1>7

\* What the decoder has given and keeps when q bytes have arrived.
Decoded(lo, q) == [text |-> Span(lo, Count(q)), rest |-> HeldAt(q)]

\* Every byte of the stream is decoded as its place in the line asks.
LEMMA ByteStep ==
    ASSUME input \in Seq(Words), NEW q \in Nat, q < 4 * Len(input), NEW lo \in Nat, lo <= Count(q)
    PROVE  Byte(Decoded(lo, q), Stream[q + 1]) = Decoded(lo, q + 1)
<1>1. PICK k \in Nat : k = q \div 4
  BY PlaceOfByte
<1>2. PICK r \in 0 .. 3 : r = q % 4
  BY PlaceOfByte
<1>3. PICK line : line = input[k + 1]
  OBVIOUS
<1>4. PICK b : b = Stream[q + 1]
  OBVIOUS
<1>5. b = <<line, "first", "second", "newline">>[r + 1]
  <2>1. q + 1 \in 1 .. 4 * Len(input) /\ q + 1 - 1 = q
    OBVIOUS
  <2>2. b = BytesOf(input[(q + 1 - 1) \div 4 + 1])[((q + 1 - 1) % 4) + 1]
    BY <1>4, <2>1 DEF Stream
  <2> QED
    BY <1>1, <1>2, <1>3, <2>1, <2>2 DEF BytesOf
<1>6. line \in Words
  <2>1. k + 1 \in 1 .. Len(input)
    BY <1>1, <1>2, PlaceOfByte
  <2> QED
    BY <1>3, <2>1
<1>7. line # "first" /\ line # "second"
  BY <1>6, LinesAssumption DEF Words
<1>8. PICK c \in Nat : c = Count(q)
  BY CountIs
<1>9. PICK s : s = Span(lo, c)
  OBVIOUS
<1>10. PICK d : d = Decoded(lo, q)
  OBVIOUS
<1>11. d.text = s /\ d.rest = HeldAt(q)
  BY <1>8, <1>9, <1>10 DEF Decoded
<1>12. Append(s, CharAt(c + 1)) = Span(lo, c + 1)
  BY <1>8, <1>9, SpanIs
<1>13. c = 3 * k + (IF r = 0 THEN 0 ELSE IF r = 3 THEN 2 ELSE 1)
  BY <1>1, <1>2, <1>8 DEF Count
<1>0. /\ Count(q + 1) = IF r = 1 THEN c ELSE c + 1
      /\ HeldAt(q) = IF r = 2 THEN <<"first">> ELSE << >>
      /\ HeldAt(q + 1) = IF r = 1 THEN <<"first">> ELSE << >>
  <2>1. (q + 1) % 4 = IF r = 3 THEN 0 ELSE r + 1
    BY <1>2, PlaceOfByte
  <2>2. Count(q + 1) = IF r = 1 THEN c ELSE c + 1
    BY <1>2, <1>8, CountIs
  <2> QED
    BY <1>2, <2>1, <2>2 DEF HeldAt
<1>14. CASE r = 0
  <2>1. b = line
    BY <1>5, <1>14
  <2>2. Byte(d, b) = [text |-> Append(s, line), rest |-> d.rest]
    BY <2>1, <1>7, <1>11 DEF Byte
  <2>3. CharAt(c + 1) = line
    <3>1. c + 1 - 1 = 3 * k /\ (3 * k) % 3 = 0 /\ (3 * k) \div 3 = k
      BY <1>13, <1>14
    <3> QED
      BY <1>3, <3>1 DEF CharAt
  <2>4. Count(q + 1) = c + 1 /\ HeldAt(q) = << >> /\ HeldAt(q + 1) = << >>
    BY <1>0, <1>14
  <2> QED
    BY <1>4, <1>10, <1>11, <1>12, <2>2, <2>3, <2>4 DEF Decoded
<1>15. CASE r = 1
  <2>1. b = "first"
    BY <1>5, <1>15
  <2>2. Byte(d, b) = [text |-> s, rest |-> <<"first">>]
    BY <2>1, <1>11 DEF Byte
  <2>3. Count(q + 1) = c /\ HeldAt(q + 1) = <<"first">>
    BY <1>0, <1>15
  <2> QED
    BY <1>4, <1>9, <1>10, <2>2, <2>3 DEF Decoded
<1>16. CASE r = 2
  <2>1. b = "second"
    BY <1>5, <1>16
  <2>2. d.rest = <<"first">> /\ d.rest # << >>
    BY <1>2, <1>11, <1>16 DEF HeldAt
  <2>3. Byte(d, b) = [text |-> Append(s, "char"), rest |-> << >>]
    BY <2>1, <2>2, <1>11 DEF Byte
  <2>4. CharAt(c + 1) = "char"
    <3>1. c + 1 - 1 = 3 * k + 1 /\ (3 * k + 1) % 3 = 1
      BY <1>13, <1>16
    <3> QED
      BY <3>1 DEF CharAt
  <2>5. Count(q + 1) = c + 1 /\ HeldAt(q + 1) = << >>
    BY <1>0, <1>16
  <2> QED
    BY <1>4, <1>10, <1>12, <2>3, <2>4, <2>5 DEF Decoded
<1>17. CASE r = 3
  <2>1. b = "newline"
    BY <1>5, <1>17
  <2>2. Byte(d, b) = [text |-> Append(s, "newline"), rest |-> d.rest]
    BY <2>1, <1>11 DEF Byte
  <2>3. CharAt(c + 1) = "newline"
    <3>1. c + 1 - 1 = 3 * k + 2 /\ (3 * k + 2) % 3 = 2
      BY <1>13, <1>17
    <3> QED
      BY <3>1 DEF CharAt
  <2>4. Count(q + 1) = c + 1 /\ HeldAt(q) = << >> /\ HeldAt(q + 1) = << >>
    BY <1>0, <1>17
  <2> QED
    BY <1>4, <1>10, <1>11, <1>12, <2>2, <2>3, <2>4 DEF Decoded
<1> QED
  BY <1>14, <1>15, <1>16, <1>17

\* What a chunk is, and what is decoded of it together with the byte kept back.
LEMMA ChunkIs ==
    ASSUME input \in Seq(Words), NEW a \in Nat, NEW n \in (a + 1) .. 4 * Len(input)
    PROVE  LET t == SubSeq(Stream, a + 1, n)
           IN /\ t \in Seq({Stream[i] : i \in Nat}) /\ Len(t) = n - a
              /\ \A i \in 1 .. (n - a) : t[i] = Stream[a + i]
<1>1. \A i \in (a + 1) .. n : Stream[i] \in {Stream[j] : j \in Nat}
  OBVIOUS
<1>2. n - (a + 1) + 1 = n - a /\ a + 1 <= n /\ \A i \in 1 .. (n - a) : a + 1 + i - 1 = a + i
  OBVIOUS
<1>3. PICK t : t = SubSeq(Stream, a + 1, n)
  OBVIOUS
<1>4. PICK s : s = Stream
  OBVIOUS
<1>5. PICK S : S = {s[j] : j \in Nat}
  OBVIOUS
<1>6. t = SubSeq(s, a + 1, n) /\ \A i \in (a + 1) .. n : s[i] \in S
  BY <1>1, <1>3, <1>4, <1>5
<1>7. /\ t \in Seq(S) /\ Len(t) = n - (a + 1) + 1
      /\ \A i \in 1 .. (n - (a + 1) + 1) : t[i] = s[a + 1 + i - 1]
  <2>1. a + 1 \in Int /\ n \in Int
    OBVIOUS
  <2> QED
    BY <1>2, <1>6, <2>1, SubSeqProperties
<1> QED
  BY <1>2, <1>3, <1>4, <1>5, <1>7

\* Decoding starts where the last chunk ended, with the byte that was kept back.
LEMMA DecodeIs ==
    ASSUME input \in Seq(Words), NEW a \in Nat, NEW n \in (a + 1) .. 4 * Len(input),
           held = HeldAt(a)
    PROVE  Decode(SubSeq(Stream, a + 1, n)) = Decoded(Count(a), n)
<1>1. PICK S : S = {Stream[i] : i \in Nat}
  OBVIOUS
<1>2. PICK t \in Seq(S) :
         t = SubSeq(Stream, a + 1, n) /\ Len(t) = n - a /\ \A i \in 1 .. (n - a) : t[i] = Stream[a + i]
  BY <1>1, ChunkIs
<1>3. PICK c \in Nat : c = Count(a)
  BY CountIs
<1>4. PICK start : start = [text |-> << >>, rest |-> << >>]
  OBVIOUS
<1>5. Span(c, c) = << >>
  BY SpanIs DEF Span
<1>6. ASSUME NEW q \in a .. (n - 1) PROVE Byte(Decoded(c, q), Stream[q + 1]) = Decoded(c, q + 1)
  <2>1. c <= Count(q) /\ q \in Nat /\ q < 4 * Len(input)
    BY <1>3, CountGrows
  <2> QED
    BY <2>1, ByteStep
<1>7. CASE a % 4 # 2
  <2>1. held = << >>
    BY <1>7 DEF HeldAt
  <2>2. held \o t = t
    BY <2>1
  <2>3. Decoded(c, a) = start
    BY <1>3, <1>4, <1>5, <1>7 DEF Decoded, HeldAt
  <2> DEFINE f == [i \in 0 .. (n - a) |-> Decoded(c, a + i)]
  <2>4. ASSUME NEW i \in 0 .. (n - a) PROVE f[i] = IF i = 0 THEN start ELSE Byte(f[i - 1], t[i])
    <3>1. CASE i = 0
      BY <2>3, <3>1
    <3>2. CASE i # 0
      <4>1. PICK q \in a .. (n - 1) : q = a + i - 1
        BY <3>2
      <4>2. q + 1 = a + i /\ a + (i - 1) = q /\ i - 1 \in 0 .. (n - a) /\ i \in 1 .. (n - a)
        BY <3>2, <4>1
      <4>3. f[i] = Decoded(c, q + 1) /\ f[i - 1] = Decoded(c, q) /\ t[i] = Stream[q + 1]
        BY <1>2, <4>2
      <4> HIDE DEF f
      <4> QED
        BY <3>2, <4>3, <1>6
    <3> QED
      BY <3>1, <3>2
  <2>5. IsDecoding(f, t) /\ f[n - a] = Decoded(c, n)
    <3>1. f = [i \in 0 .. (n - a) |-> IF i = 0 THEN start ELSE Byte(f[i - 1], t[i])]
      BY <2>4
    <3>2. f[n - a] = Decoded(c, n)
      BY <1>2
    <3> HIDE DEF f
    <3> QED
      BY <3>1, <3>2, <1>2, <1>4, Zenon DEF IsDecoding
  <2> HIDE DEF f
  <2>6. Chars(t) = Decoded(c, n)
    <3>1. Len(t) \in Nat
      OBVIOUS
    <3> QED
      BY <1>2, <2>5, <3>1, CharsAre
  <2> QED
    BY <1>2, <1>3, <2>2, <2>6, Zenon DEF Decode
<1>8. CASE a % 4 = 2
  <2>1. PICK h : h = <<"first">>
    OBVIOUS
  <2>2. PICK R : R = S \cup {"first"}
    OBVIOUS
  <2>3. held = h /\ h \in Seq(R) /\ Len(h) = 1 /\ h[1] = "first" /\ t \in Seq(R)
    BY <1>8, <2>1, <2>2 DEF HeldAt
  <2>4. PICK u \in Seq(R) :
           u = h \o t /\ Len(u) = 1 + (n - a)
           /\ \A i \in 1 .. (1 + (n - a)) : u[i] = IF i <= 1 THEN h[i] ELSE t[i - 1]
    <3>1. /\ h \o t \in Seq(R) /\ Len(h \o t) = Len(h) + Len(t)
          /\ \A i \in 1 .. Len(h) + Len(t) : (h \o t)[i] = IF i <= Len(h) THEN h[i] ELSE t[i - Len(h)]
      BY <2>3, ConcatProperties, Zenon
    <3>2. Len(h) = 1 /\ Len(t) = n - a
      BY <1>2, <2>3
    <3>3. PICK u : u = h \o t
      OBVIOUS
    <3>4. u \in Seq(R) /\ Len(u) = 1 + (n - a)
      BY <3>1, <3>2, <3>3, Zenon
    <3>5. \A i \in 1 .. (1 + (n - a)) : u[i] = IF i <= 1 THEN h[i] ELSE t[i - 1]
      BY <3>1, <3>2, <3>3, Zenon
    <3> QED
      BY <3>3, <3>4, <3>5, Zenon
  <2>5. Byte(start, "first") = Decoded(c, a)
    BY <1>3, <1>4, <1>5, <1>8 DEF Decoded, HeldAt, Byte
  <2> DEFINE f == [i \in 0 .. (1 + (n - a)) |-> IF i = 0 THEN start ELSE Decoded(c, a + i - 1)]
  <2>6. ASSUME NEW i \in 0 .. (1 + (n - a)) PROVE f[i] = IF i = 0 THEN start ELSE Byte(f[i - 1], u[i])
    <3>1. CASE i = 0
      BY <3>1
    <3>2. CASE i = 1
      <4>0. 0 \in 0 .. (1 + (n - a)) /\ 1 \in 0 .. (1 + (n - a)) /\ 1 \in 1 .. (1 + (n - a)) /\ a + 1 - 1 = a
        OBVIOUS
      <4>1. f[1] = Decoded(c, a) /\ f[0] = start /\ u[1] = "first"
        BY <2>3, <2>4, <4>0
      <4> HIDE DEF f
      <4> QED
        BY <2>5, <3>2, <4>1
    <3>3. CASE i # 0 /\ i # 1
      <4>1. PICK q \in a .. (n - 1) : q = a + i - 2
        BY <3>3
      <4>2. /\ q + 1 = a + i - 1 /\ a + (i - 1) - 1 = q /\ i - 1 \in 0 .. (1 + (n - a)) /\ i - 1 # 0
            /\ i - 1 \in 1 .. (n - a) /\ a + (i - 1) = q + 1
        BY <3>3, <4>1
      <4>3. f[i] = Decoded(c, q + 1) /\ f[i - 1] = Decoded(c, q)
        BY <3>3, <4>2
      <4>4. u[i] = t[i - 1] /\ t[i - 1] = Stream[q + 1]
        BY <1>2, <2>4, <3>3, <4>2
      <4> HIDE DEF f
      <4> QED
        BY <3>3, <4>3, <4>4, <1>6
    <3> QED
      BY <3>1, <3>2, <3>3
  <2>7. IsDecoding(f, u) /\ f[1 + (n - a)] = Decoded(c, n)
    <3>1. f = [i \in 0 .. (1 + (n - a)) |-> IF i = 0 THEN start ELSE Byte(f[i - 1], u[i])]
      BY <2>6
    <3>2. f[1 + (n - a)] = Decoded(c, n)
      <4>1. 1 + (n - a) \in 0 .. (1 + (n - a)) /\ 1 + (n - a) # 0 /\ a + (1 + (n - a)) - 1 = n
        OBVIOUS
      <4> QED
        BY <4>1
    <3> HIDE DEF f
    <3> QED
      BY <3>1, <3>2, <2>4, <1>4, Zenon DEF IsDecoding
  <2> HIDE DEF f
  <2>8. Chars(u) = Decoded(c, n)
    <3>1. Len(u) \in Nat
      OBVIOUS
    <3> QED
      BY <2>4, <2>7, <3>1, CharsAre
  <2> QED
    BY <1>2, <1>3, <2>3, <2>4, <2>8, Zenon DEF Decode
<1> QED
  BY <1>7, <1>8

\* The lines answered when g characters have been decoded, and the rest.
AnsweredAt(g) == [line |-> Span(3 * (g \div 3), g), out |-> Replies(g \div 3)]

\* One more answer.
LEMMA RepliesGrow ==
    ASSUME NEW k \in Nat
    PROVE  Append(Replies(k), Reply(input[k + 1])) = Replies(k + 1)
BY DEF Replies

\* A line that is whole is answered, whatever came before it.
LEMMA RequestIs ==
    ASSUME NEW line \in Words
    PROVE  ProcessRequest(<<line, "char">>) = Reply(line)
<1>1. CASE line = Garbled
  BY <1>1, LinesAssumption DEF ProcessRequest, Reply
<1>2. CASE line # Garbled
  BY <1>2 DEF ProcessRequest, Reply, ProcessResolution, Words
<1> QED
  BY <1>1, <1>2

\* The characters of a line.
LEMMA PlaceOfChar ==
    ASSUME NEW g \in Nat
    PROVE  /\ g \div 3 \in Nat /\ g % 3 \in 0 .. 2 /\ g = 3 * (g \div 3) + (g % 3)
           /\ g % 3 # 2 => (g + 1) \div 3 = g \div 3
           /\ g % 3 = 2 => (g + 1) \div 3 = (g \div 3) + 1
OBVIOUS

\* Every character is drained as its place in the line asks.
LEMMA CharStep ==
    ASSUME input \in Seq(Words), NEW g \in Nat, g < 3 * Len(input)
    PROVE  Char(AnsweredAt(g), CharAt(g + 1)) = AnsweredAt(g + 1)
<1>1. PICK k \in Nat : k = g \div 3
  BY PlaceOfChar
<1>2. PICK r \in 0 .. 2 : r = g % 3
  BY PlaceOfChar
<1>3. g = 3 * k + r /\ 3 * k \in Nat /\ 3 * k <= g
  BY <1>1, <1>2, PlaceOfChar
<1>4. PICK line \in Words : line = input[k + 1]
  BY <1>3
<1>5. line # "newline"
  BY LinesAssumption DEF Words
<1>6. PICK s : s = Span(3 * k, g)
  OBVIOUS
<1>7. PICK c : c = CharAt(g + 1)
  OBVIOUS
<1>8. Append(s, c) = Span(3 * k, g + 1)
  BY <1>3, <1>6, <1>7, SpanIs
<1>9. PICK d : d = AnsweredAt(g)
  OBVIOUS
<1>10. d.line = s /\ d.out = Replies(k)
  BY <1>1, <1>6, <1>9 DEF AnsweredAt
<1>11. c = IF r = 0 THEN line ELSE IF r = 1 THEN "char" ELSE "newline"
  BY <1>1, <1>2, <1>4, <1>7 DEF CharAt
<1>12. CASE r # 2
  <2>1. c # "newline"
    BY <1>5, <1>11, <1>12
  <2>2. Char(d, c) = [line |-> Append(s, c), out |-> Replies(k)]
    BY <2>1, <1>10 DEF Char
  <2>3. (g + 1) \div 3 = k
    BY <1>1, <1>2, <1>12, PlaceOfChar
  <2> QED
    BY <1>7, <1>8, <1>9, <2>2, <2>3 DEF AnsweredAt
<1>13. CASE r = 2
  <2>1. s = <<line, "char">>
    <3>1. g - 3 * k = 2
      BY <1>3, <1>13
    <3>2. s = [p \in 1 .. 2 |-> CharAt(3 * k + p)]
      BY <1>6, <3>1 DEF Span
    <3>3. CharAt(3 * k + 1) = line
      <4>1. 3 * k + 1 - 1 = 3 * k /\ (3 * k) % 3 = 0 /\ (3 * k) \div 3 = k
        OBVIOUS
      <4> QED
        BY <1>4, <4>1 DEF CharAt
    <3>4. CharAt(3 * k + 2) = "char"
      <4>1. 3 * k + 2 - 1 = 3 * k + 1 /\ (3 * k + 1) % 3 = 1
        OBVIOUS
      <4> QED
        BY <4>1 DEF CharAt
    <3> QED
      BY <3>2, <3>3, <3>4
  <2>2. ProcessRequest(s) = Reply(line)
    BY <2>1, RequestIs
  <2>3. Char(d, c) = [line |-> << >>, out |-> Append(Replies(k), Reply(line))]
    BY <1>10, <1>11, <1>13, <2>2 DEF Char
  <2>4. Append(Replies(k), Reply(line)) = Replies(k + 1)
    BY <1>4, RepliesGrow
  <2>5. (g + 1) \div 3 = k + 1 /\ 3 * (k + 1) = g + 1
    BY <1>1, <1>2, <1>3, <1>13, PlaceOfChar
  <2>6. Span(g + 1, g + 1) = << >>
    BY SpanIs DEF Span
  <2>7. AnsweredAt(g + 1) = [line |-> << >>, out |-> Replies(k + 1)]
    BY <2>5, <2>6 DEF AnsweredAt
  <2> QED
    BY <1>7, <1>9, <2>3, <2>4, <2>7
<1> QED
  BY <1>12, <1>13

\* Every line that is whole is taken from the buffer and answered, in order.
LEMMA DrainIs ==
    ASSUME input \in Seq(Words), NEW k \in Nat, NEW hi \in Nat, 3 * k <= hi, hi <= 3 * Len(input),
           answers = Replies(k)
    PROVE  Drained(Span(3 * k, hi)) = AnsweredAt(hi)
<1>1. PICK t : t = Span(3 * k, hi)
  OBVIOUS
<1>2. PICK n \in Nat : n = hi - 3 * k
  OBVIOUS
<1>3. Len(t) = n /\ \A i \in 1 .. n : t[i] = CharAt(3 * k + i)
  BY <1>1, <1>2, SpanIs DEF Span
<1>4. PICK start : start = [line |-> << >>, out |-> answers]
  OBVIOUS
<1>5. AnsweredAt(3 * k) = start
  <2>1. (3 * k) \div 3 = k /\ 3 * k \in Nat
    OBVIOUS
  <2>2. Span(3 * k, 3 * k) = << >>
    BY <2>1, SpanIs DEF Span
  <2> QED
    BY <1>4, <2>1, <2>2 DEF AnsweredAt
<1> DEFINE f == [i \in 0 .. n |-> AnsweredAt(3 * k + i)]
<1>6. ASSUME NEW i \in 0 .. n PROVE f[i] = IF i = 0 THEN start ELSE Char(f[i - 1], t[i])
  <2>1. CASE i = 0
    BY <1>5, <2>1
  <2>2. CASE i # 0
    <3>1. PICK g \in Nat : g = 3 * k + i - 1
      BY <2>2
    <3>2. /\ g + 1 = 3 * k + i /\ 3 * k + (i - 1) = g /\ i - 1 \in 0 .. n /\ i \in 1 .. n
          /\ g < 3 * Len(input)
      BY <1>2, <2>2, <3>1
    <3>3. f[i] = AnsweredAt(g + 1) /\ f[i - 1] = AnsweredAt(g) /\ t[i] = CharAt(g + 1)
      BY <1>3, <3>2
    <3> HIDE DEF f
    <3> QED
      BY <2>2, <3>2, <3>3, CharStep
  <2> QED
    BY <2>1, <2>2
<1>7. IsDraining(f, t) /\ f[n] = AnsweredAt(hi)
  <2>1. f = [i \in 0 .. n |-> IF i = 0 THEN start ELSE Char(f[i - 1], t[i])]
    BY <1>6
  <2>2. f[n] = AnsweredAt(hi)
    <3>1. n \in 0 .. n /\ 3 * k + n = hi
      BY <1>2
    <3> QED
      BY <3>1
  <2> HIDE DEF f
  <2> QED
    BY <2>1, <2>2, <1>3, <1>4, Zenon DEF IsDraining
<1> HIDE DEF f
<1>8. Drained(t) = AnsweredAt(hi)
  BY <1>3, <1>7, DrainedIs
<1> QED
  BY <1>1, <1>8

\* Chunks may end anywhere.
LEMMA ChunkKept ==
    ASSUME PrInv, NEW n \in Nat, Chunk(n)
    PROVE  PrInv'
<1>1. /\ args = 0 /\ input \in Seq(Words) /\ arrived \in 0 .. 4 * Len(input)
      /\ held = HeldAt(arrived) /\ buffer = Span(3 * (arrived \div 4), Count(arrived))
      /\ answers = Replies(arrived \div 4)
  BY DEF PrInv, Chunk
<1>2. n \in (arrived + 1) .. 4 * Len(input)
  <2>1. Stream \in Seq({Stream[i] : i \in Nat}) /\ Len(Stream) = 4 * Len(input)
    <3>1. PICK m \in Nat : m = 4 * Len(input)
      BY <1>1
    <3>2. Stream = [i \in 1 .. m |-> BytesOf(input[(i - 1) \div 4 + 1])[((i - 1) % 4) + 1]]
      BY <3>1 DEF Stream
    <3>3. PICK s : s = Stream
      OBVIOUS
    <3>4. s = [i \in 1 .. m |-> s[i]]
      BY <3>2, <3>3
    <3>5. s \in Seq({s[i] : i \in Nat}) /\ Len(s) = m
      BY <3>4
    <3> QED
      BY <3>1, <3>3, <3>5
  <2> QED
    BY <2>1 DEF Chunk
<1>3. PICK a \in Nat : a = arrived
  BY <1>1
<1>4. PICK decoded : decoded = Decode(SubSeq(Stream, arrived + 1, n))
  OBVIOUS
<1>5. decoded = Decoded(Count(a), n)
  BY <1>1, <1>2, <1>3, <1>4, DecodeIs
<1>6. decoded.rest = HeldAt(n) /\ decoded.text = Span(Count(a), Count(n))
  BY <1>5 DEF Decoded
<1>7. PICK k \in Nat : k = a \div 4
  BY PlaceOfByte
<1>8. /\ 3 * k \in Nat /\ Count(a) \in Nat /\ Count(n) \in Nat
      /\ 3 * k <= Count(a) /\ Count(a) <= Count(n) /\ Count(n) <= 3 * Len(input)
  <2>1. a <= n /\ 4 * Len(input) \in Nat /\ n <= 4 * Len(input)
    BY <1>1, <1>2, <1>3
  <2>2. Count(4 * Len(input)) = 3 * Len(input)
    <3>1. PICK l \in Nat : l = Len(input)
      BY <1>1
    <3>2. (4 * l) \div 4 = l /\ (4 * l) % 4 = 0
      OBVIOUS
    <3> QED
      BY <3>1, <3>2 DEF Count
  <2>3. Count(a) <= Count(n) /\ Count(n) <= 3 * Len(input)
    BY <2>1, <2>2, CountGrows
  <2>4. n \in Nat /\ Count(n) \in Nat /\ Count(a) \in Nat
    BY CountIs
  <2>5. 3 * (a \div 4) <= Count(a)
    BY CountIs
  <2> QED
    BY <1>7, <2>3, <2>4, <2>5
<1>9. PICK text : text = buffer \o decoded.text
  OBVIOUS
<1>10. text = Span(3 * k, Count(n))
  <2>1. buffer = Span(3 * k, Count(a))
    BY <1>1, <1>3, <1>7, Zenon
  <2>2. Span(3 * k, Count(a)) \o Span(Count(a), Count(n)) = Span(3 * k, Count(n))
    BY <1>8, SpanJoined
  <2> QED
    BY <1>6, <1>9, <2>1, <2>2, Zenon
<1>11. Drained(text) = AnsweredAt(Count(n))
  BY <1>1, <1>3, <1>7, <1>8, <1>10, DrainIs
<1>12. PICK drained : drained = Drained(text)
  OBVIOUS
<1>13. drained.line = Span(3 * (n \div 4), Count(n)) /\ drained.out = Replies(n \div 4)
  BY <1>11, <1>12, CountIs DEF AnsweredAt
<1>14. /\ held' = decoded.rest /\ buffer' = drained.line /\ answers' = drained.out
       /\ arrived' = n /\ args' = args /\ input' = input
  BY <1>4, <1>9, <1>12, Zenon DEF Chunk
<1> QED
  BY <1>1, <1>2, <1>6, <1>13, <1>14 DEF PrInv, Span, CharAt, Replies

\* A program that has read nothing has answered nothing.
LEMMA PrInitTrue == PrInit => PrInv
<1> SUFFICES ASSUME PrInit, args = 0 PROVE PrInv
  BY DEF PrInv
<1>1. input \in Seq(Words)
  <2>1. PICK m \in 0 .. MaxLines : input \in [1 .. m -> Words]
    BY DEF PrInit, BoundedSeq, SeqOf, Words
  <2> QED
    BY <2>1, LinesAssumption
<1>2. 0 \div 4 = 0 /\ 0 % 4 = 0
  OBVIOUS
<1>3. HeldAt(0) = << >> /\ Count(0) = 0
  BY <1>2 DEF HeldAt, Count
<1>4. Span(0, 0) = << >> /\ Replies(0) = << >>
  BY SpanIs DEF Span, Replies
<1> QED
  BY <1>1, <1>2, <1>3, <1>4 DEF PrInit, PrInv

\* For any lines, and chunks that end anywhere: each line that has arrived whole
\* is answered once, in order, as if it had come alone.
THEOREM AnswersInOrderAlways == PrSpec => []AnswersInOrder
<1>1. PrInit => PrInv
  BY PrInitTrue
<1>2. PrInv /\ [PrNext]_prVars => PrInv'
  <2> SUFFICES ASSUME PrInv, [PrNext]_prVars PROVE PrInv'
    OBVIOUS
  <2>1. CASE \E query \in DOMAIN Queries : Argument(query)
    BY <2>1 DEF Argument, PrInv
  <2>2. CASE \E n \in 1 .. Len(Stream) : Chunk(n)
    <3>1. PICK n \in 1 .. Len(Stream) : Chunk(n)
      BY <2>2
    <3>2. n \in Nat
      OBVIOUS
    <3> QED
      BY <3>1, <3>2, ChunkKept
  <2>3. CASE UNCHANGED prVars
    BY <2>3 DEF prVars, PrInv, Span, CharAt, Replies
  <2> QED
    BY <2>1, <2>2, <2>3 DEF PrNext
<1>3. PrInv => AnswersInOrder
  BY DEF PrInv, AnswersInOrder, Replies, Reply
<1> QED
  BY <1>1, <1>2, <1>3, PTL DEF PrSpec

=============================================================================
