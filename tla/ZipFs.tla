------------------------------- MODULE ZipFs -------------------------------
(* ZipFS of the Plug'n'Play runtime: one zip archive opened as a file       *)
(* system.  Two indices kept in JavaScript (entries, listings) and a cache  *)
(* of file sources shadow the members libzip holds; the "Promise" methods   *)
(* await a source between looking a path up and using what was found.       *)
EXTENDS Naturals, Sequences, SequencesExt, FiniteSets

CONSTANTS
    Names,        \* file names
    Tokens,       \* what contents are made of
    Callers,      \* asynchronous calls that may be in flight
    InitZip,      \* members of the archive when it is opened
    LinkTargets,  \* targets given to symlink()
    CallPaths,    \* paths the calls are given
    MaxMembers, MaxLen   \* bounds: members, contents

VARIABLES
    zip,          \* libzip: index -> member
    entries,      \* path -> index
    listings,     \* directory -> names
    fileSources,  \* index -> cached contents
    symlinkCount,
    state,        \* "open" (ready), "saved" or "discarded"
    readOnly,
    pend,         \* caller -> suspended call, or Idle
    aliased       \* history: rmdir() was given another name of the directory

vars == <<zip, entries, listings, fileSources, symlinkCount, state, readOnly,
          pend, aliased>>

Root == << >>
Path == {Root} \cup {<<n>> : n \in Names} \cup (Names \X Names)
Dirname(p) == IF p = Root THEN Root ELSE Front(p)
Text == Seq(Names \cup Tokens)
Idle == [op |-> "idle"]

\* The archives that are opened: no two members resolve to the same path,
\* and nothing has been written to them yet.
InitialMember == [name : Path \ {Root}, kind : {"file", "link", "dir"},
                  data : Text, stored : BOOLEAN, changed : {FALSE}]
ASSUME ArchiveAssumption ==
    /\ InitZip \in Seq(InitialMember)
    /\ \A i, j \in DOMAIN InitZip : InitZip[i].name = InitZip[j].name => i = j
ASSUME CallsAssumption == CallPaths \cup LinkTargets \subseteq Text
ready == state = "open"

Put(f, x, v) == [y \in DOMAIN f \cup {x} |-> IF y = x THEN v ELSE f[y]]
Drop(f, x) == [y \in DOMAIN f \ {x} |-> f[y]]
Joined(f, g) == [x \in DOMAIN f \cup DOMAIN g |-> IF x \in DOMAIN f THEN f[x] ELSE g[x]]

Kind(i) == zip[i].kind
Live(i) == i \in DOMAIN zip /\ Kind(i) # "gone"

\* The link test is short-circuited while no symbolic link is known of.
isSymbolicLink(i) == symlinkCount # 0 /\ Kind(i) = "link"

\* getFileSource: the cache first, the archive otherwise.
Source(i) == IF i \in DOMAIN fileSources THEN fileSources[i] ELSE zip[i].data

\* libzip looks a file name up; a directory's name ends with a slash there.
Locate(p) == {i \in DOMAIN zip : zip[i].name = p /\ Kind(i) \in {"file", "link"}}

Found(p) == [err |-> "none", p |-> p]
Fail(e) == [err |-> e, p |-> Root]
Known(p) == p \in DOMAIN entries \/ p \in DOMAIN listings

\* resolveFilename: links in every directory of the path are followed, and
\* the last component's too when last is "follow".  `fuel` is the stack: a cycle of
\* links overflows it.  Reading a link's target also caches it, which no
\* step of the model can tell.
Fuel == 6
Walk[fuel \in 0..Fuel] == [ask \in Text \X {"follow", "keep"} |->
    LET p == ask[1]
        last == ask[2]
        parent == Walk[fuel - 1][<<Dirname(p), "follow">>]
        q == Append(parent.p, Last(p))
        gone == p \in DOMAIN entries /\ ~Live(entries[p])
        hop == {i \in Locate(q) : isSymbolicLink(i)}
    IN CASE fuel = 0 -> Fail("RangeError")
         [] fuel > 0 /\ p = Root -> Found(Root)
         [] fuel > 0 /\ p # Root /\ last = "follow" /\ p \in DOMAIN entries ->
                IF gone /\ symlinkCount # 0 THEN Fail("LibzipError")
                ELSE IF ~gone /\ isSymbolicLink(entries[p])
                     THEN Walk[fuel - 1][<<Source(entries[p]), "follow">>]
                     ELSE Found(p)
         [] OTHER ->
                IF parent.err # "none" THEN parent
                ELSE IF parent.p \notin DOMAIN listings
                     THEN Fail(IF parent.p \in DOMAIN entries
                               THEN "ENOTDIR" ELSE "ENOENT")
                ELSE IF last = "follow" /\ hop # {}
                     THEN Walk[fuel - 1][<<Source(CHOOSE i \in hop : TRUE), "follow">>]
                     ELSE Found(q)]

Resolve(p, last) == IF ready THEN Walk[Fuel][<<p, last>>] ELSE Fail("EBUSY")
resolveFilename(p) == Resolve(p, "follow")
resolveLink(p) == Resolve(p, "keep")

-----------------------------------------------------------------------------
(* Queries: the error each of them answers with, "none" when it succeeds.       *)

\* With no link in the archive existsSync skips the walk over the parents.
Exists(p) ==
    /\ ready
    /\ IF symlinkCount = 0 THEN Known(p)
       ELSE resolveFilename(p).err = "none" /\ Known(resolveFilename(p).p)

\* accessSync, also asked whether the file can be written
Access(p, write) ==
    LET r == resolveFilename(p)
    IN IF r.err # "none" THEN r.err ELSE IF ~Known(r.p) THEN "ENOENT"
       ELSE IF readOnly /\ write THEN "EROFS" ELSE "none"

\* statImpl: an entry is asked of libzip, a directory without one is made up
StatImpl(p) ==
    IF p \in DOMAIN entries
    THEN IF Live(entries[p]) THEN "none" ELSE "LibzipError"
    ELSE IF p \in DOMAIN listings THEN "none" ELSE "Unreachable"

Stat(p) ==
    LET r == resolveFilename(p)
    IN IF r.err # "none" THEN r.err
       ELSE IF ~Known(r.p) THEN "ENOENT" ELSE StatImpl(r.p)

Lstat(p) ==
    LET r == resolveLink(p)
    IN IF r.err # "none" THEN r.err
       ELSE IF ~Known(r.p) THEN "ENOENT" ELSE StatImpl(r.p)

\* readFileBuffer
Read(p) ==
    LET r == resolveFilename(p)
    IN CASE r.err # "none" -> r.err
         [] r.err = "none" /\ r.p \in DOMAIN listings -> "EISDIR"
         [] r.err = "none" /\ ~Known(r.p) -> "ENOENT"
         [] OTHER -> IF Live(entries[r.p]) THEN "none" ELSE "LibzipError"

\* readdirSync and opendirSync
Readdir(p) ==
    LET r == resolveFilename(p)
    IN CASE r.err # "none" -> r.err
         [] r.err = "none" /\ ~Known(r.p) -> "ENOENT"
         [] r.err = "none" /\ r.p \in DOMAIN entries \ DOMAIN listings -> "ENOTDIR"
         [] OTHER -> "none"

-----------------------------------------------------------------------------
(* The two indices.                                                         *)

\* registerListing: the directory and, up to one that is listed, those above.
Above(p) == {SubSeq(p, 1, k) : k \in 0..(Len(p) - 1)}
Missing(L, p) ==
    {q \in Above(p) \cup {p} : \A r \in Above(p) \cup {p} : Len(q) <= Len(r) => r \notin DOMAIN L}
Listed(L, p) ==
    [q \in DOMAIN L \cup Missing(L, p) |->
        (IF q \in DOMAIN L THEN L[q] ELSE {}) \cup
        {Last(u) : u \in {v \in Missing(L, p) : Dirname(v) = q}}]

\* registerEntry
ListedEntry(L, p) == Put(Listed(L, Dirname(p)), Dirname(p),
                         Listed(L, Dirname(p))[Dirname(p)] \cup {Last(p)})

Register(p, i) ==
    /\ entries' = Put(entries, p, i)
    /\ listings' = ListedEntry(listings, p)

\* Mutant: the directory keeps the name.
UnregisterKeepsName(p) ==
    /\ listings' = Drop(listings, p)
    /\ entries' = Drop(entries, p)
    /\ fileSources' = IF p \in DOMAIN entries THEN Drop(fileSources, entries[p])
                      ELSE fileSources
    /\ UNCHANGED symlinkCount

\* unregisterEntry and unregisterListing: out of both indices, the cached
\* source with it, and one link less when the entry found there is one.
Unregister(p) ==
    LET L == Drop(listings, p)
        d == Dirname(p)
    IN /\ listings' = IF d \in DOMAIN L THEN [L EXCEPT ![d] = @ \ {Last(p)}] ELSE L
       /\ entries' = Drop(entries, p)
       /\ IF p \in DOMAIN entries
          THEN /\ fileSources' = Drop(fileSources, entries[p])
               /\ symlinkCount' = IF isSymbolicLink(entries[p])
                                  THEN symlinkCount - 1 ELSE symlinkCount
          ELSE UNCHANGED <<fileSources, symlinkCount>>

\* deleteEntry
Delete(p, i) ==
    /\ Unregister(p)
    /\ zip' = [zip EXCEPT ![i].kind = "gone"]

\* setFileSource: ZIP_FL_OVERWRITE replaces a member of that name, and the
\* new contents are cached, because libzip cannot read them back.
FileIndex(p) == IF Locate(p) = {} THEN Len(zip) + 1 ELSE CHOOSE i \in Locate(p) : TRUE
FileAdd(p, d, kind) ==
    IF Locate(p) = {}
    THEN Append(zip, [name |-> p, kind |-> kind, data |-> d,
                      stored |-> FALSE, changed |-> TRUE])
    ELSE [zip EXCEPT ![FileIndex(p)].data = d, ![FileIndex(p)].changed = TRUE]

\* Mutant: a cached source is kept.
SetFileSourceKeeps(p, d, kind) ==
    /\ Len(FileAdd(p, d, kind)) <= MaxMembers
    /\ zip' = FileAdd(p, d, kind)
    /\ fileSources' = IF FileIndex(p) \in DOMAIN fileSources THEN fileSources
                      ELSE Put(fileSources, FileIndex(p), d)

setFileSource(p, d, kind) ==
    /\ Len(FileAdd(p, d, kind)) <= MaxMembers
    /\ zip' = FileAdd(p, d, kind)
    /\ fileSources' = Put(fileSources, FileIndex(p), d)

\* The tail of every write: the entry is registered when its index is new.
Store(p, known, d) ==
    /\ setFileSource(p, d, "file")
    /\ IF known = FileIndex(p) THEN UNCHANGED <<entries, listings>>
       ELSE Register(p, FileIndex(p))
    /\ UNCHANGED <<symlinkCount, state, readOnly, aliased>>

-----------------------------------------------------------------------------
(* Initial state: the constructor walks over the members.                   *)

InitNames == {InitZip[i].name : i \in DOMAIN InitZip}
InitDirs ==
    {Root} \cup {InitZip[i].name : i \in {j \in DOMAIN InitZip : InitZip[j].kind = "dir"}}
           \cup UNION {Above(p) : p \in InitNames}
InitListings == [d \in InitDirs |-> {n \in Names : Append(d, n) \in InitNames \cup InitDirs}]

Init ==
    /\ zip = InitZip
    /\ entries = [p \in InitNames |->
                    CHOOSE i \in DOMAIN InitZip : InitZip[i].name = p]
    /\ listings = InitListings
    /\ fileSources = << >>
    /\ symlinkCount = Cardinality({i \in DOMAIN InitZip : InitZip[i].kind = "link"})
    /\ state = "open"
    /\ readOnly \in BOOLEAN
    /\ pend = [c \in Callers |-> Idle]
    /\ aliased = FALSE

-----------------------------------------------------------------------------
(* Synchronous operations; a call that throws changes nothing.              *)

Idx(p) == IF p \in DOMAIN entries THEN entries[p] ELSE 0
CanRead(i) == i \in DOMAIN fileSources \/ Live(i)

\* prepareWriteFile succeeds at r
Writable(r) == ~readOnly /\ r.err = "none" /\ r.p \notin DOMAIN listings

WriteFile(p, d) ==
    LET r == resolveFilename(p)
    IN Writable(r) /\ Store(r.p, Idx(r.p), d) /\ UNCHANGED pend

\* appendFileSync: the contents read, then written back longer
AppendFile(p, d) ==
    LET r == resolveFilename(p)
        old == IF Idx(r.p) = 0 THEN << >> ELSE Source(Idx(r.p))
    IN /\ Writable(r) /\ (Idx(r.p) # 0 => CanRead(Idx(r.p)))
       /\ Len(old \o d) <= MaxLen
       /\ Store(r.p, Idx(r.p), old \o d) /\ UNCHANGED pend

\* prepareCopyFile
CanCopy(rs, rt, excl) ==
    /\ ~readOnly /\ rs.err = "none" /\ rs.p \in DOMAIN entries /\ rt.err = "none"
    /\ ~(excl /\ rt.p \in DOMAIN entries)

\* Copying asks nothing of a directory: neither as the source, whose entry
\* has empty contents, nor as the destination.
CopyFile(s, t, excl) ==
    LET rs == resolveFilename(s)
        rt == resolveFilename(t)
    IN /\ CanCopy(rs, rt, excl) /\ CanRead(entries[rs.p]) /\ rt.p # Root
       /\ Store(rt.p, Idx(rt.p), Source(entries[rs.p])) /\ UNCHANGED pend

\* readFileSync, readlinkSync: the decompressed contents stay cached
ReadFile(p) ==
    LET i == entries[resolveFilename(p).p]
    IN /\ Read(p) = "none" /\ i \notin DOMAIN fileSources
       /\ fileSources' = Put(fileSources, i, zip[i].data)
       /\ UNCHANGED <<zip, entries, listings, symlinkCount, state, readOnly, pend, aliased>>

\* unlinkSync removes what the path leads to, a link's target with it
Unlink(p) ==
    LET r == resolveFilename(p)
    IN /\ ~readOnly /\ r.err = "none" /\ r.p \notin DOMAIN listings
       /\ r.p \in DOMAIN entries /\ Live(entries[r.p])
       /\ Delete(r.p, entries[r.p])
       /\ UNCHANGED <<state, readOnly, pend, aliased>>

\* hydrateDirectory
Hydrate(p) ==
    LET i == Len(zip) + 1
        L == ListedEntry(Listed(listings, p), p)
    IN /\ i <= MaxMembers
       /\ zip' = Append(zip, [name |-> p, kind |-> "dir", data |-> << >>,
                              stored |-> TRUE, changed |-> FALSE])
       /\ entries' = Put(entries, p, i)
       /\ listings' = L

\* mkdirSync, not recursive
Mkdir(p) ==
    LET r == resolveFilename(p)
    IN /\ ~readOnly /\ r.err = "none" /\ ~Known(r.p)
       /\ Hydrate(r.p)
       /\ UNCHANGED <<fileSources, symlinkCount, state, readOnly, pend, aliased>>

\* utimesSync: a directory the archive has no member for gets one
Utimes(p) ==
    LET r == resolveFilename(p)
    IN /\ ~readOnly /\ r.err = "none" /\ r.p # Root
       /\ r.p \in DOMAIN listings \ DOMAIN entries
       /\ Hydrate(r.p)
       /\ UNCHANGED <<fileSources, symlinkCount, state, readOnly, pend, aliased>>

\* rmdirSync, not recursive: the checks are made of the resolved path, the
\* entry is deleted under the name the caller gave.
Rmdir(p) ==
    LET r == resolveFilename(p)
    IN /\ ~readOnly /\ r.err = "none" /\ r.p \in DOMAIN listings
       /\ listings[r.p] = {} /\ r.p \in DOMAIN entries /\ Live(entries[r.p])
       /\ p \in DOMAIN entries => Live(entries[p])
       /\ Delete(p, entries[r.p])
       /\ aliased' = (aliased \/ p # r.p)
       /\ UNCHANGED <<state, readOnly, pend>>

\* Mutant: the count is not raised.
SymlinkUncounted(target, p) ==
    LET r == resolveFilename(p)
    IN /\ ~readOnly /\ r.err = "none" /\ ~Known(r.p)
       /\ setFileSource(r.p, target, "link")
       /\ Register(r.p, FileIndex(r.p))
       /\ UNCHANGED <<symlinkCount, state, readOnly, pend, aliased>>

Symlink(target, p) ==
    LET r == resolveFilename(p)
    IN /\ ~readOnly /\ r.err = "none" /\ ~Known(r.p)
       /\ setFileSource(r.p, target, "link")
       /\ Register(r.p, FileIndex(r.p))
       /\ symlinkCount' = symlinkCount + 1
       /\ UNCHANGED <<state, readOnly, pend, aliased>>

\* saveAndClose; a read-only archive is discarded
SaveAndClose ==
    /\ ready
    /\ state' = IF readOnly THEN "discarded" ELSE "saved"
    /\ UNCHANGED <<zip, entries, listings, fileSources, symlinkCount, readOnly, pend, aliased>>

\* discardAndClose and getBufferAndClose
DiscardAndClose ==
    /\ ready /\ state' = "discarded"
    /\ UNCHANGED <<zip, entries, listings, fileSources, symlinkCount, readOnly, pend, aliased>>

-----------------------------------------------------------------------------
(* Asynchronous operations: everything before the await, then the rest.     *)

\* getFileSource with asyncDecompress: a stored member is cached at once, a
\* deflated one when inflateRaw calls back.
Await(c, call, i) ==
    /\ pend[c] = Idle /\ CanRead(i)
    /\ LET hit == i \in DOMAIN fileSources
       IN /\ pend' = [pend EXCEPT ![c] = Joined(call,
                        [src |-> i, data |-> Source(i),
                         inflate |-> ~hit /\ ~zip[i].stored])]
          /\ fileSources' = IF ~hit /\ zip[i].stored
                            THEN Put(fileSources, i, zip[i].data) ELSE fileSources
    /\ UNCHANGED <<zip, entries, listings, symlinkCount, state, readOnly, aliased>>

ReadFilePromise(c, p) ==
    LET r == resolveFilename(p)
    IN Read(p) = "none" /\ Await(c, [op |-> "read"], entries[r.p])

\* prepareReadlink, then the target
ReadlinkPromise(c, p) ==
    LET r == resolveLink(p)
    IN /\ r.err = "none" /\ r.p \in DOMAIN entries \ DOMAIN listings
       /\ Live(entries[r.p]) /\ isSymbolicLink(entries[r.p])
       /\ Await(c, [op |-> "read"], entries[r.p])

AppendFilePromise(c, p, d) ==
    LET r == resolveFilename(p)
    IN /\ Writable(r) /\ r.p \in DOMAIN entries
       /\ Await(c, [op |-> "append", p |-> r.p, idx |-> Idx(r.p), add |-> d], Idx(r.p))

CopyFilePromise(c, s, t, excl) ==
    LET rs == resolveFilename(s)
        rt == resolveFilename(t)
    IN /\ CanCopy(rs, rt, excl) /\ rt.p # Root
       /\ Await(c, [op |-> "copy", p |-> rt.p, idx |-> Idx(rt.p), add |-> << >>],
                entries[rs.p])

TruncatePromise(c, p) ==
    LET r == resolveFilename(p)
    IN /\ r.err = "none" /\ r.p \in DOMAIN entries
       /\ Await(c, [op |-> "truncate", p |-> p], Idx(r.p))

\* inflateRaw's callback caches what it decompressed
Inflated(k) == IF k.inflate THEN Put(fileSources, k.src, k.data) ELSE fileSources

\* A read returns; so does a call whose archive was closed meanwhile.
ResumeRead(c) ==
    LET k == pend[c]
    IN /\ k.op = "read" \/ (k.op # "idle" /\ ~ready)
       /\ fileSources' = Inflated(k)
       /\ pend' = [pend EXCEPT ![c] = Idle]
       /\ UNCHANGED <<zip, entries, listings, symlinkCount, state, readOnly, aliased>>

\* appendFilePromise and copyFilePromise go on with the path and the index
\* they looked up before the await.
ResumeWrite(c) ==
    LET k == pend[c]
        d == k.data \o k.add
    IN /\ k.op \in {"append", "copy"} /\ ready /\ Len(d) <= MaxLen
       /\ Len(FileAdd(k.p, d, "file")) <= MaxMembers
       /\ zip' = FileAdd(k.p, d, "file")
       /\ fileSources' = Put(Inflated(k), FileIndex(k.p), d)
       /\ IF k.idx = FileIndex(k.p) THEN UNCHANGED <<entries, listings>>
          ELSE Register(k.p, FileIndex(k.p))
       /\ pend' = [pend EXCEPT ![c] = Idle]
       /\ UNCHANGED <<symlinkCount, state, readOnly, aliased>>

\* truncatePromise looks the path up again, through writeFilePromise
ResumeTruncate(c) ==
    LET k == pend[c]
        r == resolveFilename(k.p)
    IN /\ k.op = "truncate" /\ ready
       /\ pend' = [pend EXCEPT ![c] = Idle]
       /\ IF Writable(r)
          THEN /\ Len(FileAdd(r.p, << >>, "file")) <= MaxMembers
               /\ zip' = FileAdd(r.p, << >>, "file")
               /\ fileSources' = Put(Inflated(k), FileIndex(r.p), << >>)
               /\ IF Idx(r.p) = FileIndex(r.p) THEN UNCHANGED <<entries, listings>>
                  ELSE Register(r.p, FileIndex(r.p))
          ELSE fileSources' = Inflated(k) /\ UNCHANGED <<zip, entries, listings>>
       /\ UNCHANGED <<symlinkCount, state, readOnly, aliased>>

-----------------------------------------------------------------------------
Sync ==
    \/ \E p \in CallPaths :
          \/ \E t \in Tokens : WriteFile(p, <<t>>) \/ AppendFile(p, <<t>>)
          \/ \E t \in CallPaths, x \in BOOLEAN : CopyFile(p, t, x)
          \/ ReadFile(p) \/ Unlink(p) \/ Mkdir(p) \/ Utimes(p) \/ Rmdir(p)
          \/ \E t \in LinkTargets : Symlink(t, p)
    \/ SaveAndClose \/ DiscardAndClose

Start ==
    \E c \in Callers, p \in CallPaths :
        \/ ReadFilePromise(c, p) \/ ReadlinkPromise(c, p) \/ TruncatePromise(c, p)
        \/ \E t \in Tokens : AppendFilePromise(c, p, <<t>>)
        \/ \E t \in CallPaths, x \in BOOLEAN : CopyFilePromise(c, p, t, x)

Resume == \E c \in Callers : ResumeRead(c) \/ ResumeWrite(c) \/ ResumeTruncate(c)

Next == Sync \/ Start \/ Resume

Spec == Init /\ [][Next]_vars
-----------------------------------------------------------------------------
(* Properties.                                                              *)

\* The indices describe the archive: each entry is a live member of that
\* name, the count that switches link resolution off counts the links, and
\* what libzip can no longer read back is cached -- "this error should never
\* come up because of the file source cache".  rmdir() under another name of
\* its directory deletes one thing and unregisters another, and is excepted.
ArchiveInStep ==
    ~aliased =>
        /\ \A p \in DOMAIN entries : Live(entries[p]) /\ zip[entries[p]].name = p
        /\ \A i \in DOMAIN zip : Live(i) /\ zip[i].changed => i \in DOMAIN fileSources
        /\ symlinkCount = Cardinality({i \in DOMAIN zip : Kind(i) = "link"})

\* No path is a directory and something else; copying onto a directory and
\* writing where one was made during the await both do that.
Untorn == \A p \in DOMAIN entries \cap DOMAIN listings : Kind(entries[p]) = "dir"

\* However links, deletions and suspended writes interleave, the queries
\* answer alike: existsSync's shortcut agrees with the walk of accessSync
\* and statSync, what can be read or listed exists, and every name a
\* directory lists is there -- in an archive where no path is both a
\* directory and something else.
QueriesAgree ==
    ready /\ ~aliased /\ Untorn =>
        /\ \A p \in Path :
              /\ Exists(p) <=> Access(p, FALSE) = "none"
              /\ Exists(p) <=> Stat(p) = "none"
              /\ Exists(p) <=> Read(p) \in {"none", "EISDIR"}
              /\ Readdir(p) = "none" <=> Read(p) = "EISDIR"
        /\ \A d \in DOMAIN listings \cap Path :
              \A n \in listings[d] : Lstat(Append(d, n)) = "none"

\* Reading after a write gives what was written: the cache of file sources
\* holds what the archive holds.
ReadAfterWrite ==
    \A i \in DOMAIN fileSources : Live(i) => fileSources[i] = zip[i].data

\* Only a decompression overtaken by a write of the same member makes the
\* cache disagree with the archive; no synchronous call ever does.
StaleOnlyWhenOvertaken ==
    [][ReadAfterWrite /\ ~ReadAfterWrite' =>
         \E c \in Callers :
            /\ pend[c].op # "idle" /\ pend'[c] = Idle
            /\ pend[c].inflate /\ zip[pend[c].src].changed]_vars
=============================================================================
