---------------------------- MODULE ZipFsProofs -----------------------------
(* ZipFs for any archive without two members of one path, any calls and any *)
(* bounds.  The first two theorems leave open what resolveFilename answers:  *)
(* they depend only on what is done with the entry found there.  The third  *)
(* follows its walk through links and the directories above a path.         *)
EXTENDS ZipFs, FiniteSetTheorems, SequenceTheorems, WellFoundedInduction, TLAPS

Kinds == {"file", "link", "dir", "gone"}
Links == {i \in DOMAIN zip : Kind(i) = "link"}

-----------------------------------------------------------------------------
(* The inductive invariant.                                                 *)

\* A member of the archive, whatever its name and contents are.
IsMember(m) == m \in [name : {m.name}, kind : Kinds, data : {m.data},
                      stored : BOOLEAN, changed : BOOLEAN]
IsSequence(z) == z \in Seq({z[i] : i \in DOMAIN z})
IsArchive(z) == /\ IsSequence(z)
                /\ \A i \in DOMAIN z : IsMember(z[i])

\* What a suspended call carries: a member, and the index it found.
PendShape(c) ==
    pend[c].op # "idle" =>
        /\ pend[c].src \in DOMAIN zip
        /\ pend[c].inflate \in BOOLEAN
        /\ pend[c].op \in {"append", "copy"} =>
              pend[c].idx \in Nat /\ pend[c].idx <= Len(zip)

\* Indices are of members, in every index and in every suspended call.
Shapes ==
    /\ IsArchive(zip)
    /\ DOMAIN fileSources \subseteq DOMAIN zip
    /\ \A p \in DOMAIN entries : entries[p] \in DOMAIN zip
    /\ pend = [c \in Callers |-> pend[c]]
    /\ \A c \in Callers : PendShape(c)

\* Each entry is a live member of that name ...
EntriesLive == \A p \in DOMAIN entries : Live(entries[p]) /\ zip[entries[p]].name = p

\* ... and each file or link of the archive is the entry of its name.
FilesEntered ==
    \A i \in DOMAIN zip : Kind(i) \in {"file", "link"} =>
        zip[i].name \in DOMAIN entries /\ entries[zip[i].name] = i

ChangedCached == \A i \in DOMAIN zip : Live(i) /\ zip[i].changed => i \in DOMAIN fileSources
LinksCounted == symlinkCount = Cardinality(Links)

ZipInv ==
    /\ Shapes
    /\ ~aliased => EntriesLive /\ FilesEntered /\ ChangedCached /\ LinksCounted

\* What a decompression is about to cache is what the archive holds, unless
\* the member was written meanwhile.
InflatesTrue ==
    \A c \in Callers :
        pend[c].op # "idle" /\ pend[c].inflate /\ ~zip[pend[c].src].changed =>
            pend[c].data = zip[pend[c].src].data

-----------------------------------------------------------------------------
(* What libzip's list of members becomes.                                   *)

\* A sequence is one of its own elements.
LEMMA OwnMembers ==
  ASSUME NEW S, NEW w \in Seq(S)
  PROVE  IsSequence(w)
BY DEF IsSequence

\* zip_dir_add and zip_file_add of a new name add one member at the end.
MemberAppended(w, z, m) ==
    /\ IsArchive(w) /\ Len(z) \in Nat /\ Len(w) = Len(z) + 1
    /\ DOMAIN w = DOMAIN z \cup {Len(z) + 1} /\ Len(z) + 1 \notin DOMAIN z
    /\ \A i \in DOMAIN z : w[i] = z[i]
    /\ w[Len(z) + 1] = m

\* ... and nothing else is touched.
LEMMA AppendMember ==
  ASSUME NEW z, IsArchive(z), NEW m, IsMember(m)
  PROVE  MemberAppended(Append(z, m), z, m)
<1> SUFFICES ASSUME NEW w, w = Append(z, m)  PROVE  MemberAppended(w, z, m)
  OBVIOUS
<1> DEFINE S == {z[i] : i \in DOMAIN z} \cup {m}
<1>1. z \in Seq(S) /\ m \in S
  BY DEF IsArchive, IsSequence
<1> HIDE DEF S
<1>2. /\ w \in Seq(S) /\ Len(w) = Len(z) + 1 /\ w[Len(z) + 1] = m
      /\ Len(z) \in Nat
      /\ \A i \in 1..Len(z) : w[i] = z[i]
  BY <1>1
<1>3. DOMAIN z = 1..Len(z) /\ DOMAIN w = 1..(Len(z) + 1)
  BY <1>1, <1>2
<1>4. DOMAIN w = DOMAIN z \cup {Len(z) + 1} /\ Len(z) + 1 \notin DOMAIN z
  BY <1>2, <1>3
<1>5. IsSequence(w)
  <2>1. w \in Seq(S)
    BY <1>2
  <2> QED
    BY <2>1, OwnMembers
<1>6. \A i \in DOMAIN w : IsMember(w[i])
  BY <1>2, <1>3, <1>4 DEF IsArchive
<1> QED
  BY <1>2, <1>3, <1>4, <1>5, <1>6 DEF IsArchive, MemberAppended

\* Overwriting or deleting a member changes that member only.
Replaced(z, j, m) == [z EXCEPT ![j] = m]
MemberReplaced(w, z, j, m) ==
    /\ IsArchive(w) /\ Len(w) = Len(z) /\ Len(z) \in Nat
    /\ DOMAIN w = DOMAIN z
    /\ \A i \in DOMAIN z \ {j} : w[i] = z[i]
    /\ w[j] = m

\* ... the list stays one of members.
LEMMA ReplaceMember ==
  ASSUME NEW z, IsArchive(z), NEW j \in DOMAIN z, NEW m, IsMember(m)
  PROVE  MemberReplaced(Replaced(z, j, m), z, j, m)
<1> SUFFICES ASSUME NEW w, w = Replaced(z, j, m)  PROVE  MemberReplaced(w, z, j, m)
  OBVIOUS
<1> DEFINE S == {z[i] : i \in DOMAIN z} \cup {m}
<1>1. z \in Seq(S) /\ m \in S
  BY DEF IsArchive, IsSequence
<1> HIDE DEF S
<1>2. w \in Seq(S) /\ Len(w) = Len(z) /\ Len(z) \in Nat /\ DOMAIN w = DOMAIN z
  BY <1>1 DEF Replaced
<1>3. w[j] = m /\ \A i \in DOMAIN z \ {j} : w[i] = z[i]
  BY <1>1 DEF Replaced
<1>4. IsSequence(w)
  <2>1. w \in Seq(S)
    BY <1>2
  <2> QED
    BY <2>1, OwnMembers
<1>5. \A i \in DOMAIN w : IsMember(w[i])
  BY <1>2, <1>3 DEF IsArchive
<1> QED
  BY <1>2, <1>3, <1>4, <1>5 DEF IsArchive, MemberReplaced

\* setFileSource: the member of that name, or a new one at the end, holds
\* the contents and is marked; its kind is kept when it was there.
FileAdded(w, j, p, d, kind) ==
    /\ IsArchive(w) /\ Len(zip) \in Nat /\ Len(w) \in Nat /\ Len(zip) <= Len(w)
    /\ DOMAIN w = DOMAIN zip \cup {j}
    /\ \A i \in DOMAIN zip \ {j} : w[i] = zip[i]
    /\ w[j].name = p /\ w[j].data = d /\ w[j].changed
    /\ Locate(p) = {} => /\ j = Len(zip) + 1 /\ j \notin DOMAIN zip
                         /\ w[j].kind = kind
    /\ Locate(p) # {} => j \in Locate(p) /\ w[j].kind = zip[j].kind

\* ... which is what FileAdd makes of the archive.
LEMMA FileAddEffect ==
  ASSUME IsArchive(zip), NEW p, NEW d, NEW kind \in {"file", "link"}
  PROVE  FileAdded(FileAdd(p, d, kind), FileIndex(p), p, d, kind)
<1> SUFFICES ASSUME NEW w, w = FileAdd(p, d, kind), NEW j, j = FileIndex(p)
             PROVE  FileAdded(w, j, p, d, kind)
  OBVIOUS
<1>1. CASE Locate(p) = {}
  <2> DEFINE m == [name |-> p, kind |-> kind, data |-> d, stored |-> FALSE, changed |-> TRUE]
  <2>1. IsMember(m)
    BY DEF IsMember, Kinds
  <2>2. w = Append(zip, m) /\ j = Len(zip) + 1
    BY <1>1 DEF FileAdd, FileIndex
  <2>3. m.name = p /\ m.data = d /\ m.changed /\ m.kind = kind
    OBVIOUS
  <2> HIDE DEF m
  <2>4. /\ IsArchive(w) /\ Len(zip) \in Nat /\ Len(w) = Len(zip) + 1
        /\ DOMAIN w = DOMAIN zip \cup {Len(zip) + 1} /\ Len(zip) + 1 \notin DOMAIN zip
        /\ \A i \in DOMAIN zip : w[i] = zip[i]
        /\ w[Len(zip) + 1] = m
    BY <2>1, <2>2, AppendMember DEF MemberAppended
  <2> QED
    BY <1>1, <2>2, <2>3, <2>4 DEF FileAdded
<1>2. CASE Locate(p) # {}
  <2>1. j \in Locate(p)
    BY <1>2 DEF FileIndex
  <2>2. j \in DOMAIN zip /\ zip[j].name = p
    BY <2>1 DEF Locate
  <2> DEFINE m == [zip[j] EXCEPT !.data = d, !.changed = TRUE]
  <2>3. IsMember(zip[j])
    BY <2>2 DEF IsArchive
  <2>4. IsMember(m) /\ m.name = p /\ m.data = d /\ m.changed /\ m.kind = zip[j].kind
    BY <2>2, <2>3 DEF IsMember
  <2>5. w = Replaced(zip, j, m)
    BY <1>2, <2>2 DEF FileAdd, IsArchive, Replaced
  <2> HIDE DEF m
  <2>6. /\ IsArchive(w) /\ Len(w) = Len(zip) /\ Len(zip) \in Nat
        /\ DOMAIN w = DOMAIN zip
        /\ \A i \in DOMAIN zip \ {j} : w[i] = zip[i]
        /\ w[j] = m
    BY <2>2, <2>4, <2>5, ReplaceMember DEF MemberReplaced
  <2> QED
    BY <1>2, <2>1, <2>2, <2>4, <2>6 DEF FileAdded
<1> QED
  BY <1>1, <1>2

-----------------------------------------------------------------------------
(* Each kind of step keeps the invariant.                                   *)

\* No call is added: a suspended call stays, or its caller is idle again.
NoneStarted == /\ pend' = [c \in Callers |-> pend'[c]]
               /\ \A c \in Callers : pend'[c] = pend[c] \/ pend'[c].op = "idle"

\* Suspended calls stay well-formed while the archive only grows.
LEMMA PendKept ==
  ASSUME Shapes, NoneStarted, DOMAIN zip \subseteq DOMAIN zip',
         Len(zip) \in Nat, Len(zip') \in Nat, Len(zip) <= Len(zip')
  PROVE  /\ pend' = [c \in Callers |-> pend'[c]]
         /\ \A c \in Callers : PendShape(c)'
BY DEF Shapes, NoneStarted, PendShape

\* Writes, before or after an await: the member of that name is overwritten
\* or a new one is entered, and its contents are cached.
LEMMA StoreStep ==
  ASSUME ZipInv, NoneStarted, NEW p, NEW d, zip' = FileAdd(p, d, "file"),
         NEW known \in Nat, known <= Len(zip),
         known = FileIndex(p) => entries' = entries,
         known # FileIndex(p) => entries' = Put(entries, p, FileIndex(p)),
         DOMAIN fileSources' \subseteq DOMAIN zip \cup {FileIndex(p)},
         DOMAIN fileSources \cup {FileIndex(p)} \subseteq DOMAIN fileSources',
         UNCHANGED <<symlinkCount, aliased>>
  PROVE  ZipInv'
<1> DEFINE j == FileIndex(p)
<1>1. IsArchive(zip)
  BY DEF ZipInv, Shapes
<1>2. /\ IsArchive(zip') /\ Len(zip) \in Nat /\ Len(zip') \in Nat /\ Len(zip) <= Len(zip')
      /\ DOMAIN zip' = DOMAIN zip \cup {j}
      /\ \A i \in DOMAIN zip \ {j} : zip'[i] = zip[i]
      /\ zip'[j].name = p /\ zip'[j].data = d /\ zip'[j].changed
      /\ Locate(p) = {} => /\ j = Len(zip) + 1 /\ j \notin DOMAIN zip
                           /\ zip'[j].kind = "file"
      /\ Locate(p) # {} => j \in Locate(p) /\ zip'[j].kind = zip[j].kind
  <2>1. FileAdded(zip', j, p, d, "file")
    BY <1>1, FileAddEffect
  <2> QED
    BY <2>1 DEF FileAdded
<1>3. Locate(p) # {} => j \in DOMAIN zip /\ zip[j].name = p /\ zip[j].kind \in {"file", "link"}
  BY <1>2 DEF Locate, Kind
<1>4. zip'[j].kind \in {"file", "link"}
  BY <1>2, <1>3
<1>5. Locate(p) = {} => known # j
  BY <1>2
<1> HIDE DEF j
<1>6. /\ known = j => entries' = entries
      /\ known # j => /\ DOMAIN entries' = DOMAIN entries \cup {p} /\ entries'[p] = j
                      /\ \A q \in DOMAIN entries \ {p} : entries'[q] = entries[q]
  BY DEF Put, j
<1>7. Shapes'
  <2>1. DOMAIN fileSources' \subseteq DOMAIN zip'
    BY <1>2 DEF ZipInv, Shapes, j
  <2>2. \A q \in DOMAIN entries' : entries'[q] \in DOMAIN zip'
    BY <1>2, <1>6 DEF ZipInv, Shapes
  <2> QED
    BY <1>2, <2>1, <2>2, PendKept DEF ZipInv, Shapes
<1>8. ASSUME ~aliased  PROVE EntriesLive' /\ FilesEntered' /\ ChangedCached' /\ LinksCounted'
  <2>1. EntriesLive /\ FilesEntered /\ ChangedCached /\ LinksCounted
    BY <1>8 DEF ZipInv
  <2>2. Locate(p) # {} => p \in DOMAIN entries /\ entries[p] = j
    BY <1>3, <2>1 DEF FilesEntered, Kind
  <2>3. p \in DOMAIN entries' /\ entries'[p] = j
    BY <1>5, <1>6, <2>2
  <2>4. /\ DOMAIN entries' = DOMAIN entries \cup {p}
        /\ \A q \in DOMAIN entries \ {p} : entries'[q] = entries[q] /\ entries[q] # j
    <3>1. \A q \in DOMAIN entries : zip[entries[q]].name = q /\ entries[q] \in DOMAIN zip
      BY <2>1 DEF EntriesLive, ZipInv, Shapes
    <3>2. \A q \in DOMAIN entries \ {p} : entries[q] # j
      BY <3>1, <1>2, <1>3
    <3> QED
      BY <1>5, <1>6, <2>2, <3>2
  <2>5. EntriesLive'
    BY <1>2, <1>4, <2>1, <2>3, <2>4 DEF EntriesLive, Live, Kind, ZipInv, Shapes
  <2>6. FilesEntered'
    <3> SUFFICES ASSUME NEW i \in DOMAIN zip', zip'[i].kind \in {"file", "link"}
                 PROVE  zip'[i].name \in DOMAIN entries' /\ entries'[zip'[i].name] = i
      BY DEF FilesEntered, Kind
    <3>1. CASE i = j
      BY <3>1, <1>2, <2>3
    <3>2. CASE i # j
      <4>1. i \in DOMAIN zip /\ zip'[i] = zip[i]
        BY <3>2, <1>2
      <4>2. zip[i].name \in DOMAIN entries /\ entries[zip[i].name] = i
        BY <4>1, <2>1 DEF FilesEntered, Kind
      <4>3. zip[i].name # p
        <5>1. zip[i].name = p => i \in Locate(p)
          BY <4>1 DEF Locate, Kind
        <5> QED
          BY <4>2, <5>1, <2>2, <3>2
      <4> QED
        BY <4>1, <4>2, <4>3, <2>4
    <3> QED
      BY <3>1, <3>2
  <2>7. ChangedCached'
    BY <1>2, <2>1 DEF ChangedCached, Live, Kind, j
  <2>8. Links' = Links
    BY <1>2, <1>3 DEF Links, Kind
  <2>9. LinksCounted'
    BY <2>1, <2>8 DEF LinksCounted
  <2> QED
    BY <2>5, <2>6, <2>7, <2>9
<1> QED
  BY <1>7, <1>8 DEF ZipInv

\* The links of an archive are finitely many.
LEMMA LinksFinite ==
  ASSUME IsArchive(zip)
  PROVE  IsFiniteSet(Links)
<1>1. DOMAIN zip = 1..Len(zip) /\ Len(zip) \in Nat
  BY DEF IsArchive, IsSequence
<1>2. IsFiniteSet(DOMAIN zip)
  BY <1>1, FS_Interval
<1>3. Links \subseteq DOMAIN zip
  BY DEF Links
<1> QED
  BY <1>2, <1>3, FS_Subset

\* symlink() adds a member, since no file or link is there: one link more.
LEMMA SymlinkStep ==
  ASSUME ZipInv, NEW p, NEW t, p \notin DOMAIN entries,
         zip' = FileAdd(p, t, "link"),
         entries' = Put(entries, p, FileIndex(p)),
         fileSources' = Put(fileSources, FileIndex(p), t),
         symlinkCount' = symlinkCount + 1, UNCHANGED <<pend, aliased>>
  PROVE  ZipInv'
<1> DEFINE j == FileIndex(p)
<1>1. IsArchive(zip)
  BY DEF ZipInv, Shapes
<1>2. FileAdded(zip', j, p, t, "link")
  BY <1>1, FileAddEffect
<1> HIDE DEF j
<1>3. /\ DOMAIN entries' = DOMAIN entries \cup {p} /\ entries'[p] = j
      /\ \A q \in DOMAIN entries : entries'[q] = entries[q]
      /\ DOMAIN fileSources' = DOMAIN fileSources \cup {j}
  BY DEF Put, j
<1>4. Shapes'
  <2>1. NoneStarted
    BY DEF NoneStarted, ZipInv, Shapes
  <2>2. \A q \in DOMAIN entries' : entries'[q] \in DOMAIN zip'
    BY <1>2, <1>3 DEF FileAdded, ZipInv, Shapes
  <2>3. DOMAIN fileSources' \subseteq DOMAIN zip'
    BY <1>2, <1>3 DEF FileAdded, ZipInv, Shapes
  <2>4. /\ DOMAIN zip \subseteq DOMAIN zip' /\ IsArchive(zip')
        /\ Len(zip) \in Nat /\ Len(zip') \in Nat /\ Len(zip) <= Len(zip')
    BY <1>2 DEF FileAdded
  <2> QED
    BY <2>1, <2>2, <2>3, <2>4, PendKept DEF ZipInv, Shapes
<1>5. ASSUME ~aliased  PROVE EntriesLive' /\ FilesEntered' /\ ChangedCached' /\ LinksCounted'
  <2>1. EntriesLive /\ FilesEntered /\ ChangedCached /\ LinksCounted
    BY <1>5 DEF ZipInv
  <2>2. Locate(p) = {}
    BY <2>1 DEF FilesEntered, Locate, Kind
  <2>3. /\ DOMAIN zip' = DOMAIN zip \cup {j} /\ j \notin DOMAIN zip
        /\ \A i \in DOMAIN zip : zip'[i] = zip[i]
        /\ zip'[j].name = p /\ zip'[j].kind = "link"
    BY <1>2, <2>2 DEF FileAdded
  <2>4. EntriesLive'
    BY <1>3, <2>1, <2>3 DEF EntriesLive, Live, Kind, ZipInv, Shapes
  <2>5. FilesEntered'
    BY <1>3, <2>1, <2>3 DEF FilesEntered, Kind
  <2>6. ChangedCached'
    BY <1>3, <2>1, <2>3 DEF ChangedCached, Live, Kind
  <2>7. Links' = Links \cup {j} /\ j \notin Links
    BY <2>3 DEF Links, Kind
  <2>8. LinksCounted'
    BY <1>1, <2>1, <2>7, LinksFinite, FS_AddElement DEF LinksCounted
  <2> QED
    BY <2>4, <2>5, <2>6, <2>8
<1> QED
  BY <1>4, <1>5 DEF ZipInv

\* hydrateDirectory: a directory's member is added and entered.
LEMMA HydrateStep ==
  ASSUME ZipInv, NEW p, p \notin DOMAIN entries,
         zip' = Append(zip, [name |-> p, kind |-> "dir", data |-> << >>,
                             stored |-> TRUE, changed |-> FALSE]),
         entries' = Put(entries, p, Len(zip) + 1),
         UNCHANGED <<fileSources, symlinkCount, pend, aliased>>
  PROVE  ZipInv'
<1> DEFINE m == [name |-> p, kind |-> "dir", data |-> << >>, stored |-> TRUE, changed |-> FALSE]
           j == Len(zip) + 1
<1>1. IsMember(m) /\ m.name = p /\ m.kind = "dir" /\ ~m.changed
  BY DEF IsMember, Kinds
<1>2. IsArchive(zip) /\ zip' = Append(zip, m)
  BY DEF ZipInv, Shapes
<1> HIDE DEF m
<1>3. /\ IsArchive(zip') /\ Len(zip) \in Nat /\ Len(zip') = Len(zip) + 1
      /\ DOMAIN zip' = DOMAIN zip \cup {j} /\ j \notin DOMAIN zip
      /\ \A i \in DOMAIN zip : zip'[i] = zip[i]
      /\ zip'[j] = m
  <2>1. MemberAppended(zip', zip, m)
    BY <1>1, <1>2, AppendMember
  <2> QED
    BY <2>1 DEF MemberAppended, j
<1> HIDE DEF j
<1>4. /\ DOMAIN entries' = DOMAIN entries \cup {p} /\ entries'[p] = j
      /\ \A q \in DOMAIN entries : entries'[q] = entries[q]
  BY DEF Put, j
<1>5. Shapes'
  <2>1. NoneStarted
    BY DEF NoneStarted, ZipInv, Shapes
  <2>2. \A q \in DOMAIN entries' : entries'[q] \in DOMAIN zip'
    BY <1>3, <1>4 DEF ZipInv, Shapes
  <2>3. DOMAIN fileSources' \subseteq DOMAIN zip'
    BY <1>3 DEF ZipInv, Shapes
  <2>4. DOMAIN zip \subseteq DOMAIN zip' /\ Len(zip') \in Nat /\ Len(zip) <= Len(zip')
    BY <1>3
  <2> QED
    BY <1>3, <2>1, <2>2, <2>3, <2>4, PendKept DEF ZipInv, Shapes
<1>6. ASSUME ~aliased  PROVE EntriesLive' /\ FilesEntered' /\ ChangedCached' /\ LinksCounted'
  <2>1. EntriesLive /\ FilesEntered /\ ChangedCached /\ LinksCounted
    BY <1>6 DEF ZipInv
  <2>2. EntriesLive'
    BY <1>1, <1>3, <1>4, <2>1 DEF EntriesLive, Live, Kind, ZipInv, Shapes
  <2>3. FilesEntered'
    BY <1>1, <1>3, <1>4, <2>1 DEF FilesEntered, Kind
  <2>4. ChangedCached'
    BY <1>1, <1>3, <2>1 DEF ChangedCached, Live, Kind
  <2>5. Links' = Links
    BY <1>1, <1>3 DEF Links, Kind
  <2> QED
    BY <2>1, <2>2, <2>3, <2>4, <2>5 DEF LinksCounted
<1> QED
  BY <1>5, <1>6 DEF ZipInv

\* deleteEntry of the entry found: neither index, nor the cache, nor the
\* count knows of the member any more.  rmdir() under another name (aliased
\* from then on) still leaves every index on a member.
LEMMA DeleteStep ==
  ASSUME ZipInv, NEW p, NEW i \in DOMAIN zip, Delete(p, i), pend' = pend,
         ~aliased' => ~aliased /\ p \in DOMAIN entries /\ entries[p] = i
  PROVE  ZipInv'
<1> DEFINE m == [zip[i] EXCEPT !.kind = "gone"]
<1>1. IsArchive(zip) /\ IsMember(zip[i])
  BY DEF ZipInv, Shapes, IsArchive
<1>2. IsMember(m) /\ m.kind = "gone"
  BY <1>1 DEF IsMember, Kinds
<1>3. zip' = Replaced(zip, i, m)
  BY <1>1 DEF Delete, Replaced, IsArchive
<1> HIDE DEF m
<1>4. /\ IsArchive(zip') /\ Len(zip') = Len(zip) /\ Len(zip) \in Nat
      /\ DOMAIN zip' = DOMAIN zip
      /\ \A k \in DOMAIN zip \ {i} : zip'[k] = zip[k]
      /\ zip'[i].kind = "gone"
  <2>1. MemberReplaced(zip', zip, i, m)
    BY <1>1, <1>2, <1>3, ReplaceMember
  <2> QED
    BY <2>1, <1>2 DEF MemberReplaced
<1>5. /\ DOMAIN entries' = DOMAIN entries \ {p}
      /\ \A q \in DOMAIN entries' : entries'[q] = entries[q]
      /\ p \in DOMAIN entries =>
            /\ DOMAIN fileSources' = DOMAIN fileSources \ {entries[p]}
            /\ symlinkCount' = IF isSymbolicLink(entries[p])
                               THEN symlinkCount - 1 ELSE symlinkCount
      /\ p \notin DOMAIN entries => fileSources' = fileSources
  BY DEF Delete, Unregister, Drop
<1>6. Shapes'
  <2>1. NoneStarted
    BY DEF NoneStarted, ZipInv, Shapes
  <2>2. \A q \in DOMAIN entries' : entries'[q] \in DOMAIN zip'
    BY <1>4, <1>5 DEF ZipInv, Shapes
  <2>3. DOMAIN fileSources' \subseteq DOMAIN zip'
    BY <1>4, <1>5 DEF ZipInv, Shapes
  <2>4. DOMAIN zip \subseteq DOMAIN zip' /\ Len(zip') \in Nat /\ Len(zip) <= Len(zip')
    BY <1>4
  <2> QED
    BY <1>4, <2>1, <2>2, <2>3, <2>4, PendKept DEF ZipInv, Shapes
<1>7. ASSUME ~aliased'  PROVE EntriesLive' /\ FilesEntered' /\ ChangedCached' /\ LinksCounted'
  <2>1. /\ p \in DOMAIN entries /\ entries[p] = i
        /\ EntriesLive /\ FilesEntered /\ ChangedCached /\ LinksCounted
    BY <1>7 DEF ZipInv
  <2>2. \A q \in DOMAIN entries : zip[entries[q]].name = q /\ entries[q] \in DOMAIN zip
    BY <2>1 DEF EntriesLive, ZipInv, Shapes
  <2>3. \A q \in DOMAIN entries' : entries[q] # i
    BY <1>5, <2>1, <2>2
  <2>4. EntriesLive'
    BY <1>4, <1>5, <2>1, <2>2, <2>3 DEF EntriesLive, Live, Kind
  <2>5. FilesEntered'
    <3> SUFFICES ASSUME NEW k \in DOMAIN zip', zip'[k].kind \in {"file", "link"}
                 PROVE  zip'[k].name \in DOMAIN entries' /\ entries'[zip'[k].name] = k
      BY DEF FilesEntered, Kind
    <3>1. k # i /\ k \in DOMAIN zip /\ zip'[k] = zip[k]
      BY <1>4
    <3>2. zip[k].name \in DOMAIN entries /\ entries[zip[k].name] = k
      BY <3>1, <2>1 DEF FilesEntered, Kind
    <3> QED
      BY <3>1, <3>2, <2>1, <1>5
  <2>6. ChangedCached'
    BY <1>4, <1>5, <2>1 DEF ChangedCached, Live, Kind
  <2>7. LinksCounted'
    <3>1. IsFiniteSet(Links) /\ Cardinality(Links) \in Nat
      BY <1>1, LinksFinite, FS_CardinalityType
    <3>2. CASE Kind(i) = "link"
      <4>1. i \in Links
        BY <3>2 DEF Links
      <4>2. Cardinality(Links) # 0
        BY <3>1, <4>1, FS_EmptySet
      <4>3. symlinkCount' = Cardinality(Links) - 1
        BY <1>5, <2>1, <3>2, <4>2 DEF isSymbolicLink, LinksCounted
      <4>4. Links' = Links \ {i}
        BY <1>4 DEF Links, Kind
      <4> QED
        BY <3>1, <4>1, <4>3, <4>4, FS_RemoveElement DEF LinksCounted
    <3>3. CASE Kind(i) # "link"
      <4>1. symlinkCount' = symlinkCount
        BY <1>5, <2>1, <3>3 DEF isSymbolicLink
      <4>2. Links' = Links
        BY <1>4, <3>3 DEF Links, Kind
      <4> QED
        BY <2>1, <4>1, <4>2 DEF LinksCounted
    <3> QED
      BY <3>2, <3>3
  <2> QED
    BY <2>4, <2>5, <2>6, <2>7
<1> QED
  BY <1>6, <1>7 DEF ZipInv

\* Looking things up, closing, reading and resuming a read: the cache may
\* grow by members, and the calls are well-formed afterwards.
LEMMA LookStep ==
  ASSUME ZipInv, UNCHANGED <<zip, entries, symlinkCount, aliased>>,
         DOMAIN fileSources \subseteq DOMAIN fileSources',
         DOMAIN fileSources' \subseteq DOMAIN zip,
         pend' = [c \in Callers |-> pend'[c]],
         \A c \in Callers : PendShape(c)'
  PROVE  ZipInv'
<1>1. Shapes'
  BY DEF ZipInv, Shapes
<1>2. Links' = Links
  BY DEF Links, Kind
<1>3. ASSUME ~aliased  PROVE EntriesLive' /\ FilesEntered' /\ ChangedCached' /\ LinksCounted'
  BY <1>2, <1>3 DEF ZipInv, EntriesLive, FilesEntered, ChangedCached, LinksCounted, Live, Kind
<1> QED
  BY <1>1, <1>3 DEF ZipInv

-----------------------------------------------------------------------------
(* The actions.                                                             *)

\* What entries knows of a path is an index of the archive, or 0.
LEMMA IdxBound ==
  ASSUME Shapes, NEW p
  PROVE  Idx(p) \in Nat /\ Idx(p) <= Len(zip) /\ Len(zip) \in Nat
<1>1. DOMAIN zip = 1..Len(zip) /\ Len(zip) \in Nat
  BY DEF Shapes, IsArchive, IsSequence
<1> QED
  BY <1>1 DEF Idx, Shapes

\* A step that leaves the suspended calls alone starts none.
LEMMA NoneStartedWhenSame ==
  ASSUME ZipInv, pend' = pend
  PROVE  NoneStarted
BY DEF ZipInv, Shapes, NoneStarted

\* writeFileSync, appendFileSync, copyFileSync
LEMMA StoreAction ==
  ASSUME ZipInv, NEW p, NEW d, Store(p, Idx(p), d), pend' = pend
  PROVE  ZipInv'
<1>1. /\ zip' = FileAdd(p, d, "file")
      /\ fileSources' = Put(fileSources, FileIndex(p), d)
      /\ Idx(p) = FileIndex(p) => entries' = entries
      /\ Idx(p) # FileIndex(p) => entries' = Put(entries, p, FileIndex(p))
      /\ symlinkCount' = symlinkCount /\ aliased' = aliased
  BY DEF Store, setFileSource, Register
<1>2. DOMAIN fileSources' = DOMAIN fileSources \cup {FileIndex(p)}
  BY <1>1 DEF Put
<1>3. DOMAIN fileSources \subseteq DOMAIN zip
  BY DEF ZipInv, Shapes
<1>4. Idx(p) \in Nat /\ Idx(p) <= Len(zip)
  BY IdxBound DEF ZipInv
<1> QED
  BY <1>1, <1>2, <1>3, <1>4, NoneStartedWhenSame, StoreStep

\* Every synchronous operation keeps the invariant.
LEMMA ZipSync ==
  ASSUME ZipInv, Sync
  PROVE  ZipInv'
<1> DEFINE r(p) == resolveFilename(p)
<1>1. ASSUME NEW p, NEW d, WriteFile(p, d)  PROVE ZipInv'
  BY <1>1, StoreAction DEF WriteFile
<1>2. ASSUME NEW p, NEW d, AppendFile(p, d)  PROVE ZipInv'
  BY <1>2, StoreAction DEF AppendFile
<1>3. ASSUME NEW p, NEW t, NEW x, CopyFile(p, t, x)  PROVE ZipInv'
  BY <1>3, StoreAction DEF CopyFile
<1>4. ASSUME NEW p, ReadFile(p)  PROVE ZipInv'
  <2>1. r(p).p \in DOMAIN entries
    BY <1>4 DEF ReadFile, Read, Known
  <2>2. /\ UNCHANGED <<zip, entries, symlinkCount, aliased, pend>>
        /\ DOMAIN fileSources' = DOMAIN fileSources \cup {entries[r(p).p]}
    BY <1>4 DEF ReadFile, Put
  <2>3. \A c \in Callers : PendShape(c)'
    BY <2>2 DEF ZipInv, Shapes, PendShape
  <2> QED
    BY <2>1, <2>2, <2>3, LookStep DEF ZipInv, Shapes
<1>5. ASSUME NEW p, Unlink(p)  PROVE ZipInv'
  <2>1. /\ r(p).p \in DOMAIN entries /\ Delete(r(p).p, entries[r(p).p])
        /\ pend' = pend /\ aliased' = aliased
    BY <1>5 DEF Unlink
  <2>2. entries[r(p).p] \in DOMAIN zip
    BY <2>1 DEF ZipInv, Shapes
  <2> QED
    BY <2>1, <2>2, DeleteStep
<1>6. ASSUME NEW p, Mkdir(p)  PROVE ZipInv'
  <2>1. /\ r(p).p \notin DOMAIN entries /\ Hydrate(r(p).p)
        /\ UNCHANGED <<fileSources, symlinkCount, pend, aliased>>
    BY <1>6 DEF Mkdir, Known
  <2> QED
    BY <2>1, HydrateStep DEF Hydrate
<1>7. ASSUME NEW p, Utimes(p)  PROVE ZipInv'
  <2>1. /\ r(p).p \notin DOMAIN entries /\ Hydrate(r(p).p)
        /\ UNCHANGED <<fileSources, symlinkCount, pend, aliased>>
    BY <1>7 DEF Utimes
  <2> QED
    BY <2>1, HydrateStep DEF Hydrate
<1>8. ASSUME NEW p, Rmdir(p)  PROVE ZipInv'
  <2>1. /\ r(p).p \in DOMAIN entries /\ Delete(p, entries[r(p).p])
        /\ pend' = pend /\ aliased' = (aliased \/ p # r(p).p)
    BY <1>8 DEF Rmdir
  <2>2. entries[r(p).p] \in DOMAIN zip
    BY <2>1 DEF ZipInv, Shapes
  <2>3. ~aliased' => ~aliased /\ p = r(p).p
    BY <2>1
  <2> QED
    BY <2>1, <2>2, <2>3, DeleteStep
<1>9. ASSUME NEW t, NEW p, Symlink(t, p)  PROVE ZipInv'
  <2>1. /\ r(p).p \notin DOMAIN entries
        /\ zip' = FileAdd(r(p).p, t, "link")
        /\ entries' = Put(entries, r(p).p, FileIndex(r(p).p))
        /\ fileSources' = Put(fileSources, FileIndex(r(p).p), t)
        /\ symlinkCount' = symlinkCount + 1 /\ UNCHANGED <<pend, aliased>>
    BY <1>9 DEF Symlink, Known, setFileSource, Register
  <2> QED
    BY <2>1, SymlinkStep
<1>10. ASSUME SaveAndClose \/ DiscardAndClose  PROVE ZipInv'
  <2>1. UNCHANGED <<zip, entries, fileSources, symlinkCount, aliased, pend>>
    BY <1>10 DEF SaveAndClose, DiscardAndClose
  <2>2. \A c \in Callers : PendShape(c)'
    BY <2>1 DEF ZipInv, Shapes, PendShape
  <2> QED
    BY <2>1, <2>2, LookStep DEF ZipInv, Shapes
<1> QED
  BY <1>1, <1>2, <1>3, <1>4, <1>5, <1>6, <1>7, <1>8, <1>9, <1>10 DEF Sync

\* What the calls suspend with: their own fields, and the source's.
LEMMA CallFields ==
  ASSUME NEW call, NEW i, NEW data, NEW inflate, {"src", "data", "inflate"} \cap DOMAIN call = {},
         NEW k, k = Joined(call, [src |-> i, data |-> data, inflate |-> inflate])
  PROVE  /\ k.src = i /\ k.data = data /\ k.inflate = inflate
         /\ \A f \in DOMAIN call : k[f] = call[f]
BY DEF Joined

\* Before the await: a stored member is cached, the call remembers an index.
LEMMA AwaitStep ==
  ASSUME ZipInv, NEW c \in Callers, NEW call, NEW i \in DOMAIN zip, Await(c, call, i),
         {"src", "data", "inflate"} \cap DOMAIN call = {}, "op" \in DOMAIN call,
         call.op \in {"append", "copy"} =>
            "idx" \in DOMAIN call /\ call.idx \in Nat /\ call.idx <= Len(zip)
  PROVE  ZipInv'
<1> DEFINE hit == i \in DOMAIN fileSources
           data == Source(i)
           inflate == ~hit /\ ~zip[i].stored
           k == Joined(call, [src |-> i, data |-> data, inflate |-> inflate])
<1>1. /\ pend' = [pend EXCEPT ![c] = k]
      /\ UNCHANGED <<zip, entries, symlinkCount, aliased>>
      /\ fileSources' = fileSources \/ fileSources' = Put(fileSources, i, zip[i].data)
  BY DEF Await
<1>2. /\ k.src = i /\ k.inflate \in BOOLEAN /\ k.op = call.op
      /\ "idx" \in DOMAIN call => k.idx = call.idx
  <2>1. inflate \in BOOLEAN
    OBVIOUS
  <2> HIDE DEF data, inflate
  <2>2. /\ k.src = i /\ k.data = data /\ k.inflate = inflate
        /\ \A f \in DOMAIN call : k[f] = call[f]
    BY CallFields
  <2> HIDE DEF k
  <2> QED
    BY <2>1, <2>2
<1> HIDE DEF k
<1>3. pend' = [d \in Callers |-> pend'[d]] /\ pend'[c] = k
      /\ \A d \in Callers \ {c} : pend'[d] = pend[d]
  BY <1>1 DEF ZipInv, Shapes
<1>4. \A d \in Callers : PendShape(d)'
  BY <1>1, <1>2, <1>3 DEF ZipInv, Shapes, PendShape
<1>5. /\ DOMAIN fileSources \subseteq DOMAIN fileSources'
      /\ DOMAIN fileSources' \subseteq DOMAIN zip
  BY <1>1 DEF Put, ZipInv, Shapes
<1> QED
  BY <1>1, <1>3, <1>4, <1>5, LookStep

\* Every asynchronous call that is started keeps the invariant.
LEMMA ZipStart ==
  ASSUME ZipInv, Start
  PROVE  ZipInv'
<1> DEFINE r(p) == resolveFilename(p)
<1>0. \A p : p \in DOMAIN entries => entries[p] \in DOMAIN zip /\ Idx(p) = entries[p]
  BY DEF ZipInv, Shapes, Idx
<1>1. ASSUME NEW c \in Callers, NEW p, ReadFilePromise(c, p) \/ ReadlinkPromise(c, p)
      PROVE  ZipInv'
  <2>1. \E i \in DOMAIN zip : Await(c, [op |-> "read"], i)
    BY <1>0, <1>1 DEF ReadFilePromise, ReadlinkPromise, Read, Known
  <2> QED
    BY <2>1, AwaitStep
<1>2. ASSUME NEW c \in Callers, NEW p, TruncatePromise(c, p)  PROVE ZipInv'
  <2>1. \E i \in DOMAIN zip : Await(c, [op |-> "truncate", p |-> p], i)
    BY <1>0, <1>2 DEF TruncatePromise
  <2> QED
    BY <2>1, AwaitStep
<1>3. ASSUME NEW c \in Callers, NEW p, NEW t, AppendFilePromise(c, p, t)  PROVE ZipInv'
  <2> DEFINE call == [op |-> "append", p |-> r(p).p, idx |-> Idx(r(p).p), add |-> t]
  <2>1. \E i \in DOMAIN zip : Await(c, call, i)
    BY <1>0, <1>3 DEF AppendFilePromise
  <2>2. call.idx \in Nat /\ call.idx <= Len(zip)
    BY IdxBound DEF ZipInv
  <2> QED
    BY <2>1, <2>2, AwaitStep
<1>4. ASSUME NEW c \in Callers, NEW p, NEW t, NEW x, CopyFilePromise(c, p, t, x)  PROVE ZipInv'
  <2> DEFINE call == [op |-> "copy", p |-> r(t).p, idx |-> Idx(r(t).p), add |-> << >>]
  <2>1. \E i \in DOMAIN zip : Await(c, call, i)
    BY <1>0, <1>4 DEF CopyFilePromise, CanCopy
  <2>2. call.idx \in Nat /\ call.idx <= Len(zip)
    BY IdxBound DEF ZipInv
  <2> QED
    BY <2>1, <2>2, AwaitStep
<1> QED
  BY <1>1, <1>2, <1>3, <1>4 DEF Start

\* A call that ends caches what it decompressed, which is a member.
LEMMA InflatedBound ==
  ASSUME Shapes, NEW c \in Callers, pend[c].op # "idle"
  PROVE  /\ DOMAIN fileSources \subseteq DOMAIN Inflated(pend[c])
         /\ DOMAIN Inflated(pend[c]) \subseteq DOMAIN zip
BY DEF Shapes, PendShape, Inflated, Put

\* ... and starts no other.
LEMMA NoneStartedAtEnd ==
  ASSUME Shapes, NEW c \in Callers, pend' = [pend EXCEPT ![c] = Idle]
  PROVE  NoneStarted /\ pend'[c] = Idle
BY DEF Shapes, NoneStarted, Idle

\* Every call that goes on after its await keeps the invariant.
LEMMA ZipResume ==
  ASSUME ZipInv, Resume
  PROVE  ZipInv'
<1>0. Shapes
  BY DEF ZipInv
<1>1. ASSUME NEW c \in Callers, pend[c].op # "idle", pend' = [pend EXCEPT ![c] = Idle],
             UNCHANGED <<zip, entries, symlinkCount, aliased>>,
             fileSources' = Inflated(pend[c])
      PROVE  ZipInv'
  <2>1. /\ DOMAIN fileSources \subseteq DOMAIN fileSources'
        /\ DOMAIN fileSources' \subseteq DOMAIN zip
    BY <1>0, <1>1, InflatedBound
  <2>2. NoneStarted
    BY <1>0, <1>1, NoneStartedAtEnd
  <2>3. \A d \in Callers : PendShape(d)'
    BY <1>0, <1>1, <2>2 DEF NoneStarted, Shapes, PendShape
  <2> QED
    BY <1>1, <2>1, <2>2, <2>3, LookStep DEF NoneStarted
<1>2. ASSUME NEW c \in Callers, pend[c].op # "idle", pend' = [pend EXCEPT ![c] = Idle],
             NEW p, NEW d, NEW known \in Nat, known <= Len(zip),
             zip' = FileAdd(p, d, "file"),
             fileSources' = Put(Inflated(pend[c]), FileIndex(p), d),
             known = FileIndex(p) => entries' = entries,
             known # FileIndex(p) => entries' = Put(entries, p, FileIndex(p)),
             UNCHANGED <<symlinkCount, aliased>>
      PROVE  ZipInv'
  <2>1. DOMAIN fileSources' = DOMAIN Inflated(pend[c]) \cup {FileIndex(p)}
    BY <1>2 DEF Put
  <2>2. /\ DOMAIN fileSources \cup {FileIndex(p)} \subseteq DOMAIN fileSources'
        /\ DOMAIN fileSources' \subseteq DOMAIN zip \cup {FileIndex(p)}
    BY <1>0, <1>2, <2>1, InflatedBound
  <2>3. NoneStarted
    BY <1>0, <1>2, NoneStartedAtEnd
  <2> QED
    BY <1>2, <2>2, <2>3, StoreStep
<1>3. ASSUME NEW c \in Callers, ResumeRead(c)  PROVE ZipInv'
  BY <1>1, <1>3 DEF ResumeRead
<1>4. ASSUME NEW c \in Callers, ResumeWrite(c)  PROVE ZipInv'
  <2> DEFINE k == pend[c]
             d == k.data \o k.add
  <2>1. /\ k.op \in {"append", "copy"} /\ pend' = [pend EXCEPT ![c] = Idle]
        /\ zip' = FileAdd(k.p, d, "file")
        /\ fileSources' = Put(Inflated(k), FileIndex(k.p), d)
        /\ k.idx = FileIndex(k.p) => entries' = entries
        /\ k.idx # FileIndex(k.p) => entries' = Put(entries, k.p, FileIndex(k.p))
        /\ UNCHANGED <<symlinkCount, aliased>>
    BY <1>4 DEF ResumeWrite, Register
  <2>2. k.op # "idle" /\ k.idx \in Nat /\ k.idx <= Len(zip)
    BY <1>0, <2>1 DEF Shapes, PendShape
  <2> QED
    BY <1>2, <2>1, <2>2
<1>5. ASSUME NEW c \in Callers, ResumeTruncate(c)  PROVE ZipInv'
  <2> DEFINE q == resolveFilename(pend[c].p).p
  <2>1. pend[c].op # "idle" /\ pend' = [pend EXCEPT ![c] = Idle] /\ UNCHANGED <<symlinkCount, aliased>>
    BY <1>5 DEF ResumeTruncate
  <2>2. \/ fileSources' = Inflated(pend[c]) /\ UNCHANGED <<zip, entries>>
        \/ /\ zip' = FileAdd(q, << >>, "file")
           /\ fileSources' = Put(Inflated(pend[c]), FileIndex(q), << >>)
           /\ Idx(q) = FileIndex(q) => entries' = entries
           /\ Idx(q) # FileIndex(q) => entries' = Put(entries, q, FileIndex(q))
    BY <1>5 DEF ResumeTruncate, Register
  <2>3. Idx(q) \in Nat /\ Idx(q) <= Len(zip)
    BY <1>0, IdxBound
  <2> HIDE DEF q
  <2> QED
    BY <1>1, <1>2, <2>1, <2>2, <2>3
<1> QED
  BY <1>3, <1>4, <1>5 DEF Resume

-----------------------------------------------------------------------------
(* The indices describe the archive.                                        *)

\* The constructor enters every member, under its own name.
LEMMA ZipInit ==
  ASSUME Init
  PROVE  ZipInv
<1>1. zip \in Seq(InitialMember) /\ zip = InitZip
  BY ArchiveAssumption DEF Init
<1>2. DOMAIN zip = 1..Len(zip) /\ Len(zip) \in Nat
  BY <1>1
<1>3. \A i \in DOMAIN zip : /\ IsMember(zip[i]) /\ ~zip[i].changed
                            /\ zip[i].kind \in {"file", "link", "dir"}
  <2> SUFFICES ASSUME NEW m \in InitialMember
               PROVE  IsMember(m) /\ ~m.changed /\ m.kind \in {"file", "link", "dir"}
    BY <1>1, <1>2
  <2> DEFINE P == Path \ {Root}
  <2>1. m \in [name : P, kind : {"file", "link", "dir"}, data : Text, stored : BOOLEAN,
               changed : {FALSE}]
    BY DEF InitialMember
  <2> HIDE DEF P
  <2> QED
    BY <2>1 DEF IsMember, Kinds
<1>4. IsArchive(zip)
  BY <1>1, <1>3, OwnMembers DEF IsArchive
<1>5. \A i, j \in DOMAIN zip : zip[i].name = zip[j].name => i = j
  BY <1>1, ArchiveAssumption
<1>6. /\ DOMAIN entries = {zip[i].name : i \in DOMAIN zip}
      /\ \A p \in DOMAIN entries : entries[p] = CHOOSE i \in DOMAIN zip : zip[i].name = p
  BY DEF Init, InitNames
<1>7. \A p \in DOMAIN entries : entries[p] \in DOMAIN zip /\ zip[entries[p]].name = p
  BY <1>6
<1>8. \A i \in DOMAIN zip : zip[i].name \in DOMAIN entries /\ entries[zip[i].name] = i
  BY <1>5, <1>6, <1>7
<1>9. Shapes
  <2>1. DOMAIN fileSources = {}
    BY DEF Init
  <2>2. pend = [c \in Callers |-> Idle]
    BY DEF Init
  <2>3. pend = [c \in Callers |-> pend[c]] /\ \A c \in Callers : pend[c].op = "idle"
    BY <2>2 DEF Idle
  <2> QED
    BY <1>4, <1>7, <2>1, <2>3 DEF Shapes, PendShape
<1>10. EntriesLive /\ FilesEntered /\ ChangedCached
  BY <1>3, <1>7, <1>8 DEF EntriesLive, FilesEntered, ChangedCached, Live, Kind
<1>11. LinksCounted
  BY <1>1 DEF Init, LinksCounted, Links, Kind
<1> QED
  BY <1>9, <1>10, <1>11 DEF ZipInv

\* No step of any call breaks the invariant.
LEMMA ZipNext ==
  ASSUME ZipInv, [Next]_vars
  PROVE  ZipInv'
<1>1. CASE Sync
  BY <1>1, ZipSync
<1>2. CASE Start
  BY <1>2, ZipStart
<1>3. CASE Resume
  BY <1>3, ZipResume
<1>4. CASE UNCHANGED vars
  <2>1. UNCHANGED <<zip, entries, symlinkCount, aliased, fileSources, pend>>
    BY <1>4 DEF vars
  <2>2. \A c \in Callers : PendShape(c)'
    BY <2>1 DEF ZipInv, Shapes, PendShape
  <2> QED
    BY <2>1, <2>2, LookStep DEF ZipInv, Shapes
<1> QED
  BY <1>1, <1>2, <1>3, <1>4 DEF Next

\* Whatever calls are made, in whatever order the suspended ones go on: every
\* entry of ZipFS is a live member of that name, what was written is cached,
\* and symlinkCount -- which decides whether links are followed at all --
\* counts the links, until rmdir() is given another name of its directory.
THEOREM ArchiveInStepAlways == Spec => []ArchiveInStep
<1>1. ZipInv => ArchiveInStep
  BY DEF ZipInv, ArchiveInStep, EntriesLive, ChangedCached, LinksCounted, Links
<1> QED
  BY <1>1, ZipInit, ZipNext, PTL DEF Spec

-----------------------------------------------------------------------------
(* The cache disagrees only after a decompression was overtaken.            *)

\* The cached contents f are what the list z holds.
CacheTrue(f, z) == \A i \in DOMAIN f : i \in DOMAIN z /\ z[i].kind # "gone" => f[i] = z[i].data

\* Members are not written, or are marked as written.
MembersKept ==
    \A i \in DOMAIN zip :
        /\ i \in DOMAIN zip'
        /\ ~zip'[i].changed => ~zip[i].changed /\ zip'[i].data = zip[i].data

\* ReadAfterWrite, said of the two variables it reads.
LEMMA ReadAfterWriteIs == ReadAfterWrite <=> CacheTrue(fileSources, zip)
BY DEF ReadAfterWrite, CacheTrue, Live, Kind

\* ... and of the next state.
LEMMA ReadAfterWriteNext == ReadAfterWrite' <=> CacheTrue(fileSources, zip)'
BY DEF ReadAfterWrite, CacheTrue, Live, Kind

\* A write caches what it writes and touches no other member.
LEMMA AddTrue ==
  ASSUME IsArchive(zip), NEW p, NEW d, NEW kind \in {"file", "link"},
         NEW f, DOMAIN f \subseteq DOMAIN zip, zip' = FileAdd(p, d, kind)
  PROVE  /\ MembersKept
         /\ CacheTrue(f, zip) => CacheTrue(Put(f, FileIndex(p), d), zip')
<1> DEFINE j == FileIndex(p)
           g == Put(f, j, d)
<1>1. FileAdded(zip', j, p, d, kind)
  BY FileAddEffect
<1>2. /\ DOMAIN zip' = DOMAIN zip \cup {j} /\ zip'[j].data = d /\ zip'[j].changed
      /\ \A i \in DOMAIN zip \ {j} : zip'[i] = zip[i]
  BY <1>1 DEF FileAdded
<1>3. DOMAIN g = DOMAIN f \cup {j} /\ g[j] = d /\ \A i \in DOMAIN f \ {j} : g[i] = f[i]
  BY DEF Put
<1> HIDE DEF j, g
<1>4. MembersKept
  BY <1>2 DEF MembersKept
<1>5. CacheTrue(f, zip) => CacheTrue(g, zip')
  BY <1>2, <1>3 DEF CacheTrue
<1> QED
  BY <1>4, <1>5 DEF g, j

\* A directory's new member has nothing cached.
LEMMA HydrateTrue ==
  ASSUME Shapes, NEW p, Hydrate(p), UNCHANGED fileSources
  PROVE  MembersKept /\ (CacheTrue(fileSources, zip) => CacheTrue(fileSources, zip)')
<1> DEFINE m == [name |-> p, kind |-> "dir", data |-> << >>, stored |-> TRUE, changed |-> FALSE]
<1>1. IsMember(m) /\ IsArchive(zip) /\ zip' = Append(zip, m)
  BY DEF IsMember, Kinds, Hydrate, Shapes
<1> HIDE DEF m
<1>2. MemberAppended(zip', zip, m)
  BY <1>1, AppendMember
<1>3. /\ DOMAIN zip' = DOMAIN zip \cup {Len(zip) + 1}
      /\ \A i \in DOMAIN zip : zip'[i] = zip[i]
  BY <1>2 DEF MemberAppended
<1>4. DOMAIN fileSources \subseteq DOMAIN zip
  BY DEF Shapes
<1> QED
  BY <1>3, <1>4 DEF MembersKept, CacheTrue

\* A deleted member is gone; its cached source may stay, for nobody to read.
LEMMA DeleteTrue ==
  ASSUME Shapes, NEW p, NEW i \in DOMAIN zip, Delete(p, i)
  PROVE  MembersKept /\ (CacheTrue(fileSources, zip) => CacheTrue(fileSources, zip)')
<1>1. IsArchive(zip) /\ IsMember(zip[i])
  BY DEF Shapes, IsArchive
<1>2. /\ DOMAIN zip' = DOMAIN zip
      /\ \A k \in DOMAIN zip \ {i} : zip'[k] = zip[k]
      /\ zip'[i] = [zip[i] EXCEPT !.kind = "gone"]
  BY DEF Delete
<1>3. /\ zip'[i].kind = "gone" /\ zip'[i].data = zip[i].data
      /\ zip'[i].changed = zip[i].changed
  BY <1>1, <1>2 DEF IsMember
<1>4. /\ DOMAIN fileSources' \subseteq DOMAIN fileSources
      /\ \A k \in DOMAIN fileSources' : fileSources'[k] = fileSources[k]
  BY DEF Delete, Unregister, Drop
<1> QED
  BY <1>2, <1>3, <1>4 DEF MembersKept, CacheTrue

\* No synchronous call makes the cache disagree with the archive.
LEMMA SyncTrue ==
  ASSUME ZipInv, Sync
  PROVE  NoneStarted /\ MembersKept /\ (ReadAfterWrite => ReadAfterWrite')
<1> DEFINE r(p) == resolveFilename(p)
           Goal == MembersKept /\ (CacheTrue(fileSources, zip) => CacheTrue(fileSources, zip)')
<1>0. Shapes /\ IsArchive(zip) /\ DOMAIN fileSources \subseteq DOMAIN zip
  BY DEF ZipInv, Shapes
<1>1. ASSUME NEW p, NEW d, NEW kind \in {"file", "link"}, setFileSource(p, d, kind)  PROVE Goal
  BY <1>0, <1>1, AddTrue DEF setFileSource
<1>2. ASSUME NEW p, NEW t \in Tokens, WriteFile(p, <<t>>) \/ AppendFile(p, <<t>>)
      PROVE  Goal /\ pend' = pend
  <2>1. pend' = pend /\ \E q, d : setFileSource(q, d, "file")
    BY <1>2 DEF WriteFile, AppendFile, Store
  <2> QED
    BY <1>1, <2>1
<1>3. ASSUME NEW p, NEW t, NEW x, CopyFile(p, t, x)  PROVE Goal /\ pend' = pend
  <2>1. pend' = pend /\ \E q, d : setFileSource(q, d, "file")
    BY <1>3 DEF CopyFile, Store
  <2> QED
    BY <1>1, <2>1
<1>4. ASSUME NEW p, ReadFile(p)  PROVE Goal /\ pend' = pend
  <2>1. /\ pend' = pend /\ zip' = zip
        /\ \E i : fileSources' = Put(fileSources, i, zip[i].data)
    BY <1>4 DEF ReadFile
  <2> QED
    BY <2>1 DEF MembersKept, CacheTrue, Put
<1>5. ASSUME NEW p, Unlink(p) \/ Rmdir(p)  PROVE Goal /\ pend' = pend
  <2>1. pend' = pend /\ \E q : \E i \in DOMAIN zip : Delete(q, i)
    BY <1>5 DEF Unlink, Rmdir, Live
  <2> QED
    BY <1>0, <2>1, DeleteTrue
<1>6. ASSUME NEW p, Mkdir(p) \/ Utimes(p)  PROVE Goal /\ pend' = pend
  <2>1. pend' = pend /\ fileSources' = fileSources /\ \E q : Hydrate(q)
    BY <1>6 DEF Mkdir, Utimes
  <2> QED
    BY <1>0, <2>1, HydrateTrue
<1>7. ASSUME NEW t, NEW p, Symlink(t, p)  PROVE Goal /\ pend' = pend
  <2>1. pend' = pend /\ \E q : setFileSource(q, t, "link")
    BY <1>7 DEF Symlink
  <2> QED
    BY <1>1, <2>1
<1>8. ASSUME SaveAndClose \/ DiscardAndClose  PROVE Goal /\ pend' = pend
  BY <1>8 DEF SaveAndClose, DiscardAndClose, MembersKept, CacheTrue
<1> HIDE DEF Goal
<1>9. Goal /\ pend' = pend
  BY <1>2, <1>3, <1>4, <1>5, <1>6, <1>7, <1>8 DEF Sync
<1> QED
  BY <1>9, ReadAfterWriteIs, ReadAfterWriteNext, NoneStartedWhenSame DEF Goal

\* What is about to be cached stays true of members nobody writes.
LEMMA InflatesKept ==
  ASSUME Shapes, InflatesTrue, NoneStarted, MembersKept
  PROVE  InflatesTrue'
BY DEF Shapes, InflatesTrue, NoneStarted, MembersKept, PendShape

\* A call suspends with the contents the archive has; what it caches is true.
LEMMA AwaitTrue ==
  ASSUME ZipInv, InflatesTrue, NEW c \in Callers, NEW call, NEW i \in DOMAIN zip,
         Await(c, call, i), {"src", "data", "inflate"} \cap DOMAIN call = {}
  PROVE  InflatesTrue' /\ (ReadAfterWrite => ReadAfterWrite')
<1> DEFINE hit == i \in DOMAIN fileSources
           data == Source(i)
           inflate == ~hit /\ ~zip[i].stored
           k == Joined(call, [src |-> i, data |-> data, inflate |-> inflate])
<1>1. /\ pend' = [pend EXCEPT ![c] = k] /\ zip' = zip
      /\ fileSources' = fileSources \/ fileSources' = Put(fileSources, i, zip[i].data)
  BY DEF Await
<1>2. inflate => data = zip[i].data
  BY DEF Source
<1> HIDE DEF data, inflate
<1>3. k.src = i /\ k.data = data /\ k.inflate = inflate
  <2>1. /\ k.src = i /\ k.data = data /\ k.inflate = inflate
        /\ \A f \in DOMAIN call : k[f] = call[f]
    BY CallFields
  <2> QED
    BY <2>1
<1> HIDE DEF k
<1>4. pend'[c] = k /\ \A d \in Callers \ {c} : pend'[d] = pend[d]
  BY <1>1 DEF ZipInv, Shapes
<1>5. InflatesTrue'
  BY <1>1, <1>2, <1>3, <1>4 DEF InflatesTrue
<1>6. CacheTrue(fileSources, zip) => CacheTrue(fileSources, zip)'
  BY <1>1 DEF CacheTrue, Put
<1> QED
  BY <1>5, <1>6, ReadAfterWriteIs, ReadAfterWriteNext

\* Starting a call never makes the cache disagree.
LEMMA StartTrue ==
  ASSUME ZipInv, InflatesTrue, Start
  PROVE  InflatesTrue' /\ (ReadAfterWrite => ReadAfterWrite')
<1> DEFINE r(p) == resolveFilename(p)
           Goal == InflatesTrue' /\ (ReadAfterWrite => ReadAfterWrite')
<1>0. \A p : p \in DOMAIN entries => entries[p] \in DOMAIN zip /\ Idx(p) = entries[p]
  BY DEF ZipInv, Shapes, Idx
<1>1. ASSUME NEW c \in Callers, NEW p, ReadFilePromise(c, p) \/ ReadlinkPromise(c, p)
      PROVE  Goal
  <2>1. \E i \in DOMAIN zip : Await(c, [op |-> "read"], i)
    BY <1>0, <1>1 DEF ReadFilePromise, ReadlinkPromise, Read, Known
  <2> QED
    BY <2>1, AwaitTrue
<1>2. ASSUME NEW c \in Callers, NEW p, TruncatePromise(c, p)  PROVE Goal
  <2>1. \E i \in DOMAIN zip : Await(c, [op |-> "truncate", p |-> p], i)
    BY <1>0, <1>2 DEF TruncatePromise
  <2> QED
    BY <2>1, AwaitTrue
<1>3. ASSUME NEW c \in Callers, NEW p, NEW t, AppendFilePromise(c, p, t)  PROVE Goal
  <2>1. \E i \in DOMAIN zip :
           Await(c, [op |-> "append", p |-> r(p).p, idx |-> Idx(r(p).p), add |-> t], i)
    BY <1>0, <1>3 DEF AppendFilePromise
  <2> QED
    BY <2>1, AwaitTrue
<1>4. ASSUME NEW c \in Callers, NEW p, NEW t, NEW x, CopyFilePromise(c, p, t, x)  PROVE Goal
  <2>1. \E i \in DOMAIN zip :
           Await(c, [op |-> "copy", p |-> r(t).p, idx |-> Idx(r(t).p), add |-> << >>], i)
    BY <1>0, <1>4 DEF CopyFilePromise, CanCopy
  <2> QED
    BY <2>1, AwaitTrue
<1> HIDE DEF Goal
<1>5. Goal
  BY <1>1, <1>2, <1>3, <1>4 DEF Start
<1> QED
  BY <1>5 DEF Goal

\* A decompression ends that a write of the same member has overtaken.
Overtaken ==
    \E c \in Callers :
        /\ pend[c].op # "idle" /\ pend'[c] = Idle
        /\ pend[c].inflate /\ zip[pend[c].src].changed

\* What a call that was not overtaken caches is what the archive holds.
LEMMA InflatedTrue ==
  ASSUME Shapes, InflatesTrue, ReadAfterWrite, NEW c \in Callers, pend[c].op # "idle",
         ~(pend[c].inflate /\ zip[pend[c].src].changed)
  PROVE  CacheTrue(Inflated(pend[c]), zip)
<1>1. CacheTrue(fileSources, zip)
  BY ReadAfterWriteIs
<1>2. CASE pend[c].inflate
  <2>1. pend[c].data = zip[pend[c].src].data
    BY <1>2 DEF InflatesTrue
  <2> QED
    BY <1>1, <1>2, <2>1 DEF CacheTrue, Inflated, Put
<1>3. CASE ~pend[c].inflate
  BY <1>1, <1>3 DEF Inflated
<1> QED
  BY <1>2, <1>3

\* A call that goes on makes the cache disagree only when it was overtaken.
LEMMA ResumeTrue ==
  ASSUME ZipInv, InflatesTrue, Resume
  PROVE  InflatesTrue' /\ (ReadAfterWrite => ReadAfterWrite' \/ Overtaken)
<1>0. Shapes /\ IsArchive(zip)
  BY DEF ZipInv, Shapes
<1>1. PICK c \in Callers : ResumeRead(c) \/ ResumeWrite(c) \/ ResumeTruncate(c)
  BY DEF Resume
<1> DEFINE f == Inflated(pend[c])
<1>2. /\ pend[c].op # "idle" /\ pend' = [pend EXCEPT ![c] = Idle]
      /\ \/ fileSources' = f /\ zip' = zip
         \/ \E p, d : /\ zip' = FileAdd(p, d, "file")
                      /\ fileSources' = Put(f, FileIndex(p), d)
  BY <1>1 DEF ResumeRead, ResumeWrite, ResumeTruncate
<1>3. NoneStarted /\ pend'[c] = Idle
  BY <1>0, <1>2, NoneStartedAtEnd
<1>4. DOMAIN f \subseteq DOMAIN zip
  BY <1>0, <1>2, InflatedBound
<1>5. CASE fileSources' = f /\ zip' = zip
  <2>1. MembersKept /\ (CacheTrue(f, zip) => CacheTrue(fileSources, zip)')
    BY <1>5 DEF MembersKept
  <2> QED
    BY <1>0, <1>2, <1>3, <2>1, InflatesKept, InflatedTrue, ReadAfterWriteNext DEF Overtaken
<1>6. ASSUME NEW p, NEW d, zip' = FileAdd(p, d, "file"), fileSources' = Put(f, FileIndex(p), d)
      PROVE  InflatesTrue' /\ (ReadAfterWrite => ReadAfterWrite' \/ Overtaken)
  <2> HIDE DEF f
  <2>1. MembersKept /\ (CacheTrue(f, zip) => CacheTrue(fileSources, zip)')
    BY <1>0, <1>4, <1>6, AddTrue
  <2> USE DEF f
  <2> QED
    BY <1>0, <1>2, <1>3, <2>1, InflatesKept, InflatedTrue, ReadAfterWriteNext DEF Overtaken
<1> QED
  BY <1>2, <1>5, <1>6

\* However calls interleave, a cached source that disagrees with the archive
\* comes from one place: inflateRaw's callback storing what it decompressed
\* after a write of the same member had been made and cached.
THEOREM StaleOnlyWhenOvertakenAlways == Spec => StaleOnlyWhenOvertaken
<1> DEFINE IInv == ZipInv /\ InflatesTrue
           A == ReadAfterWrite /\ ~ReadAfterWrite' => Overtaken
<1>1. Init => IInv
  <2>1. Init => \A c \in Callers : pend[c] = Idle
    BY DEF Init
  <2>2. Idle.op = "idle"
    BY DEF Idle
  <2> QED
    BY <2>1, <2>2, ZipInit DEF InflatesTrue
<1>2. IInv /\ [Next]_vars => IInv' /\ [A]_vars
  <2> SUFFICES ASSUME IInv, [Next]_vars  PROVE IInv' /\ [A]_vars
    OBVIOUS
  <2>1. ZipInv'
    BY ZipNext
  <2>2. CASE Sync
    BY <2>1, <2>2, SyncTrue, InflatesKept DEF ZipInv
  <2>3. CASE Start
    BY <2>1, <2>3, StartTrue
  <2>4. CASE Resume
    BY <2>1, <2>4, ResumeTrue
  <2>5. CASE UNCHANGED vars
    BY <2>1, <2>5 DEF vars, InflatesTrue
  <2> QED
    BY <2>2, <2>3, <2>4, <2>5 DEF Next
<1>3. [A]_vars => [ReadAfterWrite /\ ~ReadAfterWrite' =>
         \E c \in Callers :
            /\ pend[c].op # "idle" /\ pend'[c] = Idle
            /\ pend[c].inflate /\ zip[pend[c].src].changed]_vars
  BY DEF Overtaken
<1> QED
  BY <1>1, <1>2, <1>3, PTL DEF Spec, StaleOnlyWhenOvertaken

-----------------------------------------------------------------------------
(* Paths, and the directories above them.                                   *)

Words == Names \cup Tokens

\* The first names of a path.
LEMMA PrefixIs ==
  ASSUME NEW S, NEW p \in Seq(S), NEW k \in 0 .. Len(p)
  PROVE  /\ SubSeq(p, 1, k) \in Seq(S) /\ Len(SubSeq(p, 1, k)) = k
         /\ \A i \in 1 .. k : SubSeq(p, 1, k)[i] = p[i]
<1>1. \A i \in 1 .. k : p[i] \in S
  OBVIOUS
<1> QED
  BY <1>1, SubSeqProperties

\* A path that is not the root is a name in a directory.
LEMMA NameInDirectory ==
  ASSUME NEW p \in Text, p # Root
  PROVE  /\ Dirname(p) \in Text /\ Len(Dirname(p)) = Len(p) - 1 /\ Last(p) \in Words
         /\ Dirname(p) = SubSeq(p, 1, Len(p) - 1) /\ Append(Dirname(p), Last(p)) = p
         /\ Len(p) \in Nat \ {0}
<1>1. Len(p) \in Nat \ {0} /\ p \in Seq(Words)
  BY DEF Root, Text, Words
<1>2. Dirname(p) = SubSeq(p, 1, Len(p) - 1) /\ Last(p) = p[Len(p)]
  BY DEF Dirname, Front, Last
<1>3. /\ SubSeq(p, 1, Len(p) - 1) \in Seq(Words) /\ Len(SubSeq(p, 1, Len(p) - 1)) = Len(p) - 1
      /\ \A i \in 1 .. (Len(p) - 1) : SubSeq(p, 1, Len(p) - 1)[i] = p[i]
  <2>1. Len(p) - 1 \in 0 .. Len(p)
    BY <1>1
  <2> QED
    BY <1>1, <2>1, PrefixIs
<1>4. PICK d \in Seq(Words) : d = Dirname(p)
  BY <1>2, <1>3
<1>5. Len(d) = Len(p) - 1 /\ \A i \in 1 .. Len(d) : d[i] = p[i]
  BY <1>1, <1>2, <1>3, <1>4
<1>6. p[Len(p)] \in Words
  BY <1>1
<1>7. Append(d, p[Len(p)]) = p
  BY <1>1, <1>5, <1>6
<1> QED
  BY <1>1, <1>2, <1>4, <1>5, <1>6, <1>7 DEF Text, Words

\* The other way round.
LEMMA NamePutInDirectory ==
  ASSUME NEW d \in Text, NEW n \in Words
  PROVE  /\ Append(d, n) \in Text /\ Append(d, n) # Root
         /\ Dirname(Append(d, n)) = d /\ Last(Append(d, n)) = n
<1>0. d \in Seq(Words)
  BY DEF Text, Words
<1>a. Append(d, n) \in Seq(Words)
  BY <1>0, AppendProperties
<1>1. PICK p \in Seq(Words) : p = Append(d, n)
  BY <1>a
<1>2. Len(p) = Len(d) + 1 /\ Len(d) \in Nat /\ p[Len(p)] = n /\ \A i \in 1 .. Len(d) : p[i] = d[i]
  BY <1>0, <1>1
<1>3. p # Root /\ p \in Text
  BY <1>2 DEF Root, Text, Words
<1>4. Dirname(p) \in Text /\ Len(Dirname(p)) = Len(d) /\ Append(Dirname(p), Last(p)) = p
  BY <1>2, <1>3, NameInDirectory
<1>5. Last(p) = n
  BY <1>2 DEF Last
<1>6. PICK e \in Text : e = Dirname(p)
  BY <1>4
<1>7. \A i \in 1 .. Len(d) : e[i] = p[i]
  BY <1>4, <1>5, <1>6 DEF Text, Words
<1>8. e = d
  <2>1. e \in Seq(Words) /\ Len(e) = Len(d) /\ \A i \in 1 .. Len(d) : e[i] = d[i]
    BY <1>2, <1>4, <1>6, <1>7 DEF Text, Words
  <2> QED
    BY <1>0, <2>1, SeqEqual
<1> QED
  BY <1>1, <1>3, <1>5, <1>6, <1>8

\* A path and the directories above it, by their lengths.
Chain(p) == Above(p) \cup {p}

\* The members of the chain are its prefixes, one for each length.
LEMMA ChainIs ==
  ASSUME NEW p \in Text
  PROVE  /\ \A r \in Chain(p) : r \in Text /\ Len(r) \in 0 .. Len(p) /\ r = SubSeq(p, 1, Len(r))
         /\ \A k \in 0 .. Len(p) : SubSeq(p, 1, k) \in Chain(p)
         /\ Len(p) \in Nat
<1>1. Len(p) \in Nat /\ p \in Seq(Words)
  BY DEF Text, Words
<1>2. \A k \in 0 .. Len(p) : /\ SubSeq(p, 1, k) \in Seq(Words) /\ Len(SubSeq(p, 1, k)) = k
  BY <1>1, PrefixIs
<1>3. SubSeq(p, 1, Len(p)) = p
  BY <1>1
<1>4. ASSUME NEW r \in Chain(p) PROVE r \in Text /\ Len(r) \in 0 .. Len(p) /\ r = SubSeq(p, 1, Len(r))
  <2>1. CASE r = p
    BY <1>1, <1>3, <2>1
  <2>2. CASE r # p
    <3>1. PICK k \in 0 .. (Len(p) - 1) : r = SubSeq(p, 1, k)
      BY <1>4, <2>2 DEF Chain, Above
    <3>2. k \in 0 .. Len(p)
      BY <1>1, <3>1
    <3> QED
      BY <1>2, <3>1, <3>2 DEF Text, Words
  <2> QED
    BY <2>1, <2>2
<1>5. ASSUME NEW k \in 0 .. Len(p) PROVE SubSeq(p, 1, k) \in Chain(p)
  <2>1. CASE k = Len(p)
    BY <1>3, <2>1 DEF Chain
  <2>2. CASE k # Len(p)
    <3>1. k \in 0 .. (Len(p) - 1)
      BY <1>1, <2>2
    <3> QED
      BY <3>1 DEF Chain, Above
  <2> QED
    BY <2>1, <2>2
<1> QED
  BY <1>1, <1>4, <1>5

\* The directory of a path of the chain is one too.
LEMMA ChainClosed ==
  ASSUME NEW p \in Text, NEW u \in Chain(p), u # Root
  PROVE  /\ Dirname(u) \in Chain(p) /\ Len(Dirname(u)) = Len(u) - 1 /\ Len(u) \in Nat
         /\ \A r \in Chain(p) : Len(r) = Len(u) - 1 => r = Dirname(u)
<1>1. u \in Text /\ Len(u) \in 0 .. Len(p) /\ u = SubSeq(p, 1, Len(u)) /\ Len(p) \in Nat
  BY ChainIs
<1>2. Dirname(u) \in Text /\ Len(Dirname(u)) = Len(u) - 1 /\ Dirname(u) = SubSeq(u, 1, Len(u) - 1) /\ Len(u) # 0
  <2>1. u \in Text
    BY <1>1
  <2>2. Len(u) \in Nat \ {0}
    BY <2>1, NameInDirectory
  <2> QED
    BY <2>1, <2>2, NameInDirectory
<1>3. PICK k : k = Len(u) - 1
  OBVIOUS
<1>4. k \in 0 .. Len(p) /\ k \in 0 .. Len(u)
  BY <1>1, <1>2, <1>3
<1>5. SubSeq(SubSeq(p, 1, Len(u)), 1, k) = SubSeq(p, 1, k)
  <2>1. p \in Seq(Words) /\ k \in Nat /\ k <= Len(u) /\ Len(u) <= Len(p) /\ Len(u) \in Nat
    BY <1>1, <1>4 DEF Text, Words
  <2>2. PICK s \in Seq(Words) : s = SubSeq(p, 1, Len(u))
    BY <1>1, Zenon DEF Text, Words
  <2>3. Len(s) = Len(u) /\ \A i \in 1 .. Len(u) : s[i] = p[i]
    BY <1>1, <2>1, <2>2, PrefixIs
  <2>a. k \in 0 .. Len(s) /\ k \in 0 .. Len(p)
    BY <2>1, <2>3, <1>4
  <2>4. PICK t \in Seq(Words) : t = SubSeq(s, 1, k)
    BY <2>a, PrefixIs
  <2>5. Len(t) = k /\ \A i \in 1 .. k : t[i] = s[i]
    BY <2>4, <2>a, PrefixIs
  <2>6. PICK v \in Seq(Words) : v = SubSeq(p, 1, k)
    BY <2>1, <2>a, PrefixIs
  <2>7. Len(v) = k /\ \A i \in 1 .. k : v[i] = p[i]
    BY <2>1, <2>a, <2>6, PrefixIs
  <2>8. t = v
    BY <2>1, <2>3, <2>5, <2>7
  <2> QED
    BY <2>2, <2>4, <2>6, <2>8
<1>6. Dirname(u) = SubSeq(p, 1, k)
  BY <1>1, <1>2, <1>3, <1>5, Zenon
<1>7. Dirname(u) \in Chain(p)
  BY <1>4, <1>6, ChainIs
<1>8. \A r \in Chain(p) : Len(r) = k => r = Dirname(u)
  BY <1>6, ChainIs
<1>9. Len(Dirname(u)) = Len(u) - 1 /\ Len(u) \in Nat
  BY <1>1, <1>2
<1> QED
  BY <1>3, <1>7, <1>8, <1>9, Zenon

-----------------------------------------------------------------------------
(* The two indices: every directory is a name of the one above it, and every *)
(* name is of an entry or of a directory.                                   *)

IndexTyped(E, L) ==
    /\ E \subseteq Text \ {Root} /\ Root \in DOMAIN L /\ DOMAIN L \subseteq Text
    /\ \A d \in DOMAIN L : L[d] \subseteq Words
Reached(L) == \A q \in DOMAIN L : q # Root => Dirname(q) \in DOMAIN L /\ Last(q) \in L[Dirname(q)]
NamesKnown(E, L) == \A d \in DOMAIN L : \A n \in L[d] : Append(d, n) \in E \cup DOMAIN L

\* registerListing keeps the types.
LEMMA ListedTyped ==
  ASSUME NEW E, NEW L, IndexTyped(E, L), NEW p \in Text
  PROVE  /\ IndexTyped(E, Listed(L, p)) /\ p \in DOMAIN Listed(L, p)
         /\ DOMAIN L \subseteq DOMAIN Listed(L, p)
         /\ DOMAIN Listed(L, p) \subseteq DOMAIN L \cup Chain(p)
<1> DEFINE new == Missing(L, p)
           N == Listed(L, p)
<1>1. new \subseteq Chain(p) /\ \A r \in new : r \in Text /\ r \notin DOMAIN L
  <2>1. new \subseteq Chain(p)
    BY DEF Missing, Chain
  <2>2. ASSUME NEW r \in new PROVE r \in Text /\ r \notin DOMAIN L
    <3>1. r \in Chain(p) /\ Len(r) <= Len(r)
      BY <2>1, ChainIs
    <3> QED
      BY <3>1, ChainIs DEF Missing, Chain
  <2> QED
    BY <2>1, <2>2
<1>2. p \in DOMAIN L \cup new
  <2>1. p \in Chain(p)
    BY DEF Chain
  <2>2. ASSUME p \notin DOMAIN L PROVE p \in new
    <3>1. ASSUME NEW r \in Chain(p), Len(p) <= Len(r) PROVE r = p
      <4>1. Len(r) = Len(p) /\ r = SubSeq(p, 1, Len(r)) /\ p = SubSeq(p, 1, Len(p))
        BY <2>1, <3>1, ChainIs
      <4> QED
        BY <4>1
    <3> QED
      BY <2>1, <2>2, <3>1 DEF Missing, Chain
  <2> QED
    BY <2>2
<1>3. /\ DOMAIN N = DOMAIN L \cup new
      /\ \A q \in DOMAIN N : N[q] = (IF q \in DOMAIN L THEN L[q] ELSE {})
                                    \cup {Last(u) : u \in {v \in new : Dirname(v) = q}}
  BY DEF Listed
<1> HIDE DEF new, N
<1>4. ASSUME NEW q \in DOMAIN N PROVE N[q] \subseteq Words
  <2>1. ASSUME NEW u \in new PROVE Last(u) \in Words
    <3>1. u # Root
      BY <1>1, <2>1 DEF IndexTyped
    <3> QED
      BY <1>1, <2>1, <3>1, NameInDirectory
  <2> QED
    BY <1>3, <2>1 DEF IndexTyped
<1>5. IndexTyped(E, N)
  BY <1>1, <1>3, <1>4 DEF IndexTyped
<1> QED
  BY <1>1, <1>2, <1>3, <1>5 DEF N

\* ... and the indices.
LEMMA ListedReached ==
  ASSUME NEW E, NEW L, IndexTyped(E, L), Reached(L), NamesKnown(E, L), NEW p \in Text
  PROVE  Reached(Listed(L, p)) /\ NamesKnown(E, Listed(L, p))
<1> DEFINE new == Missing(L, p)
           N == Listed(L, p)
<1>1. new \subseteq Chain(p) /\ \A r \in new : r \in Text /\ r # Root
  <2>1. new \subseteq Chain(p)
    BY DEF Missing, Chain
  <2>2. ASSUME NEW r \in new PROVE r \in Text /\ r # Root
    <3>1. r \in Chain(p) /\ Len(r) <= Len(r)
      BY <2>1, ChainIs
    <3>2. r \notin DOMAIN L
      BY <3>1 DEF Missing, Chain
    <3> QED
      BY <3>1, <3>2, ChainIs DEF IndexTyped
  <2> QED
    BY <2>1, <2>2
<1>2. ASSUME NEW u \in new PROVE Dirname(u) \in DOMAIN L \cup new
  <2>1. Dirname(u) \in Chain(p) /\ Len(Dirname(u)) = Len(u) - 1 /\ Len(u) \in Nat
    BY <1>1, <1>2, ChainClosed
  <2>2. \A r \in Chain(p) : Len(r) = Len(u) - 1 => r = Dirname(u)
    BY <1>1, <1>2, ChainClosed
  <2>3. ASSUME Dirname(u) \notin DOMAIN L, NEW r \in Chain(p), Len(Dirname(u)) <= Len(r)
        PROVE  r \notin DOMAIN L
    <3>1. CASE Len(r) = Len(u) - 1
      BY <2>2, <2>3, <3>1
    <3>2. CASE Len(r) # Len(u) - 1
      <4>1. Len(u) <= Len(r)
        <5>1. Len(r) \in Nat
          BY <2>3, ChainIs
        <5> QED
          BY <2>1, <2>3, <3>2, <5>1
      <4> QED
        BY <1>2, <2>3, <4>1 DEF Missing, Chain
    <3> QED
      BY <3>1, <3>2
  <2> QED
    BY <2>1, <2>3 DEF Missing, Chain
<1>3. /\ DOMAIN N = DOMAIN L \cup new
      /\ \A q \in DOMAIN N : N[q] = (IF q \in DOMAIN L THEN L[q] ELSE {})
                                    \cup {Last(u) : u \in {v \in new : Dirname(v) = q}}
  BY DEF Listed
<1> HIDE DEF new, N
<1>4. Reached(N)
  <2> SUFFICES ASSUME NEW q \in DOMAIN N, q # Root
               PROVE  Dirname(q) \in DOMAIN N /\ Last(q) \in N[Dirname(q)]
    BY DEF Reached
  <2>1. CASE q \in new
    BY <1>2, <1>3, <2>1
  <2>2. CASE q \notin new
    BY <1>3, <2>2 DEF Reached
  <2> QED
    BY <2>1, <2>2
<1>5. NamesKnown(E, N)
  <2> SUFFICES ASSUME NEW d \in DOMAIN N, NEW n \in N[d] PROVE Append(d, n) \in E \cup DOMAIN N
    BY DEF NamesKnown
  <2>1. CASE \E u \in new : Dirname(u) = d /\ Last(u) = n
    <3>1. PICK u \in new : Dirname(u) = d /\ Last(u) = n
      BY <2>1
    <3>2. Append(d, n) = u
      BY <1>1, <3>1, NameInDirectory
    <3> QED
      BY <1>3, <3>2
  <2>2. CASE d \in DOMAIN L /\ n \in L[d]
    BY <1>3, <2>2 DEF NamesKnown
  <2> QED
    BY <1>3, <2>1, <2>2
<1> QED
  BY <1>4, <1>5 DEF N

\* registerEntry: the directory is listed, and lists the name.
LEMMA EntryListed ==
  ASSUME NEW E, NEW L, IndexTyped(E, L), NEW p \in Text, p # Root
  PROVE  /\ IndexTyped(E \cup {p}, ListedEntry(L, p))
         /\ Reached(L) /\ NamesKnown(E, L) =>
               Reached(ListedEntry(L, p)) /\ NamesKnown(E \cup {p}, ListedEntry(L, p))
<1> DEFINE d == Dirname(p)
           M == Listed(L, d)
           N == ListedEntry(L, p)
<1>1. d \in Text /\ Last(p) \in Words /\ Append(d, Last(p)) = p
  BY NameInDirectory
<1>2. IndexTyped(E, M) /\ d \in DOMAIN M
  BY <1>1, ListedTyped
<1>3. Reached(L) /\ NamesKnown(E, L) => Reached(M) /\ NamesKnown(E, M)
  BY <1>1, ListedReached
<1>4. /\ DOMAIN N = DOMAIN M
      /\ \A q \in DOMAIN M : N[q] = IF q = d THEN M[d] \cup {Last(p)} ELSE M[q]
  <2> HIDE DEF M, d
  <2>1. N = Put(M, d, M[d] \cup {Last(p)})
    BY Zenon DEF ListedEntry, M, d
  <2> QED
    BY <1>2, <2>1 DEF Put
<1> HIDE DEF d, M, N
<1>5. IndexTyped(E \cup {p}, N)
  BY <1>1, <1>2, <1>4 DEF IndexTyped
<1>6. ASSUME Reached(M), NamesKnown(E, M) PROVE Reached(N) /\ NamesKnown(E \cup {p}, N)
  <2>1. Reached(N)
    BY <1>4, <1>6 DEF Reached
  <2>2. NamesKnown(E \cup {p}, N)
    BY <1>1, <1>4, <1>6 DEF NamesKnown
  <2> QED
    BY <2>1, <2>2
<1> QED
  BY <1>3, <1>5, <1>6 DEF N

\* unregisterEntry: what is no directory, or an empty one, is taken out.
LEMMA EntryDropped ==
  ASSUME NEW E, NEW L, IndexTyped(E, L), NEW p \in Text, p # Root, NEW N, NEW M,
         M = Drop(L, p),
         N = IF Dirname(p) \in DOMAIN M THEN [M EXCEPT ![Dirname(p)] = @ \ {Last(p)}] ELSE M
  PROVE  /\ IndexTyped(E \ {p}, N)
         /\ Reached(L) /\ NamesKnown(E, L) /\ (p \in DOMAIN L => L[p] = {}) =>
               Reached(N) /\ NamesKnown(E \ {p}, N)
<1>1. Dirname(p) \in Text /\ Last(p) \in Words /\ Append(Dirname(p), Last(p)) = p
  BY NameInDirectory
<1>2. DOMAIN M = DOMAIN L \ {p} /\ \A q \in DOMAIN M : M[q] = L[q]
  BY DEF Drop
<1>3. /\ DOMAIN N = DOMAIN M
      /\ \A q \in DOMAIN M : N[q] = IF q = Dirname(p) THEN L[q] \ {Last(p)} ELSE L[q]
  BY <1>2 DEF Drop
<1>4. IndexTyped(E \ {p}, N)
  BY <1>2, <1>3 DEF IndexTyped
<1>5. ASSUME Reached(L), NamesKnown(E, L), p \in DOMAIN L => L[p] = {}
      PROVE  Reached(N) /\ NamesKnown(E \ {p}, N)
  <2>1. ASSUME NEW q \in DOMAIN N, q # Root
        PROVE  Dirname(q) \in DOMAIN N /\ Last(q) \in N[Dirname(q)]
    <3>1. q \in DOMAIN L /\ q # p /\ Dirname(q) \in DOMAIN L /\ Last(q) \in L[Dirname(q)]
      BY <1>2, <1>3, <1>5, <2>1 DEF Reached
    <3>2. Dirname(q) # p
      BY <1>5, <3>1
    <3>3. Append(Dirname(q), Last(q)) = q
      BY <2>1, <3>1, NameInDirectory DEF IndexTyped
    <3>4. Dirname(q) = Dirname(p) => Last(q) # Last(p)
      BY <1>1, <3>1, <3>3
    <3> QED
      BY <1>2, <1>3, <3>1, <3>2, <3>4
  <2>2. ASSUME NEW d \in DOMAIN N, NEW n \in N[d]
        PROVE  Append(d, n) \in (E \ {p}) \cup DOMAIN N
    <3>1. d \in DOMAIN L /\ n \in L[d] /\ d \in Text /\ n \in Words
      BY <1>2, <1>3, <2>2 DEF IndexTyped
    <3>2. Append(d, n) \in E \cup DOMAIN L
      BY <1>5, <3>1 DEF NamesKnown
    <3>3. Append(d, n) # p
      <4>1. Dirname(Append(d, n)) = d /\ Last(Append(d, n)) = n
        BY <3>1, NamePutInDirectory
      <4> QED
        BY <1>2, <1>3, <2>2, <4>1
    <3> QED
      BY <1>2, <1>3, <3>2, <3>3
  <2> QED
    BY <2>1, <2>2 DEF Reached, NamesKnown
<1> QED
  BY <1>4, <1>5

-----------------------------------------------------------------------------
(* Where a path leads: the recursion of resolveFilename has a value as long *)
(* as what is read from the archive is text.                                *)

\* A set of numbers that is not empty has a least one.
LEMMA LeastNumber ==
  ASSUME NEW N, N \subseteq Nat, N # {}
  PROVE  \E x \in N : \A y \in N : x <= y
<1> DEFINE less == {ss \in Nat \X Nat : ss[1] < ss[2]}
<1>1. IsWellFoundedOn(less, Nat)
  BY NatLessThanWellFounded, Zenon DEF OpToRel
<1>2. PICK x \in N : \A y \in N : ~(<<y, x>> \in less)
  BY <1>1, WFMin
<1>3. ASSUME NEW y \in N PROVE x <= y
  <2>1. x \in Nat /\ y \in Nat /\ <<y, x>> \notin less
    BY <1>2
  <2>2. <<y, x>>[1] = y /\ <<y, x>>[2] = x
    OBVIOUS
  <2> QED
    BY <2>1, <2>2
<1> QED
  BY <1>3

\* What holds at 0 and is handed on from each number to the next holds up to n.
LEMMA StepByStep ==
  ASSUME NEW n \in Nat, NEW Good, 0 \in Good, \A i \in 1..n : i - 1 \in Good => i \in Good
  PROVE  \A i \in 0..n : i \in Good
<1> DEFINE Bad == {i \in 0..n : i \notin Good}
<1> SUFFICES ASSUME Bad # {} PROVE FALSE
  OBVIOUS
<1>0. Bad \subseteq Nat
  OBVIOUS
<1>1. PICK x \in Bad : \A y \in Bad : x <= y
  BY <1>0, LeastNumber
<1>2. x \in 1..n /\ x - 1 \in 0..n /\ x - 1 < x
  BY <1>1
<1>3. x - 1 \in Good
  BY <1>1, <1>2
<1> QED
  BY <1>1, <1>2, <1>3

\* The values of a recursion over the first n numbers.
Recurs(f, n, T, base, F) ==
  f \in [0..n -> T] /\ \A i \in 0..n : f[i] = IF i = 0 THEN base ELSE F[i][f[i - 1]]

\* The value at 0 and a step for each number make a function.
LEMMA RecursionExists ==
  ASSUME NEW n \in Nat, NEW T, NEW base \in T, NEW F \in [1..n -> [T -> T]]
  PROVE  \E f : Recurs(f, n, T, base, F)
<1> DEFINE Run(f, k) == Recurs(f, k, T, base, F)
           Good == {k \in 0..n : \E f : Run(f, k)}
<1>1. 0 \in Good
  <2>1. Run([i \in 0..0 |-> base], 0)
    BY DEF Recurs
  <2> HIDE DEF Run
  <2> QED
    BY <2>1
<1>2. ASSUME NEW k \in 1..n, k - 1 \in Good PROVE k \in Good
  <2>1. PICK f : Run(f, k - 1)
    BY <1>2
  <2> DEFINE g == [i \in 0..k |-> IF i = k THEN F[k][f[k - 1]] ELSE f[i]]
  <2>2. k - 1 \in 0..(k - 1) /\ F[k] \in [T -> T] /\ f[k - 1] \in T
    BY <2>1 DEF Recurs
  <2>3. g \in [0..k -> T]
    BY <2>1, <2>2 DEF Recurs
  <2>4. ASSUME NEW i \in 0..k PROVE g[i] = IF i = 0 THEN base ELSE F[i][g[i - 1]]
    <3>1. ASSUME i # k PROVE g[i] = IF i = 0 THEN base ELSE F[i][g[i - 1]]
      <4>1. i \in 0..(k - 1) /\ g[i] = f[i] /\ (i # 0 => g[i - 1] = f[i - 1])
        BY <3>1
      <4> QED
        BY <2>1, <4>1 DEF Recurs
    <3>2. k # 0 /\ g[k] = F[k][f[k - 1]] /\ g[k - 1] = f[k - 1]
      BY <1>2
    <3> QED
      BY <3>1, <3>2
  <2>5. Run(g, k)
    BY <2>3, <2>4 DEF Recurs
  <2> HIDE DEF Run, g
  <2> QED
    BY <2>5
<1>3. \A k \in 0..n : k \in Good
  <2> HIDE DEF Good
  <2> QED
    BY <1>1, <1>2, StepByStep
<1> QED
  BY <1>3

Errors == {"none", "RangeError", "LibzipError", "ENOTDIR", "ENOENT"}
Results == [err : Errors, p : Text]
Lasts == {"follow", "keep"}

\* What is stored is text, and the indices are of members and paths.
StoredTyped ==
    /\ \A i \in DOMAIN zip : zip[i].data \in Text
    /\ \A i \in DOMAIN fileSources : fileSources[i] \in Text
    /\ \A p \in DOMAIN entries : entries[p] \in DOMAIN zip
    /\ IndexTyped(DOMAIN entries, listings)

Hop(q) == {i \in Locate(q) : isSymbolicLink(i)}
Target(q) == Source(CHOOSE i \in Hop(q) : TRUE)

\* One turn of resolveFilename: parent is where the directory leads, linked
\* where the entry's link does, hopped where the link found in parent does.
Turned(parent, linked, hopped, p, last) ==
    LET q == Append(parent.p, Last(p))
        gone == p \in DOMAIN entries /\ ~Live(entries[p])
    IN CASE p = Root -> Found(Root)
         [] p # Root /\ last = "follow" /\ p \in DOMAIN entries ->
                IF gone /\ symlinkCount # 0 THEN Fail("LibzipError")
                ELSE IF ~gone /\ isSymbolicLink(entries[p]) THEN linked ELSE Found(p)
         [] OTHER ->
                IF parent.err # "none" THEN parent
                ELSE IF parent.p \notin DOMAIN listings
                     THEN Fail(IF parent.p \in DOMAIN entries THEN "ENOTDIR" ELSE "ENOENT")
                ELSE IF last = "follow" /\ Hop(q) # {} THEN hopped ELSE Found(q)

\* What is found or fails is a result.
LEMMA FoundIs ==
  /\ \A p \in Text : Found(p) \in Results /\ Found(p).err = "none" /\ Found(p).p = p
  /\ \A e \in Errors : Fail(e) \in Results /\ Fail(e).err = e
<1>1. Root \in Text
  BY DEF Root, Text
<1> QED
  BY <1>1 DEF Found, Fail, Results, Errors

\* A link's target is text.
LEMMA SourceTyped ==
  ASSUME StoredTyped
  PROVE  /\ \A i \in DOMAIN zip : Source(i) \in Text
         /\ \A q : Hop(q) # {} => Target(q) \in Text
<1>1. \A i \in DOMAIN zip : Source(i) \in Text
  BY DEF StoredTyped, Source
<1>2. ASSUME NEW q, Hop(q) # {} PROVE Target(q) \in Text
  <2>1. PICK i : i = CHOOSE j \in Hop(q) : TRUE
    OBVIOUS
  <2>2. i \in Hop(q)
    BY <1>2, <2>1
  <2>3. i \in DOMAIN zip
    BY <2>2 DEF Hop, Locate
  <2> QED
    BY <1>1, <2>1, <2>3 DEF Target
<1> QED
  BY <1>1, <1>2

\* A turn gives a result.
LEMMA TurnedTyped ==
  ASSUME StoredTyped, NEW parent \in Results, NEW linked, NEW hopped, NEW p \in Text, NEW last \in Lasts,
         p \in DOMAIN entries => linked \in Results,
         p # Root /\ Hop(Append(parent.p, Last(p))) # {} => hopped \in Results
  PROVE  Turned(parent, linked, hopped, p, last) \in Results
<1>1. PICK q : q = Append(parent.p, Last(p))
  OBVIOUS
<1>2. p # Root => q \in Text
  BY <1>1, NameInDirectory, NamePutInDirectory DEF Results
<1>3. Fail("LibzipError") \in Results /\ Fail("ENOTDIR") \in Results /\ Fail("ENOENT") \in Results
  BY FoundIs DEF Errors
<1>4. Root \in Text
  BY DEF Root, Text
<1>5. Found(Root) \in Results /\ Found(p) \in Results /\ (p # Root => Found(q) \in Results)
  BY <1>2, <1>4, FoundIs
<1>6. CASE p = Root
  BY <1>5, <1>6, Zenon DEF Turned
<1>7. CASE p # Root /\ last = "follow" /\ p \in DOMAIN entries
  BY <1>3, <1>5, <1>7, Zenon DEF Turned
<1>8. CASE p # Root /\ ~(last = "follow" /\ p \in DOMAIN entries)
  BY <1>1, <1>3, <1>5, <1>8, Zenon DEF Turned
<1> QED
  BY <1>6, <1>7, <1>8

\* The body of the recursion, and the same by turns.
Body(f, fuel, ask) ==
    LET p == ask[1]
        last == ask[2]
        parent == f[fuel - 1][<<Dirname(p), "follow">>]
        q == Append(parent.p, Last(p))
        gone == p \in DOMAIN entries /\ ~Live(entries[p])
        hop == {i \in Locate(q) : isSymbolicLink(i)}
    IN CASE fuel = 0 -> Fail("RangeError")
         [] fuel > 0 /\ p = Root -> Found(Root)
         [] fuel > 0 /\ p # Root /\ last = "follow" /\ p \in DOMAIN entries ->
                IF gone /\ symlinkCount # 0 THEN Fail("LibzipError")
                ELSE IF ~gone /\ isSymbolicLink(entries[p])
                     THEN f[fuel - 1][<<Source(entries[p]), "follow">>]
                     ELSE Found(p)
         [] OTHER ->
                IF parent.err # "none" THEN parent
                ELSE IF parent.p \notin DOMAIN listings
                     THEN Fail(IF parent.p \in DOMAIN entries
                               THEN "ENOTDIR" ELSE "ENOENT")
                ELSE IF last = "follow" /\ hop # {}
                     THEN f[fuel - 1][<<Source(CHOOSE i \in hop : TRUE), "follow">>]
                     ELSE Found(q)
IsWalk(f) == f = [fuel \in 0..Fuel |-> [ask \in Text \X {"follow", "keep"} |-> Body(f, fuel, ask)]]

\* A turn, given where what is asked with one turn less leads.
TurnOf(g, p, last) ==
    Turned(g[<<Dirname(p), "follow">>], g[<<Source(entries[p]), "follow">>],
           g[<<Target(Append(g[<<Dirname(p), "follow">>].p, Last(p))), "follow">>], p, last)

\* resolveFilename, as a turn.
LEMMA BodyIs ==
  ASSUME NEW f, NEW fuel \in Nat, NEW ask
  PROVE  /\ fuel = 0 => Body(f, fuel, ask) = Fail("RangeError")
         /\ fuel # 0 => Body(f, fuel, ask) = TurnOf(f[fuel - 1], ask[1], ask[2])
<1>1. CASE fuel = 0
  <2>1. ~(fuel > 0)
    BY <1>1
  <2> QED
    BY <1>1, <2>1, Zenon DEF Body
<1>2. CASE fuel # 0
  <2>1. fuel > 0
    BY <1>2
  <2>2. CASE ask[1] = Root
    BY <1>2, <2>1, <2>2, Zenon DEF Body, TurnOf, Turned
  <2>3. CASE ask[1] # Root /\ ask[2] = "follow" /\ ask[1] \in DOMAIN entries
    BY <1>2, <2>1, <2>3, Zenon DEF Body, TurnOf, Turned
  <2>4. CASE ask[1] # Root /\ ~(ask[2] = "follow" /\ ask[1] \in DOMAIN entries)
    <3>1. /\ ~(ask[1] = Root) /\ ~(fuel = 0) /\ ~(fuel > 0 /\ ask[1] = Root)
          /\ ~(fuel > 0 /\ ask[1] # Root /\ ask[2] = "follow" /\ ask[1] \in DOMAIN entries)
          /\ ~(ask[1] # Root /\ ask[2] = "follow" /\ ask[1] \in DOMAIN entries)
      BY <1>2, <2>1, <2>4
    <3> DEFINE parent == f[fuel - 1][<<Dirname(ask[1]), "follow">>]
    <3>2. CASE parent.err # "none"
      <4>1. Body(f, fuel, ask) = parent
        BY <3>1, <3>2, Zenon DEF Body
      <4>2. TurnOf(f[fuel - 1], ask[1], ask[2]) = parent
        BY <3>1, <3>2, Zenon DEF TurnOf, Turned
      <4> QED
        BY <1>2, <4>1, <4>2
    <3>3. CASE parent.err = "none" /\ parent.p \notin DOMAIN listings
      <4>1. CASE parent.p \in DOMAIN entries
        <5>1. Body(f, fuel, ask) = Fail("ENOTDIR")
          BY <3>1, <3>3, <4>1, Zenon DEF Body
        <5>2. TurnOf(f[fuel - 1], ask[1], ask[2]) = Fail("ENOTDIR")
          BY <3>1, <3>3, <4>1, Zenon DEF TurnOf, Turned
        <5> QED
          BY <1>2, <5>1, <5>2
      <4>2. CASE parent.p \notin DOMAIN entries
        <5>1. Body(f, fuel, ask) = Fail("ENOENT")
          BY <3>1, <3>3, <4>2, Zenon DEF Body
        <5>2. TurnOf(f[fuel - 1], ask[1], ask[2]) = Fail("ENOENT")
          BY <3>1, <3>3, <4>2, Zenon DEF TurnOf, Turned
        <5> QED
          BY <1>2, <5>1, <5>2
      <4> QED
        BY <4>1, <4>2
    <3>4. CASE parent.err = "none" /\ parent.p \in DOMAIN listings
      <4> DEFINE q == Append(parent.p, Last(ask[1]))
      <4>1. CASE ask[2] = "follow" /\ Hop(q) # {}
        <5> DEFINE there == f[fuel - 1][<<Target(q), "follow">>]
        <5>1. Body(f, fuel, ask) = there
          BY <3>1, <3>4, <4>1, Zenon DEF Body, Hop, Target
        <5>2. TurnOf(f[fuel - 1], ask[1], ask[2]) = there
          BY <3>1, <3>4, <4>1, Zenon DEF TurnOf, Turned
        <5> QED
          BY <1>2, <5>1, <5>2
      <4>2. CASE ~(ask[2] = "follow" /\ Hop(q) # {})
        <5>1. Body(f, fuel, ask) = Found(q)
          BY <3>1, <3>4, <4>2, Zenon DEF Body, Hop
        <5>2. TurnOf(f[fuel - 1], ask[1], ask[2]) = Found(q)
          BY <3>1, <3>4, <4>2, Zenon DEF TurnOf, Turned
        <5> QED
          BY <1>2, <5>1, <5>2
      <4> QED
        BY <4>1, <4>2
    <3> QED
      BY <3>2, <3>3, <3>4
  <2> QED
    BY <2>2, <2>3, <2>4
<1> QED
  BY <1>1, <1>2

\* The walk is a recursion.
LEMMA WalkChosen == Walk = CHOOSE f : IsWalk(f)
BY Zenon DEF Walk, IsWalk, Body

\* A turn that is given results gives one.
LEMMA TurnOfTyped ==
  ASSUME StoredTyped, NEW g, \A d \in Text : g[<<d, "follow">>] \in Results, NEW p \in Text, NEW last \in Lasts
  PROVE  TurnOf(g, p, last) \in Results
<1>1. Dirname(p) \in Text
  BY NameInDirectory DEF Dirname
<1>2. PICK parent : parent = g[<<Dirname(p), "follow">>]
  OBVIOUS
<1>3. parent \in Results
  BY <1>1, <1>2
<1>4. p \in DOMAIN entries => g[<<Source(entries[p]), "follow">>] \in Results
  BY SourceTyped DEF StoredTyped
<1>5. PICK q : q = Append(parent.p, Last(p))
  OBVIOUS
<1>6. Hop(q) # {} => g[<<Target(q), "follow">>] \in Results
  BY SourceTyped
<1>7. Turned(parent, g[<<Source(entries[p]), "follow">>], g[<<Target(q), "follow">>], p, last) \in Results
  BY <1>3, <1>4, <1>5, <1>6, TurnedTyped
<1> QED
  BY <1>2, <1>5, <1>7, Zenon DEF TurnOf

\* The recursion has a value: each turn asks for what has one turn less.
LEMMA WalkExists ==
  ASSUME StoredTyped
  PROVE  \E f : IsWalk(f)
<1> DEFINE P == Text \X {"follow", "keep"}
           T == [P -> Results]
           base == [x \in P |-> Fail("RangeError")]
           F == [k \in 1..Fuel |-> [g \in T |-> [x \in P |-> TurnOf(g, x[1], x[2])]]]
<1>1. base \in T
  BY FoundIs DEF Errors
<1>2. ASSUME NEW g \in T, NEW x \in P PROVE TurnOf(g, x[1], x[2]) \in Results
  <2>1. x[1] \in Text /\ x[2] \in Lasts
    BY DEF Lasts
  <2>2. \A d \in Text : g[<<d, "follow">>] \in Results
    OBVIOUS
  <2> HIDE DEF P, T
  <2> QED
    BY <2>1, <2>2, TurnOfTyped
<1>3. F \in [1..Fuel -> [T -> T]]
  <2> HIDE DEF P
  <2> QED
    BY <1>2
<1>4. Fuel \in Nat
  BY DEF Fuel
<1>5. PICK h : Recurs(h, Fuel, T, base, F)
  <2>1. \E h : Recurs(h, Fuel, T, base, F)
    <3> HIDE DEF T, base, F
    <3> QED
      BY <1>1, <1>3, <1>4, RecursionExists
  <2> QED
    BY <2>1
<1>6. ASSUME NEW fuel \in 0..Fuel PROVE h[fuel] = [x \in P |-> Body(h, fuel, x)]
  <2>1. CASE fuel = 0
    <3>1. h[fuel] = base
      BY <1>4, <1>5, <2>1 DEF Recurs
    <3>2. \A x \in P : Body(h, fuel, x) = Fail("RangeError")
      BY <1>4, <2>1, BodyIs
    <3> HIDE DEF P
    <3> QED
      BY <3>1, <3>2
  <2>2. CASE fuel # 0
    <3>1. fuel \in 1..Fuel /\ fuel - 1 \in 0..Fuel /\ fuel \in Nat
      BY <1>4, <2>2
    <3>2. h[fuel] = F[fuel][h[fuel - 1]] /\ h[fuel - 1] \in T
      <4> HIDE DEF T, F, base
      <4> QED
        BY <1>5, <3>1, <2>2 DEF Recurs
    <3>3. F[fuel][h[fuel - 1]] = [x \in P |-> TurnOf(h[fuel - 1], x[1], x[2])]
      <4> HIDE DEF P, T
      <4> QED
        BY <3>1, <3>2
    <3>4. \A x \in P : Body(h, fuel, x) = TurnOf(h[fuel - 1], x[1], x[2])
      BY <3>1, <2>2, BodyIs
    <3> HIDE DEF P, F, T
    <3> QED
      BY <3>2, <3>3, <3>4
  <2> QED
    BY <2>1, <2>2
<1>7. h = [fuel \in 0..Fuel |-> h[fuel]]
  <2> HIDE DEF T, base, F
  <2> QED
    BY <1>5 DEF Recurs
<1>8. h = [fuel \in 0..Fuel |-> [x \in P |-> Body(h, fuel, x)]]
  <2> HIDE DEF P
  <2> QED
    BY <1>6, <1>7
<1>9. IsWalk(h)
  BY <1>8, Zenon DEF IsWalk
<1> QED
  BY <1>9

\* ... and it is the walk.
LEMMA WalkIs ==
  ASSUME StoredTyped
  PROVE  /\ \A p \in Text : \A last \in Lasts : Walk[0][<<p, last>>] = Fail("RangeError")
         /\ \A fuel \in 1..Fuel : \A p \in Text : \A last \in Lasts :
               Walk[fuel][<<p, last>>] = TurnOf(Walk[fuel - 1], p, last)
<1>1. IsWalk(Walk)
  BY WalkChosen, WalkExists, Zenon
<1> DEFINE P == Text \X {"follow", "keep"}
<1>2. Walk = [fuel \in 0..Fuel |-> [x \in P |-> Body(Walk, fuel, x)]]
  BY <1>1, Zenon DEF IsWalk
<1>3. ASSUME NEW fuel \in 0..Fuel, NEW x \in P PROVE Walk[fuel][x] = Body(Walk, fuel, x)
  <2> HIDE DEF P
  <2>1. [k \in 0..Fuel |-> [y \in P |-> Body(Walk, k, y)]][fuel] = [y \in P |-> Body(Walk, fuel, y)]
    BY Zenon
  <2>2. Walk[fuel] = [y \in P |-> Body(Walk, fuel, y)]
    BY <1>2, <2>1, Zenon
  <2>3. [y \in P |-> Body(Walk, fuel, y)][x] = Body(Walk, fuel, x)
    BY Zenon
  <2> QED
    BY <2>2, <2>3, Zenon
<1>4. \A p \in Text : \A last \in Lasts : <<p, last>> \in P /\ <<p, last>>[1] = p /\ <<p, last>>[2] = last
  BY DEF Lasts
<1>5. Fuel \in Nat /\ 0 \in 0..Fuel /\ \A fuel \in 1..Fuel : fuel \in 0..Fuel /\ fuel # 0 /\ fuel \in Nat
  BY DEF Fuel
<1> HIDE DEF P
<1>6. \A x \in P : Walk[0][x] = Fail("RangeError")
  BY <1>3, <1>5, BodyIs
<1>7. \A fuel \in 1..Fuel : \A x \in P : Walk[fuel][x] = TurnOf(Walk[fuel - 1], x[1], x[2])
  BY <1>3, <1>5, BodyIs
<1>8. ASSUME NEW fuel \in 1..Fuel, NEW p \in Text, NEW last \in Lasts
      PROVE  Walk[fuel][<<p, last>>] = TurnOf(Walk[fuel - 1], p, last)
  <2>1. PICK x \in P : x = <<p, last>> /\ x[1] = p /\ x[2] = last
    BY <1>4
  <2> QED
    BY <1>7, <2>1
<1> QED
  BY <1>4, <1>6, <1>8

\* What resolveFilename answers: an error, or a path.
AnswersAt(g) == \A p \in Text : \A last \in Lasts : g[<<p, last>>] \in Results

\* If the walk of less fuel answers for every path, the next turn does.
LEMMA TurnOfAnswers ==
  ASSUME StoredTyped, NEW g, AnswersAt(g)
  PROVE  \A p \in Text : \A last \in Lasts : TurnOf(g, p, last) \in Results
<1>1. "follow" \in Lasts
  BY DEF Lasts
<1>2. \A d \in Text : g[<<d, "follow">>] \in Results
  BY <1>1, Zenon DEF AnswersAt
<1> QED
  BY <1>2, TurnOfTyped

\* So every walk ends, in circles of links too, with an error or a path.
LEMMA WalkTyped ==
  ASSUME StoredTyped
  PROVE  \A fuel \in 0..Fuel : AnswersAt(Walk[fuel])
<1> DEFINE Good == {k \in 0..Fuel : AnswersAt(Walk[k])}
<1>1. Fuel \in Nat
  BY DEF Fuel
<1>2. 0 \in Good
  BY <1>1, WalkIs, FoundIs DEF Errors, AnswersAt
<1>3. ASSUME NEW k \in 1..Fuel, AnswersAt(Walk[k - 1]) PROVE AnswersAt(Walk[k])
  <2>1. \A p \in Text : \A last \in Lasts : TurnOf(Walk[k - 1], p, last) \in Results
    BY <1>3, TurnOfAnswers
  <2> QED
    <3>1. ASSUME NEW p \in Text, NEW last \in Lasts PROVE Walk[k][<<p, last>>] \in Results
      BY <2>1, WalkIs
    <3> QED
      BY <3>1, Zenon DEF AnswersAt
<1>4. \A k \in 1..Fuel : k - 1 \in Good => k \in Good
  BY <1>1, <1>3
<1>5. \A k \in 0..Fuel : k \in Good
  <2> HIDE DEF Good
  <2> QED
    BY <1>1, <1>2, <1>4, StepByStep
<1> QED
  BY <1>5

\* The outcomes of a turn.
LEMMA TurnedIs ==
  ASSUME NEW parent, NEW linked, NEW hopped, NEW p, NEW last, NEW q, q = Append(parent.p, Last(p))
  PROVE  /\ p = Root => Turned(parent, linked, hopped, p, last) = Found(Root)
         /\ p # Root /\ last = "follow" /\ p \in DOMAIN entries /\ ~isSymbolicLink(entries[p])
               /\ (Live(entries[p]) \/ symlinkCount = 0) =>
               Turned(parent, linked, hopped, p, last) = Found(p)
         /\ p # Root /\ ~(last = "follow" /\ p \in DOMAIN entries) /\ parent.err # "none" =>
               Turned(parent, linked, hopped, p, last) = parent
         /\ p # Root /\ ~(last = "follow" /\ p \in DOMAIN entries) /\ parent.err = "none"
               /\ parent.p \notin DOMAIN listings =>
               Turned(parent, linked, hopped, p, last) \in {Fail("ENOTDIR"), Fail("ENOENT")}
<1>1. CASE p = Root
  BY <1>1, Zenon DEF Turned
<1>2. CASE p # Root /\ last = "follow" /\ p \in DOMAIN entries
  BY <1>2, Zenon DEF Turned
<1>3. CASE p # Root /\ ~(last = "follow" /\ p \in DOMAIN entries)
  <2>2. CASE parent.err # "none"
    BY <1>3, <2>2, Zenon DEF Turned
  <2>3. CASE parent.err = "none" /\ parent.p \notin DOMAIN listings
    BY <1>3, <2>3, Zenon DEF Turned
  <2>4. CASE parent.err = "none" /\ parent.p \in DOMAIN listings
    BY <1>3, <2>4
  <2> QED
    BY <2>2, <2>3, <2>4
<1> QED
  BY <1>1, <1>2, <1>3

\* In a directory that is listed, the name is found.
LEMMA TurnedFound ==
  ASSUME NEW parent, NEW linked, NEW hopped, NEW p, NEW last,
         p # Root, last = "keep" \/ p \notin DOMAIN entries, parent.err = "none",
         parent.p \in DOMAIN listings, last = "keep" \/ Hop(Append(parent.p, Last(p))) = {}
  PROVE  Turned(parent, linked, hopped, p, last) = Found(Append(parent.p, Last(p)))
<1>1. last = "keep" => last # "follow"
  OBVIOUS
<1> QED
  BY <1>1, Zenon DEF Turned

\* One turn of the walk.
LEMMA WalkTurn ==
  ASSUME StoredTyped, NEW fuel \in 1..Fuel, NEW p \in Text, NEW last \in Lasts, NEW parent,
         parent = Walk[fuel - 1][<<Dirname(p), "follow">>]
  PROVE  \E linked, hopped : Walk[fuel][<<p, last>>] = Turned(parent, linked, hopped, p, last)
<1>1. Walk[fuel][<<p, last>>] = TurnOf(Walk[fuel - 1], p, last)
  BY WalkIs
<1>2. PICK g : g = Walk[fuel - 1]
  OBVIOUS
<1>3. TurnOf(g, p, last) = Turned(parent, g[<<Source(entries[p]), "follow">>],
          g[<<Target(Append(parent.p, Last(p))), "follow">>], p, last)
  BY <1>2, Zenon DEF TurnOf
<1> QED
  BY <1>1, <1>2, <1>3, Zenon

\* The links counted are those there are: none, and nothing is followed.
NoLink == symlinkCount = 0

\* One turn of the walk, when there is no link ...
LEMMA UnlinkedTurn ==
  ASSUME StoredTyped, NoLink, NEW fuel \in 1..Fuel, NEW p \in Text,
         LET r == Walk[fuel - 1][<<Dirname(p), "follow">>] IN r.err = "none" => r.p = Dirname(p)
  PROVE  LET r == Walk[fuel][<<p, "follow">>] IN r.err = "none" => r.p = p
<1>1. PICK parent : parent = Walk[fuel - 1][<<Dirname(p), "follow">>]
  OBVIOUS
<1>2. "follow" \in Lasts
  BY DEF Lasts
<1>3. PICK linked, hopped : Walk[fuel][<<p, "follow">>] = Turned(parent, linked, hopped, p, "follow")
  BY <1>1, <1>2, WalkTurn
<1>4. PICK q : q = Append(parent.p, Last(p))
  OBVIOUS
<1>5. Hop(q) = {} /\ \A i : ~isSymbolicLink(i)
  BY DEF Hop, isSymbolicLink, NoLink
<1>6. PICK r : r = Walk[fuel][<<p, "follow">>]
  OBVIOUS
<1>7. ASSUME r.err = "none" PROVE r.p = p
  <2>1. CASE p = Root
    <3>1. r = Found(p)
      BY <1>3, <1>4, <1>6, <2>1, TurnedIs
    <3> QED
      BY <3>1, FoundIs
  <2>2. CASE p # Root /\ p \in DOMAIN entries
    <3>1. r = Found(p)
      BY <1>3, <1>4, <1>5, <1>6, <2>2, TurnedIs DEF NoLink
    <3> QED
      BY <3>1, FoundIs
  <2>3. CASE p # Root /\ p \notin DOMAIN entries
    <3>1. CASE parent.err # "none"
      BY <1>3, <1>4, <1>6, <1>7, <2>3, <3>1, TurnedIs
    <3>2. CASE parent.err = "none" /\ parent.p \notin DOMAIN listings
      <4>1. r \in {Fail("ENOTDIR"), Fail("ENOENT")}
        BY <1>3, <1>4, <1>6, <2>3, <3>2, TurnedIs
      <4> QED
        BY <1>7, <4>1, FoundIs DEF Errors
    <3>3. CASE parent.err = "none" /\ parent.p \in DOMAIN listings
      <4>1. r = Found(q)
        <5>1. Hop(q) = {}
          BY <1>5
        <5>2. Turned(parent, linked, hopped, p, "follow") = Found(Append(parent.p, Last(p)))
          BY <1>4, <2>3, <3>3, <5>1, TurnedFound
        <5> QED
          BY <1>3, <1>4, <1>6, <5>2
      <4>2. parent.p = Dirname(p)
        BY <1>1, <3>3
      <4>3. q = p
        BY <1>4, <2>3, <4>2, NameInDirectory
      <4> QED
        BY <4>1, <4>3, FoundIs
    <3> QED
      BY <3>1, <3>2, <3>3
  <2> QED
    BY <2>1, <2>2, <2>3
<1> QED
  BY <1>6, <1>7

\* With no link a path that leads somewhere leads to itself.
LeadsToItself(g) == \A p \in Text : g[<<p, "follow">>].err = "none" => g[<<p, "follow">>].p = p

\* ... and the whole of it: existsSync may leave it out then.
LEMMA UnlinkedWalk ==
  ASSUME StoredTyped, NoLink
  PROVE  \A fuel \in 0..Fuel : LeadsToItself(Walk[fuel])
<1> DEFINE Good == {k \in 0..Fuel : LeadsToItself(Walk[k])}
<1>1. Fuel \in Nat
  BY DEF Fuel
<1>2. LeadsToItself(Walk[0])
  <2>1. ASSUME NEW p \in Text PROVE Walk[0][<<p, "follow">>].err # "none"
    <3>1. "follow" \in Lasts /\ "RangeError" \in Errors
      BY DEF Lasts, Errors
    <3>2. Walk[0][<<p, "follow">>] = Fail("RangeError")
      BY <3>1, WalkIs
    <3> QED
      BY <3>1, <3>2, FoundIs
  <2> QED
    BY <2>1, Zenon DEF LeadsToItself
<1>3. ASSUME NEW k \in 1..Fuel, LeadsToItself(Walk[k - 1]) PROVE LeadsToItself(Walk[k])
  <2>1. ASSUME NEW p \in Text, Walk[k][<<p, "follow">>].err = "none"
        PROVE  Walk[k][<<p, "follow">>].p = p
    <3>1. Dirname(p) \in Text
      BY NameInDirectory DEF Dirname
    <3>2. LET r == Walk[k - 1][<<Dirname(p), "follow">>] IN r.err = "none" => r.p = Dirname(p)
      BY <1>3, <3>1, Zenon DEF LeadsToItself
    <3> QED
      BY <2>1, <3>2, UnlinkedTurn
  <2> QED
    BY <2>1, Zenon DEF LeadsToItself
<1>4. \A k \in 1..Fuel : k - 1 \in Good => k \in Good
  BY <1>1, <1>3
<1>5. \A k \in 0..Fuel : k \in Good
  <2>1. 0 \in Good
    BY <1>1, <1>2
  <2> HIDE DEF Good
  <2> QED
    BY <1>1, <2>1, <1>4, StepByStep
<1> QED
  BY <1>5

\* Where the indices describe the archive and no path is torn, the walk to a
\* directory that is listed finds it.
InStep == EntriesLive /\ FilesEntered /\ Untorn /\ Reached(listings) /\ NamesKnown(DOMAIN entries, listings)

\* A turn that has found the directory above finds the listed one below.
LEMMA DirectoryTurn ==
  ASSUME StoredTyped, InStep, NEW fuel \in 1..Fuel, NEW d \in DOMAIN listings,
         d # Root => Walk[fuel - 1][<<Dirname(d), "follow">>] = Found(Dirname(d))
  PROVE  Walk[fuel][<<d, "follow">>] = Found(d)
<1>1. PICK parent : parent = Walk[fuel - 1][<<Dirname(d), "follow">>]
  OBVIOUS
<1>2. d \in Text /\ "follow" \in Lasts
  BY DEF StoredTyped, IndexTyped, Lasts
<1>3. PICK linked, hopped : Walk[fuel][<<d, "follow">>] = Turned(parent, linked, hopped, d, "follow")
  BY <1>1, <1>2, WalkTurn
<1>4. PICK q : q = Append(parent.p, Last(d))
  OBVIOUS
<1>5. CASE d = Root
  <2>1. Turned(parent, linked, hopped, d, "follow") = Found(Root)
    BY <1>5, <1>4, TurnedIs
  <2> QED
    BY <1>3, <1>5, <2>1
<1>6. CASE d # Root /\ d \in DOMAIN entries
  <2>1. Kind(entries[d]) = "dir"
    BY <1>6 DEF InStep, Untorn
  <2>2. Live(entries[d]) /\ ~isSymbolicLink(entries[d])
    BY <1>6, <2>1 DEF InStep, EntriesLive, isSymbolicLink
  <2>3. Turned(parent, linked, hopped, d, "follow") = Found(d)
    BY <1>6, <1>4, <2>2, TurnedIs
  <2> QED
    BY <1>3, <2>3
<1>7. CASE d # Root /\ d \notin DOMAIN entries
  <2>1. parent = Found(Dirname(d)) /\ Dirname(d) \in DOMAIN listings /\ Dirname(d) \in Text
    BY <1>1, <1>2, <1>7, NameInDirectory DEF InStep, Reached
  <2>2. parent.err = "none" /\ parent.p = Dirname(d)
    BY <2>1, FoundIs
  <2>3. Append(parent.p, Last(d)) = d
    BY <1>2, <1>7, <2>2, NameInDirectory
  <2>4. Hop(d) = {}
    <3>1. ASSUME NEW i \in Locate(d) PROVE FALSE
      <4>1. i \in DOMAIN zip /\ zip[i].name = d /\ Kind(i) \in {"file", "link"}
        BY <3>1 DEF Locate
      <4> QED
        BY <1>7, <4>1 DEF InStep, FilesEntered
    <3> QED
      BY <3>1 DEF Hop
  <2>5. Turned(parent, linked, hopped, d, "follow") = Found(Append(parent.p, Last(d)))
    <3>1. Hop(Append(parent.p, Last(d))) = {} /\ parent.p \in DOMAIN listings
      BY <2>1, <2>2, <2>3, <2>4
    <3> QED
      BY <1>7, <2>2, <3>1, TurnedFound
  <2> QED
    BY <1>3, <2>3, <2>5
<1> QED
  BY <1>5, <1>6, <1>7

FoundBy(k) ==
    \A d \in DOMAIN listings : \A fuel \in 1..Fuel :
        Len(d) = k /\ k < fuel => Walk[fuel][<<d, "follow">>] = Found(d)

\* So a directory is found at its own path, if the stack holds its depth.
LEMMA DirectoriesFound ==
  ASSUME StoredTyped, InStep
  PROVE  \A k \in 0..Fuel : FoundBy(k)
<1> DEFINE Good == {k \in 0..Fuel : FoundBy(k)}
<1>1. Fuel \in Nat
  BY DEF Fuel
<1>2. ASSUME NEW d \in DOMAIN listings
      PROVE  /\ d \in Text /\ Len(d) \in Nat
             /\ Len(d) = 0 => d = Root
             /\ d # Root => Dirname(d) \in DOMAIN listings /\ Len(Dirname(d)) = Len(d) - 1
  <2>1. d \in Text
    BY DEF StoredTyped, IndexTyped
  <2>2. Len(d) \in Nat /\ (Len(d) = 0 => d = Root)
    BY <2>1 DEF Text, Root
  <2>3. d # Root => Dirname(d) \in DOMAIN listings /\ Len(Dirname(d)) = Len(d) - 1
    BY <2>1, NameInDirectory DEF InStep, Reached
  <2> QED
    BY <2>1, <2>2, <2>3
<1>3. FoundBy(0)
  <2>1. ASSUME NEW d \in DOMAIN listings, NEW fuel \in 1..Fuel, Len(d) = 0
        PROVE  Walk[fuel][<<d, "follow">>] = Found(d)
    BY <1>2, <2>1, DirectoryTurn
  <2> QED
    BY <2>1, Zenon DEF FoundBy
<1>4. ASSUME NEW k \in 1..Fuel, FoundBy(k - 1) PROVE FoundBy(k)
  <2>1. ASSUME NEW d \in DOMAIN listings, NEW fuel \in 1..Fuel, Len(d) = k, k < fuel
        PROVE  Walk[fuel][<<d, "follow">>] = Found(d)
    <3>1. fuel - 1 \in 1..Fuel /\ k - 1 < fuel - 1
      BY <1>1, <2>1
    <3>2. PICK e : e = Dirname(d)
      OBVIOUS
    <3>3. d # Root => e \in DOMAIN listings /\ Len(e) = k - 1
      BY <1>2, <2>1, <3>2
    <3>4. d # Root => Walk[fuel - 1][<<e, "follow">>] = Found(e)
      BY <1>4, <3>1, <3>3, Zenon DEF FoundBy
    <3>5. d # Root => Walk[fuel - 1][<<Dirname(d), "follow">>] = Found(Dirname(d))
      BY <3>2, <3>4, Zenon
    <3> QED
      BY <3>5, DirectoryTurn
  <2> QED
    BY <2>1, Zenon DEF FoundBy
<1>5. \A k \in 1..Fuel : k - 1 \in Good => k \in Good
  BY <1>1, <1>4
<1>6. \A k \in 0..Fuel : k \in Good
  <2>1. 0 \in Good
    BY <1>1, <1>3
  <2> HIDE DEF Good
  <2> QED
    BY <1>1, <2>1, <1>5, StepByStep
<1> QED
  BY <1>6

\* The paths of the model are short.
LEMMA PathIs ==
  ASSUME NEW p \in Path
  PROVE  p \in Text /\ Len(p) \in 0..2
<1>1. CASE p = Root
  <2>1. << >> \in Seq(Words) /\ Len(<< >>) = 0
    BY EmptySeq
  <2>2. 0 \in 0..2
    OBVIOUS
  <2> QED
    BY <1>1, <2>1, <2>2, Zenon DEF Root, Text, Words
<1>2. CASE \E n \in Names : p = <<n>>
  BY <1>2 DEF Text
<1>3. CASE p \in Names \X Names
  <2>1. PICK a \in Names, b \in Names : p = <<a, b>>
    BY <1>3
  <2> QED
    BY <2>1 DEF Text
<1> QED
  BY <1>1, <1>2, <1>3 DEF Path

\* The queries about one path, by where it leads.
LEMMA PathQueries ==
  ASSUME StoredTyped, InStep, ready, NEW p \in Path
  PROVE  /\ Exists(p) <=> Access(p, FALSE) = "none"
         /\ Exists(p) <=> Stat(p) = "none"
         /\ Exists(p) <=> Read(p) \in {"none", "EISDIR"}
         /\ Readdir(p) = "none" <=> Read(p) = "EISDIR"
<1>0. p \in Text /\ Len(p) \in 0..2
  BY PathIs
<1>1. PICK r : r = resolveFilename(p)
  OBVIOUS
<1>2. r = Walk[Fuel][<<p, "follow">>]
  BY <1>1, Zenon DEF resolveFilename, Resolve
<1>3. r \in Results
  <2>1. "follow" \in Lasts /\ Fuel \in 0..Fuel
    BY DEF Lasts, Fuel
  <2>2. AnswersAt(Walk[Fuel])
    BY <2>1, WalkTyped
  <2> QED
    BY <1>0, <1>2, <2>1, <2>2, Zenon DEF AnswersAt
<1> DEFINE there == r.err = "none" /\ Known(r.p)
<1>4. \A q \in DOMAIN entries : Live(entries[q])
  BY DEF InStep, EntriesLive
<1>5. Access(p, FALSE) = "none" <=> there
  BY <1>1, Zenon DEF Access
<1>6. Known(r.p) => StatImpl(r.p) = "none"
  BY <1>4, Zenon DEF Known, StatImpl
<1>7. Stat(p) = "none" <=> there
  <2>1. CASE r.err # "none"
    BY <1>1, <2>1, Zenon DEF Stat
  <2>2. CASE r.err = "none" /\ ~Known(r.p)
    <3>1. Stat(p) = "ENOENT"
      BY <1>1, <2>2, Zenon DEF Stat
    <3> QED
      BY <2>2, <3>1
  <2>3. CASE there
    BY <1>1, <1>6, <2>3, Zenon DEF Stat
  <2> QED
    BY <2>1, <2>2, <2>3
<1>8. /\ r.err # "none" => Read(p) = r.err /\ Readdir(p) = r.err /\ r.err # "EISDIR"
      /\ there /\ r.p \in DOMAIN listings => Read(p) = "EISDIR" /\ Readdir(p) = "none"
      /\ there /\ r.p \notin DOMAIN listings => Read(p) = "none" /\ Readdir(p) = "ENOTDIR"
      /\ r.err = "none" /\ ~there => Read(p) = "ENOENT" /\ Readdir(p) = "ENOENT"
  <2>1. CASE r.err # "none"
    <3>1. r.err # "EISDIR"
      BY <1>3, <2>1 DEF Results, Errors
    <3> QED
      BY <1>1, <2>1, <3>1, Zenon DEF Read, Readdir
  <2>2. CASE r.err = "none" /\ r.p \in DOMAIN listings
    <3>1. /\ Known(r.p) /\ ~(r.err # "none") /\ ~(r.err = "none" /\ ~Known(r.p))
          /\ ~(r.err = "none" /\ r.p \in DOMAIN entries \ DOMAIN listings)
      BY <2>2 DEF Known
    <3> QED
      BY <1>1, <2>2, <3>1, Zenon DEF Read, Readdir
  <2>3. CASE r.err = "none" /\ r.p \notin DOMAIN listings /\ Known(r.p)
    <3>1. /\ r.p \in DOMAIN entries \ DOMAIN listings /\ Live(entries[r.p]) /\ ~(r.err # "none")
          /\ ~(r.err = "none" /\ ~Known(r.p)) /\ ~(r.err = "none" /\ r.p \in DOMAIN listings)
      BY <1>4, <2>3 DEF Known
    <3> QED
      BY <1>1, <2>3, <3>1, Zenon DEF Read, Readdir
  <2>4. CASE r.err = "none" /\ ~Known(r.p)
    <3>1. /\ ~(r.err # "none") /\ ~(r.err = "none" /\ r.p \in DOMAIN listings)
          /\ ~(r.err = "none" /\ r.p \in DOMAIN entries \ DOMAIN listings)
      BY <2>4 DEF Known
    <3> QED
      BY <1>1, <2>4, <3>1, Zenon DEF Read, Readdir
  <2> QED
    BY <2>1, <2>2, <2>3, <2>4
<1>9. Exists(p) <=> there
  <2>1. CASE ~NoLink
    BY <1>1, <2>1, Zenon DEF Exists, NoLink
  <2>2. CASE NoLink
    <3>1. Exists(p) <=> Known(p)
      BY <2>2, Zenon DEF Exists, NoLink
    <3>2. r.err = "none" => r.p = p
      <4>1. LeadsToItself(Walk[Fuel])
        BY <2>2, UnlinkedWalk DEF Fuel
      <4> QED
        BY <1>0, <1>2, <4>1, Zenon DEF LeadsToItself
    <3>3. ASSUME Known(p) PROVE r.err = "none" /\ r.p = p
      <4>1. CASE p \in DOMAIN listings
        <5>1. FoundBy(Len(p)) /\ Fuel \in 1..Fuel /\ Len(p) < Fuel
          <6>1. Fuel = 6
            BY DEF Fuel
          <6>2. \A k \in 0..2 : k < Fuel /\ k \in 0..Fuel
            BY <6>1
          <6>3. Fuel \in 1..Fuel
            BY <6>1
          <6> QED
            BY <1>0, <6>2, <6>3, DirectoriesFound, Zenon
        <5>2. r = Found(p)
          BY <1>2, <4>1, <5>1, Zenon DEF FoundBy
        <5> QED
          BY <1>0, <5>2, FoundIs
      <4>2. CASE p \in DOMAIN entries
        <5>1. Fuel \in 1..Fuel /\ "follow" \in Lasts
          BY DEF Fuel, Lasts
        <5>2. PICK parent : parent = Walk[Fuel - 1][<<Dirname(p), "follow">>]
          OBVIOUS
        <5>3. PICK q : q = Append(parent.p, Last(p))
          OBVIOUS
        <5>4. PICK linked, hopped : r = Turned(parent, linked, hopped, p, "follow")
          BY <1>0, <1>2, <5>1, <5>2, WalkTurn
        <5>5. p # Root /\ ~isSymbolicLink(entries[p]) /\ Live(entries[p])
          BY <1>4, <2>2, <4>2 DEF isSymbolicLink, NoLink, StoredTyped, IndexTyped
        <5>6. r = Found(p)
          BY <4>2, <5>3, <5>4, <5>5, TurnedIs
        <5> QED
          BY <1>0, <5>6, FoundIs
      <4> QED
        BY <3>3, <4>1, <4>2 DEF Known
    <3> QED
      BY <3>1, <3>2, <3>3
  <2> QED
    BY <2>1, <2>2
<1>10. Read(p) \in {"none", "EISDIR"} <=> there
  BY <1>8
<1>11. Readdir(p) = "none" <=> Read(p) = "EISDIR"
  BY <1>8
<1> QED
  BY <1>5, <1>7, <1>9, <1>10, <1>11

\* The names a directory lists are there.
LEMMA NamesFound ==
  ASSUME StoredTyped, InStep, ready, NEW d \in DOMAIN listings \cap Path, NEW n \in listings[d]
  PROVE  Lstat(Append(d, n)) = "none"
<1>0. d \in Text /\ n \in Words /\ Len(d) \in 0..2
  BY PathIs DEF StoredTyped, IndexTyped
<1>1. PICK p : p = Append(d, n)
  OBVIOUS
<1>2. p \in Text /\ p # Root /\ Dirname(p) = d /\ Last(p) = n
  BY <1>0, <1>1, NamePutInDirectory
<1>3. Fuel \in 1..Fuel /\ Fuel - 1 \in 1..Fuel /\ Len(d) < Fuel - 1 /\ Len(d) \in 0..Fuel /\ "keep" \in Lasts
  <2>1. Fuel = 6
    BY DEF Fuel
  <2>2. \A k \in 0..2 : k < Fuel - 1 /\ k \in 0..Fuel
    BY <2>1
  <2>3. Fuel \in 1..Fuel /\ Fuel - 1 \in 1..Fuel
    BY <2>1
  <2>4. "keep" \in Lasts
    BY DEF Lasts
  <2> QED
    BY <1>0, <2>2, <2>3, <2>4, Zenon
<1>4. PICK parent : parent = Walk[Fuel - 1][<<Dirname(p), "follow">>]
  OBVIOUS
<1>5. parent = Found(d)
  <2>1. FoundBy(Len(d))
    BY <1>3, DirectoriesFound
  <2>2. Walk[Fuel - 1][<<d, "follow">>] = Found(d)
    BY <1>3, <2>1, Zenon DEF FoundBy
  <2> QED
    BY <1>2, <1>4, <2>2
<1>6. PICK linked, hopped : Walk[Fuel][<<p, "keep">>] = Turned(parent, linked, hopped, p, "keep")
  BY <1>2, <1>3, <1>4, WalkTurn
<1>7. parent.err = "none" /\ parent.p = d
  BY <1>0, <1>5, FoundIs
<1>8. Turned(parent, linked, hopped, p, "keep") = Found(Append(parent.p, Last(p)))
  BY <1>2, <1>7, TurnedFound
<1>9. PICK r : r = resolveLink(p)
  OBVIOUS
<1>10. r.err = "none" /\ r.p = p
  <2>1. r = Walk[Fuel][<<p, "keep">>]
    BY <1>9, Zenon DEF resolveLink, Resolve
  <2>2. r = Found(p)
    BY <1>1, <1>2, <1>6, <1>7, <1>8, <2>1
  <2> QED
    BY <1>2, <2>2, FoundIs
<1>11. Known(p) /\ StatImpl(p) = "none"
  <2>1. p \in DOMAIN entries \/ p \in DOMAIN listings
    BY <1>1 DEF InStep, NamesKnown
  <2>2. p \in DOMAIN entries => Live(entries[p])
    BY DEF InStep, EntriesLive
  <2> QED
    BY <2>1, <2>2, Zenon DEF Known, StatImpl
<1>12. Lstat(p) = "none"
  BY <1>9, <1>10, <1>11, Zenon DEF Lstat
<1> QED
  BY <1>1, <1>12

\* What the queries answer, from the indices alone.
LEMMA QueriesAnswer ==
  ASSUME StoredTyped, ~aliased => EntriesLive /\ FilesEntered,
         ~aliased => Reached(listings) /\ NamesKnown(DOMAIN entries, listings)
  PROVE  QueriesAgree
<1> SUFFICES ASSUME ready, ~aliased, Untorn
             PROVE  /\ \A p \in Path :
                          /\ Exists(p) <=> Access(p, FALSE) = "none"
                          /\ Exists(p) <=> Stat(p) = "none"
                          /\ Exists(p) <=> Read(p) \in {"none", "EISDIR"}
                          /\ Readdir(p) = "none" <=> Read(p) = "EISDIR"
                    /\ \A d \in DOMAIN listings \cap Path :
                          \A n \in listings[d] : Lstat(Append(d, n)) = "none"
  BY Zenon DEF QueriesAgree
<1>1. InStep
  BY DEF InStep
<1> QED
  BY <1>1, PathQueries, NamesFound

-----------------------------------------------------------------------------
(* The index invariant, and that each kind of step keeps it.                *)

\* What a suspended call goes on with is text.
CallTyped(c) ==
    pend[c].op # "idle" =>
        /\ pend[c].data \in Text
        /\ pend[c].op \in {"append", "copy"} =>
              pend[c].p \in Text /\ pend[c].p # Root /\ pend[c].add \in Text
        /\ pend[c].op = "truncate" => pend[c].p \in Text

IndicesAgree == Reached(listings) /\ NamesKnown(DOMAIN entries, listings)

IndexInv ==
    /\ StoredTyped
    /\ \A c \in Callers : CallTyped(c)
    /\ ~aliased => IndicesAgree

\* Suspended calls keep what they carry.
LEMMA CallsKept ==
  ASSUME IndexInv, NoneStarted
  PROVE  \A c \in Callers : CallTyped(c)'
BY DEF IndexInv, NoneStarted, CallTyped

\* registerEntry keeps the indices.
LEMMA RegisterIndex ==
  ASSUME IndexInv, NEW p \in Text, p # Root, NEW i, Register(p, i), aliased' = aliased
  PROVE  /\ IndexTyped(DOMAIN entries, listings)' /\ (~aliased' => IndicesAgree')
         /\ \A q \in DOMAIN entries' : entries'[q] = IF q = p THEN i ELSE entries[q]
         /\ DOMAIN entries' = DOMAIN entries \cup {p}
<1>1. IndexTyped(DOMAIN entries, listings)
  BY DEF IndexInv, StoredTyped
<1>2. /\ DOMAIN entries' = DOMAIN entries \cup {p}
      /\ \A q \in DOMAIN entries' : entries'[q] = IF q = p THEN i ELSE entries[q]
  BY DEF Register, Put
<1>3. listings' = ListedEntry(listings, p)
  BY DEF Register
<1>4. IndexTyped(DOMAIN entries', listings')
  BY <1>1, <1>2, <1>3, EntryListed
<1>5. Reached(listings) /\ NamesKnown(DOMAIN entries, listings) =>
         Reached(listings') /\ NamesKnown(DOMAIN entries', listings')
  BY <1>1, <1>2, <1>3, EntryListed
<1>6. ~aliased' => IndicesAgree'
  BY <1>5 DEF IndexInv, IndicesAgree
<1>7. IndexTyped(DOMAIN entries, listings)'
  BY <1>4
<1> QED
  BY <1>2, <1>6, <1>7, Zenon

\* A write, before or after an await, and symlink().
LEMMA StoreIndex ==
  ASSUME ZipInv, IndexInv, NoneStarted, NEW p \in Text, p # Root, NEW d \in Text, NEW kind \in {"file", "link"},
         zip' = FileAdd(p, d, kind),
         \A i \in DOMAIN fileSources' : fileSources'[i] \in Text,
         UNCHANGED <<entries, listings>> \/ Register(p, FileIndex(p)), aliased' = aliased
  PROVE  IndexInv'
<1> DEFINE j == FileIndex(p)
<1>1. FileAdded(zip', j, p, d, kind)
  BY FileAddEffect DEF ZipInv, Shapes
<1> HIDE DEF j
<1>2. DOMAIN zip' = DOMAIN zip \cup {j} /\ \A i \in DOMAIN zip' : zip'[i].data \in Text
  BY <1>1 DEF FileAdded, IndexInv, StoredTyped
<1>3. \A c \in Callers : CallTyped(c)'
  BY CallsKept
<1>4. CASE UNCHANGED <<entries, listings>>
  <2>1. StoredTyped'
    BY <1>2, <1>4 DEF IndexInv, StoredTyped
  <2>2. ~aliased' => IndicesAgree'
    BY <1>4 DEF IndexInv, IndicesAgree
  <2> QED
    BY <1>3, <2>1, <2>2 DEF IndexInv
<1>5. CASE Register(p, j)
  <2>1. /\ IndexTyped(DOMAIN entries, listings)' /\ (~aliased' => IndicesAgree')
        /\ \A q \in DOMAIN entries' : entries'[q] = IF q = p THEN j ELSE entries[q]
        /\ DOMAIN entries' = DOMAIN entries \cup {p}
    BY <1>5, RegisterIndex
  <2>2. \A q \in DOMAIN entries' : entries'[q] \in DOMAIN zip'
    BY <1>2, <2>1 DEF IndexInv, StoredTyped
  <2>3. StoredTyped'
    BY <1>2, <2>1, <2>2 DEF StoredTyped
  <2> QED
    BY <1>3, <2>1, <2>3 DEF IndexInv
<1> QED
  BY <1>4, <1>5 DEF j

\* hydrateDirectory: the directory is listed, then entered.
LEMMA HydrateIndex ==
  ASSUME ZipInv, IndexInv, NEW p \in Text, p # Root, Hydrate(p), UNCHANGED <<fileSources, pend, aliased>>
  PROVE  IndexInv'
<1> DEFINE L == Listed(listings, p)
           j == Len(zip) + 1
           m == [name |-> p, kind |-> "dir", data |-> << >>, stored |-> TRUE, changed |-> FALSE]
<1>1. IndexTyped(DOMAIN entries, listings)
  BY DEF IndexInv, StoredTyped
<1>2. IndexTyped(DOMAIN entries, L)
  BY <1>1, ListedTyped
<1>3. IndicesAgree => Reached(L) /\ NamesKnown(DOMAIN entries, L)
  BY <1>1, ListedReached DEF IndicesAgree
<1>4. listings' = ListedEntry(L, p)
  BY DEF Hydrate
<1> HIDE DEF L
<1>5. /\ DOMAIN entries' = DOMAIN entries \cup {p} /\ entries'[p] = j
      /\ \A q \in DOMAIN entries : q # p => entries'[q] = entries[q]
  BY DEF Hydrate, Put
<1>6. IndexTyped(DOMAIN entries', listings')
  BY <1>2, <1>4, <1>5, EntryListed
<1>7. IndicesAgree => Reached(listings') /\ NamesKnown(DOMAIN entries', listings')
  BY <1>2, <1>3, <1>4, <1>5, EntryListed
<1>8. MemberAppended(zip', zip, m)
  <2>1. IsMember(m)
    BY DEF IsMember, Kinds
  <2>2. zip' = Append(zip, m)
    BY DEF Hydrate
  <2> HIDE DEF m
  <2> QED
    BY <2>1, <2>2, AppendMember DEF ZipInv, Shapes
<1>9. m.data \in Text
  <2>1. PICK e \in Text : e = << >>
    BY EmptySeq, Zenon DEF Text
  <2>2. m.data = e
    BY <2>1
  <2> QED
    BY <2>2
<1> HIDE DEF m
<1>10. DOMAIN zip' = DOMAIN zip \cup {j} /\ \A i \in DOMAIN zip' : zip'[i].data \in Text
  BY <1>8, <1>9 DEF MemberAppended, IndexInv, StoredTyped
<1> HIDE DEF j
<1>11. StoredTyped'
  <2>1. \A q \in DOMAIN entries' : entries'[q] \in DOMAIN zip'
    BY <1>5, <1>10 DEF IndexInv, StoredTyped
  <2> QED
    BY <1>6, <1>10, <2>1 DEF IndexInv, StoredTyped
<1>12. \A c \in Callers : CallTyped(c)'
  BY DEF IndexInv, CallTyped
<1> QED
  BY <1>7, <1>11, <1>12 DEF IndexInv, IndicesAgree

\* deleteEntry: nothing in the indices names the path any more.
LEMMA DeleteIndex ==
  ASSUME ZipInv, IndexInv, NEW p \in Text, p # Root, NEW i \in DOMAIN zip, Delete(p, i), pend' = pend,
         ~aliased' => ~aliased /\ (p \in DOMAIN listings => listings[p] = {})
  PROVE  IndexInv'
<1>1. IndexTyped(DOMAIN entries, listings)
  BY DEF IndexInv, StoredTyped
<1>2. PICK L : L = Drop(listings, p)
  OBVIOUS
<1>3. listings' = IF Dirname(p) \in DOMAIN L THEN [L EXCEPT ![Dirname(p)] = @ \ {Last(p)}] ELSE L
  BY <1>2, Zenon DEF Delete, Unregister
<1>4. DOMAIN entries' = DOMAIN entries \ {p} /\ \A q \in DOMAIN entries' : entries'[q] = entries[q]
  BY DEF Delete, Unregister, Drop
<1>5. /\ IndexTyped(DOMAIN entries \ {p}, listings')
      /\ Reached(listings) /\ NamesKnown(DOMAIN entries, listings) /\ (p \in DOMAIN listings => listings[p] = {}) =>
            Reached(listings') /\ NamesKnown(DOMAIN entries \ {p}, listings')
  BY <1>1, <1>2, <1>3, EntryDropped
<1>6. DOMAIN zip' = DOMAIN zip /\ \A k \in DOMAIN zip' : zip'[k].data \in Text
  <2>1. zip' = [zip EXCEPT ![i].kind = "gone"]
    BY DEF Delete
  <2>2. IsMember(zip[i])
    BY DEF ZipInv, Shapes, IsArchive
  <2> QED
    BY <2>1, <2>2 DEF IndexInv, StoredTyped, IsMember
<1>7. \A k \in DOMAIN fileSources' : fileSources'[k] \in Text
  BY DEF Delete, Unregister, Drop, IndexInv, StoredTyped
<1>8. StoredTyped'
  BY <1>4, <1>5, <1>6, <1>7 DEF IndexInv, StoredTyped
<1>9. \A c \in Callers : CallTyped(c)'
  BY DEF IndexInv, CallTyped
<1> QED
  BY <1>4, <1>5, <1>8, <1>9 DEF IndexInv, IndicesAgree

\* Looking, closing, reading and resuming a read.
LEMMA LookIndex ==
  ASSUME IndexInv, UNCHANGED <<zip, entries, listings, aliased>>,
         \A i \in DOMAIN fileSources' : fileSources'[i] \in Text, \A c \in Callers : CallTyped(c)'
  PROVE  IndexInv'
BY DEF IndexInv, StoredTyped, IndicesAgree

\* A call's path leads to a path, and Root is no entry.
LEMMA ResolveTyped ==
  ASSUME StoredTyped, NEW p \in Text
  PROVE  /\ resolveFilename(p).p \in Text
         /\ resolveFilename(p).err = "none" => resolveFilename(p) \in Results
         /\ resolveFilename(Root).err = "none" => resolveFilename(Root).p = Root
<1>1. Fuel \in 1..Fuel /\ Fuel \in 0..Fuel /\ "follow" \in Lasts
  BY DEF Fuel, Lasts
<1>2. AnswersAt(Walk[Fuel])
  BY <1>1, WalkTyped
<1>3. Walk[Fuel][<<p, "follow">>] \in Results
  BY <1>1, <1>2, Zenon DEF AnswersAt
<1>4. Root \in Text
  BY EmptySeq, Zenon DEF Root, Text
<1>5. Fail("EBUSY").p = Root /\ Fail("EBUSY").err # "none"
  BY DEF Fail
<1>6. Walk[Fuel][<<Root, "follow">>] = Found(Root)
  <2>1. PICK parent : parent = Walk[Fuel - 1][<<Dirname(Root), "follow">>]
    OBVIOUS
  <2>2. PICK linked, hopped : Walk[Fuel][<<Root, "follow">>] = Turned(parent, linked, hopped, Root, "follow")
    BY <1>1, <1>4, <2>1, WalkTurn
  <2>3. PICK q : q = Append(parent.p, Last(Root))
    OBVIOUS
  <2> QED
    BY <2>2, <2>3, TurnedIs
<1>7. CASE ready
  <2>1. resolveFilename(p) = Walk[Fuel][<<p, "follow">>] /\ resolveFilename(Root) = Found(Root)
    BY <1>6, <1>7, Zenon DEF resolveFilename, Resolve
  <2> QED
    BY <1>3, <1>4, <2>1, FoundIs DEF Results
<1>8. CASE ~ready
  <2>1. resolveFilename(p) = Fail("EBUSY") /\ resolveFilename(Root) = Fail("EBUSY")
    BY <1>8, Zenon DEF resolveFilename, Resolve
  <2> QED
    BY <1>4, <1>5, <2>1
<1> QED
  BY <1>7, <1>8

\* writeFileSync, appendFileSync, copyFileSync
LEMMA StoreActionIndex ==
  ASSUME ZipInv, IndexInv, NEW p \in Text, p # Root, NEW d \in Text, Store(p, Idx(p), d), pend' = pend
  PROVE  IndexInv'
<1>1. /\ zip' = FileAdd(p, d, "file")
      /\ fileSources' = Put(fileSources, FileIndex(p), d)
      /\ UNCHANGED <<entries, listings>> \/ Register(p, FileIndex(p))
      /\ aliased' = aliased
  BY DEF Store, setFileSource
<1>2. \A i \in DOMAIN fileSources' : fileSources'[i] \in Text
  BY <1>1 DEF Put, IndexInv, StoredTyped
<1> QED
  BY <1>1, <1>2, NoneStartedWhenSame, StoreIndex

\* A text followed by another is one; so is a token.
LEMMA TextIs ==
  /\ \A a, b \in Text : a \o b \in Text
  /\ \A t \in Tokens : <<t>> \in Text
  /\ << >> \in Text
<1>1. << >> \in Text
  BY EmptySeq, Zenon DEF Text
<1>2. \A a, b \in Text : a \o b \in Text
  BY DEF Text
<1>3. \A t \in Tokens : <<t>> \in Text
  BY DEF Text
<1> QED
  BY <1>1, <1>2, <1>3

\* Every synchronous operation keeps the indices.
LEMMA IndexSync ==
  ASSUME ZipInv, IndexInv, Sync
  PROVE  IndexInv'
<1> DEFINE r(p) == resolveFilename(p)
<1>a. StoredTyped /\ Root \in DOMAIN listings /\ Root \notin DOMAIN entries
  BY DEF IndexInv, StoredTyped, IndexTyped
<1>b. \A p \in CallPaths : p \in Text /\ r(p).p \in Text
  BY <1>a, CallsAssumption, ResolveTyped
<1>c. \A p \in DOMAIN entries : entries[p] \in DOMAIN zip /\ Source(entries[p]) \in Text
  BY <1>a, SourceTyped DEF StoredTyped
<1>d. \A p : Idx(p) # 0 => p \in DOMAIN entries /\ Idx(p) = entries[p]
  BY DEF Idx
<1>e. (\A c \in Callers : pend'[c] = pend[c]) => \A c \in Callers : CallTyped(c)'
  BY DEF IndexInv, CallTyped
<1> HIDE DEF r
<1>1. ASSUME NEW p \in CallPaths, NEW t \in Tokens, WriteFile(p, <<t>>)  PROVE IndexInv'
  <2>1. r(p).p # Root /\ Store(r(p).p, Idx(r(p).p), <<t>>) /\ pend' = pend
    BY <1>1, <1>a DEF WriteFile, Writable, r
  <2> QED
    BY <2>1, <1>b, TextIs, StoreActionIndex
<1>2. ASSUME NEW p \in CallPaths, NEW t \in Tokens, AppendFile(p, <<t>>)  PROVE IndexInv'
  <2>1. PICK old : /\ old = (IF Idx(r(p).p) = 0 THEN << >> ELSE Source(Idx(r(p).p)))
                   /\ r(p).p # Root /\ Store(r(p).p, Idx(r(p).p), old \o <<t>>) /\ pend' = pend
    BY <1>2, <1>a DEF AppendFile, Writable, r
  <2>2. CASE Idx(r(p).p) = 0
    <3>1. old \in Text
      BY <2>1, <2>2, TextIs, Zenon
    <3> QED
      BY <2>1, <3>1, <1>b, TextIs, StoreActionIndex
  <2>3. CASE Idx(r(p).p) # 0
    <3>1. old \in Text
      BY <2>1, <2>3, <1>c, <1>d
    <3> QED
      BY <2>1, <3>1, <1>b, TextIs, StoreActionIndex
  <2> QED
    BY <2>2, <2>3
<1>3. ASSUME NEW p \in CallPaths, NEW t \in CallPaths, NEW x, CopyFile(p, t, x)  PROVE IndexInv'
  <2>1. /\ r(t).p # Root /\ r(p).p \in DOMAIN entries
        /\ Store(r(t).p, Idx(r(t).p), Source(entries[r(p).p])) /\ pend' = pend
    BY <1>3 DEF CopyFile, CanCopy, r
  <2> QED
    BY <2>1, <1>b, <1>c, StoreActionIndex
<1>4. ASSUME NEW p \in CallPaths, ReadFile(p)  PROVE IndexInv'
  <2>1. r(p).p \in DOMAIN entries
    BY <1>4 DEF ReadFile, Read, Known, r
  <2>2. /\ UNCHANGED <<zip, entries, listings, aliased, pend>>
        /\ fileSources' = Put(fileSources, entries[r(p).p], zip[entries[r(p).p]].data)
    BY <1>4 DEF ReadFile, r
  <2>3. \A i \in DOMAIN fileSources' : fileSources'[i] \in Text
    BY <1>a, <2>1, <2>2 DEF Put, StoredTyped
  <2> QED
    BY <1>e, <2>2, <2>3, LookIndex
<1>5. ASSUME NEW p \in CallPaths, Unlink(p)  PROVE IndexInv'
  <2>1. /\ r(p).p \in DOMAIN entries /\ r(p).p \notin DOMAIN listings /\ Delete(r(p).p, entries[r(p).p])
        /\ pend' = pend /\ aliased' = aliased
    BY <1>5 DEF Unlink, r
  <2> QED
    BY <2>1, <1>a, <1>b, <1>c, DeleteIndex
<1>6. ASSUME NEW p \in CallPaths, Mkdir(p) \/ Utimes(p)  PROVE IndexInv'
  <2>1. r(p).p # Root /\ Hydrate(r(p).p) /\ UNCHANGED <<fileSources, pend, aliased>>
    BY <1>6, <1>a DEF Mkdir, Utimes, Known, r
  <2> QED
    BY <2>1, <1>b, HydrateIndex
<1>7. ASSUME NEW p \in CallPaths, Rmdir(p)  PROVE IndexInv'
  <2>1. /\ r(p).err = "none" /\ r(p).p \in DOMAIN entries /\ listings[r(p).p] = {}
        /\ Delete(p, entries[r(p).p]) /\ pend' = pend /\ aliased' = (aliased \/ p # r(p).p)
    BY <1>7 DEF Rmdir, r
  <2>2. p # Root
    BY <2>1, <1>a, <1>b, ResolveTyped DEF r
  <2>3. ~aliased' => ~aliased /\ (p \in DOMAIN listings => listings[p] = {})
    BY <2>1
  <2> QED
    BY <2>1, <2>2, <2>3, <1>b, <1>c, DeleteIndex
<1>8. ASSUME NEW p \in CallPaths, NEW t \in LinkTargets, Symlink(t, p)  PROVE IndexInv'
  <2>1. /\ r(p).p # Root /\ zip' = FileAdd(r(p).p, t, "link")
        /\ Register(r(p).p, FileIndex(r(p).p))
        /\ fileSources' = Put(fileSources, FileIndex(r(p).p), t)
        /\ pend' = pend /\ aliased' = aliased
    BY <1>8, <1>a DEF Symlink, Known, setFileSource, r
  <2>2. t \in Text
    BY CallsAssumption
  <2>3. \A i \in DOMAIN fileSources' : fileSources'[i] \in Text
    BY <1>a, <2>1, <2>2 DEF Put, StoredTyped
  <2> QED
    BY <2>1, <2>2, <2>3, <1>b, NoneStartedWhenSame, StoreIndex
<1>9. ASSUME SaveAndClose \/ DiscardAndClose  PROVE IndexInv'
  <2>1. UNCHANGED <<zip, entries, listings, fileSources, aliased, pend>>
    BY <1>9 DEF SaveAndClose, DiscardAndClose
  <2>2. \A i \in DOMAIN fileSources' : fileSources'[i] \in Text
    BY <1>a, <2>1 DEF StoredTyped
  <2> QED
    BY <1>e, <2>1, <2>2, LookIndex
<1> QED
  BY <1>1, <1>2, <1>3, <1>4, <1>5, <1>6, <1>7, <1>8, <1>9 DEF Sync

\* Before the await: what a call takes along is text.
LEMMA AwaitIndex ==
  ASSUME ZipInv, IndexInv, NEW c \in Callers, NEW call, NEW i \in DOMAIN zip, Await(c, call, i),
         {"src", "data", "inflate"} \cap DOMAIN call = {}, "op" \in DOMAIN call,
         call.op \in {"append", "copy"} =>
            {"p", "add"} \subseteq DOMAIN call /\ call.p \in Text /\ call.p # Root /\ call.add \in Text,
         call.op = "truncate" => "p" \in DOMAIN call /\ call.p \in Text
  PROVE  IndexInv'
<1> DEFINE hit == i \in DOMAIN fileSources
           data == Source(i)
           inflate == ~hit /\ ~zip[i].stored
           k == Joined(call, [src |-> i, data |-> data, inflate |-> inflate])
<1>1. /\ pend' = [pend EXCEPT ![c] = k]
      /\ UNCHANGED <<zip, entries, listings, aliased>>
      /\ fileSources' = fileSources \/ fileSources' = Put(fileSources, i, zip[i].data)
  BY DEF Await
<1>2. k.data = data /\ \A f \in DOMAIN call : k[f] = call[f]
  <2> HIDE DEF data, inflate
  <2> QED
    BY CallFields
<1>3. data \in Text
  BY SourceTyped DEF IndexInv
<1> HIDE DEF k, data
<1>4. k.data \in Text /\ k.op = call.op
  BY <1>2, <1>3
<1>5. k.op \in {"append", "copy"} => k.p \in Text /\ k.p # Root /\ k.add \in Text
  BY <1>2, <1>4
<1>6. k.op = "truncate" => k.p \in Text
  BY <1>2, <1>4
<1>7. pend'[c] = k /\ \A d \in Callers \ {c} : pend'[d] = pend[d]
  BY <1>1 DEF ZipInv, Shapes
<1>8. \A d \in Callers : CallTyped(d)'
  <2>1. CallTyped(c)'
    BY <1>4, <1>5, <1>6, <1>7, Zenon DEF CallTyped
  <2>2. \A d \in Callers \ {c} : CallTyped(d)'
    BY <1>7 DEF IndexInv, CallTyped
  <2> QED
    BY <2>1, <2>2
<1>9. \A x \in DOMAIN fileSources' : fileSources'[x] \in Text
  BY <1>1 DEF Put, IndexInv, StoredTyped
<1> QED
  BY <1>1, <1>8, <1>9, LookIndex

\* Every asynchronous call that is started keeps the indices.
LEMMA IndexStart ==
  ASSUME ZipInv, IndexInv, Start
  PROVE  IndexInv'
<1> DEFINE r(p) == resolveFilename(p)
<1>a. StoredTyped /\ Root \in DOMAIN listings
  BY DEF IndexInv, StoredTyped, IndexTyped
<1>b. \A p \in CallPaths : p \in Text /\ r(p).p \in Text
  BY <1>a, CallsAssumption, ResolveTyped
<1>0. \A p : p \in DOMAIN entries => entries[p] \in DOMAIN zip /\ Idx(p) = entries[p]
  BY <1>a DEF StoredTyped, Idx
<1>1. ASSUME NEW c \in Callers, NEW p, ReadFilePromise(c, p) \/ ReadlinkPromise(c, p)
      PROVE  IndexInv'
  <2>1. \E i \in DOMAIN zip : Await(c, [op |-> "read"], i)
    BY <1>0, <1>1 DEF ReadFilePromise, ReadlinkPromise, Read, Known
  <2> QED
    BY <2>1, AwaitIndex
<1>2. ASSUME NEW c \in Callers, NEW p \in CallPaths, TruncatePromise(c, p)  PROVE IndexInv'
  <2>1. \E i \in DOMAIN zip : Await(c, [op |-> "truncate", p |-> p], i)
    BY <1>0, <1>2 DEF TruncatePromise
  <2> QED
    BY <1>b, <2>1, AwaitIndex
<1>3. ASSUME NEW c \in Callers, NEW p \in CallPaths, NEW t \in Tokens, AppendFilePromise(c, p, <<t>>)
      PROVE  IndexInv'
  <2> DEFINE call == [op |-> "append", p |-> r(p).p, idx |-> Idx(r(p).p), add |-> <<t>>]
  <2>1. \E i \in DOMAIN zip : Await(c, call, i)
    BY <1>0, <1>3 DEF AppendFilePromise
  <2>2. call.p \in Text /\ call.p # Root
    BY <1>a, <1>b, <1>3 DEF AppendFilePromise, Writable
  <2>3. call.add \in Text
    BY TextIs
  <2> QED
    BY <2>1, <2>2, <2>3, AwaitIndex
<1>4. ASSUME NEW c \in Callers, NEW p \in CallPaths, NEW t \in CallPaths, NEW x, CopyFilePromise(c, p, t, x)
      PROVE  IndexInv'
  <2>0. PICK e \in Text : e = << >>
    BY TextIs, Zenon
  <2> DEFINE call == [op |-> "copy", p |-> r(t).p, idx |-> Idx(r(t).p), add |-> e]
  <2>1. \E i \in DOMAIN zip : Await(c, call, i)
    BY <1>0, <1>4, <2>0 DEF CopyFilePromise, CanCopy
  <2>2. call.p \in Text /\ call.p # Root
    BY <1>b, <1>4 DEF CopyFilePromise
  <2> QED
    BY <2>0, <2>1, <2>2, AwaitIndex
<1> QED
  BY <1>1, <1>2, <1>3, <1>4 DEF Start

\* Every call that goes on after its await keeps the indices.
LEMMA IndexResume ==
  ASSUME ZipInv, IndexInv, Resume
  PROVE  IndexInv'
<1>a. StoredTyped /\ Root \in DOMAIN listings
  BY DEF IndexInv, StoredTyped, IndexTyped
<1>b. ASSUME NEW c \in Callers, pend[c].op # "idle"
      PROVE  \A i \in DOMAIN Inflated(pend[c]) : Inflated(pend[c])[i] \in Text
  BY <1>a, <1>b DEF Inflated, Put, IndexInv, CallTyped, StoredTyped
<1>c. ASSUME NEW c \in Callers, pend' = [pend EXCEPT ![c] = Idle]  PROVE NoneStarted
  BY <1>c, NoneStartedAtEnd DEF ZipInv
<1>1. ASSUME NEW c \in Callers, pend[c].op # "idle", pend' = [pend EXCEPT ![c] = Idle],
             UNCHANGED <<zip, entries, listings, aliased>>, fileSources' = Inflated(pend[c])
      PROVE  IndexInv'
  BY <1>b, <1>c, <1>1, CallsKept, LookIndex
<1>2. ASSUME NEW c \in Callers, pend[c].op # "idle", pend' = [pend EXCEPT ![c] = Idle],
             NEW p \in Text, p # Root, NEW d \in Text, zip' = FileAdd(p, d, "file"),
             fileSources' = Put(Inflated(pend[c]), FileIndex(p), d),
             UNCHANGED <<entries, listings>> \/ Register(p, FileIndex(p)), aliased' = aliased
      PROVE  IndexInv'
  <2>1. \A i \in DOMAIN fileSources' : fileSources'[i] \in Text
    BY <1>b, <1>2 DEF Put
  <2> QED
    BY <1>c, <1>2, <2>1, StoreIndex
<1>3. ASSUME NEW c \in Callers, ResumeRead(c)  PROVE IndexInv'
  BY <1>1, <1>3 DEF ResumeRead
<1>4. ASSUME NEW c \in Callers, ResumeWrite(c)  PROVE IndexInv'
  <2> DEFINE k == pend[c]
  <2>1. PICK d : /\ d = k.data \o k.add
                 /\ k.op \in {"append", "copy"} /\ pend' = [pend EXCEPT ![c] = Idle]
                 /\ zip' = FileAdd(k.p, d, "file")
                 /\ fileSources' = Put(Inflated(k), FileIndex(k.p), d)
                 /\ UNCHANGED <<entries, listings>> \/ Register(k.p, FileIndex(k.p))
                 /\ aliased' = aliased
    BY <1>4 DEF ResumeWrite
  <2>2. k.op # "idle" /\ k.p \in Text /\ k.p # Root /\ k.add \in Text /\ k.data \in Text
    BY <2>1 DEF IndexInv, CallTyped
  <2>3. d \in Text
    BY <2>1, <2>2, TextIs
  <2> QED
    BY <1>2, <2>1, <2>2, <2>3
<1>5. ASSUME NEW c \in Callers, ResumeTruncate(c)  PROVE IndexInv'
  <2> DEFINE r == resolveFilename(pend[c].p)
  <2>0. PICK e \in Text : e = << >>
    BY TextIs, Zenon
  <2>1. pend[c].op = "truncate" /\ pend' = [pend EXCEPT ![c] = Idle] /\ aliased' = aliased
    BY <1>5 DEF ResumeTruncate
  <2>2. r.p \in Text
    BY <1>a, <2>1, ResolveTyped DEF IndexInv, CallTyped
  <2>3. \/ fileSources' = Inflated(pend[c]) /\ UNCHANGED <<zip, entries, listings>>
        \/ /\ r.p # Root
           /\ zip' = FileAdd(r.p, e, "file")
           /\ fileSources' = Put(Inflated(pend[c]), FileIndex(r.p), e)
           /\ UNCHANGED <<entries, listings>> \/ Register(r.p, FileIndex(r.p))
    BY <1>a, <1>5, <2>0 DEF ResumeTruncate, Writable
  <2> HIDE DEF r
  <2> QED
    BY <1>1, <1>2, <2>1, <2>2, <2>3
<1> QED
  BY <1>3, <1>4, <1>5 DEF Resume

\* The constructor lists every directory of the archive, from Root down.
LEMMA InitIndex ==
  ASSUME Init
  PROVE  IndexInv
<1>1. zip \in Seq(InitialMember) /\ zip = InitZip
  BY ArchiveAssumption DEF Init
<1>2. DOMAIN zip = 1..Len(zip) /\ Len(zip) \in Nat
  BY <1>1
<1>3. \A i \in DOMAIN zip : zip[i].data \in Text /\ zip[i].name \in Path \ {Root}
  <2> SUFFICES ASSUME NEW m \in InitialMember PROVE m.data \in Text /\ m.name \in Path \ {Root}
    BY <1>1, <1>2
  <2> DEFINE P == Path \ {Root}
  <2>1. m \in [name : P, kind : {"file", "link", "dir"}, data : Text, stored : BOOLEAN, changed : {FALSE}]
    BY DEF InitialMember
  <2> HIDE DEF P
  <2>2. m.data \in Text /\ m.name \in P
    BY <2>1
  <2> QED
    BY <2>2 DEF P
<1>4. InitNames \subseteq Path \ {Root}
  BY <1>1, <1>3 DEF InitNames
<1>5. ASSUME NEW p \in Path \ {Root} PROVE p \in Text /\ p # Root /\ p \in Seq(Names)
  <2>1. p \in Text
    BY PathIs
  <2>2. p \in Seq(Names)
    <3>1. CASE \E n \in Names : p = <<n>>
      BY <3>1
    <3>2. CASE p \in Names \X Names
      <4>1. PICK a \in Names, b \in Names : p = <<a, b>>
        BY <3>2
      <4> QED
        BY <4>1
    <3> QED
      BY <3>1, <3>2 DEF Path
  <2> QED
    BY <2>1, <2>2
<1>6. DOMAIN entries = InitNames /\ \A p \in DOMAIN entries : entries[p] \in DOMAIN zip
  <2>1. entries = [p \in InitNames |-> CHOOSE i \in DOMAIN InitZip : InitZip[i].name = p]
    BY DEF Init
  <2>2. ASSUME NEW p \in InitNames PROVE (CHOOSE i \in DOMAIN InitZip : InitZip[i].name = p) \in DOMAIN zip
    BY <1>1 DEF InitNames
  <2> QED
    BY <2>1, <2>2
<1>7. ASSUME NEW q \in InitDirs, q # Root
      PROVE  q \in Text /\ Dirname(q) \in InitDirs /\ Last(q) \in Names /\ Append(Dirname(q), Last(q)) = q
  <2>1. PICK p \in InitNames : q \in Chain(p)
    BY <1>7 DEF InitDirs, InitNames, Chain
  <2>2. p \in Text /\ p \in Seq(Names)
    BY <1>4, <1>5
  <2>3. q \in Text /\ Len(q) \in 0..Len(p) /\ q = SubSeq(p, 1, Len(q)) /\ Len(p) \in Nat
    BY <2>1, <2>2, ChainIs
  <2>4. Dirname(q) \in Chain(p) /\ Len(Dirname(q)) = Len(q) - 1 /\ Append(Dirname(q), Last(q)) = q
    <3>1. Dirname(q) \in Chain(p) /\ Len(Dirname(q)) = Len(q) - 1
      BY <1>7, <2>1, <2>2, ChainClosed
    <3>2. q \in Text /\ q # Root
      BY <1>7, <2>3
    <3>3. Append(Dirname(q), Last(q)) = q
      BY <3>2, NameInDirectory
    <3> QED
      BY <3>1, <3>3
  <2>5. Dirname(q) # p
    BY <2>3, <2>4
  <2>6. Dirname(q) \in Above(p)
    BY <2>4, <2>5 DEF Chain
  <2>7. Dirname(q) \in InitDirs
    BY <2>6 DEF InitDirs
  <2>8. q \in Seq(Names)
    BY <2>2, <2>3, PrefixIs
  <2>9. Last(q) \in Names
    <3>1. Len(q) \in Nat \ {0}
      BY <1>7, <2>3, NameInDirectory
    <3> QED
      BY <2>8, <3>1 DEF Last
  <2> QED
    BY <2>3, <2>4, <2>7, <2>9
<1>8. listings = InitListings
  BY DEF Init
<1>9. DOMAIN listings = InitDirs /\ \A d \in InitDirs : listings[d] = {n \in Names : Append(d, n) \in InitNames \cup InitDirs}
  BY <1>8 DEF InitListings
<1>10. Root \in InitDirs /\ Root \in Text
  BY TextIs, Zenon DEF InitDirs, Root
<1>11. IndexTyped(DOMAIN entries, listings)
  <2>1. DOMAIN entries \subseteq Text \ {Root}
    BY <1>4, <1>5, <1>6
  <2>2. DOMAIN listings \subseteq Text
    BY <1>7, <1>9, <1>10
  <2>3. \A d \in DOMAIN listings : listings[d] \subseteq Words
    BY <1>9 DEF Words
  <2> QED
    BY <1>9, <1>10, <2>1, <2>2, <2>3 DEF IndexTyped
<1>12. Reached(listings)
  <2>1. ASSUME NEW q \in DOMAIN listings, q # Root
        PROVE  Dirname(q) \in DOMAIN listings /\ Last(q) \in listings[Dirname(q)]
    <3>1. q \in InitDirs
      BY <1>9, <2>1
    <3>2. Dirname(q) \in InitDirs /\ Last(q) \in Names /\ Append(Dirname(q), Last(q)) \in InitDirs
      BY <1>7, <2>1, <3>1
    <3> QED
      BY <1>9, <3>2
  <2> QED
    BY <2>1 DEF Reached
<1>13. NamesKnown(DOMAIN entries, listings)
  BY <1>6, <1>9 DEF NamesKnown
<1>14. DOMAIN fileSources = {} /\ \A c \in Callers : pend[c].op = "idle"
  <2>1. fileSources = << >> /\ pend = [c \in Callers |-> Idle]
    BY DEF Init
  <2> QED
    BY <2>1 DEF Idle
<1>15. StoredTyped
  BY <1>3, <1>6, <1>11, <1>14 DEF StoredTyped
<1> QED
  BY <1>12, <1>13, <1>14, <1>15 DEF IndexInv, IndicesAgree, CallTyped

\* No step of any call breaks the indices.
LEMMA IndexNext ==
  ASSUME ZipInv, IndexInv, [Next]_vars
  PROVE  IndexInv'
<1>1. CASE UNCHANGED vars
  <2>1. UNCHANGED <<zip, entries, listings, aliased, fileSources, pend>>
    BY <1>1 DEF vars
  <2>2. \A i \in DOMAIN fileSources' : fileSources'[i] \in Text
    BY <2>1 DEF IndexInv, StoredTyped
  <2>3. \A c \in Callers : CallTyped(c)'
    BY <2>1 DEF IndexInv, CallTyped
  <2> QED
    BY <2>1, <2>2, <2>3, LookIndex
<1> QED
  BY <1>1, IndexSync, IndexStart, IndexResume DEF Next

\* However links, deletions and suspended writes interleave, the queries of
\* ZipFS answer alike: existsSync's shortcut agrees with the walk of accessSync,
\* statSync and readFileSync, and every name a directory lists is there --
\* until rmdir() is given another name of its directory, or a path becomes
\* both a directory and something else.
THEOREM QueriesAgreeAlways == Spec => []QueriesAgree
<1>1. ZipInv /\ IndexInv => QueriesAgree
  <2> SUFFICES ASSUME ZipInv, IndexInv PROVE QueriesAgree
    OBVIOUS
  <2>1. ~aliased => EntriesLive /\ FilesEntered
    BY DEF ZipInv
  <2>2. StoredTyped /\ (~aliased => Reached(listings) /\ NamesKnown(DOMAIN entries, listings))
    BY DEF IndexInv, IndicesAgree
  <2> QED
    BY <2>1, <2>2, QueriesAnswer
<1>2. Init => ZipInv /\ IndexInv
  BY ZipInit, InitIndex
<1>3. ZipInv /\ IndexInv /\ [Next]_vars => (ZipInv /\ IndexInv)'
  BY ZipNext, IndexNext
<1> QED
  BY <1>1, <1>2, <1>3, PTL DEF Spec

=============================================================================
