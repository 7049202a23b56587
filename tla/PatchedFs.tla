----------------------------- MODULE PatchedFs -----------------------------
(* patchFs replaces the functions of Node's fs by those of a stack of file  *)
(* systems: PosixFS over VirtualFS over ZipOpenFS, which sends a call to    *)
(* the archive a path lies in or to NodeFS and the host.  This is the stack *)
(* as a program sees it through descriptors, directory handles, streams and *)
(* paths; the host's own fs is external.  One archive, one disk file.       *)
EXTENDS Naturals, Sequences, FiniteSets, FiniteSetsExt

CONSTANTS
    ZipFile, DiskFile,          \* a file in the archive, a file on the disk
    Datas,                      \* what a file can hold: sequences
    MaxHandles, MaxWrites       \* bounds

ASSUME FilesAssumption == ZipFile # DiskFile /\ Datas \subseteq Seq({"a", "b"})

Files == {ZipFile, DiskFile}
Absent == <<"absent">>

VARIABLES
    platform,   \* "win32" or "posix"
    readOnly,   \* "yes" for archives opened by the loader
    tree,       \* file -> its data
    fds,        \* ZipFS.fds: descriptor -> cursor and path
    fdMap,      \* ZipOpenFS.fdMap: remapped descriptor -> ZipFS descriptor
    nodeFds,    \* the host's descriptors -> cursor and path
    handles,    \* everything the program has opened, in order
    writes,     \* how often a file was changed
    told,       \* forms of the paths the program was answered with
    heard       \* forms of the paths the host was given

pfVars == <<platform, readOnly, tree, fds, fdMap, nodeFds, handles, writes, told, heard>>
paths == <<told, heard>>
world == <<platform, readOnly>>

-----------------------------------------------------------------------------
(* Paths.  The program writes native paths, the layers below PosixFS use    *)
(* portable ones; on posix the two are the same.  A path may go through a   *)
(* virtual folder, which VirtualFS takes out.                               *)

Form(style) == IF platform = "win32" THEN style ELSE "same"
Native == Form("native")
Portable == Form("portable")
NPath(f, v) == [form |-> Native, file |-> f, virtual |-> v]

toPortablePath(p) == [p EXCEPT !.form = Portable]
fromPortablePath(p) == [p EXCEPT !.form = Native]
resolveVirtual(p) == [p EXCEPT !.virtual = "no"]

\* What PosixFS and VirtualFS, both of them a ProxiedFS, leave of the paths
\* of a call: ZipOpenFS is given this.
MapToBase(p) == resolveVirtual(toPortablePath(p))

\* Mutant: the host is given the portable form.
NodePathKept(p) == p

\* NodeFS converts what it hands to the host; an archive's path goes nowhere.
NodePath(p) == fromPortablePath(p)
Hear(P) == heard' = heard \cup
              {NodePath(MapToBase(p)).form : p \in {q \in P : q.file = DiskFile}}

\* realpath comes back through the layers; VirtualFS puts the virtual folder
\* of the question back in, PosixFS the native form.
Realpath(p) == fromPortablePath(MapToBase(p))

-----------------------------------------------------------------------------
(* Descriptors.  ZipFS remembers the path and a cursor, ZipOpenFS a number  *)
(* with the ZIP_FD bit for it; both count upwards and use none twice.       *)

Put(f, x, v) == [y \in DOMAIN f \cup {x} |-> IF y = x THEN v ELSE f[y]]
Drop(f, x) == [y \in DOMAIN f \ {x} |-> f[y]]

Opened(fs) == Cardinality({h \in DOMAIN handles : handles[h].fs = fs})
Smallest(f) == Min({n \in 0..Cardinality(DOMAIN f) : n \notin DOMAIN f})

\* nextFd of the archive: each archive handle has taken one
NextZip == Opened("zip")

\* Mutant: the smallest free number, of closed ones too.
NextRemappedSmallest == Smallest(fdMap)

NextRemapped == Cardinality({h \in DOMAIN handles : handles[h].fs = "zip" /\
                                handles[h].kind = "fd"})

Handle(kind, fs, fd, inner, p) ==
    [kind |-> kind, fs |-> fs, fd |-> fd, inner |-> inner, file |-> p, state |-> "open",
     got |-> << >>, chunks |-> << >>, since |-> writes]
Spare == Len(handles) < MaxHandles
Hold(h) == handles' = Append(handles, h)
Become(h, s) == handles' = [handles EXCEPT ![h].state = s]
Is(h, kind, s) == handles[h].kind = kind /\ handles[h].state = s

\* open, openSync, fs.promises.open and its FileHandle: a descriptor each.
\* The archive opens any path.
OpenZip(v) ==
    /\ Spare /\ Hold(Handle("fd", "zip", NextRemapped, NextZip, ZipFile))
    /\ fds' = Put(fds, NextZip, [cursor |-> 0, file |-> ZipFile])
    /\ fdMap' = Put(fdMap, NextRemapped, NextZip)
    /\ Hear({NPath(ZipFile, v)}) /\ UNCHANGED <<world, tree, nodeFds, writes, told>>

OpenHost(v) ==
    /\ Spare /\ tree[DiskFile] # Absent
    /\ nodeFds' = Put(nodeFds, Smallest(nodeFds), [cursor |-> 0, file |-> DiskFile])
    /\ Hold(Handle("fd", "host", Smallest(nodeFds), 0, DiskFile))
    /\ Hear({NPath(DiskFile, v)}) /\ UNCHANGED <<world, tree, fds, fdMap, writes, told>>

\* Bytes come from the cursor, which moves, or from a position, which leaves
\* it where it is; a length that is left out is zero bytes.
From(c, d, n) == SubSeq(d, c + 1, IF c + n > Len(d) THEN Len(d) ELSE c + n)

Cursor(c, bytes, move) == IF move THEN c + Len(bytes) ELSE c

Given(h, bytes, move) ==
    handles' = IF move THEN [handles EXCEPT ![h].got = @ \o bytes] ELSE handles

ReadZip(h, n, move) ==
    /\ Is(h, "fd", "open") /\ handles[h].fs = "zip" /\ tree[ZipFile] # Absent
    /\ LET fd == fdMap[handles[h].fd]
           bytes == From(fds[fd].cursor, tree[ZipFile], n)
       IN fds' = [fds EXCEPT ![fd].cursor = Cursor(@, bytes, move)] /\ Given(h, bytes, move)
    /\ UNCHANGED <<world, tree, fdMap, nodeFds, writes, paths>>

ReadHost(h, n, move) ==
    /\ Is(h, "fd", "open") /\ handles[h].fs = "host" /\ tree[DiskFile] # Absent
    /\ LET fd == handles[h].fd
           bytes == From(nodeFds[fd].cursor, tree[DiskFile], n)
       IN /\ nodeFds' = [nodeFds EXCEPT ![fd].cursor = IF move THEN @ + Len(bytes) ELSE @]
          /\ Given(h, bytes, move)
    /\ UNCHANGED <<world, tree, fds, fdMap, writes, paths>>

\* Closing what is closed already is EBADF and changes nothing: an archive's
\* number is not given out again.
CloseZip(h) ==
    /\ handles[h].kind = "fd" /\ handles[h].fs = "zip" /\ Become(h, "closed")
    /\ IF handles[h].fd \in DOMAIN fdMap
       THEN /\ fds' = Drop(fds, fdMap[handles[h].fd])
            /\ fdMap' = Drop(fdMap, handles[h].fd)
       ELSE UNCHANGED <<fds, fdMap>>
    /\ UNCHANGED <<world, tree, nodeFds, writes, paths>>

CloseHost(h) ==
    /\ Is(h, "fd", "open") /\ handles[h].fs = "host" /\ Become(h, "closed")
    /\ nodeFds' = Drop(nodeFds, handles[h].fd)
    /\ UNCHANGED <<world, tree, fds, fdMap, writes, paths>>

-----------------------------------------------------------------------------
(* Directories of the archive: opendir takes a descriptor and a copy of the *)
(* listing, and looks at each entry when it comes to it.                    *)

Inside(kind) == Hold(Handle(kind, "zip", 0, NextZip, ZipFile))

OpenDir ==
    /\ Spare /\ Hold([Handle("dir", "zip", 0, NextZip, ZipFile) EXCEPT
                         !.chunks = IF tree[ZipFile] = Absent THEN << >> ELSE <<ZipFile>>])
    /\ fds' = Put(fds, NextZip, [cursor |-> 0, file |-> ZipFile])
    /\ told' = told \cup {Native}          \* ProxiedFS puts the caller's path in
    /\ UNCHANGED <<world, tree, fdMap, nodeFds, writes, heard>>

\* An entry that is gone by now makes the read fail after taking it.
ReadDir(h) ==
    /\ Is(h, "dir", "open") /\ handles[h].chunks # << >>
    /\ handles' = [handles EXCEPT ![h].chunks = << >>,
          ![h].got = IF tree[ZipFile] = Absent THEN @ ELSE Append(@, ZipFile)]
    /\ UNCHANGED <<world, tree, fds, fdMap, nodeFds, writes, paths>>

CloseInner(h) ==
    /\ fds' = Drop(fds, handles[h].inner) /\ UNCHANGED <<fdMap, nodeFds>>

CloseDir(h) ==
    /\ Is(h, "dir", "open") /\ Become(h, "closed") /\ CloseInner(h)
    /\ UNCHANGED <<world, tree, writes, paths>>

-----------------------------------------------------------------------------
(* Streams of the archive.                                                  *)

CreateReadStream ==
    /\ Spare /\ Inside("reader") /\ fds' = Put(fds, NextZip, [cursor |-> 0, file |-> ZipFile])
    /\ UNCHANGED <<world, tree, fdMap, nodeFds, writes, paths>>

\* The immediate: the file is read and put into the stream as a whole; a
\* file that cannot be read destroys the stream.
Immediate(h) ==
    /\ Is(h, "reader", "open")
    /\ IF tree[ZipFile] = Absent THEN Become(h, "closed") /\ CloseInner(h)
       ELSE /\ handles' = [handles EXCEPT ![h].state = "ended", ![h].got = tree[ZipFile]]
            /\ UNCHANGED <<fds, fdMap, nodeFds>>
    /\ UNCHANGED <<world, tree, writes, paths>>

\* read to the end, or close(): the immediate is cleared, the file closed
DestroyReader(h) ==
    /\ handles[h].kind = "reader" /\ handles[h].state # "closed"
    /\ Become(h, "closed") /\ CloseInner(h)
    /\ UNCHANGED <<world, tree, writes, paths>>

CreateWriteStream ==
    /\ Spare /\ readOnly = "no" /\ Inside("writer")
    /\ fds' = Put(fds, NextZip, [cursor |-> 0, file |-> ZipFile])
    /\ UNCHANGED <<world, tree, fdMap, nodeFds, writes, paths>>

WriteChunk(h, x) ==
    /\ Is(h, "writer", "open") /\ Len(handles[h].chunks) < 2
    /\ handles' = [handles EXCEPT ![h].chunks = Append(@, x)]
    /\ UNCHANGED <<world, tree, fds, fdMap, nodeFds, writes, paths>>

\* end() or close(): the chunks become the file's data; an error leaves the
\* file alone.  The descriptor is closed either way.
DestroyWriter(h, failed) ==
    /\ Is(h, "writer", "open") /\ writes < MaxWrites
    /\ handles' = [handles EXCEPT ![h].state = IF failed THEN "failed" ELSE "closed",
                                  ![h].since = writes + 1]
    /\ IF failed THEN UNCHANGED <<tree, writes>>
       ELSE tree' = [tree EXCEPT ![ZipFile] = handles[h].chunks] /\ writes' = writes + 1
    /\ CloseInner(h) /\ UNCHANGED <<world, paths>>

-----------------------------------------------------------------------------
(* Calls with paths, in the three styles: sync, with a callback, promises.  *)
(* The styles differ in when they run, not in what they do.                 *)

\* writeFile, appendFile, truncate, copyFile to, unlink, rmdir...: the loader's
\* archives refuse with EROFS.
ChangePath(f, v, d) ==
    /\ writes < MaxWrites /\ (f = ZipFile => readOnly = "no") /\ tree[f] # d
    /\ tree' = [tree EXCEPT ![f] = d] /\ writes' = writes + 1
    /\ Hear({NPath(f, v)})
    /\ UNCHANGED <<world, fds, fdMap, nodeFds, handles, told>>

\* rename, copyFile and link give the host two paths
PairPaths(v, w) ==
    /\ Hear({NPath(DiskFile, v), NPath(DiskFile, w)})
    /\ UNCHANGED <<world, tree, fds, fdMap, nodeFds, handles, writes, told>>

\* stat, access, exists, readFile, readdir, watch
QueryPath(f, v) ==
    /\ Hear({NPath(f, v)})
    /\ UNCHANGED <<world, tree, fds, fdMap, nodeFds, handles, writes, told>>

\* realpath and readlink
AskPath(f, v) ==
    /\ told' = told \cup {Realpath(NPath(f, v)).form} /\ Hear({NPath(f, v)})
    /\ UNCHANGED <<world, tree, fds, fdMap, nodeFds, handles, writes>>

-----------------------------------------------------------------------------
PfInit ==
    /\ platform \in {"win32", "posix"} /\ readOnly \in {"yes", "no"}
    /\ tree \in [Files -> Datas \cup {Absent}]
    /\ fds = << >> /\ fdMap = << >> /\ nodeFds = << >> /\ handles = << >>
    /\ writes = 0 /\ told = {} /\ heard = {}

OnHandle(h) ==
    \/ \E n \in 0..1, move \in BOOLEAN : ReadZip(h, n, move) \/ ReadHost(h, n, move)
    \/ CloseZip(h) \/ CloseHost(h)
    \/ ReadDir(h) \/ CloseDir(h)
    \/ Immediate(h) \/ DestroyReader(h)
    \/ \E failed \in BOOLEAN : DestroyWriter(h, failed)
    \/ \E x \in {"a", "b"} : WriteChunk(h, x)

OnPath(f, v) ==
    \/ QueryPath(f, v) \/ AskPath(f, v)
    \/ \E d \in Datas \cup {Absent} : ChangePath(f, v, d)

PfNext ==
    \/ \E h \in DOMAIN handles : OnHandle(h)
    \/ \E f \in Files, v \in {"yes", "no"} : OnPath(f, v)
    \/ \E v, w \in {"yes", "no"} : PairPaths(v, w)
    \/ \E v \in {"yes", "no"} : OpenZip(v) \/ OpenHost(v)
    \/ OpenDir \/ CreateReadStream \/ CreateWriteStream

PfSpec == PfInit /\ [][PfNext]_pfVars

-----------------------------------------------------------------------------
\* The host is given native paths, and so is the program, on Windows too,
\* where a conversion that is missing would show.
FormsRight == heard \subseteq {Native} /\ told \subseteq {Native}

Live(h) == handles[h].state \in {"open", "ended"} /\ handles[h].fs = "zip"

\* The archive's table holds one descriptor for each thing the program has
\* open in it, and nothing else, whatever is closed twice, destroyed early
\* or fails: hasOpenFileHandles() decides whether the archive may be closed.
FdsHeld ==
    /\ DOMAIN fds = {handles[h].inner : h \in {g \in DOMAIN handles : Live(g)}}
    /\ \A g, h \in DOMAIN handles :
          Live(g) /\ Live(h) /\ handles[g].inner = handles[h].inner => g = h
    /\ DOMAIN fdMap = {handles[h].fd : h \in
                         {g \in DOMAIN handles : Live(g) /\ handles[g].kind = "fd"}}

\* Reads one after the other give the file in order, each byte once, as long
\* as it is not changed, whatever is read at positions in between.
ReadsInOrder ==
    \A h \in DOMAIN handles :
        LET x == handles[h]
        IN x.kind = "fd" /\ x.since = writes /\ tree[x.file] # Absent
             => x.got = SubSeq(tree[x.file], 1, Len(x.got))

\* A write stream that was closed without an error has stored all it was
\* given, until somebody writes again.
StreamStored ==
    \A h \in DOMAIN handles :
        Is(h, "writer", "closed") /\ handles[h].since = writes
            => tree[ZipFile] = handles[h].chunks

\* A descriptor stands for one thing in one file system, and reads and writes
\* through it are those that were asked for.
HandlesTrue == FdsHeld /\ ReadsInOrder /\ StreamStored
=============================================================================
