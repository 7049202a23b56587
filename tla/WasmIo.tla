------------------------------- MODULE WasmIo -------------------------------
(* The system calls libzip, compiled to WebAssembly, makes on files: a      *)
(* table of streams (FS.streams) over the descriptors of the host, to which *)
(* NODERAWFS hands every call.  External: the kernel's descriptors and      *)
(* files, the rest of the program, which opens descriptors of its own, and  *)
(* another process that appends to the same files.                          *)
EXTENDS Naturals, Integers, FiniteSets, FiniteSetsExt, Functions

CONSTANTS
    Paths, Existing,        \* Existing is there at the beginning
    Standard,               \* the streams open from the start, 0..2
    MaxFd,                  \* FS.MAX_OPEN_FDS, the last number of a stream
    MaxOpens, MaxSize       \* bounds: files and descriptors opened, bytes

ASSUME IoAssumption ==
    /\ IsFiniteSet(Standard) /\ Standard \subseteq Nat
    /\ MaxFd \in Nat /\ MaxOpens \in Nat \ {0} /\ MaxSize \in Nat

Inodes == 1..MaxOpens
NoPath == "none"

VARIABLES
    about,      \* "numbers" or "bytes"
    streams,    \* FS.streams: fd -> stream
    hostFds,    \* the kernel's table: descriptor -> inode and whose it is
    names,      \* path -> inode, or 0
    sizes,      \* inode -> bytes
    writing,    \* an append between its fstat and its write, or {}
    opens,      \* how many files were opened
    lost,       \* history: descriptors that no stream has any more
    late,       \* history: streams that F_SETFL made append
    failed,     \* history: a close() has failed in the host
    appended,   \* history: inode -> bytes appended, by whomever
    rewritten   \* history: inodes written to otherwise

wiVars == <<about, streams, hostFds, names, sizes, writing, opens, lost, late, failed,
             appended, rewritten>>
disk == <<names, sizes, appended, rewritten>>
table == <<streams, hostFds, opens, lost, late, failed>>

Stream(nfd, path, append) ==
    [nfd |-> nfd, position |-> 0, path |-> path, append |-> append, host |-> append]

WiInit ==
    /\ about \in {"numbers", "bytes"}
    /\ streams = [fd \in Standard |-> Stream(fd, NoPath, FALSE)]   \* createStandardStreams
    /\ hostFds = [n \in Standard |-> [inode |-> 0, whose |-> "libzip"]]
    /\ names = [p \in Paths |-> IF p = Existing THEN 1 ELSE 0]
    /\ sizes = [i \in Inodes |-> 0] /\ appended = sizes
    /\ writing = {} /\ opens = 1 /\ failed = "no"
    /\ lost = {} /\ late = {} /\ rewritten = {}

FreeFds(f, from, to) == {n \in from..to : n \notin DOMAIN f}
HostFd == Min(FreeFds(hostFds, 0, Cardinality(DOMAIN hostFds)))
With(f, x, v) == [y \in DOMAIN f \cup {x} |-> IF y = x THEN v ELSE f[y]]
Sans(f, x) == Restrict(f, DOMAIN f \ {x})
Ready(fd) == writing = {} /\ fd \in DOMAIN streams
Inode(fd) == IF streams[fd].nfd \in DOMAIN hostFds THEN hostFds[streams[fd].nfd].inode ELSE 0
Size(fd) == sizes[Inode(fd)]
OnFile(fd) == Ready(fd) /\ Inode(fd) # 0

-----------------------------------------------------------------------------
(* FS.open: the host's openSync, then a number for the stream, which is the *)
(* host's own or the next one that is free.                                 *)

\* openSync creates, truncates or fails with ENOENT.
HostOpen(path, flags, whose) ==
    LET new == IF path = NoPath THEN 0 ELSE names[path]
        inode == IF new = 0 THEN opens + 1 ELSE new
    IN /\ path # NoPath /\ (new # 0 \/ "creat" \in flags) /\ opens < MaxOpens
       /\ opens' = opens + 1
       /\ names' = [names EXCEPT ![path] = inode]
       /\ hostFds' = With(hostFds, HostFd, [inode |-> inode, whose |-> whose])
       /\ IF "trunc" \in flags \/ new = 0
          THEN sizes' = [sizes EXCEPT ![inode] = 0] /\ appended' = [appended EXCEPT ![inode] = 0]
          ELSE UNCHANGED <<sizes, appended>>

nextfd(from) == FreeFds(streams, from, MaxFd)

\* Mutant: O_APPEND is not told to the host.
HostAppendsNot(s) == [s EXCEPT !.host = FALSE]

\* flagsForNode leaves O_APPEND to the host as well.
HostAppends(s) == s

Open(path, flags) ==
    /\ writing = {} /\ HostOpen(path, flags, "libzip")
    /\ IF nextfd(HostFd) = {}
       THEN lost' = lost \cup {HostFd} /\ UNCHANGED streams       \* EMFILE, too late
       ELSE /\ streams' = With(streams, Min(nextfd(HostFd)),
                            HostAppends(Stream(HostFd, path, "append" \in flags)))
            /\ UNCHANGED lost
    /\ UNCHANGED <<writing, late, failed, rewritten>>

\* fcntl F_DUPFD opens the path once more, and puts the stream under the
\* number that was asked for, whatever is there.
Dupfd(fd, arg) ==
    /\ Ready(fd) /\ LET s == streams[fd]
       IN /\ HostOpen(s.path, {}, "libzip")
          /\ streams' = With(streams, arg, [Stream(HostFd, s.path, s.append) EXCEPT !.host = s.append])
    /\ lost' = lost \cup (IF arg \in DOMAIN streams THEN {streams[arg].nfd} ELSE {})
    /\ UNCHANGED <<writing, late, failed, rewritten>>

\* fcntl F_SETFL sets the flag of the stream and not the host's.
Setfl(fd) ==
    /\ OnFile(fd) /\ ~streams[fd].append
    /\ streams' = [streams EXCEPT ![fd].append = TRUE] /\ late' = late \cup {fd}
    /\ UNCHANGED <<hostFds, disk, writing, opens, lost, failed>>

\* fd_close: a close() that fails has freed the descriptor, but not the stream.
Close(fd) ==
    /\ Ready(fd) /\ streams[fd].nfd \in DOMAIN hostFds
    /\ hostFds' = Sans(hostFds, streams[fd].nfd)
    /\ \/ streams' = Sans(streams, fd) /\ UNCHANGED failed
       \/ failed' = "yes" /\ UNCHANGED streams
    /\ UNCHANGED <<disk, writing, opens, lost, late>>

-----------------------------------------------------------------------------
(* Reading and writing, at the position the stream keeps.                   *)

\* fd_seek: SEEK_SET, SEEK_CUR and SEEK_END; EINVAL below zero
Seek(fd, offset, base) ==
    /\ OnFile(fd) /\ base \in {0, streams[fd].position, Size(fd)}
    /\ base + offset \in 0..MaxSize
    /\ streams' = [streams EXCEPT ![fd].position = base + offset]
    /\ UNCHANGED <<hostFds, disk, writing, opens, lost, late, failed>>

\* sys_read and fd_read, which stops at the first buffer that is not filled
Read(fd, n) ==
    /\ OnFile(fd) /\ streams[fd].position < Size(fd)
    /\ streams' = [streams EXCEPT ![fd].position = Min({@ + n, Size(fd)})]
    /\ UNCHANGED <<hostFds, disk, writing, opens, lost, late, failed>>

\* FS.write: an append first asks for the size.
BeginAppend(fd) ==
    /\ OnFile(fd) /\ streams[fd].append /\ Size(fd) < MaxSize
    /\ streams' = [streams EXCEPT ![fd].position = Size(fd)] /\ writing' = {fd}
    /\ UNCHANGED <<hostFds, disk, opens, lost, late, failed>>

\* The host appends to a file opened so, whatever position it is given.
AppendBytes(fd) ==
    /\ fd \in writing /\ writing' = {}
    /\ LET s == streams[fd]  i == Inode(fd)  at == IF s.host THEN sizes[i] ELSE s.position
       IN /\ sizes' = [sizes EXCEPT ![i] = Max({@, at + 1})]
          /\ appended' = [appended EXCEPT ![i] = @ + 1]
          /\ rewritten' = IF fd \in late THEN rewritten \cup {i} ELSE rewritten
    /\ streams' = [streams EXCEPT ![fd].position = @ + 1]
    /\ UNCHANGED <<hostFds, names, opens, lost, late, failed>>

Write(fd) ==
    /\ OnFile(fd) /\ ~streams[fd].append /\ streams[fd].position < MaxSize
    /\ LET i == Inode(fd)
       IN /\ sizes' = [sizes EXCEPT ![i] = Max({@, streams[fd].position + 1})]
          /\ rewritten' = rewritten \cup {i}
    /\ streams' = [streams EXCEPT ![fd].position = @ + 1]
    /\ UNCHANGED <<hostFds, names, appended, writing, opens, lost, late, failed>>

-----------------------------------------------------------------------------
(* Calls with paths.                                                        *)

Rename(p, q) ==
    /\ writing = {} /\ p # q /\ names[p] # 0
    /\ names' = [names EXCEPT ![q] = names[p], ![p] = 0]
    /\ UNCHANGED <<table, sizes, appended, rewritten, writing>>

Unlink(p) ==
    /\ writing = {} /\ names[p] # 0
    /\ names' = [names EXCEPT ![p] = 0]
    /\ UNCHANGED <<table, sizes, appended, rewritten, writing>>

-----------------------------------------------------------------------------
(* What is not libzip's.                                                    *)

NodeOpens(p) ==
    writing = {} /\ HostOpen(p, {}, "node") /\ UNCHANGED <<streams, writing, lost, late, failed, rewritten>>
NodeCloses(n) ==
    /\ writing = {} /\ hostFds[n].whose = "node" /\ hostFds' = Sans(hostFds, n)
    /\ UNCHANGED <<streams, disk, writing, opens, lost, late, failed>>
OthersAppend(p) ==
    /\ names[p] # 0 /\ sizes[names[p]] < MaxSize
    /\ sizes' = [sizes EXCEPT ![names[p]] = @ + 1]
    /\ appended' = [appended EXCEPT ![names[p]] = @ + 1]
    /\ UNCHANGED <<table, names, rewritten, writing>>

\* A behaviour is about the numbers or about the bytes: descriptors are given
\* out and closed in any order in the one, written through in the other.
Numbers ==
    \/ \E fd \in DOMAIN streams :
          \/ Close(fd)
          \/ \E arg \in 0..MaxFd : Dupfd(fd, arg)
    \/ \E p \in Paths : NodeOpens(p)
    \/ \E n \in DOMAIN hostFds : NodeCloses(n)
ByteCalls ==
    \/ \E fd \in DOMAIN streams :
          \/ Setfl(fd) \/ BeginAppend(fd) \/ AppendBytes(fd) \/ Write(fd)
          \/ \E offset \in -1..1, base \in 0..MaxSize : Seek(fd, offset, base)
          \/ \E n \in 1..2 : Read(fd, n)
    \/ \E p \in Paths : OthersAppend(p)
WithPaths ==
    \E p \in Paths :
       \/ \E flags \in SUBSET {"creat", "trunc", "append"} : Open(p, flags)
       \/ \E q \in Paths : Rename(p, q)
       \/ Unlink(p)
WiNext ==
    /\ WithPaths \/ (about = "numbers" /\ Numbers) \/ (about = "bytes" /\ ByteCalls)
    /\ UNCHANGED about

WiSpec == WiInit /\ [][WiNext]_wiVars

-----------------------------------------------------------------------------

\* Of what libzip and others append to a file nothing is overwritten, unless
\* somebody writes to it without O_APPEND: though FS.write asks for the size
\* first and writes there afterwards.
AppendsKept ==
    \A i \in Inodes \ rewritten : sizes[i] = appended[i]

\* Until a close fails in the host, every stream has a descriptor of its own,
\* which closing another stream cannot close, and every descriptor libzip
\* has opened belongs to a stream, but for those that F_DUPFD and a table of
\* streams that is full are known to lose.
OwnDescriptors ==
    failed = "no" =>
        /\ \A fd, gd \in DOMAIN streams : streams[fd].nfd = streams[gd].nfd => fd = gd
        /\ {n \in DOMAIN hostFds : hostFds[n].whose = "libzip"} =
              {streams[fd].nfd : fd \in DOMAIN streams} \cup lost

\* libzip's descriptors are what it takes them for, though each has another
\* number in the host, and others use the same files.
StreamsKept == AppendsKept /\ OwnDescriptors
=============================================================================
