---------------------------- MODULE FileHelpers ----------------------------
(* mkdirpPromise and changeFilePromise of FakeFS, each called by several    *)
(* processes for one path, one file system call after the other.            *)
EXTENDS Naturals, FiniteSets

CONSTANTS
    Makers,             \* processes in mkdirpPromise
    Depth,              \* levels below the root, 1..Depth
    Changers,           \* processes in changeFilePromise
    Texts, MaxRemovals  \* what a file can say; a bound

\* There is a path to make, and somebody who makes it.
ASSUME HelpersAssumption == Depth \in Nat \ {0} /\ Makers # {}

VARIABLES
    job,        \* which of the two helpers is called
    level,      \* what is at each level of the path: "none", "dir", "file"
    perm,       \* the mode of each: "default" or "asked"
    maker,      \* each maker: where it is, and at which level
    gone,       \* how often somebody took a part of the path away
    content,    \* of the file: what it says, and with which line endings
    changer     \* each changer: what it wants and is about to write

fhVars == <<job, level, perm, maker, gone, content, changer>>
dirs == <<job, level, perm, maker, gone>>
files == <<job, content, changer>>

Levels == 1..Depth
Parent(l) == IF l = 1 THEN TRUE ELSE level[l - 1] = "dir"

-----------------------------------------------------------------------------
(* mkdirpPromise: existsSync, mkdir, chmod, stat of the parent and utimes   *)
(* for each level that is not there.                                        *)

To(p, pc, l) == maker' = [maker EXCEPT ![p] = [pc |-> pc, l |-> l]]
AtLevel(p, pc) == maker[p].pc = pc
L(p) == maker[p].l
NextLevel(p) == IF L(p) = Depth THEN To(p, "made", L(p)) ELSE To(p, "exists", L(p) + 1)

Exists(p) ==
    /\ AtLevel(p, "exists") /\ UNCHANGED <<level, perm, gone, files>>
    /\ IF level[L(p)] # "none" THEN NextLevel(p) ELSE To(p, "mkdir", L(p))

\* Mutant: what is there already is an error.
MkdirRefused(p) ==
    /\ AtLevel(p, "mkdir") /\ level[L(p)] # "none" /\ Parent(L(p)) /\ To(p, "failed", L(p))
    /\ UNCHANGED <<level, perm, gone, files>>

\* EEXIST: somebody else was faster, which is as good.
MkdirExists(p) ==
    /\ AtLevel(p, "mkdir") /\ level[L(p)] # "none" /\ Parent(L(p)) /\ NextLevel(p)
    /\ UNCHANGED <<level, perm, gone, files>>

MkdirDone(p) ==
    /\ AtLevel(p, "mkdir") /\ level[L(p)] = "none" /\ Parent(L(p)) /\ To(p, "chmod", L(p))
    /\ level' = [level EXCEPT ![L(p)] = "dir"] /\ perm' = [perm EXCEPT ![L(p)] = "default"]
    /\ UNCHANGED <<gone, files>>

\* ENOENT or ENOTDIR
MkdirFails(p) ==
    /\ AtLevel(p, "mkdir") /\ ~Parent(L(p)) /\ To(p, "failed", L(p))
    /\ UNCHANGED <<level, perm, gone, files>>

Chmod(p) ==
    /\ AtLevel(p, "chmod") /\ UNCHANGED <<level, gone, files>>
    /\ IF level[L(p)] = "none" THEN To(p, "failed", L(p)) /\ UNCHANGED perm
       ELSE To(p, "utimes", L(p)) /\ perm' = [perm EXCEPT ![L(p)] = "asked"]

\* stat of the parent, then utimes
Utimes(p) ==
    /\ AtLevel(p, "utimes") /\ UNCHANGED <<level, perm, gone, files>>
    /\ IF level[L(p)] = "none" \/ ~Parent(L(p)) THEN To(p, "failed", L(p)) ELSE NextLevel(p)

\* Somebody removes a level and what is below, or puts a file there.
RemoveLevel(l) ==
    /\ gone < MaxRemovals /\ gone' = gone + 1 /\ level[l] # "none"
    /\ level' = [m \in Levels |-> IF m >= l THEN "none" ELSE level[m]]
    /\ UNCHANGED <<perm, maker, files>>
PutFile(l) ==
    /\ gone < MaxRemovals /\ gone' = gone + 1 /\ level[l] = "none" /\ Parent(l)
    /\ level' = [level EXCEPT ![l] = "file"]
    /\ UNCHANGED <<perm, maker, files>>

-----------------------------------------------------------------------------
(* changeFilePromise: read, compare, write; with automaticNewlines the new  *)
(* text gets the line endings that most of the old text's lines have.       *)

\* "lfs" and "crlfs": most lines have that ending, not all.
Endings == {"lf", "crlf", "lfs", "crlfs", "none"}
Missing == [text |-> "missing", eol |-> "none"]
Contents == [text : Texts, eol : Endings] \cup {Missing}

\* The host's own (here \n) when the old text has one line only.
getEndOfLine(old) == IF old.eol \in {"crlf", "crlfs"} THEN "crlf" ELSE "lf"
normalizeLineEndings(old, new) ==
    [new EXCEPT !.eol = IF @ = "none" THEN @ ELSE getEndOfLine(old)]

Idle == [pc |-> "start", auto |-> FALSE, want |-> Missing, new |-> Missing]

\* A file that cannot be read passes for an empty one.
ReadCurrent(c) ==
    /\ changer[c].pc = "start"
    /\ \E t \in Texts, e \in {"lf", "crlf", "none"}, auto \in BOOLEAN :
          LET want == [text |-> t, eol |-> e]
              new == IF auto THEN normalizeLineEndings(content, want) ELSE want
          IN changer' = [changer EXCEPT ![c] =
                [pc |-> IF new = content THEN "same" ELSE "write",
                 auto |-> auto, want |-> want, new |-> new]]
    /\ UNCHANGED <<dirs, content>>

WriteChanged(c) ==
    /\ changer[c].pc = "write" /\ changer' = [changer EXCEPT ![c].pc = "wrote"]
    /\ content' = changer[c].new /\ UNCHANGED dirs

Again(c) ==
    /\ changer[c].pc \in {"same", "wrote"} /\ changer' = [changer EXCEPT ![c] = Idle]
    /\ UNCHANGED <<dirs, content>>

-----------------------------------------------------------------------------
FhInit ==
    /\ job \in {"mkdirp", "change"}
    /\ level = [l \in Levels |-> "none"] /\ perm = [l \in Levels |-> "default"]
    /\ maker = [p \in Makers |-> [pc |-> "exists", l |-> 1]] /\ gone = 0
    /\ content \in Contents /\ (job = "mkdirp" => content = Missing)
    /\ changer = [c \in Changers |-> Idle]

MkdirpNext ==
    /\ job = "mkdirp"
    /\ \/ \E p \in Makers :
             \/ Exists(p) \/ MkdirExists(p) \/ MkdirDone(p) \/ MkdirFails(p)
             \/ Chmod(p) \/ Utimes(p)
       \/ \E l \in Levels : RemoveLevel(l) \/ PutFile(l)
ChangeNext ==
    /\ job = "change"
    /\ \E c \in Changers : ReadCurrent(c) \/ WriteChanged(c) \/ Again(c)
FhNext == MkdirpNext \/ ChangeNext

FhSpec == FhInit /\ [][FhNext]_fhVars

-----------------------------------------------------------------------------
\* Several makers of one path do not get into each other's way: unless a
\* part of it is taken away, none fails, and in the end every level is a
\* directory with the mode that was asked for.
MakersAgree ==
    gone = 0 =>
        /\ \A p \in Makers : maker[p].pc # "failed"
        /\ (\A p \in Makers : maker[p].pc = "made") =>
              \A l \in Levels : level[l] = "dir" /\ perm[l] = "asked"

\* A change settles: while the file stays as a call left it, the same call
\* does not write again, whatever the line endings before.
ChangeSettles ==
    \A c \in Changers :
        changer[c].pc \in {"same", "wrote"} /\ content = changer[c].new /\ changer[c].auto
            => normalizeLineEndings(content, changer[c].want) = content

\* The helpers can be called again and by several: mkdirpPromise of one path
\* in one process, changeFilePromise of one file after the other.
HelpersSettle == MakersAgree /\ ChangeSettles
=============================================================================
