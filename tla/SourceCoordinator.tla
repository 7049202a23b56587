-------------------------- MODULE SourceCoordinator -------------------------
(***************************************************************************)
(* sourceCoordinator.getSourceGatewayFor (gps/source.go): goroutines ask   *)
(* for the gateway of a project by name; names that differ only in case    *)
(* and names with the same upstream URL must end up with one gateway,      *)
(* because the gateway's mutex is what serializes work on the local clone. *)
(*                                                                         *)
(* A section under srcmut.RLock is one action; a section under srcmut.Lock *)
(* lasts until its doReturn, so the writer is kept in srcmut.              *)
(***************************************************************************)
EXTENDS Naturals, Sequences, Functions

CONSTANTS
  Caller,        \* goroutines, each with one call of getSourceGatewayFor
  Str,           \* names and URLs; both are keys of nameToURL
  Names,         \* the strings callers ask for
  Fold,          \* toFold: [Str -> Str]
  Deduce,        \* the URLs of deduceRootPath's answer: [Names -> Seq(Str)]
  None           \* no entry, no answer

ASSUME FoldIdempotent == Fold \in [Str -> Str] /\ \A s \in Str : Fold[Fold[s]] = Fold[s]
ASSUME DeduceGivesURLs == Names \subseteq Str /\ Deduce \in [Names -> Seq(Str)]
ASSUME NoneIsNoString == None \notin Str \cup Seq(Caller)

VARIABLES
  supctx,           \* the supervisor's context
  nameToURL,     \* sc.nameToURL
  srcs,          \* sc.srcs: URL -> gateway
  gates,         \* the gateways made: gates[g] is the URL gateway g clones from
  protoSrcs,     \* sc.protoSrcs: folded name -> callers attached, or None
  srcmut,        \* the caller that holds srcmut for writing, or None
  name,          \* the normalizedName of each call
  pc,            \* control state of each call
  ret            \* a call's answer: a gateway, or 0 for none or an error

scVars == <<supctx, nameToURL, srcs, gates, protoSrcs, srcmut, name, pc, ret>>

Working == {"deduce", "recheck", "build", "answer"}
Panics == "panicked"

ScTypeOK ==
  /\ supctx \in {"live", "cancelled"}
  /\ nameToURL \in [Str -> Str \cup {None}]
  /\ srcs \in [Str -> 0 .. Len(gates)]
  /\ gates \in Seq(Str)
  /\ protoSrcs \in [Str -> Seq(Caller) \cup {None}]
  /\ srcmut \in Caller \cup {None}
  /\ name \in [Caller -> Names]
  /\ pc \in [Caller -> Working \cup {"idle", "upgrade", "proto", "attached",
                                     "returned", Panics}]
  /\ ret \in [Caller -> 0 .. Len(gates)]

\* newSourceCoordinator
ScInit ==
  /\ supctx = "live"
  /\ nameToURL = [s \in Str |-> None]
  /\ srcs = [s \in Str |-> 0]
  /\ gates = <<>>
  /\ protoSrcs = [s \in Str |-> None]
  /\ srcmut = None
  /\ name \in [Caller -> Names]
  /\ pc = [c \in Caller |-> "idle"]
  /\ ret = [c \in Caller |-> 0]

folded(c) == Fold[name[c]]
notFolded(c) == folded(c) # name[c]
Readable == srcmut = None

\* The call ends with the gateway recorded for a URL; 0 is an error.
ReturnGate(c, url) ==
  /\ pc' = [pc EXCEPT ![c] = IF srcs[url] = 0 THEN Panics ELSE "returned"]
  /\ ret' = [ret EXCEPT ![c] = srcs[url]]
-----------------------------------------------------------------------------
\* The first look: by name, then by folded name.
Lookup(c) ==
  /\ pc[c] = "idle"
  /\ Readable
  /\ IF supctx = "cancelled"
       THEN pc' = [pc EXCEPT ![c] = "returned"] /\ UNCHANGED ret
       ELSE IF nameToURL[name[c]] # None
         THEN ReturnGate(c, nameToURL[name[c]])
         ELSE /\ pc' = [pc EXCEPT ![c] = IF nameToURL[folded(c)] # None
                                           THEN "upgrade" ELSE "proto"]
              /\ UNCHANGED ret
  /\ UNCHANGED <<supctx, nameToURL, srcs, gates, protoSrcs, srcmut, name>>

\* The folded name was known: take the write lock and record the alias.
Upgrade(c) ==
  /\ pc[c] = "upgrade"
  /\ Readable
  /\ nameToURL' = [nameToURL EXCEPT ![name[c]] = nameToURL[folded(c)]]
  /\ ReturnGate(c, nameToURL[folded(c)])
  /\ UNCHANGED <<supctx, srcs, gates, protoSrcs, srcmut, name>>

\* Under psrcmut: attach to the work on the folded name, or start it.
Proto(c) ==
  /\ pc[c] = "proto"
  /\ IF protoSrcs[folded(c)] # None
       THEN /\ protoSrcs' = [protoSrcs EXCEPT ![folded(c)] = Append(@, c)]
            /\ pc' = [pc EXCEPT ![c] = "attached"]
       ELSE /\ protoSrcs' = [protoSrcs EXCEPT ![folded(c)] = <<>>]
            /\ pc' = [pc EXCEPT ![c] = "deduce"]
  /\ UNCHANGED <<supctx, nameToURL, srcs, gates, srcmut, name, ret>>

\* deduceRootPath: an answer or an error.
DeduceRootPath(c) ==
  /\ pc[c] = "deduce"
  /\ \E next \in {"recheck", "answer"} : pc' = [pc EXCEPT ![c] = next]
  /\ UNCHANGED <<supctx, nameToURL, srcs, gates, protoSrcs, srcmut, name, ret>>

\* Mutant: no second look.
RecheckSkipped(c) ==
  /\ pc[c] = "recheck"
  /\ pc' = [pc EXCEPT ![c] = "build"]
  /\ UNCHANGED <<supctx, nameToURL, srcs, gates, protoSrcs, srcmut, name, ret>>

\* The second look, in case a gateway slid in since the first.
Recheck(c) ==
  /\ pc[c] = "recheck"
  /\ Readable
  /\ IF nameToURL[folded(c)] # None
       THEN /\ ret' = [ret EXCEPT ![c] = srcs[nameToURL[folded(c)]]]
            /\ pc' = [pc EXCEPT ![c] = IF ret'[c] = 0 THEN Panics ELSE "answer"]
       ELSE /\ pc' = [pc EXCEPT ![c] = "build"]
            /\ UNCHANGED ret
  /\ UNCHANGED <<supctx, nameToURL, srcs, gates, protoSrcs, srcmut, name>>

\* The key a candidate URL is looked up and stored under.
Key(c, u) == IF notFolded(c) THEN Fold[u] ELSE u

\* The entries recorded for a call whose gateway was found under key url.
Recorded(c, url, unfoldedURL) ==
  [s \in Str |-> IF \/ s \in {folded(c), url}
                    \/ notFolded(c) /\ s \in {name[c], unfoldedURL}
                   THEN url ELSE nameToURL[s]]

\* Under srcmut.Lock: the first candidate URL that has a gateway or for which
\* one can be made.  m.try and newSourceGateway may fail on any candidate, and
\* the candidates before the chosen one have failed.
Build(c) ==
  LET urls == Deduce[name[c]]
      Fresh(i) == \A j \in 1 .. i : srcs[Key(c, urls[j])] = 0
  IN
  /\ pc[c] = "build"
  /\ Readable
  /\ srcmut' = c
  /\ pc' = [pc EXCEPT ![c] = "answer"]
  /\ \/ \E i \in 1 .. Len(urls) :
          LET key == Key(c, urls[i]) IN
          /\ Fresh(i - 1)
          /\ IF srcs[key] # 0
               THEN UNCHANGED <<srcs, gates>>
               ELSE /\ gates' = Append(gates, urls[i])
                    /\ srcs' = [srcs EXCEPT ![key] = Len(gates')]
          /\ ret' = [ret EXCEPT ![c] = srcs'[key]]
          /\ nameToURL' = Recorded(c, key, urls[i])
     \/ /\ Fresh(Len(urls))
        /\ UNCHANGED <<srcs, gates, ret, nameToURL>>
  /\ UNCHANGED <<supctx, protoSrcs, name>>

\* doReturn under psrcmut, the deferred unlock of srcmut, and the return: every
\* attached caller receives the same answer.
Answer(c) ==
  /\ pc[c] = "answer"
  /\ LET told == Range(protoSrcs[folded(c)]) IN
       /\ pc' = [d \in Caller |-> IF d \in told \cup {c} THEN "returned" ELSE pc[d]]
       /\ ret' = [d \in Caller |-> IF d \in told THEN ret[c] ELSE ret[d]]
  /\ protoSrcs' = [protoSrcs EXCEPT ![folded(c)] = None]
  /\ srcmut' = IF srcmut = c THEN None ELSE srcmut
  /\ UNCHANGED <<supctx, nameToURL, srcs, gates, name>>

\* Release cancels the supervisor.
CancelSup ==
  /\ supctx = "live"
  /\ supctx' = "cancelled"
  /\ UNCHANGED <<nameToURL, srcs, gates, protoSrcs, srcmut, name, pc, ret>>

Step(c) ==
  \/ Lookup(c)
  \/ Upgrade(c)
  \/ Proto(c)
  \/ DeduceRootPath(c)
  \/ Recheck(c)
  \/ Build(c)
  \/ Answer(c)

ScNext == CancelSup \/ \E c \in Caller : Step(c)

ScSpec == ScInit /\ [][ScNext]_scVars

\* Network operations end, and mutexes are handed on.
ScFairSpec == ScSpec /\ \A c \in Caller : WF_scVars(Step(c))
-----------------------------------------------------------------------------
\* The panics of getSourceGatewayFor are unreachable: a URL in nameToURL has
\* its gateway, in every interleaving of the two maps' sections.
NamesHaveGateways ==
  /\ \A s \in Str : nameToURL[s] # None => srcs[nameToURL[s]] # 0
  /\ \A c \in Caller : pc[c] # Panics

\* Calls whose names differ at most in case never get two different gateways,
\* even when one of them raced the other's first attempt.
SameNameSameGateway ==
  \A c, d \in Caller :
    (ret[c] # 0 /\ ret[d] # 0 /\ folded(c) = folded(d)) => ret[c] = ret[d]

\* No two gateways work on clones whose URLs vary only by case.
OneGatewayPerSource ==
  \A g, h \in 1 .. Len(gates) : Fold[gates[g]] = Fold[gates[h]] => g = h

\* What one gateway per source asks of deduceRootPath (gps/deduce.go).  The
\* deducers of the known hosts build a URL out of the path they are given, so a
\* folded name has folded URLs; the answer to a go-get of a vanity import path
\* may hold any URL, and is left out here.
DeductionKeepsCase ==
  \A n \in Names : Fold[n] = n =>
    \A i \in 1 .. Len(Deduce[n]) : Fold[Deduce[n][i]] = Deduce[n][i]

\* A URL that deduction gives is, asked for as a name, its own only URL: a path
\* with a scheme is deduced for that scheme alone.
URLsDeduceToThemselves ==
  \A n, m \in Names : \A i \in 1 .. Len(Deduce[n]) :
    Fold[m] = Fold[Deduce[n][i]] =>
      \A j \in 1 .. Len(Deduce[m]) : Fold[Deduce[m][j]] = Fold[m]

\* However the calls race and whatever the spelling: one gateway per name, and
\* one per source.
OneGateway == SameNameSameGateway /\ OneGatewayPerSource

\* Every call returns, the ones attached to another caller's work too.
CallsReturn == \A c \in Caller : pc[c] = "proto" ~> pc[c] = "returned"
=============================================================================
