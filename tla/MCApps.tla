------------------------------- MODULE MCApps -------------------------------
(* The applications of the repository, which have nothing to do with each   *)
(* other, in one model: laravel-paket's client, server and screens, goof,   *)
(* and the poetry lock file parser.  A behaviour is of one of them, the     *)
(* others stay where they begin.                                            *)
EXTENDS Paket, PaketServer, PaketScreens, Goof, PoetryGraph

\* Two spellings of one name.
MCCanonical == [s \in {"a", "A", "b", "pip"} |-> IF s = "A" THEN "a" ELSE s]

\* Two packages with a card, one that suggests another, one protected.
MCOrder == <<"a", "b", "f">>
MCPakets == {[name |-> "a", dev |-> FALSE], [name |-> "b", dev |-> TRUE]}
MCSuggest == [n \in {"a", "b", "f"} |-> CASE n = "a" -> {}
                                          [] n = "b" -> {"a", "f"}
                                          [] n = "f" -> {"b"}]

VARIABLE part
McVars == <<part, pkVars, psVars, scVars, gfVars, pgVars>>

\* One initial state of each part with several, for when it is idle.
ClientIdle == view = "list" /\ sync = "no"
ServerIdle == queue = "sync"
ScreensIdle ==
    installed = [n \in Names |-> IF n \in Protected THEN [in |-> "packages", by |-> "require"] ELSE NotThere]
GoofIdle == about = "todos"
PoetryIdle == manifest = [dependencies |-> {}, dev |-> {}] /\ dev = "no" /\ lockFile = <<>>

\* Bound: the dependencies may have any spelling, what joins them has one.
PoetryBound == manifest.dev \subseteq {"b"}

McInit ==
    /\ part \in {"client", "server", "screens", "goof", "poetry"}
    /\ part # "client" => ClientIdle
    /\ part # "server" => ServerIdle
    /\ part # "screens" => ScreensIdle
    /\ part # "goof" => GoofIdle
    /\ part # "poetry" => PoetryIdle
    /\ PkInit /\ PsInit /\ ScInit /\ GfInit
    /\ PgInit /\ PoetryBound

Client(A) == part = "client" /\ A /\ UNCHANGED <<part, psVars, scVars, gfVars, pgVars>>

McNext ==
    \/ Client(PkNext)
    \/ part = "server" /\ PsNext /\ UNCHANGED <<part, pkVars, scVars, gfVars, pgVars>>
    \/ part = "screens" /\ ScNext /\ UNCHANGED <<part, pkVars, psVars, gfVars, pgVars>>
    \/ part = "goof" /\ GfNext /\ UNCHANGED <<part, pkVars, psVars, scVars, pgVars>>
    \/ part = "poetry" /\ PgNext /\ UNCHANGED <<part, pkVars, psVars, scVars, gfVars>>

\* The fairness of the client, see Paket.
McSpec ==
    /\ McInit /\ [][McNext]_McVars
    /\ \A j \in Posts : WF_McVars(Client(ServerStep(j))) /\ WF_McVars(Client(PostEnds(j)))
    /\ \A c \in Callers :
          /\ WF_McVars(Client(TimerFires(c)))
          /\ WF_McVars(Client(JobsArrive(c)))
          /\ WF_McVars(Client(RequirementsArrive(c)))

\* laravel-paket's pages show what is there, and what they offer and post is
\* what can and should be done.
PagesTrue == ScreensTrue /\ ClientTrue
=============================================================================
