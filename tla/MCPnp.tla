-------------------------------- MODULE MCPnp -------------------------------
(* A project p and a second one q, a folder g outside both that q's tables  *)
(* list as a package, and one package in a virtual folder of p.             *)
EXTENDS PnpLoader, PnpProgram

MCDisk ==
    [at \in {<<"p">>, <<"p", "b">>, <<"q">>, <<"q", "m">>, <<"g">>, <<"g", "k">>} |-> "dir"] @@
    [at \in {<<"p", "a.js">>, <<"p", "b", "index.js">>, <<"p", "b", "x.js">>,
             <<"p", "sdk", "i.js">>, <<"q", "c.js">>, <<"q", "m", "n.js">>,
             <<"g", "k", "k.js">>, <<"g", "o.js">>} |-> "file"]
MCMain == (<<"q", "m">> :> <<"n">>) @@ (<<"g", "k">> :> <<"k.js">>)
MCLink == (<<"q", "l.js">> :> <<"g", "o.js">>)
MCExtensions == <<".js">>
MCNative == ("o" :> <<"g", "o.js">>)
MCPlaces == {<< >>, <<"p">>, <<"p", "$$virtual", "b-0a", "0", "b">>, <<"p", "b">>, <<"p", "sdk">>,
             <<"q">>, <<"q", "m">>, <<"g">>, <<"g", "k">>}
MCAsks == {<<"q", "m">>}
MCDepths == ("0" :> 0) @@ ("1" :> 1)

Package(name, ref, at, deps) ==
    [locator |-> <<name, ref>>, at |-> at, deps |-> deps, discard |-> FALSE,
     peers |-> {peer \in DOMAIN deps : peer = "peer"}]
Tables(base, packages) ==
    [base |-> base, packages |-> packages, ignored |-> {}, roots |-> {<<"p", "workspace:.">>},
     fallback |-> TRUE, pool |-> << >>, excluded |-> {}, blacklist |-> {}]
NoDeps == << >>
P1 == [Tables(<<"p">>, <<Package("", "", <<"p">>, ("b" :> <<"b", "v">>) @@ ("k" :> None)),
                         Package("p", "workspace:.", <<"p">>, ("b" :> <<"b", "v">>)),
                         [Package("b", "1", <<"p", "b">>, NoDeps) EXCEPT !.discard = TRUE],
                         Package("b", "v", <<"p", "$$virtual", "b-0a", "0", "b">>,
                                 ("peer" :> None))>>)
          EXCEPT !.ignored = {<<"p", "sdk">>}, !.excluded = {<<"p", "workspace:.">>}]
P2 == [P1 EXCEPT !.packages = SubSeq(@, 1, 2) \o <<Package("b", "v", <<"p", "b">>, NoDeps)>>]
Q1 == Tables(<<"q">>, <<Package("", "", <<"q">>, ("k" :> <<"k", "1">>)),
                        Package("k", "1", <<"g", "k">>, NoDeps)>>)
MCRaw == ("p" :> <<P1, P2>>) @@ ("q" :> <<Q1, Q1>>)

Bare(name) == [kind |-> "bare", name |-> name, sub |-> << >>, abs |-> FALSE, to |-> << >>]
To(at) == [Bare("") EXCEPT !.kind = "path", !.abs = TRUE, !.to = at]
MCRequests == {Bare("b"), Bare("k"), Bare("o"), To(<<"q", "c">>), To(<<"p", "sdk", "i">>),
               To(<<"q", "l.js">>)}

MCQueries == ("a" :> "path") @@ ("b" :> "UNDECLARED_DEPENDENCY")

-----------------------------------------------------------------------------
(* A behaviour is of the loader or of the program that answers requests;    *)
(* the other one stays in one of its initial states.                        *)
VARIABLE part
McVars == <<pnpVars, prVars, part>>
McInit ==
    /\ part \in {"loader", "program"} /\ (part = "loader" => args = 0 /\ input = << >>)
    /\ PrInit /\ PnpInit
McNext ==
    \/ part = "loader" /\ PnpNext /\ UNCHANGED <<prVars, part>>
    \/ part = "program" /\ PrNext /\ UNCHANGED <<pnpVars, part>>
McSpec == McInit /\ [][McNext]_McVars

=============================================================================
