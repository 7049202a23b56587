------------------------------ MODULE MCSolver ------------------------------
(***************************************************************************)
(* Universes for Solver: projects 1, 2 and 3 with versions 2 and 1, tried  *)
(* in this order, and packages "r" and "s".  The "r" of two of them, the    *)
(* importers, imports at most one package of one other project; which one, *)
(* and under which rule, varies with the version.                          *)
(***************************************************************************)
EXTENDS Solver

AnyVersion == {1, 2}
NoEdge == [k |-> "none", c |-> AnyVersion]
R(c) == [k |-> "r", c |-> c]
S == [k |-> "s", c |-> AnyVersion]

\* target: what the first and the second importer import.  edges: which package
\* versions 1 and 2 of each import.  part: the project whose versions bare have no "s".  internal:
\* the version of project 2 whose "r" imports its "s".  hint: what the locks of
\* the importers say.
Shape(importer, target, edges, part, bare, internal, imports, locked) ==
  [importer : {importer}, target : {target}, edges : [{1, 2} -> [{1, 2} -> edges]], part : {part}, bare : bare,
   internal : internal, imports : imports, lock : {locked}, hint : {None},
   change : {{}}, gone : {{}}]

Both == {<<1, "r">>, <<2, "r">>}
Bare == {{}, {2}, {1, 2}}

\* Two projects that share a third and disagree about it.
Shared == Shape(<<1, 2>>, <<3, 3>>, {NoEdge, S, R(AnyVersion), R({1}), R({2})}, 3, Bare, {0}, {Both}, None)

\* Two projects that share one that is selected between them; version 1 of
\* everything is locked, and the importers' locks prefer version 2 of 1, or 1
\* is to be changed.
Locked ==
  LET base == Shape(<<2, 3>>, <<1, 1>>, {NoEdge, R(AnyVersion), R({1}), R({2})}, 1, {{}}, {0},
                    {{<<2, "r">>, <<3, "r">>}}, 1) IN
  {[x EXCEPT !.hint = 2] : x \in base} \cup {[x EXCEPT !.change = {1}, !.hint = 1] : x \in base}

\* A chain 1, 2, 3 with internal imports and missing packages in 2; the root
\* may import 3 too.
Chain ==
  Shape(<<1, 2>>, <<2, 3>>, {NoEdge, R(AnyVersion), R({1})}, 2, Bare, {0, 2},
        {{<<1, "r">>}, {<<1, "r">>, <<3, "r">>}}, None)

\* Project 3 has no source; the locks of 1 and 2 prefer version 1.
Others ==
  {[x EXCEPT !.gone = {3}] : x \in Shape(<<1, 2>>, <<3, 3>>, {NoEdge, R(AnyVersion)}, 3, {{}}, {0}, {Both}, None)}
  \cup
  {[x EXCEPT !.hint = 1] :
     x \in Shape(<<1, 2>>, <<3, 3>>, {NoEdge, R(AnyVersion), R({2})}, 3, {{}}, {0},
                 {Both, {<<1, "r">>, <<3, "r">>}}, None)}

MCUniverse == Shared \cup Locked \cup Chain \cup Others

MCVersions(x, p) == <<2, 1>>
MCTree(x, p, v) == IF p = x.part /\ v \in x.bare THEN {"r"} ELSE {"r", "s"}
MCInternal(x, p, v, k) == IF p = 2 /\ v = x.internal /\ k = "r" THEN {"s"} ELSE {}
Nth(x, p) == CHOOSE i \in {1, 2} : x.importer[i] = p
Imports1(x, p, v) == p \in ToSet(x.importer) /\ x.edges[Nth(x, p)][v] # NoEdge
MCExternal(x, p, v, k) ==
  IF k = "r" /\ Imports1(x, p, v) THEN {<<x.target[Nth(x, p)], x.edges[Nth(x, p)][v].k>>} ELSE {}
MCRule(x, p, v, p2) ==
  IF Imports1(x, p, v) /\ p2 = x.target[Nth(x, p)] THEN x.edges[Nth(x, p)][v].c ELSE AnyVersion
MCHint(x, p, v, p2) ==
  IF p \in ToSet(x.importer) /\ p2 = x.target[Nth(x, p)] THEN x.hint ELSE None
MCImports(x) == x.imports
MCRootRule(x, p) == AnyVersion
MCLock(x, p) == x.lock
MCChanging(x) == x.change
MCGone(x) == x.gone
=============================================================================
