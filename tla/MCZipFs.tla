------------------------------ MODULE MCZipFs ------------------------------
(* One archive with a deflated file in a directory it has no member for,    *)
(* and room for two more members.                                           *)
EXTENDS ZipFs, TLC

Member(n, k, d, s) == [name |-> n, kind |-> k, data |-> d, stored |-> s, changed |-> FALSE]
MCInitZip == << Member(<<"a", "a">>, "file", << >>, FALSE) >>
MCLinkTargets == {<<"a">>}
MCCallPaths == {<<"a">>, <<"b">>, <<"a", "a">>}
=============================================================================
