------------------------------ MODULE Filters ------------------------------
(* The filters of the applications' languages, as a recursive function.     *)
EXTENDS Naturals, Sequences

\* The elements of s that are in S, in their order.
Only(s, S) ==
    LET chosen[i \in 0 .. Len(s)] ==
            IF i = 0 THEN << >>
            ELSE IF s[i] \in S THEN Append(chosen[i - 1], s[i]) ELSE chosen[i - 1]
    IN chosen[Len(s)]
=============================================================================
