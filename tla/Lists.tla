-------------------------------- MODULE Lists --------------------------------
(***************************************************************************)
(* Operators on lists that several components use.                         *)
(***************************************************************************)
EXTENDS Integers, Sequences, FiniteSets

Least(m, n) == IF m < n THEN m ELSE n
Elements(s) == {s[i] : i \in DOMAIN s}

\* The elements of q at the indices in at, in the order of q.
Subsequence(q, at) ==
    [k \in 1 .. Cardinality(at) |->
        q[CHOOSE i \in at : Cardinality({j \in at : j <= i}) = k]]
=============================================================================
