------------------------------- MODULE Ranks -------------------------------
(***************************************************************************)
(* Subsequences by position: what an ORDER BY with a WHERE returns of rows *)
(* that are kept as a sequence.                                            *)
(***************************************************************************)
EXTENDS Naturals, Sequences, FiniteSets

\* How many members of S are at most e: its place when S is listed in order.
Rank(S, e) == Cardinality({f \in S : f <= e})

\* The elements of s at the positions P, in their order.
Picked(s, P) == [i \in 1 .. Cardinality(P) |-> s[CHOOSE p \in P : Rank(P, p) = i]]

=============================================================================
