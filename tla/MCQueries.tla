----------------------------- MODULE MCQueries -----------------------------
(* Instances of Queries for TLC. *)
EXTENDS QueriesInvariant, TLC

CONSTANTS c1, s1, s2, r1, r2, r3

\* Requests are interchangeable, and so are suppliers.
Symmetric == Permutations(Requests) \cup Permutations(Suppliers)
=============================================================================
