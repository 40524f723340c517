-------------------------- MODULE MCNegotiationTxn --------------------------
(* Instances of NegotiationTxn for TLC. *)
EXTENDS NegotiationTxnInvariant, TLC

CONSTANTS w1, w2, w3, c1, c2, s1, s2, s3, r1, r2, k1

\* Workers are interchangeable, and so are two suppliers.
Symmetric == Permutations(Workers)
SymmetricThreads == Permutations(Workers) \cup Permutations(Suppliers)
=============================================================================
