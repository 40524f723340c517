---------------------------- MODULE MCWebClient ----------------------------
(* Instances of WebClient for TLC. *)
EXTENDS WebClientInvariant, TLC

CONSTANTS x1, x2, c1, s1, s2, r1, r2

\* Calls are interchangeable, and so are requests (not for liveness).
Symmetric == Permutations(Calls) \cup Permutations(Requests)
=============================================================================
