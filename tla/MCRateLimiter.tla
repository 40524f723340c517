--------------------------- MODULE MCRateLimiter ---------------------------
(* Instances of RateLimiter for TLC. *)
EXTENDS RateLimiterInvariant, TLC

CONSTANTS t1, t2, t3, ip1, ip2

Symmetric == Permutations(Threads)
=============================================================================
