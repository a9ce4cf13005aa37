-------------------------------- MODULE MCRates --------------------------------
(* Instances of RateLimits for TLC. *)
EXTENDS RateLimits, TLC

CONSTANTS p1, p2, c1, c2, c3, r1, r2

Symmetric == Permutations(Processes) \cup Permutations(Clients) \cup Permutations(Requests)
=============================================================================
