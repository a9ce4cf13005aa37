-------------------------------- MODULE MCHooks --------------------------------
(* Instances of HookChecks for TLC. *)
EXTENDS HookChecks

CONSTANTS p1, p2, w1, k1, k2, k3, r1, r2, r3
=============================================================================
