-------------------------------- MODULE MCWatch --------------------------------
(* Instances of Watch for TLC. *)
EXTENDS Watch

CONSTANTS own, other
=============================================================================
