-------------------------------- MODULE MCLimit --------------------------------
(* Instances of ConcurrencyLimit for TLC. *)
EXTENDS ConcurrencyLimit

CONSTANTS c1, c2, c3, c4, c5
=============================================================================
