-------------------------------- MODULE MCMeasure --------------------------------
(* Instances of Measurements for TLC. *)
EXTENDS Measurements

CONSTANTS w1, w2
=============================================================================
