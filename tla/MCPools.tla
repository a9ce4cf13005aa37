-------------------------------- MODULE MCPools --------------------------------
(* Instances of PoolWatches for TLC. *)
EXTENDS PoolWatches

CONSTANTS h1, h2, p1, w1, w2
=============================================================================
