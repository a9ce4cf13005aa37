-------------------------------- MODULE MCRedis --------------------------------
(* Instances of RedisClient for TLC. *)
EXTENDS RedisClient

CONSTANTS c1, c2, c3
=============================================================================
