-------------------------- MODULE MCRedisSnapshot --------------------------
(* RedisSnapshot on small instances; the values are in the cfg files.       *)
EXTENDS RedisSnapshot
=============================================================================
