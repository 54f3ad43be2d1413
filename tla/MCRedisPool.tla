----------------------------- MODULE MCRedisPool -----------------------------
(* Small instances of RedisPool for TLC. *)
EXTENDS RedisPool
=============================================================================
