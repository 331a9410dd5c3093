---------------------------- MODULE MCDiscovery ----------------------------
(***************************************************************************)
(* Two shards, one with two replicas and one without any.                  *)
(***************************************************************************)
EXTENDS Discovery

CONSTANTS a, b, c, d

MCServers == {a, b, c, d}
MCShards == 1 .. 2
MCShardOf == [n \in MCServers |-> IF n = d THEN 2 ELSE 1]
=============================================================================
