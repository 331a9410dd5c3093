---------------------------- MODULE MCPrioQueue ----------------------------
(***************************************************************************)
(* Small instances of PrioQueue: four hashes, a capacity of two (or none). *)
(***************************************************************************)
EXTENDS PrioQueue, Entries

MCHashes == 1 .. 4
MCHashes3 == 1 .. 3
MCTtls == -1 .. 1
MCSizes == 1 .. 2
MCSigned == {-2, 1}
=============================================================================
