------------------------------- MODULE MCScan -------------------------------
(***************************************************************************)
(* Small instances of Scan: two nodes, the first with two keys.            *)
(***************************************************************************)
EXTENDS Scan

CONSTANTS n1, n2

MCNodes == {n1, n2}
MCKeys == 1 .. 3
MCHome == [k \in MCKeys |-> IF k = 3 THEN n2 ELSE n1]
MCSizes == 1 .. 2
MCTtls == {-1, 1, 2}
MCNoGroups == [k \in {} |-> 0]
MCGroups == [k \in {1, 3} |-> 10]    \* across the nodes; nothing captured of 2
=============================================================================
