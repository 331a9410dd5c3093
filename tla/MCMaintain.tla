----------------------------- MODULE MCMaintain -----------------------------
(***************************************************************************)
(* Small instances of Maintain: two nodes, the first with three keys, two  *)
(* of them in the same hash slot, one of them rejected.                    *)
(***************************************************************************)
EXTENDS Maintain

CONSTANTS n1, n2

MCNodes == {n1, n2}
MCKeys == 1 .. 5
MCHome == [k \in MCKeys |-> IF k >= 4 THEN n2 ELSE n1]
MCSlot == [k \in MCKeys |-> IF k <= 2 THEN 1 ELSE k]
MCFilter == {[valid |-> TRUE, matches |-> 1 .. 4]}
MCReject == {[valid |-> TRUE, matches |-> {3}]}
MCBroken == {[valid |-> FALSE, matches |-> {}]}
=============================================================================
