----------------------------- MODULE MCProgress -----------------------------
(***************************************************************************)
(* A small instance of Progress: a refresh delay of two ticks, and         *)
(* sleeps of one tick or two.                                              *)
(***************************************************************************)
EXTENDS Progress

CONSTANTS n1, n2

MCNodes == {n1, n2}
MCEstimates == [n \in MCNodes |-> IF n = n1 THEN {1, 2} ELSE {2}]
MCMaxPages == [n \in MCNodes |-> IF n = n1 THEN 2 ELSE 1]
=============================================================================
