-------------------------------- MODULE TopN --------------------------------
(***************************************************************************)
(* What a scan's result set promises, without the structures that keep it: *)
(* entries are merged by identity, at most N of them are kept, and one is  *)
(* given up only for lack of room and only if no kept one is worse.  The   *)
(* report is a snapshot, delivered best entries first.                     *)
(***************************************************************************)
EXTENDS Integers, FiniteSets, SequencesExt

CONSTANTS Ids, Values, N, Better(_, _), Merge(_, _)

VARIABLES kept,      \* a function from some of Ids to their values
          left,      \* the part of the snapshot not reported yet
          result     \* the sequence of <<id, value>> reported

vars == <<kept, left, result>>

Init == /\ kept = [i \in {} |-> 0]
        /\ left = [i \in {} |-> 0]
        /\ result = << >>

\* The entries of f that no other entry of f is worse than.
WorstOf(f) == {i \in DOMAIN f : \A j \in DOMAIN f : ~Better(f[i], f[j])}
BestOf(f)  == {i \in DOMAIN f : \A j \in DOMAIN f : ~Better(f[j], f[i])}

With(i, v) == [j \in DOMAIN kept \cup {i} |-> IF j = i THEN v ELSE kept[j]]
Without(f, i) == [j \in DOMAIN f \ {i} |-> f[j]]

Combine(i, v) == /\ i \in DOMAIN kept
                 /\ kept' = [kept EXCEPT ![i] = Merge(@, v)]

Grow(i, v) == /\ i \notin DOMAIN kept
              /\ N = 0 \/ Cardinality(DOMAIN kept) < N
              /\ kept' = With(i, v)

\* One more entry than fits: any of the worst goes, the new one included.
Compete(i, v) == /\ i \notin DOMAIN kept
                 /\ N # 0 /\ Cardinality(DOMAIN kept) = N
                 /\ \E j \in WorstOf(With(i, v)) : kept' = Without(With(i, v), j)

Add(i, v) == (Combine(i, v) \/ Grow(i, v) \/ Compete(i, v)) /\ UNCHANGED <<left, result>>

Snapshot == /\ DOMAIN left = {} /\ result = << >>
            /\ left' = kept
            /\ UNCHANGED <<kept, result>>

\* Every entry that ties for best is reported together, in some order.
Report == /\ DOMAIN left # {}
          /\ left' = Restrict(left, DOMAIN left \ BestOf(left))
          /\ \E ids \in SetToSeqs(BestOf(left)) :
                result' = result \o [n \in DOMAIN ids |-> <<ids[n], left[ids[n]]>>]
          /\ UNCHANGED kept

Next == (\E i \in Ids, v \in Values : Add(i, v)) \/ Snapshot \/ Report

Spec == Init /\ [][Next]_vars
=============================================================================
