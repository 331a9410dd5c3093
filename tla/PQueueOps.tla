----------------------------- MODULE PQueueOps -----------------------------
(***************************************************************************)
(* The operators of the bounded, merging priority queue of pqueue.rs.      *)
(*                                                                         *)
(* A queue is a record of the two structures behind its mutex:             *)
(*   index  : a function from an entry's hash to its weight (the entry     *)
(*            itself is its hash and its weight: the name a row prints is  *)
(*            determined by the hash);                                     *)
(*   sorted : a function from a weight to the set of hashes that have it.  *)
(*                                                                         *)
(* An operator whose name ends in _Fault is a plausible bug in the one     *)
(* that follows it; nothing uses it but the mutation runs.                 *)
(***************************************************************************)
EXTENDS Integers, FiniteSets, SequencesExt

CONSTANTS Sort,         \* "asc" or "desc": which end of the weights is wanted
          MaxSize,      \* the capacity; 0 stands for no bound
          Merge(_, _)   \* the weight of an entry after a second one is merged

ASSUME SortAssumption == Sort \in {"asc", "desc"}
ASSUME MaxSizeAssumption == MaxSize \in Nat

\* f with x mapped to v (BTreeMap::insert, HashMap::insert)
Put(f, x, v) == [y \in DOMAIN f \cup {x} |-> IF y = x THEN v ELSE f[y]]

\* f without x
Drop(f, x) == Restrict(f, DOMAIN f \ {x})

\* a belongs before b in the report
Better(a, b) == IF Sort = "asc" THEN a < b ELSE a > b

\* The memory set aside for a number of entries is not modelled: with_capacity, which
\* panics for a MaxSize near the end of u64.
New == [index |-> [h \in {} |-> 0], sorted |-> [w \in {} |-> {}]]

DeepCopy_Fault(q) == [q EXCEPT !.sorted = New.sorted]
DeepCopy(q) == q
-----------------------------------------------------------------------------
\* The two structures, one at a time.

RemoveSorted_Fault(s, w, h) ==    \* the emptied bucket stays
  IF w \in DOMAIN s THEN [s EXCEPT ![w] = @ \ {h}] ELSE s

RemoveSorted(s, w, h) ==
  IF w \notin DOMAIN s THEN s
  ELSE IF s[w] \ {h} = {} THEN Drop(s, w) ELSE [s EXCEPT ![w] = @ \ {h}]

InsertSorted_Fault(s, w, h) == Put(s, h, {w})    \* weight and hash swapped

InsertSorted(s, w, h) ==
  Put(s, w, {h} \cup (IF w \in DOMAIN s THEN s[w] ELSE {}))

\* The weights at either end of the order (BTreeMap::first and last_key_value).
BestWeights_Fault(s) == {w \in DOMAIN s : \A u \in DOMAIN s : ~Better(w, u)}
BestWeights(s) == {w \in DOMAIN s : \A u \in DOMAIN s : ~Better(u, w)}

WorstWeights_Fault(s) == BestWeights(s)
WorstWeights(s) == {w \in DOMAIN s : \A u \in DOMAIN s : ~Better(w, u)}

\* The entry a full queue would give up, as a set of at most one hash: the
\* largest hash of the worst bucket, if the index knows it.
Victims(q) ==
  {h \in DOMAIN q.index : \E w \in WorstWeights(q.sorted) :
                            /\ h \in q.sorted[w]
                            /\ \A g \in q.sorted[w] : g <= h}
-----------------------------------------------------------------------------
\* push_or_update, one operator per branch.

Full_Fault(q) == MaxSize # 0 /\ Cardinality(DOMAIN q.index) > MaxSize
Full(q) == MaxSize # 0 /\ Cardinality(DOMAIN q.index) >= MaxSize

Insert(q, h, w) == [index  |-> Put(q.index, h, w),
                    sorted |-> InsertSorted(q.sorted, w, h)]

Update_Fault(q, h, w) ==    \* the old weight's bucket keeps the hash
  LET new == Merge(q.index[h], w)
  IN  [index  |-> [q.index EXCEPT ![h] = new],
       sorted |-> InsertSorted(q.sorted, new, h)]

Update_Fault2(q, h, w) ==    \* the new value replaces the old one
  [index  |-> [q.index EXCEPT ![h] = w],
   sorted |-> InsertSorted(RemoveSorted(q.sorted, q.index[h], h), w, h)]

Update(q, h, w) ==
  LET old == q.index[h]
      new == Merge(old, w)
  IN  [index  |-> [q.index EXCEPT ![h] = new],
       sorted |-> InsertSorted(RemoveSorted(q.sorted, old, h), new, h)]

Evict(q, v) == [index  |-> Drop(q.index, v),
                sorted |-> RemoveSorted(q.sorted, q.index[v], v)]

PushOrUpdate_Fault(q, h, w) ==    \* evicts even for an entry that is worse
  IF h \in DOMAIN q.index THEN Update(q, h, w)
  ELSE IF Full(q) /\ Victims(q) # {}
       THEN Insert(Evict(q, CHOOSE v \in Victims(q) : TRUE), h, w)
       ELSE Insert(q, h, w)

PushOrUpdate(q, h, w) ==
  IF h \in DOMAIN q.index THEN Update(q, h, w)
  ELSE IF Full(q) /\ Victims(q) # {}
       THEN LET v == CHOOSE v \in Victims(q) : TRUE
            IN  IF Better(w, q.index[v]) THEN Insert(Evict(q, v), h, w) ELSE q
       ELSE Insert(q, h, w)

\* into_vec as a whole: the hashes in the order of the report, best weight
\* first and by hash within a weight.  PrioQueue does it bucket by bucket.
IntoVec(q) ==
  LET Before(g, h) == \/ Better(q.index[g], q.index[h])
                      \/ q.index[g] = q.index[h] /\ g < h
  IN  CHOOSE s \in SetToSeqs(DOMAIN q.index) :
        \A i, j \in DOMAIN s : i < j => Before(s[i], s[j])
-----------------------------------------------------------------------------
\* A queue of hashes from H with weights from W.
QueueType(q, W, H) == /\ q = [index |-> q.index, sorted |-> q.sorted]
                      /\ DOMAIN q.index \subseteq H
                      /\ q.index \in [DOMAIN q.index -> W]
                      /\ DOMAIN q.sorted \subseteq W
                      /\ q.sorted \in [DOMAIN q.sorted -> SUBSET H]

\* The two structures are inverses of each other and no bucket is empty.
Linked(q) ==
  /\ \A h \in DOMAIN q.index : /\ q.index[h] \in DOMAIN q.sorted
                               /\ h \in q.sorted[q.index[h]]
  /\ \A w \in DOMAIN q.sorted : /\ q.sorted[w] # {}
                                /\ \A h \in q.sorted[w] : /\ h \in DOMAIN q.index
                                                          /\ q.index[h] = w
=============================================================================
