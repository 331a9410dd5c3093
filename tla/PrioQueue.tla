----------------------------- MODULE PrioQueue -----------------------------
(***************************************************************************)
(* The life of the PrioQueue that the tasks of a command share: they push  *)
(* into it concurrently, each push under the mutex; main takes it once, by *)
(* moving it out of its Arc when no task holds a clone and by copying it   *)
(* when an interrupt made main stop waiting, in which case the tasks go on *)
(* pushing; and into_vec drains what was taken, one weight at a time.      *)
(***************************************************************************)
EXTENDS PQueueOps

CONSTANTS Hashes,      \* the identities of keys and groups, as their u64 hashes
          I64,         \* the weights an entry can have; a scaled-down i64
          Samples,     \* the weights a task can push
          MaxPushes    \* bounds the number of pushes

ASSUME HashesAssumption == Hashes \subseteq Int /\ IsFiniteSet(Hashes)
ASSUME WeightsAssumption == I64 \subseteq Int /\ Samples \subseteq I64
ASSUME MergeAssumption == \A a, b \in I64 : Merge(a, b) \in I64
ASSUME MaxPushesAssumption == MaxPushes \in Nat

VARIABLES q,          \* the shared queue
          writers,    \* some task still holds a clone of the Arc
          phase,      \* of main: "wait", "drain", "done"
          taken,      \* the queue into_vec consumes
          out,        \* the Vec it returns, entries as <<hash, weight>>
          \* history variables, which no step of the program reads
          pushes,     \* the number of pushes
          merged,     \* for every hash pushed, all its weights merged in order
          lost        \* the entries that were refused or evicted

vars == <<q, writers, phase, taken, out, pushes, merged, lost>>

Entries(f) == {<<h, f[h]>> : h \in DOMAIN f}
LostHashes == {e[1] : e \in lost}

Init == /\ q = New /\ taken = New
        /\ writers = TRUE
        /\ phase = "wait"
        /\ out = << >>
        /\ pushes = 0
        /\ merged = [h \in {} |-> 0]
        /\ lost = {}

\* The entries that a push makes disappear, the pushed one included.
Losses(before, after, h, w) ==
  {e \in Entries(before) \cup {<<h, w>>} : e[1] \notin DOMAIN after}

Push(h, w) ==
  /\ writers
  /\ pushes < MaxPushes
  /\ q' = PushOrUpdate(q, h, w)
  /\ pushes' = pushes + 1
  /\ merged' = Put(merged, h, IF h \in DOMAIN merged THEN Merge(merged[h], w) ELSE w)
  /\ lost' = lost \cup Losses(q.index, q'.index, h, w)
  /\ UNCHANGED <<writers, phase, taken, out>>

\* The last task returns and drops its clone of the state.
WritersDone == /\ writers
               /\ writers' = FALSE
               /\ UNCHANGED <<q, phase, taken, out, pushes, merged, lost>>

\* Arc::try_unwrap or deep_copy: with no writer left nobody sees q again.
Take == /\ phase = "wait"
        /\ phase' = "drain"
        /\ taken' = IF writers THEN DeepCopy(q) ELSE q
        /\ UNCHANGED <<q, writers, out, pushes, merged, lost>>

\* The ascending enumeration of a set of hashes (iterating a BTreeSet).
Ascending(S) == {s \in [1 .. Cardinality(S) -> S] :
                   \A i, j \in DOMAIN s : i < j => s[i] < s[j]}

\* An iteration of into_vec's loop.  With entries in the index and none in
\* sorted the code would loop for ever; here no step is possible then.
PopBucket ==
  /\ phase = "drain"
  /\ DOMAIN taken.index # {}
  /\ \E w \in BestWeights(taken.sorted) :
       LET bucket == taken.sorted[w] \cap DOMAIN taken.index
       IN  /\ \E s \in Ascending(bucket) :
                out' = out \o [i \in DOMAIN s |-> <<s[i], taken.index[s[i]]>>]
           /\ taken' = [index  |-> Restrict(taken.index, DOMAIN taken.index \ bucket),
                        sorted |-> Drop(taken.sorted, w)]
  /\ UNCHANGED <<q, writers, phase, pushes, merged, lost>>

Return == /\ phase = "drain"
          /\ DOMAIN taken.index = {}
          /\ phase' = "done"
          /\ UNCHANGED <<q, writers, taken, out, pushes, merged, lost>>

Next == \/ \E h \in Hashes, w \in Samples : Push(h, w)
        \/ WritersDone
        \/ Take
        \/ PopBucket
        \/ Return

\* The loop of into_vec waits for nobody: main runs it to its end.
Spec == Init /\ [][Next]_vars /\ WF_vars(PopBucket) /\ WF_vars(Return)
-----------------------------------------------------------------------------
\* The type invariant.
TypeOK == /\ QueueType(q, I64, Hashes) /\ QueueType(taken, I64, Hashes)
          /\ writers \in BOOLEAN
          /\ phase \in {"wait", "drain", "done"}
          /\ out \in Seq(Hashes \X I64)
          /\ pushes \in 0 .. MaxPushes
          /\ DOMAIN merged \subseteq Hashes
          /\ merged \in [DOMAIN merged -> I64]
          /\ lost \subseteq Hashes \X I64

\* index and sorted agree, in the shared queue after any interleaving of
\* pushes and in the taken one at every iteration of into_vec's loop: an entry
\* of one that the other lacks would be evicted wrongly or drained never.
QueueLinked == Linked(q) /\ Linked(taken)

\* The queue never outgrows its capacity, and gives nothing up before it is
\* full: push_or_update compares the length it read before the change.
RoomIsUsed == /\ MaxSize # 0 => Cardinality(DOMAIN q.index) <= MaxSize
              /\ lost # {} => Cardinality(DOMAIN q.index) = MaxSize /\ MaxSize # 0

\* No entry that was refused or evicted was better than one that is kept,
\* however long ago it was lost and whatever was pushed or merged since.
KeepsBest == \A e \in lost, h \in DOMAIN q.index : ~Better(e[2], q.index[h])

\* A hash that never lost its place has the merge of all that was pushed for
\* it, in the order of the pushes: only an eviction forgets.
ExactUnlessLost ==
  \A h \in DOMAIN merged \ LostHashes : h \in DOMAIN q.index /\ q.index[h] = merged[h]

\* The rows so far and the rest of the queue in the order of the report.
Ranking == [i \in DOMAIN out |-> out[i][1]] \o IntoVec(taken)

\* into_vec's loop, taking a bucket at a time, delivers exactly the sorted
\* entries: what is out and what is still to come never change order.
LoopComputesIntoVec == [][phase = "drain" => Ranking' = Ranking]_vars

\* into_vec ends, whatever the other tasks push meanwhile.
Drains == phase = "drain" ~> phase = "done"

\* The queue is the abstract bounded set of best entries, and its report the
\* abstract one.
Abstract == INSTANCE TopN WITH Ids <- Hashes, Values <- Samples, N <- MaxSize,
                               kept <- q.index, left <- taken.index, result <- out
RefinesTopN == Abstract!Spec

\* README.md:157 has --group-by "combine MEMORY USAGE results across keys, even
\* across cluster nodes": every kept entry would be the merge of all its pushes.
TotalsExact == \A h \in DOMAIN q.index : q.index[h] = merged[h]
=============================================================================
