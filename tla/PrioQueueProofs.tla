-------------------------- MODULE PrioQueueProofs --------------------------
(***************************************************************************)
(* What the shared queue guarantees for any number of hashes, weights and  *)
(* pushes, any capacity, either order and any way of merging; that it      *)
(* implements the abstract bounded set of best entries.                    *)
(***************************************************************************)
EXTENDS PrioQueue, PQueueOpsProofs, SequenceTheorems

LEMMA TheDomains == Domains(I64, Hashes)
  BY HashesAssumption, WeightsAssumption, MergeAssumption DEF Domains, MergeClosed

\* The step of a push, in terms of the index alone.
LEMMA PushIs ==
  ASSUME TypeOK, Linked(q), NEW h \in Hashes, NEW w \in Samples, Push(h, w)
  PROVE  /\ QueueType(q', I64, Hashes) /\ Linked(q')
         /\ Outcome(q, h, w, q')
<1>1. w \in I64 /\ h \in Hashes /\ QueueType(q, I64, Hashes) /\ Linked(q)
  BY WeightsAssumption DEF TypeOK
<1>2. q' = PushOrUpdate(q, h, w)
  BY DEF Push
<1>3. QED
  BY <1>1, <1>2, TheDomains, PushOrUpdateIs
-----------------------------------------------------------------------------
\* Types and the agreement of the structures are inductive together.
StructureInv == TypeOK /\ QueueLinked

LEMMA NewIsQueue ==
  ASSUME NEW W, NEW H
  PROVE  QueueType(New, W, H) /\ Linked(New) /\ DOMAIN New.index = {}
BY DEF QueueType, Linked, New

LEMMA StructureInit == Init => StructureInv
<1> SUFFICES ASSUME Init PROVE StructureInv
  OBVIOUS
<1>1. /\ QueueType(q, I64, Hashes) /\ QueueType(taken, I64, Hashes)
      /\ Linked(q) /\ Linked(taken)
  BY NewIsQueue DEF Init
<1>2. /\ writers \in BOOLEAN /\ phase \in {"wait", "drain", "done"}
      /\ out \in Seq(Hashes \X I64) /\ pushes \in 0 .. MaxPushes
      /\ DOMAIN merged \subseteq Hashes /\ merged \in [DOMAIN merged -> I64]
      /\ lost \subseteq Hashes \X I64
  BY MaxPushesAssumption DEF Init
<1>3. QED
  BY <1>1, <1>2 DEF StructureInv, TypeOK, QueueLinked

LEMMA StructurePush ==
  ASSUME StructureInv, NEW h \in Hashes, NEW w \in Samples, Push(h, w)
  PROVE  StructureInv'
<1> USE DEF StructureInv
<1>1. QueueType(q', I64, Hashes) /\ Linked(q')
  BY PushIs DEF QueueLinked
<1>2. taken' = taken /\ writers' = writers /\ phase' = phase /\ out' = out
  BY DEF Push
<1>3. pushes' \in 0 .. MaxPushes
  BY MaxPushesAssumption DEF Push, TypeOK
<1>4. DOMAIN merged' \subseteq Hashes /\ merged' \in [DOMAIN merged' -> I64]
  <2> DEFINE m == IF h \in DOMAIN merged THEN Merge(merged[h], w) ELSE w
  <2>1. m \in I64
    BY WeightsAssumption, MergeAssumption DEF TypeOK
  <2>2. merged' = [g \in DOMAIN merged \cup {h} |-> IF g = h THEN m ELSE merged[g]]
    BY DEF Push, Put
  <2> HIDE DEF m
  <2>3. QED
    BY <2>1, <2>2 DEF TypeOK
<1>5. lost' \subseteq Hashes \X I64
  BY WeightsAssumption DEF Push, TypeOK, Losses, Entries, QueueType
<1>6. QED
  BY <1>1, <1>2, <1>3, <1>4, <1>5 DEF TypeOK, QueueLinked

LEMMA StructurePop ==
  ASSUME StructureInv, PopBucket
  PROVE  StructureInv'
<1> USE DEF StructureInv
<1>1. PICK w \in BestWeights(taken.sorted) :
        LET bucket == taken.sorted[w] \cap DOMAIN taken.index
        IN  /\ \E s \in Ascending(bucket) :
                 out' = out \o [i \in DOMAIN s |-> <<s[i], taken.index[s[i]]>>]
            /\ taken' = [index  |-> Restrict(taken.index, DOMAIN taken.index \ bucket),
                         sorted |-> Drop(taken.sorted, w)]
  BY DEF PopBucket
<1> DEFINE B == taken.sorted[w] \cap DOMAIN taken.index
<1>2. QueueType(taken, I64, Hashes) /\ Linked(taken) /\ w \in DOMAIN taken.sorted
  BY DEF TypeOK, QueueLinked, BestWeights
<1>3. QueueType(taken', I64, Hashes) /\ Linked(taken')
  <2> DEFINE i == Restrict(taken.index, DOMAIN taken.index \ B)
             s == Drop(taken.sorted, w)
  <2>1. taken' = [index |-> i, sorted |-> s]
    BY <1>1
  <2>2. /\ DOMAIN i = DOMAIN taken.index \ B /\ DOMAIN i \subseteq Hashes
        /\ i \in [DOMAIN i -> I64]
        /\ \A h \in DOMAIN i : i[h] = taken.index[h]
    BY <1>2 DEF Restrict, QueueType
  <2>3. /\ DOMAIN s = DOMAIN taken.sorted \ {w}
        /\ \A u \in DOMAIN s : s[u] = taken.sorted[u]
        /\ SortedType(s, I64, Hashes)
    BY <1>2 DEF Drop, Restrict, QueueType, SortedType
  <2> HIDE DEF i, s
  <2>4. NoEmptyBucket(s)
    BY <1>2, <2>3 DEF NoEmptyBucket, Linked
  <2>5. \A u, h : In(s, u, h) <=> h \in DOMAIN i /\ i[h] = u
    BY <1>2, <2>2, <2>3 DEF In, Linked
  <2>6. QED
    BY <2>1, <2>2, <2>3, <2>4, <2>5, QueueOf
<1>4. out' \in Seq(Hashes \X I64)
  <2>1. PICK s \in Ascending(B) :
          out' = out \o [i \in DOMAIN s |-> <<s[i], taken.index[s[i]]>>]
    BY <1>1
  <2>2. Cardinality(B) \in Nat
    <3>1. B \in SUBSET Hashes
      BY <1>2 DEF QueueType
    <3>2. QED
      BY <3>1, HashesAssumption, FS_Subset, FS_CardinalityType
  <2> DEFINE n == Cardinality(B)
             r == [i \in DOMAIN s |-> <<s[i], taken.index[s[i]]>>]
  <2>3. s \in [1 .. n -> B]
    BY DEF Ascending
  <2>4. r \in [1 .. n -> Hashes \X I64]
    BY <1>2, <2>3 DEF QueueType
  <2> HIDE DEF n, r
  <2>5. r \in Seq(Hashes \X I64)
    <3>1. n \in Nat
      BY <2>2 DEF n
    <3>2. r \in UNION {[1 .. m -> Hashes \X I64] : m \in Nat}
      BY <2>4, <3>1
    <3>3. QED
      BY <3>2, SeqDef
  <2>6. QED
    BY <2>1, <2>5, ConcatProperties DEF TypeOK, r
<1>5. UNCHANGED <<q, writers, phase, pushes, merged, lost>>
  BY DEF PopBucket
<1>6. QED
  BY <1>3, <1>4, <1>5 DEF TypeOK, QueueLinked

LEMMA StructureStep == StructureInv /\ [Next]_vars => StructureInv'
<1> SUFFICES ASSUME StructureInv, [Next]_vars PROVE StructureInv'
  OBVIOUS
<1>1. CASE \E h \in Hashes, w \in Samples : Push(h, w)
  BY <1>1, StructurePush
<1>2. CASE WritersDone
  BY <1>2 DEF WritersDone, StructureInv, TypeOK, QueueLinked
<1>3. CASE Take
  BY <1>3 DEF Take, DeepCopy, StructureInv, TypeOK, QueueLinked
<1>4. CASE PopBucket
  BY <1>4, StructurePop
<1>5. CASE Return
  BY <1>5 DEF Return, StructureInv, TypeOK, QueueLinked
<1>6. CASE UNCHANGED vars
  BY <1>6 DEF vars, StructureInv, TypeOK, QueueLinked
<1>7. QED
  BY <1>1, <1>2, <1>3, <1>4, <1>5, <1>6 DEF Next

LEMMA StructureAlways == Spec => []StructureInv
  BY StructureInit, StructureStep, PTL DEF Spec

\* Every variable keeps its type.
THEOREM TypeCorrect == Spec => []TypeOK
<1>1. StructureInv => TypeOK
  BY DEF StructureInv
<1>2. QED
  BY <1>1, StructureAlways, PTL

\* index and sorted agree after any interleaving of pushes and at every
\* iteration of into_vec's loop, which therefore never spins.
THEOREM StructuresAgree == Spec => []QueueLinked
<1>1. StructureInv => QueueLinked
  BY DEF StructureInv
<1>2. QED
  BY <1>1, StructureAlways, PTL
-----------------------------------------------------------------------------
\* What a push loses: nothing, unless the queue is full; then one entry, the
\* pushed one or one that no kept one was worse than.
LossOf(h, w) ==
  \/ /\ lost' = lost
     /\ \/ /\ h \in DOMAIN q.index /\ DOMAIN q'.index = DOMAIN q.index
           /\ q'.index[h] = Merge(q.index[h], w)
        \/ /\ h \notin DOMAIN q.index /\ DOMAIN q'.index = DOMAIN q.index \cup {h}
           /\ ~(Full(q) /\ DOMAIN q.index # {})
           /\ q'.index[h] = w
     /\ \A g \in DOMAIN q.index : g # h => q'.index[g] = q.index[g]
  \/ /\ h \notin DOMAIN q.index /\ Full(q)
     /\ \E v \in DOMAIN q.index :
          /\ \A g \in DOMAIN q.index : ~Better(q.index[v], q.index[g])
          /\ \/ /\ Better(w, q.index[v])
                /\ lost' = lost \cup {<<v, q.index[v]>>}
                /\ DOMAIN q'.index = (DOMAIN q.index \ {v}) \cup {h}
                /\ q'.index[h] = w
                /\ \A g \in DOMAIN q.index \ {v} : q'.index[g] = q.index[g]
             \/ /\ ~Better(w, q.index[v])
                /\ lost' = lost \cup {<<h, w>>}
                /\ q'.index = q.index

LEMMA PushLoses ==
  ASSUME StructureInv, NEW h \in Hashes, NEW w \in Samples, Push(h, w)
  PROVE  LossOf(h, w)
<1>1. Outcome(q, h, w, q') /\ q.index \in [DOMAIN q.index -> I64]
  BY PushIs DEF StructureInv, QueueLinked, TypeOK, QueueType
<1>2. lost' = lost \cup Losses(q.index, q'.index, h, w)
  BY DEF Push
<1> USE DEF Losses, Entries
<1>3. CASE h \in DOMAIN q.index /\ q'.index = [q.index EXCEPT ![h] = Merge(q.index[h], w)]
  <2>1. /\ DOMAIN q'.index = DOMAIN q.index
        /\ q'.index[h] = Merge(q.index[h], w)
        /\ \A g \in DOMAIN q.index : g # h => q'.index[g] = q.index[g]
    BY <1>3
  <2>2. Losses(q.index, q'.index, h, w) = {}
    BY <1>3, <2>1
  <2>3. QED
    BY <1>2, <1>3, <2>1, <2>2 DEF LossOf
<1>4. CASE /\ h \notin DOMAIN q.index /\ ~(Full(q) /\ DOMAIN q.index # {})
           /\ q'.index = Put(q.index, h, w)
  <2>1. /\ DOMAIN q'.index = DOMAIN q.index \cup {h}
        /\ q'.index[h] = w
        /\ \A g \in DOMAIN q.index : g # h => q'.index[g] = q.index[g]
    BY <1>4 DEF Put
  <2>2. Losses(q.index, q'.index, h, w) = {}
    BY <2>1
  <2>3. QED
    BY <1>2, <1>4, <2>1, <2>2 DEF LossOf
<1>5. CASE /\ h \notin DOMAIN q.index /\ Full(q)
           /\ \E v \in DOMAIN q.index :
                /\ \A g \in DOMAIN q.index : ~Better(q.index[v], q.index[g])
                /\ \/ Better(w, q.index[v]) /\ q'.index = Put(Drop(q.index, v), h, w)
                   \/ ~Better(w, q.index[v]) /\ q'.index = q.index
  <2>1. PICK v \in DOMAIN q.index :
          /\ \A g \in DOMAIN q.index : ~Better(q.index[v], q.index[g])
          /\ \/ Better(w, q.index[v]) /\ q'.index = Put(Drop(q.index, v), h, w)
             \/ ~Better(w, q.index[v]) /\ q'.index = q.index
    BY <1>5
  <2>2. CASE Better(w, q.index[v]) /\ q'.index = Put(Drop(q.index, v), h, w)
    <3>1. /\ DOMAIN q'.index = (DOMAIN q.index \ {v}) \cup {h}
          /\ q'.index[h] = w
          /\ \A g \in DOMAIN q.index \ {v} : q'.index[g] = q.index[g]
      BY <1>5, <2>2 DEF Put, Drop, Restrict
    <3>2. Losses(q.index, q'.index, h, w) = {<<v, q.index[v]>>}
      BY <1>5, <3>1
    <3>3. QED
      BY <1>2, <1>5, <2>1, <2>2, <3>1, <3>2 DEF LossOf
  <2>3. CASE ~Better(w, q.index[v]) /\ q'.index = q.index
    <3>1. Losses(q.index, q'.index, h, w) = {<<h, w>>}
      BY <1>5, <2>3
    <3>2. QED
      BY <1>2, <1>5, <2>1, <2>3, <3>1 DEF LossOf
  <2>4. QED
    BY <2>1, <2>2, <2>3
<1>6. QED
  BY <1>1, <1>3, <1>4, <1>5 DEF Outcome
-----------------------------------------------------------------------------
\* No step but a push changes the shared queue or what it lost.
LEMMA OtherSteps ==
  ASSUME [Next]_vars, \A h \in Hashes, w \in Samples : ~Push(h, w)
  PROVE  UNCHANGED <<q, lost, merged>>
BY DEF Next, WritersDone, Take, PopBucket, Return, vars

LEMMA RoomStep == StructureInv /\ RoomIsUsed /\ [Next]_vars => RoomIsUsed'
<1> SUFFICES ASSUME StructureInv, RoomIsUsed, [Next]_vars PROVE RoomIsUsed'
  OBVIOUS
<1>1. CASE UNCHANGED <<q, lost, merged>>
  BY <1>1 DEF RoomIsUsed
<1>2. ASSUME NEW h \in Hashes, NEW w \in Samples, Push(h, w)
      PROVE  RoomIsUsed'
  <2> DEFINE D == DOMAIN q.index
  <2>1. IsFiniteSet(D) /\ Cardinality(D) \in Nat
    BY HashesAssumption, FS_Subset, FS_CardinalityType
       DEF StructureInv, TypeOK, QueueType
  <2>2. LossOf(h, w)
    BY <1>2, PushLoses
  <2>3. Full(q) <=> MaxSize # 0 /\ Cardinality(D) >= MaxSize
    BY DEF Full
  <2>4. CASE lost' = lost /\ DOMAIN q'.index = D
    BY <2>4 DEF RoomIsUsed
  <2>5. CASE /\ lost' = lost /\ h \notin D /\ DOMAIN q'.index = D \cup {h}
             /\ ~(Full(q) /\ D # {})
    <3>1. Cardinality(D \cup {h}) = Cardinality(D) + 1
      BY <2>1, <2>5, FS_AddElement
    <3>2. D = {} <=> Cardinality(D) = 0
      BY <2>1, FS_EmptySet
    <3> HIDE DEF D
    <3>3. MaxSize # 0 => Cardinality(D) < MaxSize
      BY <2>1, <2>3, <2>5, <3>2, MaxSizeAssumption
    <3>4. lost = {}
      BY <2>1, <3>3, MaxSizeAssumption DEF RoomIsUsed, D
    <3>5. QED
      BY <2>1, <2>5, <3>1, <3>3, <3>4, MaxSizeAssumption DEF RoomIsUsed
  <2>6. CASE /\ h \notin D /\ Full(q)
             /\ \E v \in D : DOMAIN q'.index = (D \ {v}) \cup {h}
    <3>1. PICK v \in D : DOMAIN q'.index = (D \ {v}) \cup {h}
      BY <2>6
    <3>2. IsFiniteSet(D \ {v}) /\ Cardinality(D \ {v}) = Cardinality(D) - 1
      BY <2>1, FS_RemoveElement
    <3>3. Cardinality((D \ {v}) \cup {h}) = Cardinality(D)
      <4> DEFINE E == D \ {v}
      <4>1. h \notin E
        BY <2>6
      <4>2. IsFiniteSet(E) /\ Cardinality(E) = Cardinality(D) - 1
        BY <3>2
      <4> HIDE DEF E
      <4>3. Cardinality(E \cup {h}) = Cardinality(E) + 1
        BY <4>1, <4>2, FS_AddElement
      <4>4. Cardinality(E \cup {h}) = Cardinality(D)
        BY <2>1, <4>2, <4>3
      <4>5. QED
        BY <4>4 DEF E
    <3>4. Cardinality(D) = MaxSize /\ MaxSize # 0
      BY <2>1, <2>3, <2>6, MaxSizeAssumption DEF RoomIsUsed
    <3>5. QED
      BY <3>1, <3>3, <3>4, MaxSizeAssumption DEF RoomIsUsed
  <2>7. CASE h \notin D /\ Full(q) /\ q'.index = q.index
    BY <2>1, <2>3, <2>7, MaxSizeAssumption DEF RoomIsUsed
  <2>8. QED
    BY <2>2, <2>4, <2>5, <2>6, <2>7 DEF LossOf
<1>3. QED
  BY <1>1, <1>2, OtherSteps

\* The queue never outgrows its capacity and loses nothing before it is full.
THEOREM RoomAlwaysUsed == Spec => []RoomIsUsed
<1>1. Init => RoomIsUsed
  <2>1. DOMAIN New.index = {} /\ Cardinality({}) = 0
    BY NewIsQueue, FS_EmptySet
  <2> DEFINE c == Cardinality(DOMAIN q.index)
  <2>2. SUFFICES ASSUME Init PROVE c = 0 /\ lost = {}
    <3>1. c = 0 => (MaxSize # 0 => c <= MaxSize)
      BY MaxSizeAssumption
    <3>2. QED
      BY <3>1 DEF RoomIsUsed
  <2>3. QED
    BY <2>1, <2>2 DEF Init
<1>2. QED
  BY <1>1, RoomStep, StructureAlways, PTL DEF Spec
-----------------------------------------------------------------------------
\* Merging a pushed weight into an entry does not make it worse: true of the
\* first-wins merge of idle and ttl in either order.  For the sums of memory and
\* sum it holds of positive values under --sort desc if sums cannot overflow
\* (I64 = Nat, Merge = +), and fails otherwise: see TotalsExact.
MergeNeverWorsens == \A a \in I64, b \in Samples : ~Better(a, Merge(a, b))

LEMMA BestStep ==
  MergeNeverWorsens =>
    (StructureInv /\ RoomIsUsed /\ KeepsBest /\ [Next]_vars => KeepsBest')
<1> SUFFICES ASSUME MergeNeverWorsens, StructureInv, RoomIsUsed, KeepsBest, [Next]_vars
             PROVE  KeepsBest'
  OBVIOUS
<1>1. CASE UNCHANGED <<q, lost, merged>>
  BY <1>1 DEF KeepsBest
<1>2. ASSUME NEW h \in Hashes, NEW w \in Samples, Push(h, w)
      PROVE  KeepsBest'
  <2> DEFINE D == DOMAIN q.index
  <2>1. /\ w \in Int /\ w \in I64 /\ I64 \subseteq Int
        /\ \A g \in D : q.index[g] \in I64 /\ q.index[g] \in Int
        /\ \A e \in lost : e[2] \in Int
    BY WeightsAssumption DEF StructureInv, TypeOK, QueueType
  <2>2. LossOf(h, w)
    BY <1>2, PushLoses
  <2>3. CASE /\ lost' = lost /\ h \in D /\ DOMAIN q'.index = D
             /\ q'.index[h] = Merge(q.index[h], w)
             /\ \A g \in D : g # h => q'.index[g] = q.index[g]
    <3>1. ~Better(q.index[h], q'.index[h]) /\ q'.index[h] \in Int
      BY <2>1, <2>3, MergeAssumption DEF MergeNeverWorsens
    <3>2. ASSUME NEW e \in lost, NEW g \in D
          PROVE  ~Better(e[2], q'.index[g])
      <4>1. ~Better(e[2], q.index[g])
        BY DEF KeepsBest
      <4>2. CASE g # h
        BY <2>3, <4>1, <4>2
      <4>3. CASE g = h
        BY <2>1, <3>1, <4>1, <4>3, BetterOrder
      <4>4. QED
        BY <4>2, <4>3
    <3>3. QED
      BY <2>3, <3>2 DEF KeepsBest
  <2>4. CASE /\ lost' = lost /\ ~(Full(q) /\ D # {})
    <3>1. lost = {}
      <4>1. lost # {} => Cardinality(D) = MaxSize /\ MaxSize # 0 /\ D # {}
        BY FS_EmptySet DEF RoomIsUsed
      <4>2. QED
        BY <2>4, <4>1, MaxSizeAssumption DEF Full
    <3>2. QED
      BY <2>4, <3>1 DEF KeepsBest
  <2>5. ASSUME NEW v \in D, h \notin D,
               \A g \in D : ~Better(q.index[v], q.index[g]),
               Better(w, q.index[v]),
               lost' = lost \cup {<<v, q.index[v]>>},
               DOMAIN q'.index = (D \ {v}) \cup {h},
               q'.index[h] = w,
               \A g \in D \ {v} : q'.index[g] = q.index[g]
        PROVE  KeepsBest'
    <3>1. ASSUME NEW e \in lost', NEW g \in DOMAIN q'.index
          PROVE  ~Better(e[2], q'.index[g])
      <4>1. ~Better(e[2], q.index[v]) /\ e[2] \in Int
        BY <2>1, <2>5, BetterOrder DEF KeepsBest
      <4>2. CASE g = h
        BY <2>1, <2>5, <4>1, <4>2, BetterOrder
      <4>3. CASE g \in D \ {v}
        BY <2>1, <2>5, <4>1, <4>3, BetterOrder
      <4>4. QED
        BY <2>5, <4>2, <4>3
    <3>2. QED
      BY <3>1 DEF KeepsBest
  <2>6. ASSUME NEW v \in D,
               \A g \in D : ~Better(q.index[v], q.index[g]),
               ~Better(w, q.index[v]),
               lost' = lost \cup {<<h, w>>},
               q'.index = q.index
        PROVE  KeepsBest'
    <3>1. ASSUME NEW e \in lost', NEW g \in D
          PROVE  ~Better(e[2], q.index[g])
      <4>1. CASE e \in lost
        BY <4>1 DEF KeepsBest
      <4>2. CASE e = <<h, w>>
        BY <2>1, <2>6, <4>2, BetterOrder
      <4>3. QED
        BY <2>6, <4>1, <4>2
    <3>2. QED
      BY <2>6, <3>1 DEF KeepsBest
  <2>7. QED
    BY <2>2, <2>3, <2>4, <2>5, <2>6 DEF LossOf
<1>3. QED
  BY <1>1, <1>2, OtherSteps

\* Nothing that was refused or evicted was better than what is kept.
THEOREM BestAlwaysKept ==
  ASSUME MergeNeverWorsens
  PROVE  Spec => []KeepsBest
<1>1. Init => KeepsBest
  BY DEF Init, KeepsBest
<1>2. StructureInv /\ RoomIsUsed /\ KeepsBest /\ [Next]_vars => KeepsBest'
  BY BestStep
<1>3. QED
  BY <1>1, <1>2, StructureAlways, RoomAlwaysUsed, PTL DEF Spec
-----------------------------------------------------------------------------
\* Every kept hash was pushed: without it ExactUnlessLost is not inductive, as
\* the merge of a hash's next weight could start from nothing.
KeptWerePushed == DOMAIN q.index \subseteq DOMAIN merged

LEMMA LostIsLost ==
  ASSUME NEW x, NEW y, <<x, y>> \in lost'
  PROVE  x \in LostHashes'
<1> DEFINE e == <<x, y>>
<1>1. e[1] = x /\ e \in lost'
  OBVIOUS
<1>2. QED
  BY <1>1 DEF LostHashes

LEMMA ExactStep ==
  StructureInv /\ KeptWerePushed /\ ExactUnlessLost /\ [Next]_vars
    => KeptWerePushed' /\ ExactUnlessLost'
<1> SUFFICES ASSUME StructureInv, KeptWerePushed, ExactUnlessLost, [Next]_vars
             PROVE  KeptWerePushed' /\ ExactUnlessLost'
  OBVIOUS
<1>1. CASE UNCHANGED <<q, lost, merged>>
  BY <1>1 DEF KeptWerePushed, ExactUnlessLost, LostHashes
<1>2. ASSUME NEW h \in Hashes, NEW w \in Samples, Push(h, w)
      PROVE  KeptWerePushed' /\ ExactUnlessLost'
  <2> DEFINE D == DOMAIN q.index
             M == DOMAIN merged
  <2>1. /\ DOMAIN merged' = M \cup {h}
        /\ merged'[h] = IF h \in M THEN Merge(merged[h], w) ELSE w
        /\ \A g \in M : g # h => merged'[g] = merged[g]
    BY <1>2 DEF Push, Put
  <2>2. LossOf(h, w)
    BY <1>2, PushLoses
  <2>3. DOMAIN q'.index \subseteq D \cup {h}
    BY <2>2 DEF LossOf
  <2>4. KeptWerePushed'
    BY <2>1, <2>3 DEF KeptWerePushed
  <2>5. D \subseteq M /\ \A g \in M : g \notin LostHashes => g \in D /\ q.index[g] = merged[g]
    BY DEF KeptWerePushed, ExactUnlessLost
  <2>6. SUFFICES ASSUME NEW g \in M \cup {h}, g \notin LostHashes'
                 PROVE  g \in DOMAIN q'.index /\ q'.index[g] = merged'[g]
    BY <2>1, <2>4 DEF ExactUnlessLost
  <2>7. g \notin LostHashes
    BY <2>2, <2>6 DEF LossOf, LostHashes
  <2>8. CASE /\ h \in D /\ DOMAIN q'.index = D
             /\ q'.index[h] = Merge(q.index[h], w)
             /\ \A k \in D : k # h => q'.index[k] = q.index[k]
    BY <2>1, <2>5, <2>7, <2>8
  <2>9. CASE /\ h \notin D /\ DOMAIN q'.index = D \cup {h}
             /\ q'.index[h] = w
             /\ \A k \in D : k # h => q'.index[k] = q.index[k]
    BY <2>1, <2>5, <2>7, <2>9
  <2>10. ASSUME NEW v \in D, h \notin D,
                lost' = lost \cup {<<v, q.index[v]>>},
                DOMAIN q'.index = (D \ {v}) \cup {h},
                q'.index[h] = w,
                \A k \in D \ {v} : q'.index[k] = q.index[k]
         PROVE  g \in DOMAIN q'.index /\ q'.index[g] = merged'[g]
    <3>1. v \in LostHashes'
      BY <2>10, LostIsLost
    <3>2. QED
      BY <2>1, <2>5, <2>6, <2>7, <2>10, <3>1
  <2>11. ASSUME lost' = lost \cup {<<h, w>>}, q'.index = q.index
         PROVE  g \in DOMAIN q'.index /\ q'.index[g] = merged'[g]
    <3>1. h \in LostHashes'
      BY <2>11, LostIsLost
    <3>2. QED
      BY <2>1, <2>5, <2>6, <2>7, <2>11, <3>1
  <2>12. QED
    BY <2>2, <2>8, <2>9, <2>10, <2>11 DEF LossOf
<1>3. QED
  BY <1>1, <1>2, OtherSteps

\* Nothing but losing its place makes an entry differ from the merge, in order,
\* of everything that was pushed for it.
THEOREM ExactWhenNeverLost == Spec => []ExactUnlessLost
<1>1. Init => KeptWerePushed /\ ExactUnlessLost
  BY DEF Init, New, KeptWerePushed, ExactUnlessLost
<1>2. QED
  BY <1>1, ExactStep, StructureAlways, PTL DEF Spec
-----------------------------------------------------------------------------
\* The drain: what into_vec has out and what is still inside always add up to
\* the same list.

\* A function on 1 .. n is a sequence of length n.
LEMMA ArrayIsSeq ==
  ASSUME NEW S, NEW n \in Nat, NEW t \in [1 .. n -> S]
  PROVE  t \in Seq(S) /\ Len(t) = n
<1>1. t = [x \in 1 .. n |-> t[x]] /\ \A x \in 1 .. n : t[x] \in S
  OBVIOUS
<1>2. [x \in 1 .. n |-> t[x]] \in Seq(S)
  BY <1>1
<1>3. Len([x \in 1 .. n |-> t[x]]) = n
  BY <1>1, <1>2
<1> QED
  BY <1>1, <1>2, <1>3

\* Concatenation as a function.
LEMMA ConcatArrays ==
  ASSUME NEW S, NEW s \in Seq(S), NEW t \in Seq(S),
         NEW m, NEW n, Len(s) = m, Len(t) = n
  PROVE  /\ s \o t \in [1 .. m + n -> S]
         /\ \A x \in 1 .. m + n : (s \o t)[x] = IF x <= m THEN s[x] ELSE t[x - m]
<1>1. /\ s \o t \in Seq(S) /\ Len(s \o t) = m + n
      /\ \A x \in 1 .. m + n : (s \o t)[x] = IF x <= m THEN s[x] ELSE t[x - m]
  BY ConcatProperties
<1> DEFINE u == s \o t
<1> HIDE DEF u
<1>2. u \in Seq(S) /\ Len(u) = m + n
  BY <1>1 DEF u
<1>3. u \in [1 .. Len(u) -> S]
  BY <1>2, LenProperties
<1> QED
  BY <1>1, <1>2, <1>3 DEF u

\* Where the brackets are does not matter.
LEMMA ConcatOfInts ==
  ASSUME NEW a \in Seq(Int), NEW b \in Seq(Int), NEW c \in Seq(Int)
  PROVE  (a \o b) \o c = a \o (b \o c)
BY ConcatAssociative

\* The first components of a sequence of pairs.
Firsts(a) == [x \in DOMAIN a |-> a[x][1]]

\* Taking first components commutes with concatenation.
LEMMA FirstsOfConcat ==
  ASSUME NEW P, NEW a \in Seq(P), NEW b \in Seq(P)
  PROVE  Firsts(a \o b) = Firsts(a) \o Firsts(b)
<1> DEFINE S == {p[1] : p \in P}
           m == Len(a)
           n == Len(b)
           fa == [x \in 1 .. m |-> a[x][1]]
           fb == [x \in 1 .. n |-> b[x][1]]
<1>1. m \in Nat /\ n \in Nat /\ DOMAIN a = 1 .. m /\ DOMAIN b = 1 .. n
      /\ (\A x \in 1 .. m : a[x][1] \in S) /\ (\A x \in 1 .. n : b[x][1] \in S)
  OBVIOUS
<1>2. /\ DOMAIN (a \o b) = 1 .. m + n
      /\ \A x \in 1 .. m + n : (a \o b)[x] = IF x <= m THEN a[x] ELSE b[x - m]
  BY ConcatArrays
<1> HIDE DEF m, n, S
<1>3. fa \in [1 .. m -> S] /\ fb \in [1 .. n -> S]
  BY <1>1
<1>4. fa \in Seq(S) /\ fb \in Seq(S) /\ Len(fa) = m /\ Len(fb) = n
  BY <1>1, <1>3, ArrayIsSeq
<1>5. /\ fa \o fb \in [1 .. m + n -> S]
      /\ \A x \in 1 .. m + n : (fa \o fb)[x] = IF x <= m THEN fa[x] ELSE fb[x - m]
  <2> HIDE DEF fa, fb
  <2> QED
    BY <1>4, ConcatArrays
<1>6. \A x \in 1 .. m + n : (a \o b)[x][1] = (fa \o fb)[x]
  <2> TAKE x \in 1 .. m + n
  <2> (x <= m => x \in 1 .. m) /\ (~(x <= m) => x - m \in 1 .. n)
    BY <1>1
  <2> DEFINE c == fa \o fb
             d == a \o b
  <2>1. c[x] = IF x <= m THEN fa[x] ELSE fb[x - m]
    BY <1>5
  <2>2. d[x] = IF x <= m THEN a[x] ELSE b[x - m]
    BY <1>2
  <2> HIDE DEF c, d
  <2>3. c[x] = d[x][1]
    BY <2>1, <2>2
  <2> QED
    BY <2>3 DEF c, d
<1>7. fa \o fb = [x \in 1 .. m + n |-> (fa \o fb)[x]]
  BY <1>5
<1>8. [x \in DOMAIN (a \o b) |-> (a \o b)[x][1]] = fa \o fb
  BY <1>2, <1>6, <1>7
<1> QED
  BY <1>1, <1>8 DEF Firsts

\* A list of the best bucket followed by one of the rest is one of the whole.
LEMMA ListInTwoParts ==
  ASSUME NEW D, IsFiniteSet(D), D \subseteq Int, NEW i, i \in [D -> Int],
         NEW B, B \subseteq D, NEW j, j = Restrict(i, D \ B),
         \A g \in B, h \in D \ B : Before(i, g, h),
         NEW s, Lists(s, B, i), NEW t, Lists(t, D \ B, j)
  PROVE  Lists(s \o t, D, i)
<1> DEFINE m == Cardinality(B)
           n == Cardinality(D \ B)
           u == s \o t
<1>1. m \in Nat /\ n \in Nat /\ Cardinality(D) = m + n
  <2>1. IsFiniteSet(B) /\ IsFiniteSet(D \ B) /\ B \cap (D \ B) = {} /\ B \cup (D \ B) = D
    BY FS_Subset
  <2>2. Cardinality(D) = m + n - Cardinality({})
    BY <2>1, FS_Union
  <2>3. QED
    BY <2>1, <2>2, FS_CardinalityType, FS_EmptySet
<1>2. /\ s \in [1 .. m -> B] /\ \A x, y \in 1 .. m : x < y => Before(i, s[x], s[y])
      /\ t \in [1 .. n -> D \ B] /\ \A x, y \in 1 .. n : x < y => Before(j, t[x], t[y])
  BY DEF Lists
<1>3. \A g, h \in D \ B : Before(j, g, h) <=> Before(i, g, h)
  BY DEF Before, Restrict
<1> HIDE DEF m, n
<1>4. Len(s) = m /\ Len(t) = n /\ s \in Seq(D) /\ t \in Seq(D)
  <2>1. s \in [1 .. m -> D] /\ t \in [1 .. n -> D]
    BY <1>2
  <2>2. QED
    BY <1>1, <2>1, ArrayIsSeq
<1>5. /\ u \in [1 .. m + n -> D]
      /\ \A x \in 1 .. m + n : u[x] = IF x <= m THEN s[x] ELSE t[x - m]
  BY <1>4, ConcatArrays
<1> HIDE DEF u
<1>6. ASSUME NEW x \in 1 .. m + n, NEW y \in 1 .. m + n, x < y
      PROVE  Before(i, u[x], u[y])
  <2>1. CASE y <= m
    BY <1>1, <1>2, <1>5, <1>6, <2>1
  <2>2. CASE x <= m /\ m < y
    <3>1. x \in 1 .. m /\ y - m \in 1 .. n
      BY <1>1, <2>2
    <3>2. u[x] = s[x] /\ u[y] = t[y - m] /\ s[x] \in B /\ t[y - m] \in D \ B
      BY <1>1, <1>2, <1>5, <2>2, <3>1
    <3>3. QED
      BY <3>2
  <2>3. CASE m < x
    <3>1. x - m \in 1 .. n /\ y - m \in 1 .. n /\ x - m < y - m
      BY <1>1, <1>6, <2>3
    <3>2. u[x] = t[x - m] /\ u[y] = t[y - m]
      BY <1>1, <1>5, <1>6, <2>3
    <3>3. QED
      BY <1>2, <1>3, <3>1, <3>2
  <2>4. QED
    BY <1>1, <2>1, <2>2, <2>3
<1>7. QED
  BY <1>1, <1>5, <1>6 DEF Lists, u

\* A step of the loop moves a prefix of the list from inside to out.
LEMMA PopKeepsRanking == StructureInv /\ PopBucket => Ranking' = Ranking
<1> SUFFICES ASSUME StructureInv, PopBucket PROVE Ranking' = Ranking
  OBVIOUS
<1> DEFINE i == taken.index
           D == DOMAIN i
           names == [x \in DOMAIN out |-> out[x][1]]
<1>1. /\ i \in [D -> Int] /\ D \subseteq Int /\ IsFiniteSet(D)
      /\ QueueType(taken, I64, Hashes) /\ Linked(taken) /\ out \in Seq(Hashes \X I64)
  BY HashesAssumption, WeightsAssumption, FS_Subset
     DEF StructureInv, TypeOK, QueueLinked, QueueType
<1>2. PICK w \in BestWeights(taken.sorted) :
        LET bucket == taken.sorted[w] \cap D
        IN  /\ \E s \in Ascending(bucket) :
                 out' = out \o [x \in DOMAIN s |-> <<s[x], i[s[x]]>>]
            /\ taken' = [index  |-> Restrict(i, D \ bucket), sorted |-> Drop(taken.sorted, w)]
  BY DEF PopBucket
<1> DEFINE B == taken.sorted[w] \cap D
           rest == Restrict(i, D \ B)
<1>3. PICK s \in Ascending(B) : out' = out \o [x \in DOMAIN s |-> <<s[x], i[s[x]]>>]
  BY <1>2
<1>4. taken'.index = rest
  BY <1>2
<1>5. \A h \in D : /\ h \in B <=> i[h] = w
                   /\ i[h] # w => Better(w, i[h])
  <2>1. w \in DOMAIN taken.sorted /\ w \in Int /\ \A u \in DOMAIN taken.sorted : ~Better(u, w)
    BY <1>1, WeightsAssumption DEF BestWeights, QueueType
  <2>2. \A h \in D : i[h] \in Int /\ i[h] \in DOMAIN taken.sorted /\ h \in taken.sorted[i[h]]
    BY <1>1 DEF Linked
  <2>3. \A h \in taken.sorted[w] : i[h] = w
    BY <1>1, <2>1 DEF Linked
  <2> HIDE DEF i
  <2>4. QED
    BY <2>1, <2>2, <2>3, BetterOrder
<1> HIDE DEF i, B, rest
<1>6. B \subseteq D /\ IsFiniteSet(B) /\ Cardinality(B) \in Nat
  BY <1>1, FS_Subset, FS_CardinalityType DEF B
<1>7. Lists(s, B, i)
  BY <1>5, <1>6 DEF Ascending, Lists, Before
<1>8. \A g \in B, h \in D \ B : Before(i, g, h)
  BY <1>5, <1>6 DEF Before
<1>9. Lists(IntoVec(taken'), D \ B, rest)
  <2>1. DOMAIN rest = D \ B /\ rest \in [D \ B -> Int]
    BY <1>1 DEF rest, Restrict
  <2>2. IsFiniteSet(D \ B) /\ D \ B \subseteq Int
    BY <1>1, FS_Subset
  <2>3. QED
    BY <1>4, <2>1, <2>2, IntoVecLists
<1>10. s \o IntoVec(taken') = IntoVec(taken)
  <2>1. Lists(s \o IntoVec(taken'), D, i)
    BY <1>1, <1>6, <1>7, <1>8, <1>9, ListInTwoParts DEF rest
  <2>2. Lists(IntoVec(taken), D, i)
    BY <1>1, IntoVecLists DEF i
  <2>3. QED
    BY <1>1, <2>1, <2>2, ListUnique
<1>11. [x \in DOMAIN out' |-> out'[x][1]] = names \o s
  <2> DEFINE more == [x \in DOMAIN s |-> <<s[x], i[s[x]]>>]
  <2>1. s \in [1 .. Cardinality(B) -> B] /\ DOMAIN s = 1 .. Cardinality(B)
    BY DEF Ascending
  <2>2. more \in [1 .. Cardinality(B) -> Int \X Int]
    BY <1>1, <1>6, <2>1
  <2>3. more \in Seq(Int \X Int) /\ out \in Seq(Int \X Int)
    <3>1. Hashes \X I64 \subseteq Int \X Int
      BY HashesAssumption, WeightsAssumption
    <3> HIDE DEF more
    <3>2. more \in Seq(Int \X Int)
      BY <1>6, <2>2, ArrayIsSeq
    <3>3. QED
      BY <1>1, <3>1, <3>2, SeqMonotonic
  <2>4. s = Firsts(more) /\ names = Firsts(out)
    BY <2>1 DEF Firsts
  <2> HIDE DEF more
  <2>5. out' = out \o more
    BY <1>3 DEF more
  <2> DEFINE P == Int \X Int
  <2>6. more \in Seq(P) /\ out \in Seq(P) /\ \A p \in P : p[1] \in Int
    BY <2>3
  <2> HIDE DEF P
  <2>7. Firsts(out \o more) = Firsts(out) \o Firsts(more)
    BY <2>6, FirstsOfConcat
  <2> HIDE DEF names
  <2>8. QED
    BY <2>4, <2>5, <2>7 DEF Firsts
<1>12. (names \o s) \o IntoVec(taken') = names \o (s \o IntoVec(taken'))
  <2>1. names \in Seq(Int)
    <3>1. names \in [1 .. Len(out) -> Int] /\ Len(out) \in Nat
      BY <1>1, HashesAssumption
    <3> HIDE DEF names
    <3>2. QED
      BY <3>1, ArrayIsSeq
  <2>3. s \in Seq(Int)
    <3>1. s \in [1 .. Cardinality(B) -> Int]
      BY <1>1, <1>6 DEF Ascending
    <3>2. QED
      BY <1>6, <3>1, ArrayIsSeq
  <2>2. IntoVec(taken') \in Seq(Int)
    <3>1. IsFiniteSet(D \ B) /\ D \ B \subseteq Int
      BY <1>1, FS_Subset
    <3>2. Cardinality(D \ B) \in Nat
      BY <3>1, FS_CardinalityType
    <3>3. IntoVec(taken') \in [1 .. Cardinality(D \ B) -> Int]
      BY <1>9, <3>1, <3>2 DEF Lists
    <3>4. QED
      BY <3>2, <3>3, ArrayIsSeq
  <2> DEFINE inside == IntoVec(taken')
  <2>4. inside \in Seq(Int)
    BY <2>2
  <2> HIDE DEF names, inside
  <2>5. (names \o s) \o inside = names \o (s \o inside)
    BY <2>1, <2>3, <2>4, ConcatOfInts
  <2>6. QED
    BY <2>5 DEF inside
<1>13. QED
  BY <1>10, <1>11, <1>12 DEF Ranking

\* into_vec's loop delivers the sorted entries, whatever is pushed meanwhile.
THEOREM DrainIsRanking == Spec => LoopComputesIntoVec
<1>1. StructureInv /\ [Next]_vars => [phase = "drain" => Ranking' = Ranking]_vars
  <2> SUFFICES ASSUME StructureInv, [Next]_vars, phase = "drain" PROVE Ranking' = Ranking
    OBVIOUS
  <2>1. CASE PopBucket
    BY <2>1, PopKeepsRanking
  <2>2. CASE ~PopBucket
    <3>1. UNCHANGED <<taken, out>>
      BY <2>2 DEF Next, Push, WritersDone, Take, Return, vars
    <3>2. QED
      BY <3>1 DEF Ranking, IntoVec, Better
  <2>3. QED
    BY <2>1, <2>2
<1>2. QED
  BY <1>1, StructureAlways, PTL DEF Spec, LoopComputesIntoVec
-----------------------------------------------------------------------------
\* The refinement of TopN.

\* Nothing is taken or out before main has stopped waiting.
NothingOutYet == phase = "wait" => taken = New /\ out = << >>

LEMMA NothingOutStep == NothingOutYet /\ [Next]_vars => NothingOutYet'
BY DEF NothingOutYet, Next, Push, WritersDone, Take, PopBucket, Return, vars

\* The initial states are the abstract ones.
LEMMA InitIsInit == Init => Abstract!Init
BY DEF Init, New, Abstract!Init

\* What both specifications take from the library is the same.
LEMMA SameLibrary ==
  /\ \A S : Abstract!Cardinality(S) = Cardinality(S)
  /\ \A S : Abstract!SetToSeqs(S) = SetToSeqs(S)
  /\ \A f, S : Abstract!Restrict(f, S) = Restrict(f, S)
<1>1. \A S : Abstract!Cardinality(S) = Cardinality(S)
  BY DEF Abstract!Cardinality, Cardinality
<1>2. \A S : Abstract!SetToSeqs(S) = SetToSeqs(S)
  BY <1>1 DEF Abstract!SetToSeqs, SetToSeqs
<1>3. \A f, S : Abstract!Restrict(f, S) = Restrict(f, S)
  BY DEF Abstract!Restrict, Restrict
<1>4. QED
  BY <1>1, <1>2, <1>3

\* A push merges, adds, or lets the entry compete with the worst ones.
LEMMA PushIsAdd ==
  ASSUME StructureInv, RoomIsUsed, NEW h \in Hashes, NEW w \in Samples, Push(h, w)
  PROVE  Abstract!Add(h, w)
<1> DEFINE D == DOMAIN q.index
           With == Abstract!With(h, w)
<1>1. /\ q.index \in [D -> I64] /\ D \subseteq Hashes /\ I64 \subseteq Int
      /\ w \in Int /\ \A g \in D : q.index[g] \in Int
  BY WeightsAssumption DEF StructureInv, TypeOK, QueueType
<1>2. Outcome(q, h, w, q')
  BY PushIs DEF StructureInv, QueueLinked
<1>3. UNCHANGED <<taken, out>>
  BY DEF Push
<1>4. Cardinality(D) \in Nat /\ (D = {} => Cardinality(D) = 0)
  BY <1>1, HashesAssumption, FS_Subset, FS_CardinalityType, FS_EmptySet
<1>5. With = Put(q.index, h, w)
  BY DEF Abstract!With, Put
<1>6. CASE h \in D /\ q'.index = [q.index EXCEPT ![h] = Merge(q.index[h], w)]
  BY <1>3, <1>6 DEF Abstract!Add, Abstract!Combine
<1>7. CASE h \notin D /\ ~(Full(q) /\ D # {}) /\ q'.index = Put(q.index, h, w)
  <2>1. MaxSize = 0 \/ Cardinality(D) < MaxSize
    BY <1>4, <1>7, MaxSizeAssumption DEF Full
  <2>2. QED
    BY <1>3, <1>5, <1>7, <2>1, SameLibrary DEF Abstract!Add, Abstract!Grow
<1>8. ASSUME h \notin D, Full(q),
             NEW v \in D, \A g \in D : ~Better(q.index[v], q.index[g]),
             \/ Better(w, q.index[v]) /\ q'.index = Put(Drop(q.index, v), h, w)
             \/ ~Better(w, q.index[v]) /\ q'.index = q.index
      PROVE  Abstract!Add(h, w)
  <2>1. MaxSize # 0 /\ Cardinality(D) = MaxSize
    BY <1>4, <1>8, MaxSizeAssumption DEF Full, RoomIsUsed
  <2>2. /\ DOMAIN With = D \cup {h} /\ With[h] = w
        /\ \A g \in D : With[g] = q.index[g]
    BY <1>5, <1>8 DEF Put
  <2>3. PICK j \in Abstract!WorstOf(With) : q'.index = Abstract!Without(With, j)
    <3> HIDE DEF With
    <3>1. CASE Better(w, q.index[v]) /\ q'.index = Put(Drop(q.index, v), h, w)
      <4>1. v \in Abstract!WorstOf(With)
        <5>1. ~Better(q.index[v], w)
          BY <1>1, <3>1, BetterOrder
        <5>2. QED
          BY <1>8, <2>2, <5>1 DEF Abstract!WorstOf
      <4>2. Put(Drop(q.index, v), h, w) = Abstract!Without(With, v)
        BY <1>5, <1>8, <2>2 DEF Put, Drop, Restrict, Abstract!Without
      <4>3. QED
        BY <3>1, <4>1, <4>2
    <3>2. CASE ~Better(w, q.index[v]) /\ q'.index = q.index
      <4>1. h \in Abstract!WorstOf(With)
        <5>1. \A g \in D : ~Better(w, q.index[g])
          BY <1>1, <1>8, <3>2, BetterOrder
        <5>2. ~Better(w, w)
          BY <1>1, BetterOrder
        <5>3. QED
          BY <2>2, <5>1, <5>2 DEF Abstract!WorstOf
      <4>2. q.index = Abstract!Without(With, h)
        BY <1>1, <1>8, <2>2 DEF Abstract!Without
      <4>3. QED
        BY <3>2, <4>1, <4>2
    <3>3. QED
      BY <1>8, <3>1, <3>2
  <2>4. QED
    BY <1>3, <1>8, <2>1, <2>3, SameLibrary DEF Abstract!Add, Abstract!Compete
<1>9. QED
  BY <1>2, <1>6, <1>7, <1>8 DEF Outcome

\* main's taking of the queue, by moving or by copying it, is the snapshot.
LEMMA TakeIsSnapshot == NothingOutYet /\ Take => Abstract!Snapshot
BY DEF NothingOutYet, Take, DeepCopy, New, Abstract!Snapshot

\* The entries that a linked queue's best bucket holds are the best ones.
LEMMA BestBucket ==
  ASSUME QueueType(taken, I64, Hashes), Linked(taken), NEW w \in BestWeights(taken.sorted)
  PROVE  taken.sorted[w] \cap DOMAIN taken.index = Abstract!BestOf(taken.index)
<1> DEFINE D == DOMAIN taken.index
<1>1. /\ w \in DOMAIN taken.sorted /\ w \in Int
      /\ \A u \in DOMAIN taken.sorted : ~Better(u, w)
      /\ \A h \in D : taken.index[h] \in Int
  BY WeightsAssumption DEF BestWeights, QueueType
<1>2. \A h \in D : h \in taken.sorted[w] <=> taken.index[h] = w
  BY <1>1 DEF Linked
<1>3. ASSUME NEW h \in D, taken.index[h] = w PROVE h \in Abstract!BestOf(taken.index)
  <2>1. \A g \in D : taken.index[g] \in DOMAIN taken.sorted
    BY DEF Linked
  <2>2. QED
    BY <1>1, <1>3, <2>1 DEF Abstract!BestOf
<1>4. ASSUME NEW h \in Abstract!BestOf(taken.index) PROVE h \in D /\ taken.index[h] = w
  <2>1. h \in D /\ \A g \in D : ~Better(taken.index[g], taken.index[h])
    BY <1>4 DEF Abstract!BestOf
  <2>2. PICK g \in D : taken.index[g] = w
    BY <1>1 DEF Linked
  <2>3. taken.index[h] \in DOMAIN taken.sorted
    BY <2>1 DEF Linked
  <2>4. ~Better(w, taken.index[h]) /\ ~Better(taken.index[h], w)
    BY <1>1, <2>1, <2>2, <2>3
  <2>5. QED
    BY <1>1, <2>1, <2>4, BetterOrder
<1>5. QED
  BY <1>2, <1>3, <1>4

\* An iteration of into_vec's loop reports all entries that tie for best.
LEMMA PopIsReport == StructureInv /\ PopBucket => Abstract!Report
<1> SUFFICES ASSUME StructureInv, PopBucket PROVE Abstract!Report
  OBVIOUS
<1> DEFINE B == Abstract!BestOf(taken.index)
<1>1. QueueType(taken, I64, Hashes) /\ Linked(taken)
  BY DEF StructureInv, TypeOK, QueueLinked
<1>2. PICK w \in BestWeights(taken.sorted) :
        LET bucket == taken.sorted[w] \cap DOMAIN taken.index
        IN  /\ \E s \in Ascending(bucket) :
                 out' = out \o [i \in DOMAIN s |-> <<s[i], taken.index[s[i]]>>]
            /\ taken' = [index  |-> Restrict(taken.index, DOMAIN taken.index \ bucket),
                         sorted |-> Drop(taken.sorted, w)]
  BY DEF PopBucket
<1>3. taken.sorted[w] \cap DOMAIN taken.index = B
  BY <1>1, BestBucket
<1>4. PICK s \in Ascending(B) :
        out' = out \o [i \in DOMAIN s |-> <<s[i], taken.index[s[i]]>>]
  BY <1>2, <1>3
<1>5. taken'.index = Restrict(taken.index, DOMAIN taken.index \ B)
  BY <1>2, <1>3
<1>6. s \in SetToSeqs(B)
  <2>1. /\ s \in [1 .. Cardinality(B) -> B]
        /\ \A i, j \in DOMAIN s : i < j => s[i] < s[j]
    BY DEF Ascending
  <2>2. B \subseteq Int /\ Cardinality(B) \in Nat
    BY <1>1, HashesAssumption, FS_Subset, FS_CardinalityType DEF QueueType, Abstract!BestOf
  <2> HIDE DEF B
  <2> DEFINE n == Cardinality(B)
  <2>3. ASSUME NEW i \in 1 .. n, NEW j \in 1 .. n, i # j PROVE s[i] # s[j]
    <3>1. i < j \/ j < i
      BY <2>2, <2>3
    <3>2. s[i] \in Int /\ s[j] \in Int /\ i \in DOMAIN s /\ j \in DOMAIN s
      BY <2>1, <2>2
    <3>3. s[i] < s[j] \/ s[j] < s[i]
      BY <2>1, <3>1, <3>2
    <3>4. QED
      BY <3>2, <3>3
  <2>4. QED
    BY <2>1, <2>3 DEF SetToSeqs
<1>7. DOMAIN taken.index # {} /\ q' = q
  BY DEF PopBucket
<1>8. QED
  BY <1>4, <1>5, <1>6, <1>7, SameLibrary DEF Abstract!Report

\* Every step is an abstract one or changes nothing abstract.
LEMMA StepIsStep ==
  StructureInv /\ RoomIsUsed /\ NothingOutYet /\ [Next]_vars => [Abstract!Next]_(Abstract!vars)
<1> SUFFICES ASSUME StructureInv, RoomIsUsed, NothingOutYet, [Next]_vars
             PROVE  Abstract!Next \/ UNCHANGED Abstract!vars
  OBVIOUS
<1>1. ASSUME NEW h \in Hashes, NEW w \in Samples, Push(h, w) PROVE Abstract!Next
  BY <1>1, PushIsAdd DEF Abstract!Next
<1>2. CASE WritersDone
  BY <1>2 DEF WritersDone, Abstract!vars
<1>3. CASE Take
  BY <1>3, TakeIsSnapshot DEF Abstract!Next
<1>4. CASE PopBucket
  BY <1>4, PopIsReport DEF Abstract!Next
<1>5. CASE Return
  BY <1>5 DEF Return, Abstract!vars
<1>6. CASE UNCHANGED vars
  BY <1>6 DEF vars, Abstract!vars
<1>7. QED
  BY <1>1, <1>2, <1>3, <1>4, <1>5, <1>6 DEF Next

\* The queue is the abstract bounded set of best entries, and its report the
\* abstract one: no structure, no order of pushes and no racing take shows.
THEOREM QueueImplementsTopN == Spec => RefinesTopN
<1>1. Init => NothingOutYet
  BY DEF Init, NothingOutYet
<1>2. Spec => []NothingOutYet
  BY <1>1, NothingOutStep, PTL DEF Spec
<1>3. QED
  BY <1>2, InitIsInit, StepIsStep, StructureAlways, RoomAlwaysUsed, PTL
     DEF Spec, RefinesTopN, Abstract!Spec
=============================================================================
