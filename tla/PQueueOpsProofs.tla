-------------------------- MODULE PQueueOpsProofs --------------------------
(***************************************************************************)
(* Lemmas about the operators of PQueueOps: what each returns of a queue   *)
(* whose two structures agree.                                             *)
(***************************************************************************)
EXTENDS PQueueOps, FiniteSetTheorems, WellFoundedInduction, TLAPS

\* A finite set that is not empty has an element that a strict order relates
\* to no other.
LEMMA FiniteExtremum ==
  ASSUME NEW S, IsFiniteSet(S), S # {}, NEW R,
         \A x \in S : <<x, x>> \notin R,
         \A x, y, z \in S : <<x, y>> \in R /\ <<y, z>> \in R => <<x, z>> \in R
  PROVE  \E m \in S : \A x \in S : <<m, x>> \notin R
<1> DEFINE T == {A \in SUBSET S : A # {} /\ \A m \in A : \E x \in A : <<m, x>> \in R}
<1>1. SUFFICES ASSUME S \in T PROVE FALSE
  OBVIOUS
<1>2. T \subseteq FiniteSubsetsOf(S)
  BY FS_FiniteSubsetsOfFinite
<1>3. PICK A \in T : \A B \in T : <<B, A>> \notin StrictSubsetOrdering(S)
  <2>1. IsWellFoundedOn(StrictSubsetOrdering(S), FiniteSubsetsOf(S))
    BY FS_StrictSubsetOrderingWellFounded
  <2> HIDE DEF T
  <2>2. QED
    BY <1>1, <1>2, <2>1, WFMin
<1>4. PICK a \in A : TRUE
  OBVIOUS
<1> DEFINE B == A \ {a}
<1>5. B \notin T
  <2>1. B \in SUBSET S /\ A \in SUBSET S /\ B \subseteq A /\ B # A
    OBVIOUS
  <2>2. <<B, A>> \in StrictSubsetOrdering(S)
    BY <2>1 DEF StrictSubsetOrdering
  <2> HIDE DEF T, B
  <2>3. QED
    BY <1>3, <2>2
<1>6. B # {}
  OBVIOUS
<1>7. PICK m \in B : \A x \in B : <<m, x>> \notin R
  BY <1>5, <1>6
<1>8. <<m, a>> \in R
  BY <1>7
<1>9. PICK y \in B : <<a, y>> \in R
  OBVIOUS
<1>10. QED
  BY <1>7, <1>8, <1>9

\* Better is the strict total order of the integers, one way or the other.
LEMMA BetterOrder ==
  /\ \A a \in Int : ~Better(a, a)
  /\ \A a, b, c \in Int : Better(a, b) /\ Better(b, c) => Better(a, c)
  /\ \A a, b \in Int : a = b \/ Better(a, b) \/ Better(b, a)
  /\ \A a, b, c \in Int : ~Better(a, b) /\ ~Better(b, c) => ~Better(a, c)
  /\ \A a, b, c \in Int : Better(a, b) /\ ~Better(c, b) => ~Better(c, a)
  BY DEF Better
-----------------------------------------------------------------------------
\* h is in the bucket of w.
In(s, w, h) == w \in DOMAIN s /\ h \in s[w]

NoEmptyBucket(s) == \A w \in DOMAIN s : s[w] # {}

\* Buckets and their weights are functions over sets of integers.
SortedType(s, W, H) == /\ DOMAIN s \subseteq W
                       /\ s \in [DOMAIN s -> SUBSET H]

LEMMA RemoveSortedIs ==
  ASSUME NEW W, NEW H, NEW s, SortedType(s, W, H), NoEmptyBucket(s), NEW w, NEW h
  PROVE  LET t == RemoveSorted(s, w, h)
         IN  /\ SortedType(t, W, H) /\ NoEmptyBucket(t)
             /\ DOMAIN t \subseteq DOMAIN s
             /\ \A u, g : In(t, u, g) <=> In(s, u, g) /\ ~(u = w /\ g = h)
<1> USE DEF SortedType, NoEmptyBucket, In
<1> DEFINE t == RemoveSorted(s, w, h)
<1>1. CASE w \notin DOMAIN s
  BY <1>1 DEF RemoveSorted
<1>2. CASE w \in DOMAIN s /\ s[w] \ {h} = {}
  <2>1. t = [u \in DOMAIN s \ {w} |-> s[u]]
    BY <1>2 DEF RemoveSorted, Drop, Restrict
  <2>2. DOMAIN t = DOMAIN s \ {w} /\ \A u \in DOMAIN t : t[u] = s[u]
    BY <2>1
  <2>3. s[w] = {h}
    BY <1>2
  <2> HIDE DEF t
  <2>4. QED
    BY <2>1, <2>2, <2>3 DEF t
<1>3. CASE w \in DOMAIN s /\ s[w] \ {h} # {}
  <2>1. t = [s EXCEPT ![w] = @ \ {h}]
    BY <1>3 DEF RemoveSorted
  <2>2. QED
    BY <1>3, <2>1
<1>4. QED
  BY <1>1, <1>2, <1>3

LEMMA InsertSortedIs ==
  ASSUME NEW W, NEW H, NEW s, SortedType(s, W, H), NoEmptyBucket(s),
         NEW w, w \in W, NEW h, h \in H
  PROVE  LET t == InsertSorted(s, w, h)
         IN  /\ SortedType(t, W, H) /\ NoEmptyBucket(t)
             /\ \A u, g : In(t, u, g) <=> In(s, u, g) \/ (u = w /\ g = h)
<1> DEFINE t == InsertSorted(s, w, h)
           b == {h} \cup (IF w \in DOMAIN s THEN s[w] ELSE {})
<1>1. t = [u \in DOMAIN s \cup {w} |-> IF u = w THEN b ELSE s[u]]
  BY DEF InsertSorted, Put
<1>2. DOMAIN t = DOMAIN s \cup {w}
  BY <1>1
<1>3. t[w] = b /\ \A u \in DOMAIN s : u # w => t[u] = s[u]
  BY <1>1
<1>4. SortedType(t, W, H)
  BY <1>1 DEF SortedType
<1> HIDE DEF t
<1>5. QED
  BY <1>2, <1>3, <1>4 DEF t, In, NoEmptyBucket
-----------------------------------------------------------------------------
MergeClosed(W) == \A a, b \in W : Merge(a, b) \in W

\* Linked, as one equivalence between membership in a bucket and the index.
LEMMA LinkedIs ==
  ASSUME NEW r
  PROVE  Linked(r) <=> /\ NoEmptyBucket(r.sorted)
                       /\ \A w, h : In(r.sorted, w, h)
                                      <=> h \in DOMAIN r.index /\ r.index[h] = w
BY DEF Linked, NoEmptyBucket, In

LEMMA QueueTypeIs ==
  ASSUME NEW W, NEW H, NEW r, QueueType(r, W, H)
  PROVE  SortedType(r.sorted, W, H)
BY DEF QueueType, SortedType

\* A queue made of an index and buckets that agree with it.
LEMMA QueueOf ==
  ASSUME NEW W, NEW H, NEW i, NEW s,
         DOMAIN i \subseteq H, i \in [DOMAIN i -> W], SortedType(s, W, H),
         NoEmptyBucket(s),
         \A w, h : In(s, w, h) <=> h \in DOMAIN i /\ i[h] = w
  PROVE  LET r == [index |-> i, sorted |-> s]
         IN  QueueType(r, W, H) /\ Linked(r)
<1> DEFINE r == [index |-> i, sorted |-> s]
<1>1. r.index = i /\ r.sorted = s
  OBVIOUS
<1>2. QueueType(r, W, H)
  BY DEF QueueType, SortedType
<1>3. Linked(r)
  BY <1>1, LinkedIs
<1>4. QED
  BY <1>2, <1>3

\* Merging an entry in place keeps the structures in agreement.
LEMMA UpdateIs ==
  ASSUME NEW W, NEW H, MergeClosed(W),
         NEW r, QueueType(r, W, H), Linked(r),
         NEW h, h \in DOMAIN r.index, NEW w, w \in W
  PROVE  LET t == Update(r, h, w)
         IN  /\ QueueType(t, W, H) /\ Linked(t)
             /\ t.index = [r.index EXCEPT ![h] = Merge(r.index[h], w)]
<1> DEFINE old == r.index[h]
           new == Merge(old, w)
           s1  == RemoveSorted(r.sorted, old, h)
           s2  == InsertSorted(s1, new, h)
           i   == [r.index EXCEPT ![h] = new]
<1>1. Update(r, h, w) = [index |-> i, sorted |-> s2]
  BY DEF Update
<1>2. old \in W /\ new \in W /\ h \in H
  BY DEF QueueType, MergeClosed
<1>3. /\ SortedType(r.sorted, W, H) /\ NoEmptyBucket(r.sorted)
      /\ \A u, g : In(r.sorted, u, g) <=> g \in DOMAIN r.index /\ r.index[g] = u
  BY QueueTypeIs, LinkedIs
<1>4. /\ SortedType(s1, W, H) /\ NoEmptyBucket(s1)
      /\ \A u, g : In(s1, u, g) <=> In(r.sorted, u, g) /\ ~(u = old /\ g = h)
  BY <1>3, RemoveSortedIs
<1>5. /\ SortedType(s2, W, H) /\ NoEmptyBucket(s2)
      /\ \A u, g : In(s2, u, g) <=> In(s1, u, g) \/ (u = new /\ g = h)
  <2> HIDE DEF old, new, s1
  <2>1. QED
    BY <1>2, <1>4, InsertSortedIs
<1>6. /\ DOMAIN i = DOMAIN r.index /\ DOMAIN i \subseteq H /\ i \in [DOMAIN i -> W]
      /\ i[h] = new /\ \A g \in DOMAIN i : g # h => i[g] = r.index[g]
  BY <1>2 DEF QueueType
<1>7. \A u, g : In(s2, u, g) <=> g \in DOMAIN i /\ i[g] = u
  <2> HIDE DEF s1, s2, i, old, new
  <2>1. TAKE u, g
  <2>2. CASE g = h
    BY <1>3, <1>4, <1>5, <1>6, <2>2 DEF old
  <2>3. CASE g # h
    BY <1>3, <1>4, <1>5, <1>6, <2>3
  <2>4. QED
    BY <2>2, <2>3
<1> HIDE DEF s2, i
<1>8. QED
  BY <1>1, <1>5, <1>6, <1>7, QueueOf DEF i, new, old

\* So does adding an entry,
LEMMA InsertIs ==
  ASSUME NEW W, NEW H, NEW r, QueueType(r, W, H), Linked(r),
         NEW h, h \in H, h \notin DOMAIN r.index, NEW w, w \in W
  PROVE  LET t == Insert(r, h, w)
         IN  /\ QueueType(t, W, H) /\ Linked(t)
             /\ t.index = Put(r.index, h, w)
<1> DEFINE s == InsertSorted(r.sorted, w, h)
           i == Put(r.index, h, w)
<1>1. Insert(r, h, w) = [index |-> i, sorted |-> s]
  BY DEF Insert
<1>2. /\ SortedType(r.sorted, W, H) /\ NoEmptyBucket(r.sorted)
      /\ \A u, g : In(r.sorted, u, g) <=> g \in DOMAIN r.index /\ r.index[g] = u
  BY QueueTypeIs, LinkedIs
<1>3. /\ SortedType(s, W, H) /\ NoEmptyBucket(s)
      /\ \A u, g : In(s, u, g) <=> In(r.sorted, u, g) \/ (u = w /\ g = h)
  <2>1. h \in H
    OBVIOUS
  <2>2. QED
    BY <1>2, <2>1, InsertSortedIs
<1>4. /\ DOMAIN i = DOMAIN r.index \cup {h} /\ DOMAIN i \subseteq H
      /\ i \in [DOMAIN i -> W]
      /\ i[h] = w /\ \A g \in DOMAIN r.index : i[g] = r.index[g]
  BY DEF QueueType, Put
<1> HIDE DEF s, i
<1>5. \A u, g : In(s, u, g) <=> g \in DOMAIN i /\ i[g] = u
  BY <1>2, <1>3, <1>4
<1>6. QED
  BY <1>1, <1>3, <1>4, <1>5, QueueOf DEF i

\* and removing one.
LEMMA EvictIs ==
  ASSUME NEW W, NEW H, NEW r, QueueType(r, W, H), Linked(r),
         NEW v, v \in DOMAIN r.index
  PROVE  LET t == Evict(r, v)
         IN  /\ QueueType(t, W, H) /\ Linked(t)
             /\ t.index = Drop(r.index, v)
<1> DEFINE s == RemoveSorted(r.sorted, r.index[v], v)
           i == Drop(r.index, v)
<1>1. Evict(r, v) = [index |-> i, sorted |-> s]
  BY DEF Evict
<1>2. /\ SortedType(r.sorted, W, H) /\ NoEmptyBucket(r.sorted)
      /\ \A u, g : In(r.sorted, u, g) <=> g \in DOMAIN r.index /\ r.index[g] = u
  BY QueueTypeIs, LinkedIs
<1>3. /\ SortedType(s, W, H) /\ NoEmptyBucket(s)
      /\ \A u, g : In(s, u, g) <=> In(r.sorted, u, g) /\ ~(u = r.index[v] /\ g = v)
  BY <1>2, RemoveSortedIs
<1>4. /\ DOMAIN i = DOMAIN r.index \ {v} /\ DOMAIN i \subseteq H
      /\ i \in [DOMAIN i -> W]
      /\ \A g \in DOMAIN i : i[g] = r.index[g]
  BY DEF QueueType, Drop, Restrict
<1> HIDE DEF s, i
<1>5. \A u, g : In(s, u, g) <=> g \in DOMAIN i /\ i[g] = u
  BY <1>2, <1>3, <1>4
<1>6. QED
  BY <1>1, <1>3, <1>4, <1>5, QueueOf DEF i
-----------------------------------------------------------------------------
\* A queue that is not empty has an entry to give up.
LEMMA VictimExists ==
  ASSUME NEW W, W \subseteq Int, NEW H, H \subseteq Int, IsFiniteSet(H),
         NEW r, QueueType(r, W, H), Linked(r), DOMAIN r.index # {}
  PROVE  Victims(r) # {}
<1> DEFINE D == DOMAIN r.sorted
<1>1. IsFiniteSet(DOMAIN r.index)
  BY FS_Subset DEF QueueType
<1>2. IsFiniteSet(D) /\ D # {} /\ D \subseteq Int
  <2>1. r.index \in Surjection(DOMAIN r.index, D)
    BY DEF Surjection, QueueType, Linked
  <2>2. QED
    BY <1>1, <2>1, FS_Surjection DEF ExistsSurjection, Linked, QueueType
<1>3. PICK w \in D : \A u \in D : ~Better(w, u)
  <2> DEFINE R == {p \in D \X D : Better(p[1], p[2])}
  <2>1. \A x, y \in D : <<x, y>> \in R <=> Better(x, y)
    OBVIOUS
  <2> HIDE DEF R, D
  <2>2. /\ \A x \in D : <<x, x>> \notin R
        /\ \A x, y, z \in D : <<x, y>> \in R /\ <<y, z>> \in R => <<x, z>> \in R
    BY <1>2, <2>1, BetterOrder
  <2>3. \E m \in D : \A x \in D : <<m, x>> \notin R
    BY <1>2, <2>2, FiniteExtremum
  <2>4. QED
    BY <2>1, <2>3
<1> DEFINE B == r.sorted[w]
<1>4. /\ B # {} /\ B \subseteq DOMAIN r.index /\ B \subseteq Int
      /\ IsFiniteSet(B)
  BY <1>1, FS_Subset DEF QueueType, Linked
<1>5. PICK v \in B : \A g \in B : g <= v
  <2> DEFINE R == {p \in B \X B : p[1] < p[2]}
  <2>1. \A x, y \in B : <<x, y>> \in R <=> x < y
    OBVIOUS
  <2> HIDE DEF R, B
  <2>2. /\ \A x \in B : <<x, x>> \notin R
        /\ \A x, y, z \in B : <<x, y>> \in R /\ <<y, z>> \in R => <<x, z>> \in R
    BY <1>4, <2>1
  <2>3. \E m \in B : \A x \in B : <<m, x>> \notin R
    BY <1>4, <2>2, FiniteExtremum
  <2>4. PICK m \in B : \A x \in B : <<m, x>> \notin R
    BY <2>3
  <2>5. \A x \in B : x <= m
    <3>1. TAKE x \in B
    <3>2. ~(m < x)
      BY <2>1, <2>4
    <3>3. x \in Int /\ m \in Int
      BY <1>4
    <3>4. QED
      BY <3>2, <3>3
  <2>6. QED
    BY <2>5
<1>6. v \in Victims(r)
  BY <1>3, <1>4, <1>5 DEF Victims, WorstWeights
<1>7. QED
  BY <1>6

\* It is one that no kept entry is worse than.
LEMMA VictimIsWorst ==
  ASSUME NEW r, Linked(r), NEW v \in Victims(r)
  PROVE  /\ v \in DOMAIN r.index
         /\ \A h \in DOMAIN r.index : ~Better(r.index[v], r.index[h])
BY DEF Victims, WorstWeights, Linked
-----------------------------------------------------------------------------
\* The sets the hashes and the weights are from.
Domains(W, H) == /\ W \subseteq Int /\ MergeClosed(W)
                 /\ H \subseteq Int /\ IsFiniteSet(H)

\* What push_or_update does to the index, case by case.
Outcome(r, h, w, t) ==
  \/ /\ h \in DOMAIN r.index
     /\ t.index = [r.index EXCEPT ![h] = Merge(r.index[h], w)]
  \/ /\ h \notin DOMAIN r.index /\ ~(Full(r) /\ DOMAIN r.index # {})
     /\ t.index = Put(r.index, h, w)
  \/ /\ h \notin DOMAIN r.index /\ Full(r)
     /\ \E v \in DOMAIN r.index :
          /\ \A g \in DOMAIN r.index : ~Better(r.index[v], r.index[g])
          /\ \/ Better(w, r.index[v]) /\ t.index = Put(Drop(r.index, v), h, w)
             \/ ~Better(w, r.index[v]) /\ t.index = r.index

\* It does nothing else, and keeps the two structures in agreement.
LEMMA PushOrUpdateIs ==
  ASSUME NEW W, NEW H, Domains(W, H),
         NEW r, QueueType(r, W, H), Linked(r), NEW h, h \in H, NEW w, w \in W
  PROVE  LET t == PushOrUpdate(r, h, w)
         IN  QueueType(t, W, H) /\ Linked(t) /\ Outcome(r, h, w, t)
<1> USE DEF Domains, Outcome
<1>1. CASE h \in DOMAIN r.index
  <2>1. PushOrUpdate(r, h, w) = Update(r, h, w)
    BY <1>1 DEF PushOrUpdate
  <2>2. /\ QueueType(Update(r, h, w), W, H) /\ Linked(Update(r, h, w))
        /\ Update(r, h, w).index = [r.index EXCEPT ![h] = Merge(r.index[h], w)]
    BY <1>1, UpdateIs
  <2>3. QED
    BY <1>1, <2>1, <2>2
<1>2. CASE h \notin DOMAIN r.index /\ ~(Full(r) /\ Victims(r) # {})
  <2>1. PushOrUpdate(r, h, w) = Insert(r, h, w)
    BY <1>2 DEF PushOrUpdate
  <2>2. /\ QueueType(Insert(r, h, w), W, H) /\ Linked(Insert(r, h, w))
        /\ Insert(r, h, w).index = Put(r.index, h, w)
    BY <1>2, InsertIs
  <2>3. ~(Full(r) /\ DOMAIN r.index # {})
    BY <1>2, VictimExists
  <2>4. QED
    BY <1>2, <2>1, <2>2, <2>3
<1>3. CASE h \notin DOMAIN r.index /\ Full(r) /\ Victims(r) # {}
  <2> DEFINE v == CHOOSE v \in Victims(r) : TRUE
             e == Evict(r, v)
  <2>1. v \in Victims(r)
    BY <1>3
  <2>2. PushOrUpdate(r, h, w) = IF Better(w, r.index[v]) THEN Insert(e, h, w) ELSE r
    BY <1>3 DEF PushOrUpdate
  <2> HIDE DEF v
  <2>3. /\ v \in DOMAIN r.index
        /\ \A g \in DOMAIN r.index : ~Better(r.index[v], r.index[g])
    BY <2>1, VictimIsWorst
  <2>4. QueueType(e, W, H) /\ Linked(e) /\ e.index = Drop(r.index, v)
    BY <2>3, EvictIs
  <2>5. h \in H /\ h \notin DOMAIN e.index
    BY <1>3, <2>4 DEF Drop, Restrict
  <2> HIDE DEF e
  <2>6. /\ QueueType(Insert(e, h, w), W, H) /\ Linked(Insert(e, h, w))
        /\ Insert(e, h, w).index = Put(e.index, h, w)
    BY <2>4, <2>5, InsertIs
  <2>7. CASE Better(w, r.index[v])
    <3>1. PushOrUpdate(r, h, w) = Insert(e, h, w)
      BY <2>2, <2>7
    <3>2. Insert(e, h, w).index = Put(Drop(r.index, v), h, w)
      BY <2>4, <2>6
    <3>3. QED
      BY <1>3, <2>3, <2>6, <2>7, <3>1, <3>2
  <2>8. CASE ~Better(w, r.index[v])
    <3>1. PushOrUpdate(r, h, w) = r
      BY <2>2, <2>8
    <3>2. QED
      BY <1>3, <2>3, <2>8, <3>1
  <2>9. QED
    BY <2>7, <2>8
<1>4. QED
  BY <1>1, <1>2, <1>3
-----------------------------------------------------------------------------
\* g comes before h in the report of the index i.
Before(i, g, h) == Better(i[g], i[h]) \/ (i[g] = i[h] /\ g < h)

\* t lists the set A in the order of the index i.
Lists(t, A, i) == /\ t \in [1 .. Cardinality(A) -> A]
                  /\ \A x, y \in 1 .. Cardinality(A) : x < y => Before(i, t[x], t[y])

LEMMA BeforeOrder ==
  ASSUME NEW i, NEW D, D \subseteq Int, i \in [D -> Int]
  PROVE  /\ \A g \in D : ~Before(i, g, g)
         /\ \A f, g, h \in D : Before(i, f, g) /\ Before(i, g, h) => Before(i, f, h)
         /\ \A g, h \in D : g = h \/ Before(i, g, h) \/ Before(i, h, g)
<1>1. \A g \in D : i[g] \in Int /\ g \in Int
  OBVIOUS
<1>2. \A g \in D : ~Before(i, g, g)
  BY <1>1, BetterOrder DEF Before
<1>3. \A f, g, h \in D : Before(i, f, g) /\ Before(i, g, h) => Before(i, f, h)
  BY <1>1 DEF Before, Better
<1>4. \A g, h \in D : g = h \/ Before(i, g, h) \/ Before(i, h, g)
  BY <1>1, BetterOrder DEF Before
<1>5. QED
  BY <1>2, <1>3, <1>4

\* The next set larger by one: the last entry goes to the end.
LEMMA ListLonger ==
  ASSUME NEW A, IsFiniteSet(A), NEW m \in A, NEW i,
         \A g \in A \ {m} : Before(i, g, m), NEW t, Lists(t, A \ {m}, i)
  PROVE  \E u : Lists(u, A, i)
<1> DEFINE n == Cardinality(A \ {m})
           u == [x \in 1 .. Cardinality(A) |-> IF x = n + 1 THEN m ELSE t[x]]
<1>1. Cardinality(A) = n + 1 /\ n \in Nat
  <2>1. Cardinality(A) \in Nat /\ n \in Nat /\ n = Cardinality(A) - 1
    BY FS_RemoveElement, FS_CardinalityType
  <2>2. QED
    BY <2>1
<1>2. t \in [1 .. n -> A \ {m}] /\ \A x, y \in 1 .. n : x < y => Before(i, t[x], t[y])
  BY DEF Lists
<1> HIDE DEF n
<1>3. u = [x \in 1 .. n + 1 |-> IF x = n + 1 THEN m ELSE t[x]]
  BY <1>1
<1>4. \A x \in 1 .. n + 1 : x = n + 1 \/ x \in 1 .. n
  BY <1>1
<1>5. u \in [1 .. n + 1 -> A]
  BY <1>2, <1>3, <1>4
<1>6. ASSUME NEW x \in 1 .. n + 1, NEW y \in 1 .. n + 1, x < y
      PROVE  Before(i, u[x], u[y])
  <2>1. x \in 1 .. n
    BY <1>1, <1>6
  <2>2. u[x] = t[x] /\ t[x] \in A \ {m}
    BY <1>1, <1>2, <1>3, <2>1
  <2>3. CASE y = n + 1
    BY <1>3, <2>2, <2>3
  <2>4. CASE y # n + 1
    <3>1. y \in 1 .. n /\ u[y] = t[y]
      BY <1>3, <1>4, <2>4
    <3>2. QED
      BY <1>2, <1>6, <2>1, <2>2, <3>1
  <2>5. QED
    BY <2>3, <2>4
<1> HIDE DEF u
<1>7. QED
  BY <1>1, <1>5, <1>6 DEF Lists

\* Any finite set can be listed: a smallest one that cannot would have a last entry.
LEMMA ListExists ==
  ASSUME NEW D, IsFiniteSet(D), D \subseteq Int, NEW i, i \in [D -> Int]
  PROVE  \E t : Lists(t, D, i)
<1> DEFINE T == {A \in SUBSET D : ~\E t : Lists(t, A, i)}
<1>1. SUFFICES ASSUME D \in T PROVE FALSE
  OBVIOUS
<1>2. T \subseteq FiniteSubsetsOf(D)
  BY FS_FiniteSubsetsOfFinite
<1>3. PICK A \in T : \A B \in T : <<B, A>> \notin StrictSubsetOrdering(D)
  <2>1. IsWellFoundedOn(StrictSubsetOrdering(D), FiniteSubsetsOf(D))
    BY FS_StrictSubsetOrderingWellFounded
  <2> HIDE DEF T
  <2>2. QED
    BY <1>1, <1>2, <2>1, WFMin
<1>4. A \in SUBSET D /\ IsFiniteSet(A) /\ ~\E t : Lists(t, A, i)
  BY FS_Subset
<1>5. A # {}
  <2>1. SUFFICES ASSUME A = {} PROVE Lists([x \in {} |-> 0], A, i)
    BY <1>4
  <2>2. Cardinality(A) = 0
    BY <2>1, FS_EmptySet
  <2>3. QED
    BY <2>1, <2>2 DEF Lists
<1> DEFINE R == {p \in D \X D : Before(i, p[1], p[2])}
<1>6. \A x, y \in D : <<x, y>> \in R <=> Before(i, x, y)
  OBVIOUS
<1>7. PICK m \in A : \A x \in A : <<m, x>> \notin R
  <2>1. /\ \A x \in A : <<x, x>> \notin R
        /\ \A x, y, z \in A : <<x, y>> \in R /\ <<y, z>> \in R => <<x, z>> \in R
    BY <1>4, <1>6, BeforeOrder
  <2> HIDE DEF R
  <2>2. QED
    BY <1>4, <1>5, <2>1, FiniteExtremum
<1>8. \A g \in A \ {m} : Before(i, g, m)
  BY <1>4, <1>6, <1>7, BeforeOrder
<1>9. A \ {m} \notin T
  <2>1. <<A \ {m}, A>> \in StrictSubsetOrdering(D)
    BY <1>4 DEF StrictSubsetOrdering
  <2> HIDE DEF T
  <2>2. QED
    BY <1>3, <2>1
<1>10. PICK t : Lists(t, A \ {m}, i)
  BY <1>4, <1>9
<1>11. QED
  BY <1>4, <1>8, <1>10, ListLonger

\* A list leaves nothing out.
LEMMA ListIsSurjective ==
  ASSUME NEW D, IsFiniteSet(D), NEW t \in [1 .. Cardinality(D) -> D], IsInjective(t)
  PROVE  \A g \in D : \E x \in 1 .. Cardinality(D) : t[x] = g
<1>1. Cardinality(D) \in Nat
  BY FS_CardinalityType
<1>2. Cardinality(1 .. Cardinality(D)) = Cardinality(D)
  BY <1>1, FS_Interval
<1>3. t \in Injection(1 .. Cardinality(D), D)
  BY DEF Injection
<1>4. t \in Surjection(1 .. Cardinality(D), D)
  BY <1>2, <1>3, FS_Injection
<1>5. QED
  BY <1>4 DEF Surjection

\* A list repeats nothing.
LEMMA ListInjective ==
  ASSUME NEW D, IsFiniteSet(D), D \subseteq Int, NEW i, i \in [D -> Int], NEW t, Lists(t, D, i)
  PROVE  t \in [1 .. Cardinality(D) -> D] /\ IsInjective(t)
<1>1. Cardinality(D) \in Nat
  BY FS_CardinalityType
<1>2. t \in [1 .. Cardinality(D) -> D] /\ DOMAIN t = 1 .. Cardinality(D)
  BY DEF Lists
<1>3. ASSUME NEW x \in DOMAIN t, NEW y \in DOMAIN t, t[x] = t[y] PROVE x = y
  <2>1. ~Before(i, t[x], t[y]) /\ ~Before(i, t[y], t[x])
    BY <1>2, <1>3, BeforeOrder
  <2>2. ~(x < y) /\ ~(y < x)
    BY <1>2, <2>1 DEF Lists
  <2>3. QED
    BY <1>1, <1>2, <2>2
<1>4. QED
  BY <1>2, <1>3 DEF IsInjective

\* There is only one way to list a set: two lists would differ first somewhere.
LEMMA ListUnique ==
  ASSUME NEW D, IsFiniteSet(D), D \subseteq Int, NEW i, i \in [D -> Int],
         NEW t, Lists(t, D, i), NEW u, Lists(u, D, i)
  PROVE  t = u
<1> DEFINE N == 1 .. Cardinality(D)
           S == {x \in N : t[x] # u[x]}
           R == {p \in N \X N : p[2] < p[1]}
<1>1. /\ t \in [N -> D] /\ IsInjective(t) /\ \A x, y \in N : x < y => Before(i, t[x], t[y])
      /\ u \in [N -> D] /\ IsInjective(u) /\ \A x, y \in N : x < y => Before(i, u[x], u[y])
  <2>1. IsInjective(t) /\ IsInjective(u)
    BY ListInjective
  <2>2. QED
    BY <2>1 DEF Lists
<1>2. /\ \A g \in D : \E x \in N : t[x] = g
      /\ \A g \in D : \E x \in N : u[x] = g
  BY <1>1, ListIsSurjective
<1>3. N \subseteq Int /\ IsFiniteSet(N)
  BY FS_CardinalityType, FS_Interval
<1>4. SUFFICES ASSUME S # {} PROVE FALSE
  <2>1. S = {} => \A x \in N : t[x] = u[x]
    OBVIOUS
  <2> HIDE DEF N, S
  <2>2. QED
    BY <1>1, <2>1
<1>5. PICK m \in S : \A x \in S : ~(x < m)
  <2>1. IsFiniteSet(S) /\ S \subseteq Int
    BY <1>3, FS_Subset
  <2>2. \A x, y \in S : <<x, y>> \in R <=> y < x
    OBVIOUS
  <2>3. /\ \A x \in S : <<x, x>> \notin R
        /\ \A x, y, z \in S : <<x, y>> \in R /\ <<y, z>> \in R => <<x, z>> \in R
    BY <2>1, <2>2
  <2> HIDE DEF S, R
  <2>4. QED
    BY <1>4, <2>1, <2>2, <2>3, FiniteExtremum
<1>6. m \in N /\ t[m] # u[m] /\ t[m] \in D /\ u[m] \in D
  BY <1>1
<1>7. \A x \in N : x < m => t[x] = u[x]
  BY <1>5
<1> HIDE DEF N, S, R
<1>8. Before(i, t[m], u[m])
  <2>1. PICK y \in N : t[y] = u[m]
    BY <1>2, <1>6
  <2>2. ~(y < m)
    BY <1>1, <1>6, <1>7, <2>1 DEF IsInjective
  <2>3. m < y
    BY <1>3, <1>6, <2>1, <2>2
  <2>4. QED
    BY <1>1, <1>6, <2>1, <2>3
<1>9. Before(i, u[m], t[m])
  <2>1. PICK y \in N : u[y] = t[m]
    BY <1>2, <1>6
  <2>2. ~(y < m)
    BY <1>1, <1>6, <1>7, <2>1 DEF IsInjective
  <2>3. m < y
    BY <1>3, <1>6, <2>1, <2>2
  <2>4. QED
    BY <1>1, <1>6, <2>1, <2>3
<1>10. QED
  BY <1>6, <1>8, <1>9, BeforeOrder

\* into_vec lists the index, best weight first and by hash within a weight.
LEMMA IntoVecLists ==
  ASSUME NEW D, IsFiniteSet(D), D \subseteq Int, NEW r, DOMAIN r.index = D, r.index \in [D -> Int]
  PROVE  Lists(IntoVec(r), D, r.index)
<1>1. PICK t : Lists(t, D, r.index)
  BY ListExists
<1>2. t \in SetToSeqs(D)
  <2>1. t \in [1 .. Cardinality(D) -> D] /\ IsInjective(t)
    BY <1>1, ListInjective
  <2>2. QED
    BY <2>1 DEF IsInjective, SetToSeqs
<1>3. \A x, y \in DOMAIN t : x < y => Before(r.index, t[x], t[y])
  BY <1>1 DEF Lists
<1> DEFINE Sorted(s) == \A x, y \in DOMAIN s : x < y => Before(r.index, s[x], s[y])
<1>4. IntoVec(r) = CHOOSE s \in SetToSeqs(D) : Sorted(s)
  BY DEF IntoVec, Before
<1>5. IntoVec(r) \in SetToSeqs(D) /\ Sorted(IntoVec(r))
  <2>1. Sorted(t)
    BY <1>3
  <2> HIDE DEF Sorted
  <2>2. QED
    BY <1>2, <1>4, <2>1
<1>6. QED
  BY <1>5 DEF Lists, SetToSeqs
-----------------------------------------------------------------------------
\* The queue is within its capacity.
Within(r) == MaxSize # 0 => Cardinality(DOMAIN r.index) <= MaxSize

\* Hash k has the place that weight w earns it: it is in the queue, or the queue
\* is full and nothing in it is worse.
Placed(r, k, w) ==
  \/ k \in DOMAIN r.index /\ r.index[k] = w
  \/ /\ MaxSize # 0 /\ Cardinality(DOMAIN r.index) = MaxSize
     /\ \A g \in DOMAIN r.index : ~Better(w, r.index[g])

\* idle and ttl: the first value of an entry stays.
FirstStays == \A a, b : Merge(a, b) = a

\* What a push does to the index if the first value stays: nothing, one more
\* entry, or another one in the place of a worst one.
PushChanges(i, j, h, w) ==
  \/ j = i /\ h \in DOMAIN i
  \/ j = Put(i, h, w) /\ h \notin DOMAIN i
     /\ (MaxSize # 0 => Cardinality(DOMAIN i) < MaxSize)
  \/ /\ h \notin DOMAIN i /\ MaxSize # 0 /\ Cardinality(DOMAIN i) = MaxSize
     /\ \E v \in DOMAIN i :
          /\ \A g \in DOMAIN i : ~Better(i[v], i[g])
          /\ \/ Better(w, i[v]) /\ j = Put(Drop(i, v), h, w)
             \/ ~Better(w, i[v]) /\ j = i

LEMMA PushChangesIs ==
  ASSUME FirstStays, NEW W, NEW H, Domains(W, H), NEW r, QueueType(r, W, H), Within(r),
         NEW h, NEW w, NEW t, Outcome(r, h, w, t)
  PROVE  PushChanges(r.index, t.index, h, w)
<1> DEFINE i == r.index
           D == DOMAIN i
           c == Cardinality(D)
<1>1. IsFiniteSet(D) /\ c \in Nat /\ (D = {} <=> c = 0)
  BY FS_Subset, FS_CardinalityType, FS_EmptySet DEF Domains, QueueType
<1>2. MaxSize # 0 => c <= MaxSize
  BY DEF Within
<1>3. Full(r) <=> MaxSize # 0 /\ c >= MaxSize
  BY DEF Full
<1>4. CASE h \in D /\ t.index = [i EXCEPT ![h] = Merge(i[h], w)]
  <2>1. Merge(i[h], w) = i[h]
    BY DEF FirstStays
  <2>2. i = [g \in D |-> i[g]]
    BY DEF QueueType
  <2> HIDE DEF i
  <2>3. [i EXCEPT ![h] = i[h]] = i
    BY <2>2
  <2>4. QED
    BY <1>4, <2>1, <2>3 DEF PushChanges, i
<1>5. CASE h \notin D /\ ~(Full(r) /\ D # {}) /\ t.index = Put(i, h, w)
  <2> HIDE DEF c, D
  <2>1. MaxSize # 0 => c < MaxSize
    BY <1>1, <1>3, <1>5, MaxSizeAssumption
  <2>2. QED
    BY <1>5, <2>1 DEF PushChanges, c, D
<1>6. ASSUME h \notin D, Full(r),
             NEW v \in D, \A g \in D : ~Better(i[v], i[g]),
             \/ Better(w, i[v]) /\ t.index = Put(Drop(i, v), h, w)
             \/ ~Better(w, i[v]) /\ t.index = i
      PROVE  PushChanges(i, t.index, h, w)
  <2> HIDE DEF c
  <2>1. MaxSize # 0 /\ c = MaxSize
    BY <1>1, <1>2, <1>3, <1>6, MaxSizeAssumption
  <2>2. QED
    BY <1>6, <2>1 DEF PushChanges, c
<1>7. QED
  BY <1>4, <1>5, <1>6 DEF Outcome

\* An entry that a push leaves in the index is an old one or the pushed one.
LEMMA PushInvents ==
  ASSUME NEW i, NEW j, NEW h, NEW w, PushChanges(i, j, h, w), NEW g \in DOMAIN j
  PROVE  (g \in DOMAIN i /\ j[g] = i[g]) \/ (g = h /\ j[g] = w)
<1>1. CASE j = i
  BY <1>1
<1>2. CASE j = Put(i, h, w)
  BY <1>2 DEF Put
<1>3. ASSUME NEW v \in DOMAIN i, j = Put(Drop(i, v), h, w)
      PROVE  (g \in DOMAIN i /\ j[g] = i[g]) \/ (g = h /\ j[g] = w)
  BY <1>3 DEF Put, Drop, Restrict
<1>4. QED
  BY <1>1, <1>2, <1>3 DEF PushChanges

\* The number of entries stays within the capacity.
LEMMA PushKeepsWithin ==
  ASSUME NEW i, IsFiniteSet(DOMAIN i), NEW j, NEW h, NEW w, PushChanges(i, j, h, w),
         MaxSize # 0 => Cardinality(DOMAIN i) <= MaxSize
  PROVE  /\ MaxSize # 0 => Cardinality(DOMAIN j) <= MaxSize
         /\ MaxSize # 0 /\ Cardinality(DOMAIN i) = MaxSize => Cardinality(DOMAIN j) = MaxSize
<1> DEFINE D == DOMAIN i
<1>1. Cardinality(D) \in Nat
  BY FS_CardinalityType
<1>2. CASE j = i
  BY <1>2
<1>3. CASE j = Put(i, h, w) /\ h \notin D /\ (MaxSize # 0 => Cardinality(D) < MaxSize)
  <2>1. DOMAIN j = D \cup {h}
    BY <1>3 DEF Put
  <2>2. Cardinality(D \cup {h}) = Cardinality(D) + 1
    BY <1>3, FS_AddElement
  <2>3. QED
    BY <1>1, <1>3, <2>1, <2>2, MaxSizeAssumption
<1>4. ASSUME h \notin D, NEW v \in D, j = Put(Drop(i, v), h, w)
      PROVE  Cardinality(DOMAIN j) = Cardinality(D)
  <2> DEFINE E == D \ {v}
  <2>1. DOMAIN j = E \cup {h}
    BY <1>4 DEF Put, Drop, Restrict
  <2>2. IsFiniteSet(E) /\ Cardinality(E) = Cardinality(D) - 1
    BY FS_RemoveElement
  <2>3. h \notin E
    BY <1>4
  <2> HIDE DEF E
  <2>4. Cardinality(E \cup {h}) = Cardinality(E) + 1
    BY <2>2, <2>3, FS_AddElement
  <2>5. QED
    BY <1>1, <2>1, <2>2, <2>4
<1>5. QED
  BY <1>1, <1>2, <1>3, <1>4, MaxSizeAssumption DEF PushChanges

\* A hash that is pushed is placed.
LEMMA PushPlaces ==
  ASSUME NEW W, NEW H, Domains(W, H), NEW r, QueueType(r, W, H), Within(r), NEW t,
         NEW h, NEW w \in W, PushChanges(r.index, t.index, h, w),
         h \in DOMAIN r.index => r.index[h] = w
  PROVE  Placed(t, h, w)
<1> DEFINE i == r.index
           j == t.index
<1>1. W \subseteq Int /\ i \in [DOMAIN i -> W]
  BY DEF Domains, QueueType
<1>2. CASE j = i /\ h \in DOMAIN i
  BY <1>2 DEF Placed
<1>3. CASE \E f : j = Put(f, h, w)
  BY <1>3 DEF Placed, Put
<1>4. ASSUME MaxSize # 0, Cardinality(DOMAIN i) = MaxSize, j = i,
             NEW v \in DOMAIN i, \A g \in DOMAIN i : ~Better(i[v], i[g]), ~Better(w, i[v])
      PROVE  Placed(t, h, w)
  <2>1. \A g \in DOMAIN i : ~Better(w, i[g])
    <3> HIDE DEF i
    <3>1. QED
      BY <1>1, <1>4, BetterOrder
  <2>2. QED
    BY <1>4, <2>1 DEF Placed
<1>5. QED
  BY <1>2, <1>3, <1>4 DEF PushChanges

\* A hash that is placed stays so, whatever is pushed.
LEMMA PushKeepsPlaced ==
  ASSUME NEW W, NEW H, Domains(W, H), NEW r, QueueType(r, W, H), Within(r), NEW t,
         NEW h, NEW w \in W, PushChanges(r.index, t.index, h, w),
         NEW k, NEW x \in W, Placed(r, k, x)
  PROVE  Placed(t, k, x)
<1> DEFINE i == r.index
           j == t.index
           D == DOMAIN i
<1>1. /\ W \subseteq Int /\ i \in [D -> W] /\ IsFiniteSet(D)
      /\ (MaxSize # 0 => Cardinality(D) <= MaxSize)
  BY FS_Subset DEF Domains, QueueType, Within
<1>2. CASE j = i
  BY <1>2 DEF Placed
<1>3. CASE j = Put(i, h, w) /\ h \notin D /\ (MaxSize # 0 => Cardinality(D) < MaxSize)
  <2>1. Cardinality(D) \in Nat
    BY <1>1, FS_CardinalityType
  <2>2. k \in D /\ i[k] = x
    BY <1>3, <2>1, MaxSizeAssumption DEF Placed
  <2>3. QED
    BY <1>3, <2>2 DEF Placed, Put
<1>4. ASSUME h \notin D, MaxSize # 0, Cardinality(D) = MaxSize,
             NEW v \in D, \A g \in D : ~Better(i[v], i[g]),
             Better(w, i[v]), j = Put(Drop(i, v), h, w)
      PROVE  Placed(t, k, x)
  <2>1. Cardinality(DOMAIN j) = MaxSize
    BY <1>1, <1>4, PushKeepsWithin
  <2>2. /\ DOMAIN j = (D \ {v}) \cup {h} /\ j[h] = w
        /\ \A g \in D \ {v} : j[g] = i[g]
    BY <1>4 DEF Put, Drop, Restrict
  <2>3. CASE k \in D \ {v} /\ i[k] = x
    BY <2>2, <2>3 DEF Placed
  <2>4. CASE ~Better(x, i[v]) /\ (x = i[v] \/ \A g \in D : ~Better(x, i[g]))
    <3>1. \A g \in D : ~Better(x, i[g])
      BY <1>4, <2>4
    <3> HIDE DEF i
    <3>2. ~Better(x, w)
      BY <1>1, <1>4, <2>4, BetterOrder
    <3> HIDE DEF j, D
    <3>3. \A g \in DOMAIN j : ~Better(x, j[g])
      BY <2>2, <3>1, <3>2
    <3>4. QED
      BY <1>4, <2>1, <3>3 DEF Placed, j
  <2>5. CASE k = v /\ i[k] = x
    <3>1. ~Better(x, i[v])
      BY <1>1, <2>5, BetterOrder
    <3>2. QED
      BY <2>4, <2>5, <3>1
  <2>6. QED
    BY <2>3, <2>4, <2>5 DEF Placed
<1>5. QED
  BY <1>2, <1>3, <1>4 DEF PushChanges
=============================================================================
