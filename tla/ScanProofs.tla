----------------------------- MODULE ScanProofs -----------------------------
(***************************************************************************)
(* idle and ttl forget no key, for any nodes, keys, values, arguments,     *)
(* number of pages and writes of other clients, and any faults.            *)
(***************************************************************************)
EXTENDS Scan, ScanServerProofs, FiniteSetTheorems

QP == INSTANCE PQueueOpsProofs WITH MaxSize <- QueueSize, Merge <- MergeOf

\* The size of the queue is a number, however it comes about.
LEMMA QueueSizeIs == QueueSize \in Nat
<1>1. 2 ^ Bits \in Nat /\ 2 ^ Bits >= 1
  BY BitsAssumption
<1>2. Limit \in Nat /\ Offset \in Nat /\ U64Max \in Nat
  BY <1>1, CommandAssumption DEF U64Max
<1>3. \A x, u \in Nat : x % (u + 1) \in Nat
  BY Z3
<1> HIDE DEF U64Max
<1>4. CASE ~HasTotal
  <2>1. QueueSize = (Limit + Offset) % (U64Max + 1)
    BY <1>4 DEF QueueSize
  <2>2. Limit + Offset \in Nat
    BY <1>2
  <2>3. QED
    BY <1>2, <1>3, <2>1, <2>2
<1>5. CASE HasTotal /\ ~(Command = "sum" /\ Limit = 0) /\ MaxIndexSize # {}
  BY <1>5, CommandAssumption DEF QueueSize
<1>6. CASE HasTotal /\ ~(Command = "sum" /\ Limit = 0) /\ MaxIndexSize = {}
  BY <1>2, <1>6 DEF QueueSize, Saturating
<1>7. CASE HasTotal /\ Command = "sum" /\ Limit = 0
  BY <1>7 DEF QueueSize
<1>8. QED
  BY <1>4, <1>5, <1>6, <1>7

\* The two instances of the queue's operators are the same.
LEMMA SameQueue ==
  /\ PQ!New = QP!New
  /\ \A r, h, w : PQ!PushOrUpdate(r, h, w) = QP!PushOrUpdate(r, h, w)
  /\ \A r : PQ!IntoVec(r) = QP!IntoVec(r)
  /\ \A a, b : PQ!Better(a, b) <=> QP!Better(a, b)
<1>1. PQ!New = QP!New
  BY DEF PQ!New, QP!New
<1>2. \A r, h, w : PQ!PushOrUpdate(r, h, w) = QP!PushOrUpdate(r, h, w)
  BY DEF PQ!PushOrUpdate, QP!PushOrUpdate, PQ!Update, QP!Update, PQ!Insert, QP!Insert,
         PQ!Evict, QP!Evict, PQ!Full, QP!Full, PQ!Victims, QP!Victims,
         PQ!WorstWeights, QP!WorstWeights, PQ!Better, QP!Better,
         PQ!InsertSorted, QP!InsertSorted, PQ!RemoveSorted, QP!RemoveSorted,
         PQ!Put, QP!Put, PQ!Drop, QP!Drop, PQ!Restrict, QP!Restrict,
         PQ!Cardinality, QP!Cardinality
<1>3. \A r : PQ!IntoVec(r) = QP!IntoVec(r)
  BY DEF PQ!IntoVec, QP!IntoVec, PQ!SetToSeqs, QP!SetToSeqs,
         PQ!Cardinality, QP!Cardinality, PQ!Better, QP!Better
<1>4. \A a, b : PQ!Better(a, b) <=> QP!Better(a, b)
  BY DEF PQ!Better, QP!Better
<1>5. QED
  BY <1>1, <1>2, <1>3, <1>4

\* Commands without a total have no groups, change nothing and merge nothing.
LEMMA Plain ==
  ~HasTotal => /\ ~Decr /\ \A k : Identity(k) = k
               /\ DOMAIN GroupOf = {} /\ ~GroupBy
               /\ QP!FirstStays
<1> SUFFICES ASSUME ~HasTotal PROVE /\ ~Decr /\ \A k : Identity(k) = k
                                    /\ DOMAIN GroupOf = {} /\ ~GroupBy
                                    /\ QP!FirstStays
  OBVIOUS
<1>1. ~Decr /\ ~GroupBy /\ DOMAIN GroupOf = {}
  BY CommandAssumption DEF HasTotal
<1>2. QP!FirstStays
  BY DEF QP!FirstStays, MergeOf, FirstWins
<1>3. QED
  BY <1>1, <1>2 DEF Identity

\* The sets they are about are the same, too.
LEMMA SameSets ==
  /\ \A S : QP!IsFiniteSet(S) <=> IsFiniteSet(S)
  /\ \A S : QP!Cardinality(S) = Cardinality(S)
<1>1. \A S : QP!IsFiniteSet(S) <=> IsFiniteSet(S)
  BY DEF QP!IsFiniteSet, IsFiniteSet
<1>2. \A S : QP!Cardinality(S) = Cardinality(S)
  BY <1>1 DEF QP!Cardinality, Cardinality
<1>3. QED
  BY <1>1, <1>2

\* What the lemmas about the queue ask of it.
LEMMA TheDomains == ~HasTotal => QP!Domains(Int, Keys)
<1>1. Keys \subseteq Int /\ QP!IsFiniteSet(Keys)
  BY ScanAssumption, SameSets
<1>2. ~HasTotal => QP!MergeClosed(Int)
  BY DEF QP!MergeClosed, MergeOf, FirstWins
<1>3. QED
  BY <1>1, <1>2 DEF QP!Domains
-----------------------------------------------------------------------------
\* --skip-missing lets key k pass, going by the value it had.
HasTtl(k) == SkipMissing => db0[k] # -1

\* The queue is well formed, within its capacity, and has of the keys that nobody
\* else writes to only the wanted ones, with the right weights.
QueueInv ==
  /\ QP!QueueType(q, Int, Keys) /\ QP!Linked(q) /\ QP!Within(q)
  /\ \A k \in DOMAIN q.index \ touched : q.index[k] = db0[k] /\ HasTtl(k)

\* The keys that have the place in the queue that they had the value for.
PlacedKeys == {k \in Keys : QP!Placed(q, k, db0[k])}

\* The values at the start are numbers.
Typical == db0 \in [Keys -> Values] /\ Values \subseteq Int

\* What a push does to them.
LEMMA PushStep ==
  ASSUME ~HasTotal, QueueInv, Typical, UNCHANGED <<db0, touched>>,
         NEW h \in Keys, NEW w \in Int, h \notin touched => w = db0[h] /\ HasTtl(h),
         q' = PQ!PushOrUpdate(q, h, w)
  PROVE  /\ QueueInv' /\ PlacedKeys \subseteq PlacedKeys'
         /\ h \notin touched => h \in PlacedKeys'
<1>1. Sort \in {"asc", "desc"} /\ QueueSize \in Nat
  BY ScanAssumption, QueueSizeIs
<1>2. QP!Domains(Int, Keys) /\ QP!FirstStays
  BY TheDomains, Plain
<1> DEFINE t == QP!PushOrUpdate(q, h, w)
<1>3. q' = t
  BY SameQueue
<1>4. QP!QueueType(q, Int, Keys) /\ QP!Linked(q) /\ QP!Within(q)
  BY DEF QueueInv
<1>5. QP!QueueType(q', Int, Keys) /\ QP!Linked(q') /\ QP!Outcome(q, h, w, q')
  <2>1. QP!QueueType(t, Int, Keys) /\ QP!Linked(t) /\ QP!Outcome(q, h, w, t)
    BY <1>1, <1>2, <1>4, QP!PushOrUpdateIs, Zenon
  <2> HIDE DEF t
  <2>2. QED
    BY <1>3, <2>1
<1>6. QP!PushChanges(q.index, q'.index, h, w)
  BY <1>1, <1>2, <1>4, <1>5, QP!PushChangesIs, Zenon
<1>7. QP!IsFiniteSet(DOMAIN q.index)
  BY <1>4, ScanAssumption, FS_Subset, SameSets DEF QP!QueueType
<1>8. QP!Within(q')
  <2>1. QueueSize # 0 => QP!Cardinality(DOMAIN q.index) <= QueueSize
    BY <1>4 DEF QP!Within
  <2>2. QueueSize # 0 => QP!Cardinality(DOMAIN q'.index) <= QueueSize
    BY <1>1, <1>6, <1>7, <2>1, QP!PushKeepsWithin, Zenon
  <2>3. QED
    BY <2>2 DEF QP!Within
<1>9. ASSUME NEW k \in DOMAIN q'.index \ touched PROVE q'.index[k] = db0[k] /\ HasTtl(k)
  <2>1. (k \in DOMAIN q.index /\ q'.index[k] = q.index[k]) \/ (k = h /\ q'.index[k] = w)
    BY <1>1, <1>6, QP!PushInvents
  <2>2. QED
    BY <2>1 DEF QueueInv
<1>10. QueueInv'
  BY <1>5, <1>8, <1>9 DEF QueueInv, HasTtl
<1>11. ASSUME NEW k \in PlacedKeys PROVE k \in PlacedKeys'
  <2>1. k \in Keys /\ db0[k] \in Int /\ QP!Placed(q, k, db0[k])
    BY DEF Typical, PlacedKeys
  <2>2. QP!Placed(q', k, db0[k])
    BY <1>1, <1>2, <1>4, <1>6, <2>1, QP!PushKeepsPlaced, Zenon
  <2>3. QED
    BY <2>1, <2>2 DEF PlacedKeys
<1>12. ASSUME h \notin touched PROVE h \in PlacedKeys'
  <2>1. h \in DOMAIN q.index => q.index[h] = w
    BY <1>12 DEF QueueInv
  <2>2. QP!Placed(q', h, w)
    BY <1>1, <1>2, <1>4, <1>6, <2>1, QP!PushPlaces, Zenon
  <2>3. QED
    BY <1>12, <2>2 DEF PlacedKeys
<1>13. QED
  BY <1>10, <1>11, <1>12
-----------------------------------------------------------------------------
\* The fields of a task's state, with whatever values.
Shape(a) == a \in [pc : {a.pc}, seen : {a.seen}, pages : {a.pages}, more : {a.more},
                   sent : {a.sent}, batch : {a.batch}, key : {a.key},
                   count : {a.count}, missed : {a.missed}]

Own(n) == {k \in Keys : Home[k] = n}

\* The keys the code takes for wanted, going by the value they had.
Due == {k \in Keys : ~ShouldSkip(k) /\ HasTtl(k)}

\* The replies a task holds are numbers, or nil, and right if nobody else writes.
BatchOk(b, T) == /\ \A k \in DOMAIN b : b[k] \in Int \cup {Nil}
                 /\ \A k \in DOMAIN b \ T : b[k] = db0[k]

\* What task n, in state a, owes: each of its wanted keys has its place in the
\* queue, was written to by another client, was lost to an error, is in the
\* pipeline or among the replies, or is still to be returned; that there is
\* nothing left to return when it stops, SCAN guarantees.
Owes(n, a, placed, T) ==
  /\ Shape(a)
  /\ a.sent \subseteq Own(n) /\ DOMAIN a.batch \subseteq Own(n)
  /\ a.pc # "reply" => a.sent = {}
  /\ a.pc # "store" => DOMAIN a.batch = {}
  /\ a.pc = "connect" => a.missed = {}
  /\ BatchOk(a.batch, T)
  /\ ~a.more \/ a.pc \in {"done", "failed"} => Own(n) \ a.seen \subseteq T \cup a.missed
  /\ Due \cap Own(n) \subseteq placed \cup T \cup a.missed \cup a.sent \cup DOMAIN a.batch
                                \cup (Own(n) \ a.seen)

AllDone == \A n \in Nodes : task[n].pc \in {"done", "failed"}

\* A report that was not cut short is what is in the queue; any is right.
Complete ==
  Reported /\ ~interrupted =>
    /\ Len(results) = Cardinality(DOMAIN q.index)
    /\ Range(results) = {<<h, q.index[h]>> : h \in DOMAIN q.index}

Right == \A r \in Range(results) :
           r[1] \in touched \/ (r[1] \in Keys /\ r[2] = db0[r[1]] /\ HasTtl(r[1]))

Delivered == Complete /\ Right /\ Range(rows) \subseteq Range(results)

DataInv == /\ Typical
           /\ db \in [Keys -> Values \cup {Nil}]
           /\ \A k \in Keys \ touched : db[k] = db0[k]

ScanInv ==
  /\ DataInv
  /\ QueueInv
  /\ task = [n \in Nodes |-> task[n]]
  /\ \A n \in Nodes : Owes(n, task[n], PlacedKeys, touched)
  /\ phase = "wait" \/ interrupted \/ AllDone
  /\ Delivered

\* A task owes no more when more is placed or excused.
LEMMA OwesLess ==
  ASSUME NEW n, NEW a, NEW P1, NEW P2, NEW T1, NEW T2,
         Owes(n, a, P1, T1), P1 \subseteq P2, T1 \subseteq T2
  PROVE  Owes(n, a, P2, T2)
<1>1. BatchOk(a.batch, T2)
  BY DEF Owes, BatchOk
<1>2. /\ ~a.more \/ a.pc \in {"done", "failed"} => Own(n) \ a.seen \subseteq T2 \cup a.missed
      /\ Due \cap Own(n) \subseteq P2 \cup T2 \cup a.missed \cup a.sent \cup DOMAIN a.batch
                                    \cup (Own(n) \ a.seen)
  BY DEF Owes
<1>3. QED
  BY <1>1, <1>2 DEF Owes

LEMMA ScanInit == ~HasTotal /\ Init => ScanInv
<1> SUFFICES ASSUME ~HasTotal, Init PROVE ScanInv
  OBVIOUS
<1>1. /\ Shape(NewTask) /\ NewTask.sent = {} /\ NewTask.seen = {} /\ NewTask.more = TRUE
      /\ NewTask.pc = "connect" /\ NewTask.missed = {} /\ DOMAIN NewTask.batch = {}
  BY DEF NewTask, Shape
<1>2. \A n \in Nodes : Owes(n, NewTask, {}, {})
  <2>1. BatchOk(NewTask.batch, {})
    BY <1>1 DEF BatchOk
  <2>2. \A n \in Nodes : Due \cap Own(n) \subseteq Own(n) \ NewTask.seen
    BY <1>1
  <2>3. QED
    BY <1>1, <2>1, <2>2 DEF Owes
<1>3. \A n \in Nodes : Owes(n, task[n], PlacedKeys, touched)
  <2> SUFFICES ASSUME NEW n \in Nodes PROVE Owes(n, task[n], PlacedKeys, touched)
    OBVIOUS
  <2>1. Owes(n, NewTask, {}, {}) /\ task[n] = NewTask
    BY <1>2 DEF Init
  <2>2. QED
    BY <2>1, OwesLess
<1>4. DataInv
  <2>1. Values \subseteq Int
    BY ScanAssumption DEF Int64
  <2>2. QED
    BY <2>1 DEF Init, DataInv, Typical
<1>5. QueueInv
  <2>1. q = QP!New
    BY SameQueue DEF Init
  <2>2. QP!QueueType(q, Int, Keys) /\ QP!Linked(q) /\ DOMAIN q.index = {}
    BY <2>1 DEF QP!QueueType, QP!Linked, QP!New
  <2>3. QP!Cardinality(DOMAIN q.index) = 0
    BY <2>2, SameSets, FS_EmptySet
  <2>4. QP!Within(q)
    BY <2>3, QueueSizeIs DEF QP!Within
  <2>5. QED
    BY <2>2, <2>4 DEF QueueInv
<1>6. (task = [n \in Nodes |-> task[n]]) /\ phase = "wait"
  BY DEF Init
<1>7. Delivered
  BY <1>6 DEF Init, Delivered, Complete, Right, Reported, Range
<1>8. QED
  BY <1>3, <1>4, <1>5, <1>6, <1>7 DEF ScanInv

\* A step of task n that takes it to state c.
LEMMA TaskStep ==
  ASSUME ScanInv, NEW n \in Nodes, NEW c, task[n].pc \notin {"done", "failed"},
         task' = [task EXCEPT ![n] = c],
         UNCHANGED <<db, db0, touched, phase, interrupted, results, rows>>,
         QueueInv', PlacedKeys \subseteq PlacedKeys',
         Owes(n, c, PlacedKeys', touched)
  PROVE  ScanInv'
<1>1. \A m \in Nodes : Owes(m, task'[m], PlacedKeys', touched)
  <2> SUFFICES ASSUME NEW m \in Nodes
               PROVE  Owes(m, task'[m], PlacedKeys', touched)
    OBVIOUS
  <2>1. CASE m = n
    BY <2>1 DEF ScanInv
  <2>2. CASE m # n
    <3>1. task'[m] = task[m] /\ Owes(m, task[m], PlacedKeys, touched)
      BY <2>2 DEF ScanInv
    <3>2. QED
      BY <3>1, OwesLess
  <2>3. QED
    BY <2>1, <2>2
<1>2. \A m \in Nodes : Owes(m, task[m], PlacedKeys, touched)'
  BY <1>1 DEF Owes, BatchOk, Due, HasTtl
<1>3. (task = [m \in Nodes |-> task[m]])'
  BY DEF ScanInv
<1>4. phase = "wait" \/ interrupted
  BY DEF ScanInv, AllDone
<1>5. Delivered'
  BY <1>4 DEF ScanInv, Delivered, Complete, Right, Reported, HasTtl
<1>6. DataInv'
  BY DEF ScanInv, DataInv, Typical
<1>7. QED
  BY <1>2, <1>3, <1>4, <1>5, <1>6 DEF ScanInv

\* The same if the step leaves the queue alone.
LEMMA QuietStep ==
  ASSUME ScanInv, NEW n \in Nodes, NEW c, task[n].pc \notin {"done", "failed"},
         task' = [task EXCEPT ![n] = c],
         UNCHANGED <<db, db0, touched, phase, interrupted, results, rows, q>>,
         Owes(n, c, PlacedKeys, touched)
  PROVE  ScanInv'
<1>1. QueueInv' /\ PlacedKeys' = PlacedKeys
  BY DEF ScanInv, QueueInv, PlacedKeys, HasTtl
<1>2. QED
  BY <1>1, TaskStep
-----------------------------------------------------------------------------
LEMMA OwesNow == ScanInv => \A n \in Nodes : Owes(n, task[n], PlacedKeys, touched)
BY DEF ScanInv

LEMMA ConnectStep == ASSUME ScanInv, NEW n \in Nodes, Connect(n) PROVE ScanInv'
<1> DEFINE a == task[n]
<1>1. Owes(n, a, PlacedKeys, touched) /\ a.pc = "connect"
  BY OwesNow DEF Connect, Ready
<1>2. UNCHANGED <<db, db0, touched, phase, interrupted, results, rows, q>>
  BY DEF Connect, shared, main, env
<1>3. CASE task' = [task EXCEPT ![n].pc = "scan"]
  <2> DEFINE c == [a EXCEPT !.pc = "scan"]
  <2>1. task' = [task EXCEPT ![n] = c]
    BY <1>3
  <2>2. /\ Shape(c) /\ c.pc = "scan" /\ c.seen = a.seen /\ c.more = a.more
        /\ c.sent = a.sent /\ c.batch = a.batch /\ c.missed = a.missed
    BY <1>1 DEF Owes, Shape
  <2> HIDE DEF a, c
  <2>3. Owes(n, c, PlacedKeys, touched)
    BY <1>1, <2>2 DEF Owes
  <2>4. QED
    BY <1>1, <1>2, <2>1, <2>3, QuietStep DEF a
<1>4. CASE task' = [task EXCEPT ![n].pc = "failed", ![n].missed = Unseen(n)]
  <2> DEFINE u == Unseen(n)
             c == [a EXCEPT !.pc = "failed", !.missed = u]
  <2>1. task' = [task EXCEPT ![n] = c]
    BY <1>4 DEF ScanInv
  <2>2. /\ Shape(c) /\ c.pc = "failed" /\ c.seen = a.seen /\ c.more = a.more
        /\ c.sent = a.sent /\ c.batch = a.batch /\ c.missed = u
    <3> HIDE DEF u
    <3>1. QED
      BY <1>1 DEF Owes, Shape
  <2>3. u = Own(n) \ a.seen
    BY DEF Unseen, Own
  <2> HIDE DEF a, c, u
  <2>4. Owes(n, c, PlacedKeys, touched)
    BY <1>1, <2>2, <2>3 DEF Owes
  <2>5. QED
    BY <1>1, <1>2, <2>1, <2>4, QuietStep DEF a
<1>5. QED
  BY <1>3, <1>4 DEF Connect

LEMMA ScanErrorStep == ASSUME ScanInv, NEW n \in Nodes, ScanError(n) PROVE ScanInv'
<1> DEFINE a == task[n]
           pc == IF ignore THEN "done" ELSE "failed"
           u == a.missed \cup Unseen(n)
           c == [a EXCEPT !.pc = pc, !.missed = u]
<1>1. Owes(n, a, PlacedKeys, touched) /\ a.pc = "scan"
  BY OwesNow DEF ScanError, Ready
<1>2. UNCHANGED <<db, db0, touched, phase, interrupted, results, rows, q>>
  BY DEF ScanError, shared, main, env
<1>3. task' = [task EXCEPT ![n] = c]
  BY DEF ScanError, ScanInv
<1>4. pc \in {"done", "failed"} /\ u = a.missed \cup (Own(n) \ a.seen)
  BY DEF Unseen, Own
<1>5. /\ Shape(c) /\ c.pc = pc /\ c.seen = a.seen /\ c.more = a.more
      /\ c.sent = a.sent /\ c.batch = a.batch /\ c.missed = u
  <2> HIDE DEF pc, u
  <2>1. QED
    BY <1>1 DEF Owes, Shape
<1> HIDE DEF a, c, u, pc
<1>6. Owes(n, c, PlacedKeys, touched)
  BY <1>1, <1>4, <1>5 DEF Owes
<1>7. QED
  BY <1>1, <1>2, <1>3, <1>6, QuietStep DEF a

LEMMA FetchPageStep == ASSUME ScanInv, NEW n \in Nodes, FetchPage(n) PROVE ScanInv'
<1> DEFINE a == task[n]
<1>1. Owes(n, a, PlacedKeys, touched) /\ a.pc = "scan"
  BY OwesNow DEF FetchPage, Ready
<1>2. UNCHANGED <<db, db0, touched, phase, interrupted, results, rows, q>>
  BY DEF FetchPage, shared, main, env
<1>3. PICK page \in Pages(Present(n), a.seen, a.pages) :
        LET kept    == {k \in page.keys : ~ShouldSkip(k)}
            skipped == Cardinality(page.keys \ kept)
            b       == [a EXCEPT !.seen = a.seen \cup page.keys,
                                 !.pages = a.pages + 1,
                                 !.more = page.more,
                                 !.sent = kept,
                                 !.count.scanned = @ + Cardinality(page.keys),
                                 !.count.skipped = @ + skipped]
        IN  task' = [task EXCEPT ![n] =
                       [b EXCEPT !.pc = IF kept = {} THEN NextPage(b) ELSE "reply"]]
  BY DEF FetchPage
<1> DEFINE kept == {k \in page.keys : ~ShouldSkip(k)}
           seen == a.seen \cup page.keys
           pages == a.pages + 1
           more == page.more
           new == Cardinality(page.keys)
           skipped == Cardinality(page.keys \ kept)
           b == [a EXCEPT !.seen = seen, !.pages = pages, !.more = more, !.sent = kept,
                          !.count.scanned = @ + new, !.count.skipped = @ + skipped]
           pc == IF kept = {} THEN NextPage(b) ELSE "reply"
           c == [b EXCEPT !.pc = pc]
<1>4. task' = [task EXCEPT ![n] = c]
  BY <1>3
<1>5. /\ Shape(b) /\ b.pc = a.pc /\ b.seen = seen /\ b.more = more
      /\ b.sent = kept /\ b.batch = a.batch /\ b.missed = a.missed
  <2> HIDE DEF seen, pages, more, kept, new, skipped
  <2>1. QED
    BY <1>1 DEF Owes, Shape
<1>6. pc = IF kept = {} THEN IF more THEN "scan" ELSE "done" ELSE "reply"
  BY <1>5 DEF NextPage
<1>7. /\ Shape(c) /\ c.pc = pc /\ c.seen = seen /\ c.more = more
      /\ c.sent = kept /\ c.batch = a.batch /\ c.missed = a.missed
  <2> HIDE DEF b, pc, seen, more, kept, a
  <2>1. QED
    BY <1>5 DEF Shape
<1>8. /\ page.keys \subseteq Present(n) /\ (~more => Present(n) \subseteq seen)
  BY DEF Pages
<1>9. Present(n) \subseteq Own(n) /\ Own(n) \ touched \subseteq Present(n)
  BY ScanAssumption DEF Present, Own, ScanInv, DataInv, Typical
<1>10. kept \subseteq Own(n) /\ Due \cap page.keys \subseteq kept
  BY <1>8, <1>9 DEF Due
<1> HIDE DEF a, c, b, pc, kept, pages
<1>11. Owes(n, c, PlacedKeys, touched)
  <2>1. ~more => Own(n) \ seen \subseteq touched
    BY <1>8, <1>9
  <2>2. Due \cap Own(n) \subseteq PlacedKeys \cup touched \cup a.missed \cup kept
                                   \cup DOMAIN a.batch \cup (Own(n) \ seen)
    BY <1>1, <1>10 DEF Owes
  <2> HIDE DEF seen, more
  <2>3. ~more \/ pc \in {"done", "failed"} => Own(n) \ seen \subseteq touched \cup a.missed
    BY <1>6, <2>1
  <2>4. (pc # "reply" => kept = {}) /\ pc # "connect" /\ pc # "store"
    BY <1>6
  <2>5. DOMAIN a.batch = {} /\ BatchOk(a.batch, touched)
    BY <1>1 DEF Owes
  <2>6. QED
    BY <1>7, <1>10, <2>2, <2>3, <2>4, <2>5 DEF Owes
<1>12. QED
  BY <1>1, <1>2, <1>4, <1>11, QuietStep DEF a

LEMMA RepliesStep == ASSUME ~HasTotal, ScanInv, NEW n \in Nodes, Replies(n) PROVE ScanInv'
<1> DEFINE a == task[n]
           batch == [k \in a.sent |-> Reply(k)]
           new == Cardinality(a.sent)
           c == [a EXCEPT !.pc = "store", !.batch = batch, !.sent = {},
                          !.count.success = @ + new]
<1>1. Owes(n, a, PlacedKeys, touched) /\ a.pc = "reply"
  BY OwesNow DEF Replies, Ready
<1>2. UNCHANGED <<db, db0, touched, phase, interrupted, results, rows, q>>
  <2>1. Executed(a.sent) = db
    BY Plain DEF Executed, ScanInv, DataInv
  <2>2. QED
    BY <2>1 DEF Replies, shared, main, env
<1>3. task' = [task EXCEPT ![n] = c]
  <2>1. c = [a EXCEPT !.pc = "store", !.batch = batch, !.sent = {},
                      !.count.success = a.count.success + new]
    OBVIOUS
  <2>2. QED
    BY <2>1, Zenon DEF Replies
<1>4. /\ Shape(c) /\ c.pc = "store" /\ c.seen = a.seen /\ c.more = a.more
      /\ c.sent = {} /\ c.batch = batch /\ c.missed = a.missed
  <2>1. Shape(a)
    BY <1>1 DEF Owes
  <2> HIDE DEF a, batch, new
  <2>2. QED
    BY <2>1 DEF Shape
<1>5. BatchOk(batch, touched) /\ DOMAIN batch = a.sent
  <2>1. a.sent \subseteq Keys
    BY <1>1 DEF Owes, Own
  <2>2. \A k \in Keys : /\ Reply(k) \in Int \cup {Nil}
                        /\ k \notin touched => Reply(k) = db0[k]
    BY ScanAssumption DEF Reply, ReplyOf, ScanInv, DataInv, Typical
  <2>3. QED
    BY <2>1, <2>2 DEF BatchOk
<1> HIDE DEF a, c, batch
<1>6. Owes(n, c, PlacedKeys, touched)
  BY <1>1, <1>4, <1>5 DEF Owes
<1>7. QED
  BY <1>1, <1>2, <1>3, <1>6, QuietStep DEF a

LEMMA PipelineErrorStep ==
  ASSUME ~HasTotal, ScanInv, NEW n \in Nodes, PipelineError(n)
  PROVE  ScanInv'
<1> DEFINE a == task[n]
           pc == IF ignore THEN NextPage(a) ELSE "failed"
           u == a.missed \cup a.sent \cup IF ignore THEN {} ELSE Unseen(n)
           c == [a EXCEPT !.pc = pc, !.sent = {}, !.missed = u]
<1>1. Owes(n, a, PlacedKeys, touched) /\ a.pc = "reply"
  BY OwesNow DEF PipelineError, Ready
<1>2. UNCHANGED <<db, db0, touched, phase, interrupted, results, rows, q>>
  <2>1. \A ks : Executed(ks) = db
    BY Plain DEF Executed, ScanInv, DataInv
  <2>2. QED
    BY <2>1 DEF PipelineError, shared, main, env
<1>3. task' = [task EXCEPT ![n] = c]
  BY DEF PipelineError, ScanInv
<1>4. /\ a.missed \cup a.sent \subseteq u
      /\ \/ pc = "scan" /\ a.more
         \/ pc = "done" /\ ~a.more
         \/ pc = "failed" /\ Own(n) \ a.seen \subseteq u
  BY DEF NextPage, Unseen, Own
<1>5. /\ Shape(c) /\ c.pc = pc /\ c.seen = a.seen /\ c.more = a.more
      /\ c.sent = {} /\ c.batch = a.batch /\ c.missed = u
  <2> HIDE DEF pc, u
  <2>1. QED
    BY <1>1 DEF Owes, Shape
<1> HIDE DEF a, c, u, pc
<1>6. Owes(n, c, PlacedKeys, touched)
  BY <1>1, <1>4, <1>5 DEF Owes
<1>7. QED
  BY <1>1, <1>2, <1>3, <1>6, QuietStep DEF a

\* A reply is handled whose key has its place, was written to, or is not wanted.
LEMMA ReplyHandled ==
  ASSUME NEW n, NEW a, NEW placed, Owes(n, a, placed, touched), a.pc = "store",
         NEW k \in DOMAIN a.batch, NEW more, placed \subseteq more,
         k \in more \cup touched \/ k \notin Due,
         NEW c, Shape(c), c.pc = Handled(a, k).pc, c.batch = Handled(a, k).batch,
         c.seen = a.seen, c.more = a.more, c.sent = a.sent, c.missed = a.missed
  PROVE  Owes(n, c, more, touched)
<1> DEFINE rest == Restrict(a.batch, DOMAIN a.batch \ {k})
           pc == IF DOMAIN rest = {} THEN NextPage(a) ELSE "store"
<1>1. c.batch = rest /\ c.pc = pc
  <2>1. Handled(a, k) = [a EXCEPT !.batch = rest, !.key = Nil, !.pc = pc]
    BY DEF Handled
  <2> HIDE DEF rest, pc
  <2>2. QED
    BY <2>1 DEF Owes, Shape
<1>2. /\ DOMAIN rest = DOMAIN a.batch \ {k}
      /\ \A x \in DOMAIN rest : rest[x] = a.batch[x]
  BY DEF Restrict
<1>3. \/ pc = "store"
      \/ DOMAIN rest = {} /\ pc = "scan" /\ a.more
      \/ DOMAIN rest = {} /\ pc = "done" /\ ~a.more
  BY DEF NextPage
<1> HIDE DEF rest, pc
<1>4. BatchOk(rest, touched)
  BY <1>2 DEF Owes, BatchOk
<1>5. Due \cap Own(n) \subseteq more \cup touched \cup a.missed \cup a.sent \cup DOMAIN rest
                                 \cup (Own(n) \ a.seen)
  BY <1>2 DEF Owes
<1>6. QED
  BY <1>1, <1>2, <1>3, <1>4, <1>5 DEF Owes

LEMMA PassOverStep == ASSUME ScanInv, NEW n \in Nodes, NEW k, PassOver(n, k) PROVE ScanInv'
<1> DEFINE a == task[n]
           c == Handled(a, k)
<1>1. /\ Owes(n, a, PlacedKeys, touched) /\ a.pc = "store"
      /\ k \in DOMAIN a.batch /\ Ignores(a.batch[k])
  BY OwesNow DEF PassOver, Ready
<1>2. UNCHANGED <<db, db0, touched, phase, interrupted, results, rows, q>>
  BY DEF PassOver, shared, main, env
<1>3. task' = [task EXCEPT ![n] = c]
  BY DEF PassOver
<1>4. k \in touched
  <2>1. a.batch[k] = Nil /\ k \in Keys
    BY <1>1 DEF Ignores, Owes, Own
  <2>2. db0[k] # Nil
    BY <2>1, ScanAssumption DEF ScanInv, DataInv, Typical
  <2>3. QED
    BY <1>1, <2>1, <2>2 DEF Owes, BatchOk
<1>5. /\ Shape(c) /\ c.seen = a.seen /\ c.more = a.more
      /\ c.sent = a.sent /\ c.missed = a.missed
  <2> DEFINE rest == Restrict(a.batch, DOMAIN a.batch \ {k})
             pc == IF DOMAIN rest = {} THEN NextPage(a) ELSE "store"
  <2>1. c = [a EXCEPT !.batch = rest, !.key = Nil, !.pc = pc]
    BY DEF Handled
  <2> HIDE DEF rest, pc, c
  <2>2. QED
    BY <1>1, <2>1 DEF Owes, Shape
<1> HIDE DEF a
<1>6. Owes(n, c, PlacedKeys, touched)
  BY <1>1, <1>4, <1>5, ReplyHandled
<1> HIDE DEF c
<1>7. QED
  BY <1>1, <1>2, <1>3, <1>6, QuietStep DEF a

LEMMA StoreStep ==
  ASSUME ~HasTotal, ScanInv, NEW n \in Nodes, NEW k, Store(n, k)
  PROVE  ScanInv'
<1> DEFINE a == task[n]
           reply == a.batch[k]
           more == IF Skips(k, reply) THEN 1 ELSE 0
           h == Handled(a, k)
           c == [h EXCEPT !.count.skipped = @ + more]
<1>1. /\ Owes(n, a, PlacedKeys, touched) /\ a.pc = "store"
      /\ k \in DOMAIN a.batch /\ k \in Keys /\ ~Ignores(reply)
  BY OwesNow DEF Store, Ready, Owes, Own
<1>2. UNCHANGED <<db, db0, touched, phase, interrupted, results, rows>>
  BY DEF Store, main, env
<1>3. task' = [task EXCEPT ![n] = c]
  BY DEF Store
<1>4. q' = IF Skips(k, reply) THEN q ELSE PQ!PushOrUpdate(q, k, WeightOf(reply))
  BY Plain DEF Store
<1>5. reply \in Int \cup {Nil} /\ (k \notin touched => reply = db0[k] /\ reply # Nil)
  BY <1>1, ScanAssumption DEF Owes, BatchOk, ScanInv, DataInv, Typical
<1>6. /\ Shape(c) /\ c.pc = h.pc /\ c.batch = h.batch /\ c.seen = a.seen
      /\ c.more = a.more /\ c.sent = a.sent /\ c.missed = a.missed
  <2> DEFINE rest == Restrict(a.batch, DOMAIN a.batch \ {k})
             pc == IF DOMAIN rest = {} THEN NextPage(a) ELSE "store"
  <2>1. h = [a EXCEPT !.batch = rest, !.key = Nil, !.pc = pc]
    BY DEF Handled
  <2> HIDE DEF rest, pc, h, more
  <2>2. /\ Shape(h) /\ h.seen = a.seen /\ h.more = a.more
        /\ h.sent = a.sent /\ h.missed = a.missed
    BY <1>1, <2>1 DEF Owes, Shape
  <2> HIDE DEF a
  <2>3. QED
    BY <2>2 DEF Shape
<1>7. /\ QueueInv' /\ PlacedKeys \subseteq PlacedKeys'
      /\ k \in PlacedKeys' \cup touched \/ k \notin Due
  <2>1. CASE Skips(k, reply)
    <3>1. k \in touched \/ k \notin Due
      BY <1>5, <2>1 DEF Skips, Due, HasTotal, HasTtl
    <3>2. QueueInv' /\ PlacedKeys' = PlacedKeys
      BY <1>2, <1>4, <2>1 DEF ScanInv, QueueInv, PlacedKeys, HasTtl
    <3>3. QED
      BY <3>1, <3>2
  <2>2. CASE ~Skips(k, reply)
    <3>1. WeightOf(reply) \in Int
          /\ (k \notin touched => WeightOf(reply) = db0[k] /\ HasTtl(k))
      BY <1>5, <2>2, CommandAssumption DEF WeightOf, Skips, HasTotal, HasTtl
    <3>2. QueueInv /\ Typical
      BY DEF ScanInv, DataInv
    <3> HIDE DEF reply
    <3>3. q' = PQ!PushOrUpdate(q, k, WeightOf(reply))
      BY <1>4, <2>2
    <3>4. QED
      BY <1>1, <1>2, <3>1, <3>2, <3>3, PushStep
  <2>3. QED
    BY <2>1, <2>2
<1> HIDE DEF a, c
<1>8. Owes(n, c, PlacedKeys', touched)
  BY <1>1, <1>6, <1>7, ReplyHandled
<1>9. QED
  BY <1>1, <1>2, <1>3, <1>7, <1>8, TaskStep DEF a

LEMMA TasksStep ==
  ASSUME ~HasTotal, ScanInv, NEW n \in Nodes, Task(n)
  PROVE  ScanInv'
<1>1. ASSUME NEW k \in Keys, Tally(n, k) PROVE ScanInv'
  BY <1>1 DEF Tally
<1>2. QED
  BY <1>1, ConnectStep, FetchPageStep, ScanErrorStep, RepliesStep, PipelineErrorStep,
     PassOverStep, StoreStep DEF Task

\* A step that changes nothing of a task, of the queue or of the data.
LEMMA MainStep ==
  ASSUME ScanInv, UNCHANGED <<db, task, q, db0, touched>>, Delivered',
         phase' = "wait" \/ interrupted' \/ AllDone
  PROVE  ScanInv'
<1>1. QueueInv' /\ PlacedKeys' = PlacedKeys /\ DataInv'
  BY DEF ScanInv, QueueInv, PlacedKeys, DataInv, Typical, HasTtl
<1>2. \A n \in Nodes : Owes(n, task[n], PlacedKeys, touched)'
  BY <1>1 DEF ScanInv, Owes, BatchOk, Due, HasTtl
<1>3. AllDone' <=> AllDone
  BY DEF AllDone
<1>4. (task = [n \in Nodes |-> task[n]])'
  BY DEF ScanInv
<1>5. QED
  BY <1>1, <1>2, <1>3, <1>4 DEF ScanInv

\* Skipping brings nothing new in.
LEMMA SkipInventsNothing ==
  ASSUME NEW S, NEW s \in Seq(S), NEW m \in Nat
  PROVE  Range(SubSeq(s, m + 1, Len(s))) \subseteq Range(s)
<1> DEFINE t == SubSeq(s, m + 1, Len(s))
<1>1. ASSUME NEW x \in DOMAIN t PROVE x + m \in DOMAIN s /\ t[x] = s[x + m]
  OBVIOUS
<1> HIDE DEF t
<1>2. Range(t) \subseteq Range(s)
  BY <1>1 DEF Range
<1>3. QED
  BY <1>2 DEF t

\* What State::take and the loop over its result deliver.
LEMMA ReportStep == ASSUME ~HasTotal, ScanInv, Report PROVE ScanInv'
<1> DEFINE D == DOMAIN q.index
           ids == PQ!IntoVec(q)
           n == Cardinality(D)
<1>1. UNCHANGED <<db, task, q, db0, touched, interrupted>> /\ phase = "take"
  BY DEF Report, shared, env
<1>2. q.index \in [D -> Int] /\ QP!IsFiniteSet(D) /\ IsFiniteSet(D) /\ D \subseteq Int
  BY ScanAssumption, FS_Subset, SameSets DEF ScanInv, QueueInv, QP!QueueType
<1>3. Sort \in {"asc", "desc"} /\ QueueSize \in Nat
  BY ScanAssumption, QueueSizeIs
<1>4. QP!Lists(ids, D, q.index)
  <2> DEFINE t == QP!IntoVec(q)
  <2>1. QP!Lists(t, D, q.index)
    BY <1>2, <1>3, QP!IntoVecLists, Zenon
  <2>2. ids = t
    BY SameQueue
  <2> HIDE DEF ids, t
  <2>3. QED
    BY <2>1, <2>2
<1>5. ids \in [1 .. n -> D] /\ \A g \in D : \E x \in 1 .. n : ids[x] = g
  <2> HIDE DEF ids
  <2>1. ids \in [1 .. QP!Cardinality(D) -> D] /\ QP!IsInjective(ids)
    BY <1>2, <1>3, <1>4, QP!ListInjective, Zenon
  <2>2. \A g \in D : \E x \in 1 .. QP!Cardinality(D) : ids[x] = g
    BY <1>2, <1>3, <2>1, QP!ListIsSurjective, Zenon
  <2>3. QED
    BY <2>1, <2>2, SameSets
<1>6. results' = [x \in DOMAIN ids |-> <<ids[x], q.index[ids[x]]>>]
  BY DEF Report
<1> HIDE DEF ids
<1>7. results' = [x \in 1 .. n |-> <<ids[x], q.index[ids[x]]>>]
  BY <1>5, <1>6
<1>8. Len(results') = n /\ results' \in Seq(D \X Int)
  <2>1. n \in Nat
    BY <1>2, FS_CardinalityType
  <2> HIDE DEF n
  <2>2. \A x \in 1 .. n : <<ids[x], q.index[ids[x]]>> \in D \X Int
    BY <1>2, <1>5
  <2>3. results' \in Seq(D \X Int)
    BY <1>7, <2>1, <2>2
  <2>4. DOMAIN results' = 1 .. n
    BY <1>7
  <2>5. QED
    BY <2>1, <2>3, <2>4
<1>9. Range(results') = {<<h, q.index[h]>> : h \in D}
  <2>1. Range(results') = {<<ids[x], q.index[ids[x]]>> : x \in 1 .. n}
    BY <1>7 DEF Range
  <2>2. QED
    BY <1>5, <2>1
<1>10. Delivered'
  <2>1. Complete'
    BY <1>1, <1>8, <1>9 DEF Complete
  <2>2. Right'
    BY <1>1, <1>9 DEF Right, ScanInv, QueueInv, QP!QueueType, HasTtl
  <2>3. rows' = SubSeq(results', Offset + 1, Len(results'))
    BY DEF Report, Printed, Skip
  <2>4. Range(rows') \subseteq Range(results')
    BY <1>8, <2>3, SkipInventsNothing, CommandAssumption
  <2>5. QED
    BY <2>1, <2>2, <2>4 DEF Delivered
<1>11. interrupted' \/ AllDone
  BY <1>1 DEF ScanInv
<1>12. QED
  BY <1>1, <1>10, <1>11, MainStep

LEMMA MainSteps == ASSUME ~HasTotal, ScanInv, Main \/ Interrupt PROVE ScanInv'
<1>1. CASE WaitDone
  <2>1. UNCHANGED <<db, task, q, db0, touched, results, rows>> /\ AllDone /\ phase' = "take"
    BY <1>1 DEF WaitDone, shared, env, AllDone
  <2>2. Delivered'
    BY <2>1 DEF ScanInv, Delivered, Complete, Right, Reported, HasTtl
  <2>3. QED
    BY <2>1, <2>2, MainStep
<1>2. CASE Interrupt
  <2>1. UNCHANGED <<db, task, q, db0, touched, results, rows>> /\ interrupted'
    BY <1>2 DEF Interrupt, shared, env
  <2>2. Delivered'
    BY <2>1 DEF ScanInv, Delivered, Complete, Right, HasTtl
  <2>3. QED
    BY <2>1, <2>2, MainStep
<1>3. CASE ReadTotal
  <2>1. /\ UNCHANGED <<db, task, q, db0, touched, results, rows>> /\ phase = "total" /\ phase' = "take"
        /\ interrupted' = interrupted
    BY <1>3 DEF ReadTotal, shared, env
  <2>2. Delivered' /\ (interrupted' \/ AllDone)
    BY <2>1 DEF Delivered, Complete, Right, Reported, ScanInv, HasTtl
  <2>3. QED
    BY <2>1, <2>2, MainStep
<1>4. CASE Exit
  <2>1. /\ UNCHANGED <<db, task, q, db0, touched, results, rows, interrupted>>
        /\ phase = "print" /\ phase' = "exited"
    BY <1>4 DEF Exit, shared, env
  <2>2. Delivered' /\ (interrupted' \/ AllDone)
    BY <2>1 DEF Delivered, Complete, Right, Reported, ScanInv, HasTtl
  <2>3. QED
    BY <2>1, <2>2, MainStep
<1>5. QED
  BY <1>1, <1>2, <1>3, <1>4, ReportStep DEF Main

\* A key that another client writes to is excused.
LEMMA OtherClientStep == ASSUME ScanInv, NEW k \in Keys, OtherClient(k) PROVE ScanInv'
<1>1. /\ UNCHANGED <<task, q, db0, phase, results, rows, interrupted>>
      /\ touched' = touched \cup {k}
  BY DEF OtherClient, shared, main
<1>2. DataInv'
  <2>1. PICK v \in Values \cup {Nil} : db' = [db EXCEPT ![k] = v]
    BY DEF OtherClient
  <2>2. QED
    BY <1>1, <2>1 DEF ScanInv, DataInv, Typical
<1>3. QueueInv' /\ PlacedKeys' = PlacedKeys
  BY <1>1 DEF ScanInv, QueueInv, PlacedKeys, HasTtl
<1>4. ASSUME NEW n \in Nodes PROVE Owes(n, task[n], PlacedKeys, touched')
  <2>1. Owes(n, task[n], PlacedKeys, touched)
    BY OwesNow
  <2>2. QED
    BY <1>1, <2>1, OwesLess
<1>5. \A n \in Nodes : Owes(n, task[n], PlacedKeys, touched)'
  BY <1>1, <1>3, <1>4 DEF Owes, BatchOk, Due, HasTtl
<1>6. /\ phase' = "wait" \/ interrupted' \/ AllDone'
      /\ Delivered' /\ (task = [n \in Nodes |-> task[n]])'
  BY <1>1 DEF ScanInv, AllDone, Delivered, Complete, Right, Reported, HasTtl
<1>7. QED
  BY <1>2, <1>3, <1>5, <1>6 DEF ScanInv

LEMMA ScanStep == ~HasTotal /\ ScanInv /\ [Next]_vars => ScanInv'
<1> SUFFICES ASSUME ~HasTotal, ScanInv, [Next]_vars PROVE ScanInv'
  OBVIOUS
<1>1. CASE UNCHANGED vars
  <2>1. UNCHANGED <<db, task, q, db0, touched, phase, interrupted, results, rows>>
    BY <1>1 DEF vars, shared, main, env
  <2>2. Delivered' /\ (phase' = "wait" \/ interrupted' \/ AllDone)
    BY <2>1 DEF ScanInv, Delivered, Complete, Right, Reported, HasTtl
  <2>3. QED
    BY <2>1, <2>2, MainStep
<1>2. QED
  BY <1>1, TasksStep, MainSteps, OtherClientStep DEF Next
-----------------------------------------------------------------------------
\* When all tasks are done, every key they are to blame for has its place.
LEMMA DueArePlaced ==
  ASSUME ScanInv, Reported, ~interrupted, NEW k \in Due, k \notin touched,
         k \notin task[Home[k]].missed
  PROVE  k \in PlacedKeys
<1> DEFINE n == Home[k]
           a == task[n]
<1>1. n \in Nodes /\ k \in Own(n)
  BY ScanAssumption DEF Own, Due
<1>2. Owes(n, a, PlacedKeys, touched) /\ a.pc \in {"done", "failed"}
  BY <1>1 DEF ScanInv, AllDone, Reported
<1>3. k \notin a.missed
  OBVIOUS
<1> HIDE DEF a, n
<1>4. QED
  BY <1>1, <1>2, <1>3 DEF Owes

\* What has its place in the queue is in the report, or lost to better entries.
LEMMA InvForgetsNothing == ~HasTotal /\ ScanInv => NothingForgotten
<1> SUFFICES ASSUME ~HasTotal, ScanInv, Reported, ~interrupted, NEW k \in Wanted
             PROVE  \/ k \in Listed
                    \/ k \in DOMAIN GroupOf /\ GroupOf[k] \in Listed
                    \/ /\ Len(results) = QueueSize
                       /\ \A r \in Range(results) : ~PQ!Better(db0[k], r[2])
  BY DEF NothingForgotten
<1>1. /\ k \in Selected(Keys) /\ k \in Keys /\ k \notin touched
      /\ k \notin task[Home[k]].missed /\ (SkipMissing => db0[k] # -1)
  BY DEF Wanted, Selected
<1>2. k \in Due
  BY <1>1, SelectedAreKept DEF Due, HasTtl
<1>3. k \in PlacedKeys
  BY <1>1, <1>2, DueArePlaced
<1>5. /\ Len(results) = Cardinality(DOMAIN q.index)
      /\ Range(results) = {<<h, q.index[h]>> : h \in DOMAIN q.index}
  BY DEF ScanInv, Delivered, Complete
<1>6. CASE k \in DOMAIN q.index
  <2>1. <<k, q.index[k]>> \in Range(results)
    BY <1>5, <1>6
  <2>2. QED
    BY <2>1 DEF Listed
<1>7. CASE /\ QP!Cardinality(DOMAIN q.index) = QueueSize
           /\ \A h \in DOMAIN q.index : ~QP!Better(db0[k], q.index[h])
  <2>1. \A r \in Range(results) : ~PQ!Better(db0[k], r[2])
    BY <1>5, <1>7, SameQueue
  <2>2. QED
    BY <1>5, <1>7, <2>1, SameSets
<1>8. QED
  BY <1>3, <1>6, <1>7 DEF PlacedKeys, QP!Placed

\* At the report of an idle or ttl that was not cut short every wanted key is
\* listed or has lost its place to entries none of which is worse.
THEOREM NoKeyForgotten == ASSUME ~HasTotal PROVE Spec => []NothingForgotten
<1>1. Init => ScanInv
  BY ScanInit
<1>2. ScanInv /\ [Next]_vars => ScanInv'
  BY ScanStep
<1>3. ScanInv => NothingForgotten
  BY InvForgetsNothing
<1>4. QED
  BY <1>1, <1>2, <1>3, PTL DEF Spec
=============================================================================
