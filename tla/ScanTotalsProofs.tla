-------------------------- MODULE ScanTotalsProofs --------------------------
(***************************************************************************)
(* What a command reports, for any nodes, keys, values, arguments, number  *)
(* of pages and writes of other clients, and any faults: the types; the    *)
(* total and its rows (TotalStaysAhead, RowsArePartsOfTotal); counters     *)
(* read with --decr (CountersCountedOnce); the ranking of idle and ttl     *)
(* (RowsAreTheRanking); the sums of memory and sum (TotalsAreExact).       *)
(***************************************************************************)
EXTENDS ScanProofs

\* What identifies the entries of the queue.
Hashes == Keys \cup Range(GroupOf)

LEMMA HashesAre ==
  /\ Hashes \subseteq Int /\ IsFiniteSet(Hashes)
  /\ \A k \in Keys : Identity(k) \in Hashes
<1>1. IsFiniteSet(Range(GroupOf))
  <2>1. IsFiniteSet(DOMAIN GroupOf)
    BY ScanAssumption, FS_Subset
  <2> DEFINE f == [k \in DOMAIN GroupOf |-> GroupOf[k]]
  <2>2. f \in Surjection(DOMAIN GroupOf, Range(GroupOf))
    BY DEF Surjection, Range
  <2> HIDE DEF f
  <2>3. QED
    BY <2>1, <2>2, FS_Surjection
<1>2. IsFiniteSet(Hashes)
  BY <1>1, ScanAssumption, FS_Union DEF Hashes
<1>3. Hashes \subseteq Int
  BY ScanAssumption DEF Hashes
<1>4. \A k \in Keys : Identity(k) \in Hashes
  BY DEF Identity, Hashes, Range
<1>5. QED
  BY <1>2, <1>3, <1>4

\* The width of an i64.
LEMMA Int64Is ==
  /\ Int64 \subseteq Int /\ 0 \in Int64 /\ -1 \in Int64 /\ -2 \in Int64
  /\ \A x \in Int : Wrapped(x) \in Int64
<1> DEFINE B == 2 ^ (Bits - 1)
<1>1. B \in Nat /\ B >= 2 /\ 2 ^ Bits = 2 * B
  BY BitsAssumption
<1>2. Int64 = -B .. B - 1 /\ \A x : Wrapped(x) = ((x + B) % (2 * B)) - B
  BY <1>1 DEF Int64, Wrapped
<1> HIDE DEF B
<1>3. \A x \in Int : ((x + B) % (2 * B)) - B \in -B .. B - 1
  BY <1>1, Z3
<1>4. QED
  BY <1>1, <1>2, <1>3

\* What the lemmas about the queue ask of it.
LEMMA AllDomains == QP!Domains(Int64, Hashes)
<1>1. QP!MergeClosed(Int64)
  <2> SUFFICES ASSUME NEW a \in Int64, NEW b \in Int64 PROVE MergeOf(a, b) \in Int64
    BY DEF QP!MergeClosed
  <2>1. a + b \in Int
    BY Int64Is
  <2>2. Wrapped(a + b) \in Int64
    BY <2>1, Int64Is
  <2>3. QED
    BY <2>2 DEF MergeOf, AddUp, FirstWins
<1>2. QP!IsFiniteSet(Hashes)
  BY HashesAre, SameSets
<1>3. QED
  BY <1>1, <1>2, HashesAre, Int64Is DEF QP!Domains
-----------------------------------------------------------------------------
\* Types.

LEMMA CountsAre ==
  /\ DOMAIN NoCounts = {"scanned", "success", "skipped", "errored"}
  /\ \A c \in DOMAIN NoCounts : NoCounts[c] = 0
  /\ NoCounts \in [{"scanned", "success", "skipped", "errored"} -> Nat]
BY DEF NoCounts

\* The states of a task.
Batches == UNION {[ks -> Replied] : ks \in SUBSET Keys}

TaskStates == [pc     : {"connect", "scan", "reply", "store", "done", "failed"},
               seen   : SUBSET Keys,
               pages  : 0 .. MaxPages,
               more   : BOOLEAN,
               sent   : SUBSET Keys,
               batch  : Batches,
               key    : Keys \cup {Nil},
               count  : [{"scanned", "success", "skipped", "errored"} -> Nat],
               missed : SUBSET Keys]

\* Where a task is in its loops says which of its variables are in use.
InOrder(a) ==
  /\ a \in TaskStates
  /\ a.more => a.pages < MaxPages
  /\ a.pc \in {"connect", "scan"} => a.more
  /\ (a.pc = "reply") <=> (a.sent # {})
  /\ (a.pc = "store") <=> (DOMAIN a.batch # {})
  /\ a.key \in DOMAIN a.batch \cup {Nil}
  /\ a.pc = "connect" => a.missed = {}

QueueTyped == QP!QueueType(q, Int64, Hashes) /\ QP!Linked(q)

TypeInv ==
  /\ ignore \in Ignore
  /\ db \in [Keys -> Values \cup {0, Nil}]
  /\ task = [n \in Nodes |-> task[n]]
  /\ \A n \in Nodes : InOrder(task[n])
  /\ total \in Nat /\ printedTotal \in Nat
  /\ QueueTyped
  /\ phase \in {"wait", "total", "take", "print", "exited"}
  /\ results \in Seq(Hashes \X Int64)
  /\ Len(rows) <= Len(results)
  /\ writes \in 0 .. MaxWrites
  /\ interrupted \in BOOLEAN

LEMMA NewTaskInOrder == InOrder(NewTask)
<1>1. [k \in {} |-> Nil] \in Batches
  <2>1. [k \in {} |-> Nil] \in [{} -> Replied]
    OBVIOUS
  <2>2. QED
    BY <2>1 DEF Batches
<1>2. 0 \in 0 .. MaxPages /\ 0 < MaxPages
  BY ScanServerAssumption
<1>3. QED
  BY <1>1, <1>2, CountsAre DEF NewTask, InOrder, TaskStates

LEMMA TypeInit == Init => TypeInv
<1> SUFFICES ASSUME Init PROVE TypeInv
  OBVIOUS
<1>1. QueueTyped
  <2>1. q = QP!New
    BY SameQueue DEF Init
  <2>2. QED
    BY <2>1 DEF QueueTyped, QP!QueueType, QP!Linked, QP!New
<1>2. \A n \in Nodes : InOrder(task[n])
  BY NewTaskInOrder DEF Init
<1>3. results \in Seq(Hashes \X Int64) /\ Len(rows) <= Len(results)
  BY DEF Init
<1>4. db \in [Keys -> Values \cup {0, Nil}]
  BY DEF Init
<1>5. writes \in 0 .. MaxWrites
  BY ScanAssumption DEF Init
<1>6. task = [n \in Nodes |-> task[n]]
  BY DEF Init
<1>7. /\ ignore \in Ignore /\ total \in Nat /\ printedTotal \in Nat
      /\ phase \in {"wait", "total", "take", "print", "exited"} /\ interrupted \in BOOLEAN
  BY DEF Init
<1>8. QED
  BY <1>1, <1>2, <1>3, <1>4, <1>5, <1>6, <1>7 DEF TypeInv

\* A step of task n that takes it to state c.
LEMMA TypedStep ==
  ASSUME TypeInv, NEW n \in Nodes, NEW c, InOrder(c),
         task' = [task EXCEPT ![n] = c],
         db' \in [Keys -> Values \cup {0, Nil}], total' \in Nat, QueueTyped',
         UNCHANGED <<ignore, phase, printedTotal, results, rows, writes, interrupted>>
  PROVE  TypeInv'
<1>1. \A m \in Nodes : InOrder(task'[m])
  BY DEF TypeInv
<1>2. (task = [m \in Nodes |-> task[m]])'
  BY DEF TypeInv
<1>3. (\A m \in Nodes : InOrder(task[m]))'
  BY <1>1 DEF InOrder, TaskStates
<1>4. QED
  BY <1>2, <1>3 DEF TypeInv

LEMMA TypedNow == TypeInv => \A n \in Nodes : InOrder(task[n]) /\ task[n] \in TaskStates
BY DEF TypeInv, InOrder
-----------------------------------------------------------------------------
\* What each step makes of its task: n goes to state c, and nothing else of it
\* changes but what the lemmas say.
Goes(n, c) == task' = [task EXCEPT ![n] = c] /\ InOrder(c)

LEMMA ConnectIs ==
  ASSUME TypeInv, NEW n \in Nodes, Connect(n)
  PROVE  \E c : /\ Goes(n, c) /\ c.batch = task[n].batch /\ c.key = task[n].key
                /\ c.seen = task[n].seen /\ c.sent = task[n].sent
                /\ c.more = task[n].more
                /\ \/ c.pc = "scan" /\ c.missed = task[n].missed
                   \/ c.pc = "failed" /\ c.missed = Unseen(n)
<1> DEFINE a == task[n]
<1>1. InOrder(a) /\ a \in TaskStates /\ a.pc = "connect"
  BY TypedNow DEF Connect, Ready
<1>2. CASE task' = [task EXCEPT ![n].pc = "scan"]
  <2> DEFINE c == [a EXCEPT !.pc = "scan"]
  <2>1. task' = [task EXCEPT ![n] = c]
    BY <1>2
  <2> HIDE DEF a
  <2>2. /\ InOrder(c) /\ c.batch = a.batch /\ c.key = a.key /\ c.seen = a.seen
        /\ c.sent = a.sent /\ c.more = a.more /\ c.pc = "scan" /\ c.missed = a.missed
    BY <1>1 DEF InOrder, TaskStates
  <2> HIDE DEF c
  <2>3. QED
    BY <2>1, <2>2 DEF Goes, a
<1>3. CASE task' = [task EXCEPT ![n].pc = "failed", ![n].missed = Unseen(n)]
  <2> DEFINE u == Unseen(n)
             c == [a EXCEPT !.pc = "failed", !.missed = u]
  <2>1. task' = [task EXCEPT ![n] = c]
    BY <1>3 DEF TypeInv
  <2>2. u \in SUBSET Keys
    BY DEF Unseen
  <2> HIDE DEF a, u
  <2>3. /\ InOrder(c) /\ c.batch = a.batch /\ c.key = a.key /\ c.seen = a.seen
        /\ c.sent = a.sent /\ c.more = a.more /\ c.pc = "failed" /\ c.missed = u
    BY <1>1, <2>2 DEF InOrder, TaskStates
  <2> HIDE DEF c
  <2>4. QED
    BY <2>1, <2>3 DEF Goes, a, u
<1>4. QED
  BY <1>2, <1>3 DEF Connect

LEMMA ScanErrorIs ==
  ASSUME TypeInv, NEW n \in Nodes, ScanError(n)
  PROVE  \E c : /\ Goes(n, c) /\ c.batch = task[n].batch /\ c.key = task[n].key
                /\ c.seen = task[n].seen /\ c.sent = task[n].sent
                /\ c.pc \in {"done", "failed"}
                /\ c.missed = task[n].missed \cup Unseen(n)
<1> DEFINE a == task[n]
           pc == IF ignore THEN "done" ELSE "failed"
           u == a.missed \cup Unseen(n)
           c == [a EXCEPT !.pc = pc, !.missed = u]
<1>1. InOrder(a) /\ a \in TaskStates /\ a.pc = "scan"
  BY TypedNow DEF ScanError, Ready
<1>2. task' = [task EXCEPT ![n] = c]
  BY DEF ScanError, TypeInv
<1>3. u \in SUBSET Keys /\ pc \in {"done", "failed"}
  BY <1>1 DEF Unseen, TaskStates
<1> HIDE DEF a, u, pc
<1>4. /\ InOrder(c) /\ c.batch = a.batch /\ c.key = a.key /\ c.seen = a.seen
      /\ c.sent = a.sent /\ c.pc = pc /\ c.missed = u
  BY <1>1, <1>3 DEF InOrder, TaskStates
<1> HIDE DEF c
<1>5. QED
  BY <1>2, <1>3, <1>4 DEF Goes, a, u

LEMMA PageIs ==
  ASSUME TypeInv, NEW n \in Nodes, FetchPage(n)
  PROVE  \E page \in Pages(Present(n), task[n].seen, task[n].pages) : \E c :
           /\ Goes(n, c)
           /\ c.batch = task[n].batch /\ c.key = task[n].key
           /\ c.sent = {k \in page.keys : ~ShouldSkip(k)} /\ c.sent \subseteq Present(n)
           /\ c.seen = task[n].seen \cup page.keys /\ c.more = page.more
           /\ c.missed = task[n].missed
           /\ c.pc = IF c.sent = {} THEN NextPage(c) ELSE "reply"
<1> DEFINE a == task[n]
<1>1. InOrder(a) /\ a \in TaskStates /\ a.pc = "scan"
  BY TypedNow DEF FetchPage, Ready
<1>2. PICK page \in Pages(Present(n), a.seen, a.pages) :
        LET kept    == {k \in page.keys : ~ShouldSkip(k)}
            skipped == Cardinality(page.keys \ kept)
            b       == [a EXCEPT !.seen = a.seen \cup page.keys,
                                 !.pages = a.pages + 1,
                                 !.more = page.more,
                                 !.sent = kept,
                                 !.count.scanned = @ + Cardinality(page.keys),
                                 !.count.skipped = @ + skipped]
        IN  task' = [task EXCEPT ![n] =
                       [b EXCEPT !.pc = IF kept = {} THEN NextPage(b) ELSE "reply"]]
  BY DEF FetchPage
<1> DEFINE kept == {k \in page.keys : ~ShouldSkip(k)}
           seen == a.seen \cup page.keys
           pages == a.pages + 1
           more == page.more
           new == Cardinality(page.keys)
           skipped == Cardinality(page.keys \ kept)
           b == [a EXCEPT !.seen = seen, !.pages = pages, !.more = more, !.sent = kept,
                          !.count.scanned = @ + new, !.count.skipped = @ + skipped]
           pc == IF kept = {} THEN NextPage(b) ELSE "reply"
           c == [b EXCEPT !.pc = pc]
<1>3. task' = [task EXCEPT ![n] = c]
  BY <1>2
<1>4. /\ page.keys \subseteq Present(n) /\ page.keys \in SUBSET Keys /\ more \in BOOLEAN
      /\ (more => a.pages + 1 < MaxPages)
  BY DEF Pages, Present
<1>5. new \in Nat /\ skipped \in Nat
  <2>1. IsFiniteSet(page.keys)
    BY <1>4, ScanAssumption, FS_Subset
  <2>2. page.keys \ kept \in SUBSET page.keys
    OBVIOUS
  <2>3. IsFiniteSet(page.keys \ kept)
    BY <2>1, <2>2, FS_Subset
  <2>4. QED
    BY <2>1, <2>3, FS_CardinalityType
<1>6. seen \in SUBSET Keys /\ kept \in SUBSET Keys /\ pages \in 0 .. MaxPages
      /\ (more => pages < MaxPages)
  <2>1. a.pages \in 0 .. MaxPages /\ a.pages < MaxPages /\ MaxPages \in Nat
    BY <1>1, ScanServerAssumption DEF InOrder, TaskStates
  <2>2. pages \in 0 .. MaxPages
    BY <2>1
  <2>3. QED
    BY <1>1, <1>4, <2>2 DEF TaskStates
<1>7. kept \subseteq Present(n) /\ DOMAIN a.batch = {}
  BY <1>1, <1>4 DEF InOrder
<1> HIDE DEF a, seen, kept, pages, more, new, skipped
<1> DEFINE counts == [a.count EXCEPT !.scanned = @ + new, !.skipped = @ + skipped]
           d == [a EXCEPT !.seen = seen, !.pages = pages, !.more = more, !.sent = kept,
                          !.count = counts]
<1>14. b = d
  BY <1>1 DEF TaskStates
<1>15. counts \in [{"scanned", "success", "skipped", "errored"} -> Nat]
  <2> DEFINE e == a.count
             once == [e EXCEPT !["scanned"] = e["scanned"] + new]
             F == {"scanned", "success", "skipped", "errored"}
  <2>1. e \in [F -> Nat]
    BY <1>1 DEF TaskStates
  <2>2. e["scanned"] + new \in Nat
    BY <1>5, <2>1
  <2>3. once \in [F -> Nat]
    BY <2>1, <2>2
  <2>4. once["skipped"] + skipped \in Nat
    BY <1>5, <2>3
  <2>5. counts = [once EXCEPT !["skipped"] = once["skipped"] + skipped]
    OBVIOUS
  <2> HIDE DEF once
  <2>6. QED
    BY <2>3, <2>4, <2>5
<1> HIDE DEF b, counts
<1>8. /\ b \in TaskStates /\ b.more = more /\ b.pages = pages /\ b.sent = kept
      /\ b.seen = seen /\ b.batch = a.batch /\ b.key = a.key /\ b.missed = a.missed
  BY <1>1, <1>4, <1>6, <1>14, <1>15 DEF TaskStates
<1>9. pc = IF kept = {} THEN IF more THEN "scan" ELSE "done" ELSE "reply"
  BY <1>8 DEF NextPage
<1> HIDE DEF pc
<1>10. /\ c \in TaskStates /\ c.more = more /\ c.pages = pages /\ c.sent = kept
       /\ c.seen = seen /\ c.batch = a.batch /\ c.key = a.key /\ c.missed = a.missed
       /\ c.pc = pc
  BY <1>8, <1>9 DEF TaskStates
<1> HIDE DEF c
<1>11. InOrder(c)
  BY <1>1, <1>6, <1>7, <1>9, <1>10 DEF InOrder
<1>12. c.pc = IF c.sent = {} THEN NextPage(c) ELSE "reply"
  BY <1>9, <1>10 DEF NextPage
<1>13. QED
  BY <1>3, <1>7, <1>10, <1>11, <1>12 DEF Goes, a, kept, seen, more

LEMMA RepliesIs ==
  ASSUME TypeInv, NEW n \in Nodes, Replies(n)
  PROVE  \E c : /\ Goes(n, c) /\ c.batch = [k \in task[n].sent |-> Reply(k)] /\ c.key = Nil
                /\ c.seen = task[n].seen /\ c.sent = {} /\ c.more = task[n].more
                /\ c.missed = task[n].missed /\ c.pc = "store"
<1> DEFINE a == task[n]
           batch == [k \in a.sent |-> Reply(k)]
           new == Cardinality(a.sent)
           counts == [a.count EXCEPT !.success = @ + new]
           c == [a EXCEPT !.pc = "store", !.batch = batch, !.sent = {}, !.count = counts]
<1>1. InOrder(a) /\ a \in TaskStates /\ a.pc = "reply"
  BY TypedNow DEF Replies, Ready
<1>2. task' = [task EXCEPT ![n] = c]
  BY <1>1 DEF Replies, TaskStates
<1>3. batch \in Batches /\ DOMAIN batch = a.sent /\ new \in Nat
  <2>1. a.sent \subseteq Keys /\ IsFiniteSet(a.sent)
    BY <1>1, ScanAssumption, FS_Subset DEF TaskStates
  <2>2. \A k \in Keys : Reply(k) \in Replied
    BY DEF TypeInv, Reply, ReplyOf, Replied
  <2>3. QED
    BY <2>1, <2>2, FS_CardinalityType DEF Batches
<1>4. a.key = Nil /\ a.sent # {}
  BY <1>1 DEF InOrder
<1> HIDE DEF a, batch, new
<1>5. counts \in [{"scanned", "success", "skipped", "errored"} -> Nat]
  BY <1>1, <1>3 DEF TaskStates
<1> HIDE DEF counts
<1>6. /\ c \in TaskStates /\ c.pc = "store" /\ c.batch = batch /\ c.sent = {}
      /\ c.pages = a.pages /\ c.more = a.more /\ c.key = a.key /\ c.seen = a.seen
      /\ c.missed = a.missed
  BY <1>1, <1>3, <1>5 DEF TaskStates
<1> HIDE DEF c
<1>7. InOrder(c)
  BY <1>1, <1>3, <1>4, <1>6 DEF InOrder
<1>8. QED
  BY <1>2, <1>4, <1>6, <1>7 DEF Goes, a, batch

LEMMA PipelineErrorIs ==
  ASSUME TypeInv, NEW n \in Nodes, PipelineError(n)
  PROVE  \E c : /\ Goes(n, c) /\ c.batch = task[n].batch /\ c.key = task[n].key
                /\ c.seen = task[n].seen /\ c.sent = {} /\ c.more = task[n].more
                /\ \/ c.pc = NextPage(task[n]) /\ c.missed = task[n].missed \cup task[n].sent
                   \/ /\ c.pc = "failed"
                      /\ c.missed = task[n].missed \cup task[n].sent \cup Unseen(n)
<1> DEFINE a == task[n]
           pc == IF ignore THEN NextPage(a) ELSE "failed"
           u == a.missed \cup a.sent \cup IF ignore THEN {} ELSE Unseen(n)
           c == [a EXCEPT !.pc = pc, !.sent = {}, !.missed = u]
<1>1. InOrder(a) /\ a \in TaskStates /\ a.pc = "reply"
  BY TypedNow DEF PipelineError, Ready
<1>2. task' = [task EXCEPT ![n] = c]
  BY DEF PipelineError, TypeInv
<1>3. u \in SUBSET Keys /\ ((pc = "scan" /\ a.more) \/ pc \in {"done", "failed"})
  BY <1>1 DEF Unseen, NextPage, TaskStates
<1>4. a.key = Nil /\ DOMAIN a.batch = {}
  BY <1>1 DEF InOrder
<1>5. \/ pc = NextPage(a) /\ u = a.missed \cup a.sent
      \/ pc = "failed" /\ u = a.missed \cup a.sent \cup Unseen(n)
  OBVIOUS
<1> HIDE DEF a, pc, u
<1>6. /\ InOrder(c) /\ c.batch = a.batch /\ c.key = a.key /\ c.seen = a.seen
      /\ c.sent = {} /\ c.more = a.more /\ c.pc = pc /\ c.missed = u
  BY <1>1, <1>3, <1>4 DEF InOrder, TaskStates
<1> HIDE DEF c
<1>7. QED
  BY <1>2, <1>5, <1>6 DEF Goes, a

\* After a reply its task goes on to the next one, or to the next page.
LEMMA HandledInOrder ==
  ASSUME NEW a, InOrder(a), a.pc = "store", NEW k \in DOMAIN a.batch
  PROVE  /\ InOrder(Handled(a, k)) /\ Handled(a, k).key = Nil
         /\ Handled(a, k).batch = Restrict(a.batch, DOMAIN a.batch \ {k})
         /\ Handled(a, k).count = a.count
         /\ Handled(a, k).seen = a.seen /\ Handled(a, k).missed = a.missed
         /\ Handled(a, k).sent = a.sent /\ Handled(a, k).more = a.more
         /\ Handled(a, k).pc # "failed" /\ (Handled(a, k).pc = "done" => ~a.more)
<1> DEFINE rest == Restrict(a.batch, DOMAIN a.batch \ {k})
           pc == IF DOMAIN rest = {} THEN NextPage(a) ELSE "store"
           c == [a EXCEPT !.batch = rest, !.key = Nil, !.pc = pc]
<1>1. Handled(a, k) = c
  BY DEF Handled
<1>2. a \in TaskStates
  BY DEF InOrder
<1>3. rest \in Batches /\ DOMAIN rest = DOMAIN a.batch \ {k}
  <2>1. PICK ks \in SUBSET Keys : a.batch \in [ks -> Replied]
    BY <1>2 DEF TaskStates, Batches
  <2>2. rest \in [ks \ {k} -> Replied]
    BY <2>1 DEF Restrict
  <2>3. QED
    BY <2>1, <2>2 DEF Batches
<1>4. \/ pc = "store" /\ DOMAIN rest # {}
      \/ DOMAIN rest = {} /\ pc = "scan" /\ a.more
      \/ DOMAIN rest = {} /\ pc = "done" /\ ~a.more
  BY <1>2 DEF NextPage, TaskStates
<1> HIDE DEF rest, pc
<1>5. /\ InOrder(c) /\ c.key = Nil /\ c.batch = rest /\ c.count = a.count
      /\ c.seen = a.seen /\ c.missed = a.missed /\ c.sent = a.sent /\ c.more = a.more
      /\ c.pc # "failed" /\ (c.pc = "done" => ~a.more)
  BY <1>2, <1>3, <1>4 DEF InOrder, TaskStates
<1> HIDE DEF c
<1>6. QED
  BY <1>1, <1>5 DEF rest

LEMMA PassOverIs ==
  ASSUME TypeInv, NEW n \in Nodes, NEW k, PassOver(n, k)
  PROVE  Goes(n, Handled(task[n], k))
<1>1. InOrder(task[n]) /\ task[n].pc = "store" /\ k \in DOMAIN task[n].batch
  BY TypedNow DEF PassOver, Ready
<1>2. InOrder(Handled(task[n], k))
  BY <1>1, HandledInOrder
<1>3. QED
  BY <1>2 DEF PassOver, Goes

LEMMA TallyIs ==
  ASSUME TypeInv, NEW n \in Nodes, NEW k \in Keys, Tally(n, k)
  PROVE  \E c : /\ Goes(n, c) /\ c.batch = task[n].batch /\ c.key = k
                /\ c.seen = task[n].seen /\ c.sent = task[n].sent
                /\ c.more = task[n].more /\ c.missed = task[n].missed /\ c.pc = "store"
<1> DEFINE a == task[n]
           c == [a EXCEPT !.key = k]
<1>1. InOrder(a) /\ a \in TaskStates /\ a.pc = "store" /\ k \in DOMAIN a.batch
  BY TypedNow DEF Tally, Ready
<1>2. task' = [task EXCEPT ![n] = c]
  BY DEF Tally
<1> HIDE DEF a
<1>3. /\ InOrder(c) /\ c.batch = a.batch /\ c.key = k /\ c.seen = a.seen
      /\ c.sent = a.sent /\ c.more = a.more /\ c.missed = a.missed /\ c.pc = "store"
  BY <1>1 DEF InOrder, TaskStates
<1> HIDE DEF c
<1>4. QED
  BY <1>2, <1>3 DEF Goes, a

LEMMA StoreIs ==
  ASSUME TypeInv, NEW n \in Nodes, NEW k, Store(n, k)
  PROVE  \E c : LET h == Handled(task[n], k)
                IN  /\ Goes(n, c) /\ c.batch = h.batch /\ c.key = Nil /\ c.pc = h.pc
                    /\ c.seen = h.seen /\ c.sent = h.sent /\ c.more = h.more
                    /\ c.missed = h.missed
<1> DEFINE a == task[n]
           more == IF Skips(k, a.batch[k]) THEN 1 ELSE 0
           h == Handled(a, k)
           c == [h EXCEPT !.count.skipped = @ + more]
<1>1. InOrder(a) /\ a.pc = "store" /\ k \in DOMAIN a.batch
  BY TypedNow DEF Store, Ready
<1>2. task' = [task EXCEPT ![n] = c]
  BY DEF Store
<1>3. more \in Nat
  OBVIOUS
<1> HIDE DEF a, more
<1>4. InOrder(h) /\ h.key = Nil
  BY <1>1, HandledInOrder
<1> HIDE DEF h
<1>5. h \in TaskStates
  BY <1>4 DEF InOrder
<1>6. /\ c \in TaskStates /\ c.pc = h.pc /\ c.more = h.more /\ c.pages = h.pages
      /\ c.sent = h.sent /\ c.batch = h.batch /\ c.key = h.key
      /\ c.seen = h.seen /\ c.missed = h.missed
  BY <1>3, <1>5 DEF TaskStates
<1> HIDE DEF c
<1>7. InOrder(c)
  BY <1>4, <1>6 DEF InOrder
<1>8. QED
  BY <1>2, <1>4, <1>6, <1>7 DEF Goes, a, h

\* The replies that come to be tallied and stored are numbers.
LEMMA StoredReplies ==
  ASSUME NEW a, InOrder(a), NEW k \in DOMAIN a.batch, ~Ignores(a.batch[k])
  PROVE  /\ k \in Keys /\ a.batch[k] \in Replied
         /\ HasTotal => a.batch[k] \in Values \cup {0}
         /\ WeightOf(a.batch[k]) \in Int64
<1>1. k \in Keys /\ a.batch[k] \in Replied
  BY DEF InOrder, TaskStates, Batches
<1>2. HasTotal => a.batch[k] \in Values \cup {0}
  BY <1>1 DEF HasTotal, Replied, Ignores
<1>3. WeightOf(a.batch[k]) \in Int64
  BY <1>1, Int64Is, ScanAssumption DEF WeightOf, Replied
<1>4. QED
  BY <1>1, <1>2, <1>3

\* The queue stays a queue.
LEMMA PushTyped ==
  ASSUME QueueTyped, NEW h \in Hashes, NEW w \in Int64, q' = PQ!PushOrUpdate(q, h, w)
  PROVE  QueueTyped' /\ QP!Outcome(q, h, w, q')
<1> DEFINE t == QP!PushOrUpdate(q, h, w)
<1>1. q' = t
  BY SameQueue
<1>2. Sort \in {"asc", "desc"} /\ QueueSize \in Nat
  BY ScanAssumption, QueueSizeIs
<1>3. QP!QueueType(q, Int64, Hashes) /\ QP!Linked(q)
  BY DEF QueueTyped
<1>4. QP!QueueType(t, Int64, Hashes) /\ QP!Linked(t) /\ QP!Outcome(q, h, w, t)
  BY <1>2, <1>3, AllDomains, QP!PushOrUpdateIs, Zenon
<1> HIDE DEF t
<1>5. QED
  BY <1>1, <1>4 DEF QueueTyped

\* What GETSET leaves, whatever part of a pipeline is executed.
LEMMA ExecutedTyped == TypeInv => \A ks : Executed(ks) \in [Keys -> Values \cup {0, Nil}]
BY DEF TypeInv, Executed

LEMMA TasksTyped == ASSUME TypeInv, NEW n \in Nodes, Task(n) PROVE TypeInv'
<1>1. UNCHANGED <<ignore, phase, printedTotal, results, rows, writes, interrupted>>
  BY DEF Task, Connect, FetchPage, ScanError, Replies, PipelineError, PassOver, Tally,
         Store, main, env
<1>2. \E c : Goes(n, c)
  BY ConnectIs, PageIs, ScanErrorIs, RepliesIs, PipelineErrorIs, PassOverIs, TallyIs,
     StoreIs DEF Task
<1>3. db' \in [Keys -> Values \cup {0, Nil}]
  <2>1. db' = db \/ \E ks : db' = Executed(ks)
    BY DEF Task, Connect, FetchPage, ScanError, Replies, PipelineError, PassOver, Tally, Store
  <2>2. QED
    BY <2>1, ExecutedTyped DEF TypeInv
<1>4. total' \in Nat
  <2>1. ASSUME NEW k \in Keys, Tally(n, k) PROVE total' \in Nat
    <3> DEFINE v == task[n].batch[k]
    <3>1. v \in Int
      BY <2>1, TypedNow, StoredReplies, Int64Is, ScanAssumption DEF Tally
    <3>2. total' = total + (IF v > 0 THEN v ELSE 0) /\ total \in Nat
      BY <2>1 DEF Tally, TypeInv
    <3> HIDE DEF v
    <3>3. QED
      BY <3>1, <3>2
  <2>2. total' = total \/ \E k \in Keys : Tally(n, k)
    BY DEF Task, Connect, FetchPage, ScanError, Replies, PipelineError, PassOver, Store, shared
  <2>3. QED
    BY <2>1, <2>2 DEF TypeInv
<1>5. QueueTyped'
  <2>1. ASSUME NEW k \in Keys, Store(n, k) PROVE QueueTyped'
    <3> DEFINE v == task[n].batch[k]
    <3>1. q' = q \/ q' = PQ!PushOrUpdate(q, Identity(k), WeightOf(v))
      BY <2>1 DEF Store
    <3>2. Identity(k) \in Hashes /\ WeightOf(v) \in Int64
      BY <2>1, TypedNow, StoredReplies, HashesAre DEF Store
    <3> HIDE DEF v
    <3>3. q' = q => QueueTyped'
      BY DEF TypeInv, QueueTyped
    <3>4. QED
      BY <3>1, <3>2, <3>3, PushTyped DEF TypeInv
  <2>2. q' = q \/ \E k \in Keys : Store(n, k)
    BY DEF Task, Connect, FetchPage, ScanError, Replies, PipelineError, PassOver, Tally, shared
  <2>3. q' = q => QueueTyped'
    BY DEF TypeInv, QueueTyped
  <2>4. QED
    BY <2>1, <2>2, <2>3
<1>6. QED
  BY <1>1, <1>2, <1>3, <1>4, <1>5, TypedStep DEF Goes
-----------------------------------------------------------------------------
\* main.

LEMMA SkipIs ==
  ASSUME NEW S, NEW s \in Seq(S), NEW m \in Nat
  PROVE  /\ Skip(s, m) \in Seq(S) /\ Len(Skip(s, m)) <= Len(s)
         /\ Len(Skip(s, m)) = IF m < Len(s) THEN Len(s) - m ELSE 0
         /\ \A i \in 1 .. Len(Skip(s, m)) : i + m \in 1 .. Len(s) /\ Skip(s, m)[i] = s[i + m]
BY DEF Skip

LEMMA FirstIs ==
  ASSUME NEW S, NEW s \in Seq(S), NEW m \in Nat
  PROVE  /\ First(s, m) \in Seq(S) /\ Len(First(s, m)) <= Len(s)
         /\ \A i \in 1 .. Len(First(s, m)) : First(s, m)[i] = s[i]
BY DEF First

\* The rows are entries of the results, in their order.
LEMMA PrintedIs ==
  ASSUME NEW S, NEW s \in Seq(S)
  PROVE  /\ Printed(s) \in Seq(S) /\ Len(Printed(s)) <= Len(s)
         /\ \A i \in 1 .. Len(Printed(s)) :
              i + Offset \in 1 .. Len(s) /\ Printed(s)[i] = s[i + Offset]
<1> DEFINE u == Skip(s, Offset)
           v == First(u, Limit)
<1>1. Limit \in Nat /\ Offset \in Nat
  BY CommandAssumption
<1>2. /\ u \in Seq(S) /\ Len(u) <= Len(s)
      /\ \A i \in 1 .. Len(u) : i + Offset \in 1 .. Len(s) /\ u[i] = s[i + Offset]
  BY <1>1, SkipIs
<1>3. Printed(s) = u \/ Printed(s) = v
  BY DEF Printed
<1> HIDE DEF u
<1>4. /\ v \in Seq(S) /\ Len(v) <= Len(u)
      /\ \A i \in 1 .. Len(v) : v[i] = u[i]
  BY <1>1, <1>2, FirstIs
<1> HIDE DEF v
<1>5. Len(u) \in Nat /\ Len(v) \in Nat /\ Len(s) \in Nat
  BY <1>2, <1>4
<1>6. \A i \in 1 .. Len(v) : i \in 1 .. Len(u)
  BY <1>4, <1>5
<1>7. QED
  BY <1>2, <1>3, <1>4, <1>5, <1>6

\* State::take delivers every entry of the queue once.
LEMMA ReportIs ==
  ASSUME TypeInv, Report
  PROVE  LET D == DOMAIN q.index
             m == Cardinality(D)
         IN  /\ m \in Nat /\ results' \in Seq(D \X Int64) /\ Len(results') = m
             /\ \E ids \in [1 .. m -> D] :
                  /\ \A x, y \in 1 .. m : ids[x] = ids[y] => x = y
                  /\ \A g \in D : \E x \in 1 .. m : ids[x] = g
                  /\ \A x, y \in 1 .. m :
                       x < y => ~PQ!Better(q.index[ids[y]], q.index[ids[x]])
                  /\ results' = [x \in 1 .. m |-> <<ids[x], q.index[ids[x]]>>]
<1> DEFINE D == DOMAIN q.index
           m == Cardinality(D)
           ids == PQ!IntoVec(q)
<1>1. Sort \in {"asc", "desc"} /\ QueueSize \in Nat
  BY ScanAssumption, QueueSizeIs
<1>2. /\ q.index \in [D -> Int64] /\ q.index \in [D -> Int]
      /\ D \subseteq Hashes /\ IsFiniteSet(D) /\ QP!IsFiniteSet(D) /\ D \subseteq Int
  BY HashesAre, Int64Is, FS_Subset, SameSets DEF TypeInv, QueueTyped, QP!QueueType
<1>3. QP!Lists(ids, D, q.index)
  <2> DEFINE t == QP!IntoVec(q)
  <2>1. QP!Lists(t, D, q.index)
    BY <1>1, <1>2, QP!IntoVecLists, Zenon
  <2>2. ids = t
    BY SameQueue
  <2> HIDE DEF ids, t
  <2>3. QED
    BY <2>1, <2>2
<1>4. ids \in [1 .. QP!Cardinality(D) -> D] /\ QP!IsInjective(ids)
  <2> HIDE DEF ids
  <2>1. QED
    BY <1>1, <1>2, <1>3, QP!ListInjective, Zenon
<1>5. m \in Nat /\ QP!Cardinality(D) = m
  BY <1>2, SameSets, FS_CardinalityType
<1>6. results' = [x \in DOMAIN ids |-> <<ids[x], q.index[ids[x]]>>]
  BY DEF Report
<1> HIDE DEF ids, m
<1>7. /\ ids \in [1 .. m -> D] /\ results' = [x \in 1 .. m |-> <<ids[x], q.index[ids[x]]>>]
      /\ \A x, y \in 1 .. m : ids[x] = ids[y] => x = y
  BY <1>4, <1>5, <1>6 DEF QP!IsInjective
<1>8. \A x \in 1 .. m : <<ids[x], q.index[ids[x]]>> \in D \X Int64
  BY <1>2, <1>7
<1>11. \A x, y \in 1 .. m : x < y => ~PQ!Better(q.index[ids[y]], q.index[ids[x]])
  <2> DEFINE i == q.index
  <2>1. \A x, y \in 1 .. m : x < y => QP!Before(i, ids[x], ids[y])
    BY <1>3, <1>5 DEF QP!Lists
  <2>2. \A x \in 1 .. m : i[ids[x]] \in Int
    BY <1>2, <1>7
  <2>3. \A v, w \in Int : QP!Better(v, w) \/ v = w => ~PQ!Better(w, v)
    BY <1>1 DEF QP!Better, PQ!Better
  <2> HIDE DEF i
  <2>4. \A x, y \in 1 .. m : x < y => ~PQ!Better(i[ids[y]], i[ids[x]])
    BY <2>1, <2>2, <2>3 DEF QP!Before
  <2>5. QED
    BY <2>4 DEF i
<1>12. \A g \in D : \E x \in 1 .. m : ids[x] = g
  <2>1. \A g \in D : \E x \in 1 .. QP!Cardinality(D) : ids[x] = g
    BY <1>1, <1>2, <1>4, QP!ListIsSurjective, Zenon
  <2>2. QED
    BY <1>5, <2>1
<1>9. results' \in Seq(D \X Int64) /\ Len(results') = m
  <2>1. results' \in Seq(D \X Int64)
    BY <1>5, <1>7, <1>8
  <2>2. DOMAIN results' = 1 .. m
    BY <1>7
  <2>3. QED
    BY <1>5, <2>1, <2>2
<1>10. QED
  BY <1>5, <1>7, <1>9, <1>11, <1>12 DEF m

\* A step that leaves the tasks and the queue alone.
LEMMA TypedAside ==
  ASSUME TypeInv, UNCHANGED <<ignore, task, q>>, db' \in [Keys -> Values \cup {0, Nil}],
         total' \in Nat, printedTotal' \in Nat,
         phase' \in {"wait", "total", "take", "print", "exited"},
         results' \in Seq(Hashes \X Int64), Len(rows') <= Len(results'),
         writes' \in 0 .. MaxWrites, interrupted' \in BOOLEAN
  PROVE  TypeInv'
<1>1. \A n \in Nodes : InOrder(task[n])'
  BY DEF TypeInv, InOrder, TaskStates
<1>2. QueueTyped' /\ (task = [n \in Nodes |-> task[n]])'
  BY DEF TypeInv, QueueTyped
<1>3. QED
  BY <1>1, <1>2 DEF TypeInv

LEMMA ReportTyped == ASSUME TypeInv, Report PROVE TypeInv'
<1>1. results' \in Seq(Hashes \X Int64)
  <2> DEFINE D == DOMAIN q.index
  <2>1. results' \in Seq(D \X Int64) /\ D \subseteq Hashes
    BY ReportIs DEF TypeInv, QueueTyped, QP!QueueType
  <2> HIDE DEF D
  <2>2. QED
    BY <2>1
<1>2. Len(rows') <= Len(results')
  <2>1. rows' = Printed(results')
    BY DEF Report
  <2>2. QED
    BY <1>1, <2>1, PrintedIs
<1>3. /\ UNCHANGED <<ignore, task, q, db, total, printedTotal, writes, interrupted>>
      /\ phase' = "print"
  BY DEF Report, shared, env
<1>4. QED
  BY <1>1, <1>2, <1>3, TypedAside DEF TypeInv

LEMMA TypedSteps == TypeInv /\ [Next]_vars => TypeInv'
<1> SUFFICES ASSUME TypeInv, [Next]_vars PROVE TypeInv'
  OBVIOUS
<1>1. ASSUME NEW n \in Nodes, Task(n) PROVE TypeInv'
  BY <1>1, TasksTyped
<1>2. CASE WaitDone \/ Interrupt \/ ReadTotal \/ Exit
  <2>1. /\ UNCHANGED <<ignore, task, q, db, total, results, rows, writes>>
        /\ phase' \in {"wait", "total", "take", "print", "exited"}
        /\ interrupted' \in BOOLEAN /\ printedTotal' \in Nat
    BY <1>2 DEF TypeInv, WaitDone, Interrupt, ReadTotal, Exit, shared, env
  <2>2. QED
    BY <2>1, TypedAside DEF TypeInv
<1>3. ASSUME NEW k \in Keys, OtherClient(k) PROVE TypeInv'
  <2>1. UNCHANGED <<ignore, task, q, total, phase, printedTotal, results, rows, interrupted>>
    BY <1>3 DEF OtherClient, shared, main
  <2>2. writes' \in 0 .. MaxWrites
    BY <1>3, ScanAssumption DEF TypeInv, OtherClient
  <2>3. db' \in [Keys -> Values \cup {0, Nil}]
    BY <1>3 DEF TypeInv, OtherClient
  <2>4. QED
    BY <2>1, <2>2, <2>3, TypedAside DEF TypeInv
<1>4. CASE UNCHANGED vars
  <2>1. UNCHANGED <<ignore, task, q, db, total, phase, printedTotal, results, rows, writes,
                    interrupted>>
    BY <1>4 DEF vars, shared, main, env
  <2>2. QED
    BY <2>1, TypedAside DEF TypeInv
<1>5. QED
  BY <1>1, <1>2, <1>3, <1>4, ReportTyped DEF Next, Main

LEMMA InvTypes == TypeInv => TypeOK
<1> SUFFICES ASSUME TypeInv PROVE TypeOK
  OBVIOUS
<1>1. \A n \in Nodes : TaskType(task[n])
  <2> SUFFICES ASSUME NEW n \in Nodes PROVE TaskType(task[n])
    OBVIOUS
  <2> DEFINE a == task[n]
  <2>1. InOrder(a) /\ a \in TaskStates
    BY TypedNow
  <2> HIDE DEF a
  <2>2. DOMAIN a.batch \subseteq Keys /\ Range(a.batch) \subseteq Replied
    BY <2>1 DEF TaskStates, Batches, Range
  <2>3. \A c \in DOMAIN NoCounts : a.count[c] \in Nat
    BY <2>1, CountsAre DEF TaskStates
  <2>4. QED
    BY <2>1, <2>2, <2>3 DEF TaskType, TaskStates, InOrder, a
<1>2. DOMAIN q.index \subseteq Keys \cup Range(GroupOf) /\ Range(q.index) \subseteq Int64
  BY DEF TypeInv, QueueTyped, QP!QueueType, Hashes, Range
<1>3. Range(results) \subseteq (Keys \cup Range(GroupOf)) \X Int64
  BY DEF TypeInv, Hashes, Range
<1>4. DOMAIN task = Nodes
  BY DEF TypeInv
<1>5. QED
  BY <1>1, <1>2, <1>3, <1>4 DEF TypeOK, TypeInv

\* Every variable keeps its type: the batches hold what servers reply, a weight
\* in the queue fits an i64 whatever is added up, and no more rows are printed
\* than there are results.
THEOREM ScanTypes == Spec => []TypeOK
<1>1. Init => TypeInv
  BY TypeInit
<1>2. TypeInv /\ [Next]_vars => TypeInv'
  BY TypedSteps
<1>3. TypeInv => TypeOK
  BY InvTypes
<1>4. QED
  BY <1>1, <1>2, <1>3, PTL DEF Spec
-----------------------------------------------------------------------------
\* The total is ahead.

Positive(x) == IF x > 0 THEN x ELSE 0

\* What the entries of an index add to the total they are shares of.
Gains(i) == [h \in DOMAIN i |-> Positive(i[h])]

\* What the total has of a task, but the queue has not yet.
Pending(a) == IF a.key = Nil THEN 0 ELSE a.batch[a.key]
Pendings == [n \in Nodes |-> Pending(task[n])]

LEMMA GainsType ==
  ASSUME NEW D, NEW i \in [D -> Int]
  PROVE  /\ Gains(i) \in [D -> Nat] /\ Gains(i) \in [D -> Int]
         /\ \A h \in D : Gains(i)[h] = Positive(i[h]) /\ i[h] <= Gains(i)[h]
BY DEF Gains, Positive

\* An addition that wraps loses.
LEMMA MergeGains ==
  ASSUME HasTotal, NEW x \in Int64, NEW w \in Int64, w >= 0
  PROVE  MergeOf(x, w) \in Int /\ Positive(MergeOf(x, w)) <= Positive(x) + w
<1> DEFINE B == 2 ^ (Bits - 1)
<1>1. B \in Nat /\ B >= 2 /\ 2 ^ Bits = 2 * B
  BY BitsAssumption
<1>2. Int64 = -B .. B - 1 /\ Wrapped(x + w) = ((x + w + B) % (2 * B)) - B
  BY <1>1 DEF Int64, Wrapped
<1>3. MergeOf(x, w) = Wrapped(x + w)
  BY DEF MergeOf, AddUp
<1> HIDE DEF B
<1>4. \A y \in Int : y >= -B => ((y + B) % (2 * B)) - B <= y /\ ((y + B) % (2 * B)) - B \in Int
  BY <1>1
<1>5. x \in Int /\ w \in Int /\ x + w >= -B
  BY <1>1, <1>2
<1>6. Wrapped(x + w) <= x + w /\ Wrapped(x + w) \in Int
  BY <1>2, <1>4, <1>5
<1>7. \A y, u, v \in Int : v >= 0 /\ y <= u + v => Positive(y) <= Positive(u) + v
  BY DEF Positive
<1>8. QED
  BY <1>3, <1>5, <1>6, <1>7

\* The entries gain no more than what is pushed.
LEMMA PushGains ==
  ASSUME HasTotal, NEW i, DOMAIN i \subseteq Hashes, i \in [DOMAIN i -> Int64],
         NEW h, NEW w \in Int64, w >= 0, NEW r, NEW t, r.index = i,
         QP!Outcome(r, h, w, t)
  PROVE  SumOver(Gains(t.index)) <= SumOver(Gains(i)) + w
<1> DEFINE D == DOMAIN i
           g == Gains(i)
<1>1. IsFiniteSet(D) /\ i \in [D -> Int] /\ w \in Int
  BY HashesAre, FS_Subset, Int64Is
<1>2. /\ g \in [D -> Int] /\ g \in [D -> Nat] /\ DOMAIN g = D
      /\ \A x \in D : g[x] = Positive(i[x])
  BY <1>1, GainsType DEF Gains
<1>3. SumOver(g) \in Int
  BY <1>1, <1>2, SumType
<1>4. Positive(w) = w
  BY <1>1 DEF Positive
<1>5. CASE h \in D /\ t.index = [i EXCEPT ![h] = MergeOf(i[h], w)]
  <2> DEFINE v == Positive(MergeOf(i[h], w))
  <2>1. v \in Int /\ v <= g[h] + w /\ g[h] \in Int
    BY <1>2, <1>5, MergeGains DEF Positive
  <2>2. Gains(t.index) = [g EXCEPT ![h] = v]
    BY <1>5 DEF Gains
  <2> HIDE DEF g, v
  <2>3. SumOver([g EXCEPT ![h] = v]) = (SumOver(g) - g[h]) + v
    <3>1. h \in D
      BY <1>5
    <3> HIDE DEF D
    <3>2. QED
      BY <1>1, <1>2, <2>1, <3>1, SumChanges
  <2>4. QED
    BY <1>1, <1>3, <2>1, <2>2, <2>3 DEF g
<1>6. CASE h \notin D /\ t.index = QP!Put(i, h, w)
  <2> DEFINE j == [x \in D \cup {h} |-> IF x = h THEN w ELSE g[x]]
  <2>1. Gains(t.index) = j
    BY <1>4, <1>6 DEF Gains, QP!Put
  <2>2. SumOver(j) = SumOver(g) + w
    <3> HIDE DEF g, D
    <3>1. QED
      BY <1>1, <1>2, <1>6, SumExtends DEF D
  <2> HIDE DEF j, g
  <2>3. QED
    BY <1>1, <1>3, <2>1, <2>2 DEF g
<1>7. ASSUME NEW v \in D, h \notin D, t.index = QP!Put(QP!Drop(i, v), h, w)
      PROVE  SumOver(Gains(t.index)) <= SumOver(g) + w
  <2> DEFINE E == D \ {v}
             f == Restrict(g, E)
             j == [x \in E \cup {h} |-> IF x = h THEN w ELSE f[x]]
  <2>1. Gains(t.index) = j
    BY <1>4, <1>7 DEF Gains, QP!Put, QP!Drop, QP!Restrict, Restrict
  <2>2. IsFiniteSet(E) /\ f \in [E -> Int] /\ h \notin E
    BY <1>1, <1>2, <1>7, FS_Subset DEF Restrict
  <2>3. SumOver(j) = SumOver(f) + w
    <3> HIDE DEF f, E, g, D
    <3>1. w \in Int
      BY <1>1
    <3>2. QED
      BY <2>2, <3>1, SumExtends, SMTT(30)
  <2>4. SumOver(g) = g[v] + SumOver(f) /\ SumOver(f) \in Int /\ g[v] \in Nat
    <3> HIDE DEF g, D
    <3>1. QED
      BY <1>1, <1>2, <1>7, SumTakes DEF D
  <2> HIDE DEF j, f, g
  <2>5. QED
    BY <1>1, <1>3, <2>1, <2>3, <2>4
<1>8. CASE t.index = i
  <2> HIDE DEF g
  <2>1. QED
    BY <1>1, <1>3, <1>8 DEF g
<1>9. QED
  BY <1>5, <1>6, <1>7, <1>8 DEF QP!Outcome

\* A value in the total whose entry is still to come is a number.
Tallied(a) == a.key # Nil => a.batch[a.key] \in Values \cup {0}

AheadInv ==
  /\ TypeInv
  /\ \A n \in Nodes : Tallied(task[n])
  /\ total >= SumOver(Gains(q.index)) + SumOver(Pendings)
  /\ ~interrupted =>
       /\ phase # "wait" => AllDone
       /\ phase \in {"take", "print", "exited"} => printedTotal = total
       /\ RowsWithinTotal

Nonnegative == \A v \in Values : v >= 0

LEMMA ValuesAre == Nonnegative => Values \cup {0} \subseteq Nat
BY ScanAssumption, Int64Is DEF Nonnegative

LEMMA PendingType ==
  ASSUME Nonnegative, NEW a, Tallied(a)
  PROVE  Pending(a) \in Nat
BY ValuesAre DEF Tallied, Pending

LEMMA GainsAre ==
  TypeInv => /\ DOMAIN q.index \subseteq Hashes /\ q.index \in [DOMAIN q.index -> Int64]
             /\ IsFiniteSet(DOMAIN q.index)
             /\ SumOver(Gains(q.index)) \in Int
<1> SUFFICES ASSUME TypeInv PROVE /\ DOMAIN q.index \subseteq Hashes
                                  /\ q.index \in [DOMAIN q.index -> Int64]
                                  /\ IsFiniteSet(DOMAIN q.index)
                                  /\ SumOver(Gains(q.index)) \in Int
  OBVIOUS
<1> DEFINE i == q.index
           D == DOMAIN i
<1>1. D \subseteq Hashes /\ i \in [D -> Int64]
  BY DEF TypeInv, QueueTyped, QP!QueueType
<1> HIDE DEF i
<1>2. IsFiniteSet(D) /\ i \in [D -> Int]
  BY <1>1, HashesAre, FS_Subset, Int64Is
<1>3. SumOver(Gains(i)) \in Int
  BY <1>2, GainsType, SumType
<1>4. QED
  BY <1>1, <1>2, <1>3 DEF i

LEMMA AheadInit == Init => AheadInv
<1> SUFFICES ASSUME Init PROVE AheadInv
  OBVIOUS
<1>1. \A n \in Nodes : task[n].key = Nil
  BY DEF Init, NewTask
<1>2. \A n \in Nodes : Tallied(task[n]) /\ Pending(task[n]) = 0
  BY <1>1 DEF Tallied, Pending
<1>3. SumOver(Pendings) = 0
  <2>1. Pendings \in [Nodes -> Int] /\ \A n \in Nodes : Pendings[n] = 0
    BY <1>2 DEF Pendings
  <2>2. QED
    BY <2>1, ScanAssumption, SumOfZeros
<1>4. SumOver(Gains(q.index)) = 0
  <2>1. q = QP!New
    BY SameQueue DEF Init
  <2>2. DOMAIN Gains(q.index) = {}
    BY <2>1 DEF Gains, QP!New
  <2>3. QED
    BY <2>2, SumEmpty
<1>5. phase = "wait" /\ total = 0
  BY DEF Init
<1>6. QED
  BY <1>2, <1>3, <1>4, <1>5, TypeInit DEF AheadInv, RowsWithinTotal, Reported

\* A task that has not ended goes to state c; the total gains no less than what
\* the queue does and what is pending.
LEMMA AheadStep ==
  ASSUME Nonnegative, AheadInv, TypeInv', NEW n \in Nodes, NEW c, Goes(n, c), Tallied(c),
         task[n].pc \notin {"done", "failed"},
         UNCHANGED <<phase, printedTotal, rows, interrupted>>,
         NEW v \in Int, SumOver(Gains(q'.index)) <= SumOver(Gains(q.index)) + v,
         total' + Pending(task[n]) >= total + v + Pending(c)
  PROVE  AheadInv'
<1>1. \A m \in Nodes : task'[m] = IF m = n THEN c ELSE task[m]
  BY DEF Goes, AheadInv, TypeInv
<1>2. (\A m \in Nodes : Tallied(task[m]))'
  <2>1. \A m \in Nodes : Tallied(task'[m])
    BY <1>1 DEF AheadInv
  <2>2. QED
    BY <2>1 DEF Tallied
<1>3. Pending(task[n]) \in Int /\ Pending(c) \in Int /\ Pendings \in [Nodes -> Int]
  BY PendingType DEF AheadInv, Pendings
<1>4. Pendings' = [Pendings EXCEPT ![n] = Pending(c)]
  BY <1>1 DEF Pendings, Pending
<1>5. SumOver(Pendings') = (SumOver(Pendings) - Pending(task[n])) + Pending(c)
  <2>1. Pendings[n] = Pending(task[n])
    BY DEF Pendings
  <2>2. IsFiniteSet(Nodes)
    BY ScanAssumption
  <2> DEFINE p == Pendings
             v1 == Pending(c)
  <2>3. p \in [Nodes -> Int] /\ v1 \in Int
    BY <1>3
  <2> HIDE DEF p, v1
  <2>4. SumOver([p EXCEPT ![n] = v1]) = (SumOver(p) - p[n]) + v1
    BY <2>2, <2>3, SumChanges
  <2>5. QED
    BY <1>4, <2>1, <2>4 DEF p, v1
<1>6. SumOver(Pendings) \in Int
  BY <1>3, ScanAssumption, SumType
<1>7. SumOver(Gains(q.index)) \in Int /\ total \in Int
  BY GainsAre DEF AheadInv, TypeInv
<1>8. SumOver(Gains(q'.index)) \in Int /\ total' \in Int
  <2>1. (SumOver(Gains(q.index)) \in Int)'
    BY GainsAre, PTL
  <2>2. QED
    BY <2>1 DEF Gains, TypeInv
<1>9. total' >= SumOver(Gains(q'.index)) + SumOver(Pendings')
  <2>1. total >= SumOver(Gains(q.index)) + SumOver(Pendings)
    BY DEF AheadInv
  <2>2. QED
    BY <1>3, <1>5, <1>6, <1>7, <1>8, <2>1
<1>10. (total >= SumOver(Gains(q.index)) + SumOver(Pendings))'
  BY <1>9 DEF Gains
<1>11. interrupted' \/ phase' = "wait"
  BY DEF AheadInv, AllDone
<1>12. QED
  BY <1>2, <1>10, <1>11 DEF AheadInv, RowsWithinTotal, Reported

\* Nothing is pending before the loop over the replies.
LEMMA NothingTallied ==
  ASSUME NEW a, InOrder(a), a.pc # "store"
  PROVE  a.key = Nil
BY DEF InOrder

LEMMA AheadTask ==
  ASSUME HasTotal, Nonnegative, AheadInv, NEW n \in Nodes, Task(n)
  PROVE  AheadInv'
<1> DEFINE a == task[n]
<1>1. TypeInv /\ TypeInv' /\ InOrder(a) /\ Tallied(a)
  BY TasksTyped, TypedNow DEF AheadInv
<1>2. /\ UNCHANGED <<phase, printedTotal, rows, interrupted>>
      /\ a.pc \notin {"done", "failed"}
  BY DEF Task, Connect, FetchPage, ScanError, Replies, PipelineError, PassOver, Tally,
         Store, main, Ready
<1>3. Pending(a) \in Nat /\ total \in Nat /\ SumOver(Gains(q.index)) \in Int
  BY <1>1, PendingType, GainsAre DEF TypeInv
<1>4. ASSUME NEW c, Goes(n, c), Tallied(c), Pending(c) = Pending(a),
             UNCHANGED <<total, q>>
      PROVE  AheadInv'
  <2>1. 0 \in Int /\ SumOver(Gains(q'.index)) <= SumOver(Gains(q.index)) + 0
    BY <1>3, <1>4
  <2>2. total' + Pending(a) >= total + 0 + Pending(c)
    BY <1>3, <1>4
  <2>3. QED
    BY <1>1, <1>2, <1>4, <2>1, <2>2, AheadStep
<1>5. CASE Connect(n) \/ FetchPage(n) \/ ScanError(n) \/ PipelineError(n)
  <2>1. UNCHANGED <<total, q>>
    BY <1>5 DEF Connect, FetchPage, ScanError, PipelineError, shared
  <2>2. PICK c : Goes(n, c) /\ c.batch = a.batch /\ c.key = a.key
    BY <1>1, <1>5, ConnectIs, PageIs, ScanErrorIs, PipelineErrorIs
  <2>3. Tallied(c) /\ Pending(c) = Pending(a)
    BY <1>1, <2>2 DEF Tallied, Pending
  <2>4. QED
    BY <1>4, <2>1, <2>2, <2>3
<1>6. CASE Replies(n) \/ \E k \in Keys : PassOver(n, k)
  <2>1. UNCHANGED <<total, q>> /\ a.key = Nil
    BY <1>1, <1>6, NothingTallied DEF Replies, PassOver, Ready, shared
  <2>2. PICK c : Goes(n, c) /\ c.key = Nil
    <3>1. ASSUME NEW k \in Keys, PassOver(n, k) PROVE Goes(n, Handled(a, k)) /\ Handled(a, k).key = Nil
      BY <1>1, <3>1, PassOverIs, HandledInOrder DEF PassOver, Ready
    <3>2. QED
      BY <1>1, <1>6, <3>1, RepliesIs
  <2>3. Tallied(c) /\ Pending(c) = Pending(a)
    BY <2>1, <2>2 DEF Tallied, Pending
  <2>4. QED
    BY <1>4, <2>1, <2>2, <2>3
<1>7. ASSUME NEW k \in Keys, Tally(n, k) PROVE AheadInv'
  <2>1. /\ q' = q /\ a.key = Nil /\ k \in DOMAIN a.batch /\ ~Ignores(a.batch[k])
        /\ total' = total + (IF a.batch[k] > 0 THEN a.batch[k] ELSE 0)
    BY <1>7 DEF Tally
  <2>2. PICK c : Goes(n, c) /\ c.batch = a.batch /\ c.key = k
    BY <1>1, <1>7, TallyIs
  <2>3. a.batch[k] \in Values \cup {0} /\ a.batch[k] \in Nat
    BY <1>1, <2>1, StoredReplies, ValuesAre
  <2>4. k # Nil
    BY ScanAssumption
  <2>5. Tallied(c) /\ Pending(c) = a.batch[k] /\ Pending(a) = 0
    BY <2>1, <2>2, <2>3, <2>4 DEF Tallied, Pending
  <2> HIDE DEF a
  <2>6. total' + Pending(a) >= total + 0 + Pending(c)
    BY <1>3, <2>1, <2>3, <2>5
  <2>7. 0 \in Int /\ SumOver(Gains(q'.index)) <= SumOver(Gains(q.index)) + 0
    BY <1>3, <2>1
  <2>8. QED
    BY <1>1, <1>2, <2>2, <2>5, <2>6, <2>7, AheadStep DEF a
<1>8. ASSUME NEW k \in Keys, Store(n, k) PROVE AheadInv'
  <2> DEFINE v == a.batch[k]
             w == IF Skips(k, v) THEN 0 ELSE v
  <2>1. /\ total' = total /\ a.key = k /\ k \in DOMAIN a.batch /\ ~Ignores(v)
        /\ q' = IF Skips(k, v) THEN q ELSE PQ!PushOrUpdate(q, Identity(k), WeightOf(v))
    BY <1>8 DEF Store
  <2>2. PICK c : Goes(n, c) /\ c.key = Nil
    BY <1>1, <1>8, StoreIs
  <2>3. v \in Values \cup {0} /\ v \in Nat /\ k # Nil /\ WeightOf(v) \in Int64
    BY <1>1, <2>1, StoredReplies, ValuesAre, ScanAssumption
  <2>4. WeightOf(v) = v
    BY <2>3, ScanAssumption DEF WeightOf
  <2>5. Tallied(c) /\ Pending(c) = 0 /\ Pending(a) = v
    BY <2>1, <2>2, <2>3 DEF Tallied, Pending
  <2>6. SumOver(Gains(q'.index)) <= SumOver(Gains(q.index)) + w
    <3>1. CASE Skips(k, v)
      BY <1>3, <2>1, <3>1
    <3>2. CASE ~Skips(k, v)
      <4> HIDE DEF v
      <4> DEFINE i == q.index
      <4>1. q' = PQ!PushOrUpdate(q, Identity(k), WeightOf(v)) /\ Identity(k) \in Hashes
        BY <2>1, <3>2, HashesAre
      <4>2. QP!Outcome(q, Identity(k), WeightOf(v), q')
        BY <1>1, <2>3, <4>1, PushTyped DEF TypeInv
      <4>3. v >= 0 /\ v \in Int64 /\ QP!Outcome(q, Identity(k), v, q')
        BY <2>3, <2>4, <4>2
      <4>4. DOMAIN i \subseteq Hashes /\ i \in [DOMAIN i -> Int64] /\ q.index = i
        BY <1>1, GainsAre
      <4> HIDE DEF i
      <4>5. SumOver(Gains(q'.index)) <= SumOver(Gains(i)) + v
        BY <4>3, <4>4, PushGains
      <4>6. QED
        BY <3>2, <4>5 DEF i
    <3>3. QED
      BY <3>1, <3>2
  <2>7. w \in Int /\ total' + Pending(a) >= total + w + Pending(c)
    <3> HIDE DEF v, a
    <3>1. QED
      BY <1>3, <2>1, <2>3, <2>5
  <2> HIDE DEF w, v
  <2>8. QED
    BY <1>1, <1>2, <2>2, <2>5, <2>6, <2>7, AheadStep
<1>9. QED
  BY <1>5, <1>6, <1>7, <1>8 DEF Task

\* The rows are different entries of the queue.
LEMMA RowsGain ==
  ASSUME TypeInv, Report
  PROVE  SumOver([x \in DOMAIN rows' |-> rows'[x][2]]) <= SumOver(Gains(q.index))
<1> DEFINE i == q.index
           D == DOMAIN i
           m == Cardinality(D)
           G == Gains(i)
           R == rows'
           E == 1 .. Len(R)
           V == [x \in E |-> R[x][2]]
<1>1. /\ m \in Nat /\ results' \in Seq(D \X Int64) /\ Len(results') = m
      /\ D \subseteq Hashes /\ i \in [D -> Int64] /\ IsFiniteSet(D)
  BY ReportIs, GainsAre
<1>2. PICK ids \in [1 .. m -> D] :
        /\ \A x, y \in 1 .. m : ids[x] = ids[y] => x = y
        /\ results' = [x \in 1 .. m |-> <<ids[x], i[ids[x]]>>]
  BY ReportIs
<1> HIDE DEF i
<1>3. /\ R \in Seq(D \X Int64)
      /\ \A x \in 1 .. Len(R) : /\ x + Offset \in 1 .. Len(results')
                                /\ R[x] = results'[x + Offset]
  <2> DEFINE S == D \X Int64
  <2>1. rows' = Printed(results') /\ results' \in Seq(S)
    BY <1>1 DEF Report
  <2> HIDE DEF S
  <2>2. QED
    BY <2>1, PrintedIs DEF S
<1>4. Len(R) \in Nat /\ DOMAIN R = E /\ IsFiniteSet(E) /\ Offset \in Nat
  BY <1>3, FS_Interval, CommandAssumption
<1> DEFINE j == [x \in E |-> ids[x + Offset]]
<1>5. /\ j \in [E -> D] /\ \A x, y \in E : j[x] = j[y] => x = y
      /\ \A x \in E : R[x][2] = i[j[x]]
  <2> HIDE DEF R, D, m
  <2>1. \A x \in E : x + Offset \in 1 .. m /\ x \in Int /\ R[x] = results'[x + Offset]
    BY <1>1, <1>3, <1>4
  <2>2. \A x \in E : j[x] = ids[x + Offset] /\ R[x] = <<j[x], i[j[x]]>> /\ j[x] \in D
    BY <1>2, <2>1
  <2>3. \A x, y \in E : j[x] = j[y] => x + Offset = y + Offset
    BY <1>2, <2>1, <2>2
  <2>4. \A x, y \in E : x + Offset = y + Offset => x = y
    BY <1>4, <2>1
  <2>5. j \in [E -> D]
    BY <2>2
  <2>6. QED
    BY <2>2, <2>3, <2>4, <2>5
<1>6. /\ G \in [D -> Nat] /\ G \in [D -> Int]
      /\ \A h \in D : i[h] \in Int /\ i[h] <= G[h]
  <2> HIDE DEF D
  <2>1. i \in [D -> Int]
    BY <1>1, Int64Is
  <2>2. QED
    BY <2>1, GainsType
<1> HIDE DEF j, G, R, D, E
<1> DEFINE W == [x \in E |-> G[j[x]]]
<1>7. SumOver(W) <= SumOver(G)
  <2>1. IsFiniteSet(D) /\ IsFiniteSet(E) /\ G \in [D -> Nat] /\ j \in [E -> D]
        /\ \A x, y \in E : j[x] = j[y] => x = y
    BY <1>1, <1>4, <1>5, <1>6
  <2>2. QED
    BY <2>1, SumOfImage
<1>8. V \in [E -> Int] /\ W \in [E -> Int] /\ \A x \in E : V[x] <= W[x]
  BY <1>5, <1>6
<1> HIDE DEF V, W
<1>9. SumOver(V) <= SumOver(W)
  BY <1>4, <1>8, SumMonotonic
<1>10. SumOver(V) \in Int /\ SumOver(W) \in Int /\ SumOver(G) \in Int
  BY <1>1, <1>4, <1>6, <1>8, SumType
<1>11. SumOver(V) <= SumOver(G)
  BY <1>7, <1>9, <1>10
<1>12. V = [x \in DOMAIN rows' |-> rows'[x][2]]
  BY <1>4 DEF V, R
<1>13. QED
  BY <1>11, <1>12 DEF G, i

LEMMA PendingsNat == Nonnegative /\ AheadInv => SumOver(Pendings) \in Nat
<1> SUFFICES ASSUME Nonnegative, AheadInv PROVE SumOver(Pendings) \in Nat
  OBVIOUS
<1>1. Pendings \in [Nodes -> Nat] /\ IsFiniteSet(Nodes)
  BY PendingType, ScanAssumption DEF AheadInv, Pendings
<1>2. QED
  BY <1>1, SumNat

\* A step that leaves the tasks, the queue and the total alone.
LEMMA AheadAside ==
  ASSUME AheadInv, TypeInv', UNCHANGED <<task, q, total>>,
         ~interrupted' => /\ phase' # "wait" => AllDone
                          /\ phase' \in {"take", "print", "exited"} => printedTotal' = total
                          /\ RowsWithinTotal'
  PROVE  AheadInv'
<1>1. Pendings' = Pendings /\ (\A n \in Nodes : Tallied(task[n]))' /\ AllDone' = AllDone
  BY DEF AheadInv, Pendings, Pending, Tallied, AllDone
<1>2. QED
  BY <1>1 DEF AheadInv, Gains

LEMMA AheadSteps == HasTotal /\ Nonnegative /\ AheadInv /\ [Next]_vars => AheadInv'
<1> SUFFICES ASSUME HasTotal, Nonnegative, AheadInv, [Next]_vars PROVE AheadInv'
  OBVIOUS
<1>1. TypeInv /\ TypeInv'
  BY TypedSteps DEF AheadInv
<1>2. CASE WaitDone
  <2>1. /\ UNCHANGED <<task, q, total, printedTotal, rows, interrupted>>
        /\ phase' = "total" /\ AllDone
    BY <1>2 DEF WaitDone, shared, AllDone
  <2>2. QED
    BY <1>1, <2>1, AheadAside DEF RowsWithinTotal, Reported
<1>3. CASE Interrupt
  BY <1>1, <1>3, AheadAside DEF Interrupt, shared
<1>4. CASE ReadTotal
  <2>1. /\ UNCHANGED <<task, q, total, rows, interrupted>> /\ phase = "total"
        /\ phase' = "take" /\ printedTotal' = total
    BY <1>4 DEF ReadTotal, shared
  <2>2. QED
    BY <1>1, <2>1, AheadAside DEF AheadInv, RowsWithinTotal, Reported
<1>5. CASE Report
  <2>1. /\ UNCHANGED <<task, q, total, printedTotal, interrupted>> /\ phase = "take"
        /\ phase' = "print"
    BY <1>5 DEF Report, shared
  <2>2. ASSUME ~interrupted
        PROVE  AllDone /\ printedTotal = total /\ RowsWithinTotal'
    <3>1. AllDone /\ printedTotal = total
      BY <2>1, <2>2 DEF AheadInv
    <3> DEFINE v == SumOver([x \in DOMAIN rows' |-> rows'[x][2]])
               g == SumOver(Gains(q.index))
               p == SumOver(Pendings)
    <3>2. total >= g + p /\ p \in Nat /\ total \in Nat /\ g \in Int
      BY <1>1, PendingsNat, GainsAre DEF AheadInv, TypeInv
    <3>3. v <= g
      BY <1>1, <1>5, RowsGain
    <3>4. v \in Int
      <4>1. rows' \in Seq(Hashes \X Int64)
        <5>1. rows' = Printed(results') /\ results' \in Seq(Hashes \X Int64)
          BY <1>1, <1>5 DEF Report, TypeInv
        <5>2. QED
          BY <5>1, PrintedIs
      <4>2. \A x \in DOMAIN rows' : rows'[x][2] \in Int
        <5>1. \A x \in DOMAIN rows' : rows'[x] \in Hashes \X Int64
          BY <4>1
        <5>2. \A r \in Hashes \X Int64 : r[2] \in Int
          BY Int64Is
        <5>3. QED
          BY <5>1, <5>2
      <4>3. IsFiniteSet(DOMAIN rows')
        <5>1. DOMAIN rows' = 1 .. Len(rows') /\ Len(rows') \in Nat
          BY <4>1
        <5>2. QED
          BY <5>1, FS_Interval
      <4> DEFINE D == DOMAIN rows'
                 V == [x \in D |-> rows'[x][2]]
      <4>4. V \in [D -> Int]
        BY <4>2
      <4> HIDE DEF V, D
      <4>5. SumOver(V) \in Int
        BY <4>3, <4>4, SumType DEF D
      <4>6. QED
        BY <4>5 DEF V, D
    <3> HIDE DEF v, g, p
    <3>5. total >= v
      BY <3>2, <3>3, <3>4
    <3>6. QED
      BY <2>1, <3>1, <3>5 DEF v, RowsWithinTotal
  <2>3. QED
    BY <1>1, <2>1, <2>2, AheadAside
<1>6. CASE Exit \/ (\E k \in Keys : OtherClient(k)) \/ UNCHANGED vars
  <2>1. /\ UNCHANGED <<task, q, total, printedTotal, rows, interrupted>>
        /\ phase' = phase \/ (phase = "print" /\ phase' = "exited")
    BY <1>6 DEF Exit, OtherClient, vars, shared, main
  <2>2. QED
    BY <1>1, <2>1, AheadAside DEF AheadInv, RowsWithinTotal, Reported
<1>7. QED
  BY <1>2, <1>3, <1>4, <1>5, <1>6, AheadTask DEF Next, Main

LEMMA InvAhead == Nonnegative /\ AheadInv => TotalAhead
<1> SUFFICES ASSUME Nonnegative, AheadInv PROVE TotalAhead
  OBVIOUS
<1> DEFINE i == q.index
           D == DOMAIN i
<1>1. i \in [D -> Int] /\ IsFiniteSet(D)
  BY GainsAre, Int64Is DEF AheadInv
<1> HIDE DEF i
<1>2. SumOver(i) <= SumOver(Gains(i)) /\ SumOver(i) \in Int
  <2>1. Gains(i) \in [D -> Int] /\ \A h \in D : i[h] <= Gains(i)[h]
    BY <1>1, GainsType
  <2>2. QED
    BY <1>1, <2>1, SumMonotonic, SumType
<1>3. total >= SumOver(Gains(i)) + SumOver(Pendings) /\ SumOver(Gains(i)) \in Int /\ total \in Int
  BY GainsAre DEF i, AheadInv, TypeInv
<1>4. total >= SumOver(i)
  BY <1>2, <1>3, PendingsNat
<1>5. QED
  BY <1>4 DEF TotalAhead, i

\* The total of memory, and of a sum of counters, is ahead of the queue at all
\* times: also while tasks of other nodes are between adding a value to it and
\* pushing its entry, and although groups may overflow and entries be given up.
THEOREM TotalStaysAhead == ASSUME HasTotal, Nonnegative PROVE Spec => []TotalAhead
<1>1. Init => AheadInv
  BY AheadInit
<1>2. AheadInv /\ [Next]_vars => AheadInv'
  BY AheadSteps
<1>3. AheadInv => TotalAhead
  BY InvAhead
<1>4. QED
  BY <1>1, <1>2, <1>3, PTL DEF Spec

\* The rows of a report that was not cut short are parts of the total that it is
\* printed with.
THEOREM RowsArePartsOfTotal ==
  ASSUME HasTotal, Nonnegative
  PROVE  Spec => []PartsOfWholeUnlessInterrupted
<1>1. Init => AheadInv
  BY AheadInit
<1>2. AheadInv /\ [Next]_vars => AheadInv'
  BY AheadSteps
<1>3. AheadInv => PartsOfWholeUnlessInterrupted
  BY DEF AheadInv, PartsOfWholeUnlessInterrupted
<1>4. QED
  BY <1>1, <1>2, <1>3, PTL DEF Spec
-----------------------------------------------------------------------------
\* Every counter is counted once.

\* The replies that a task has still to add to the total.
Held(a) == Restrict(a.batch, {k \in DOMAIN a.batch : k # a.key /\ a.batch[k] # Nil})
Holdings == [n \in Nodes |-> SumOver(Held(task[n]))]

Answered(a) == \A k \in DOMAIN a.batch : a.batch[k] # Nil

CountInv ==
  /\ TypeInv
  /\ db0 \in [Keys -> Values]
  /\ touched = {} => /\ db \in [Keys -> Values \cup {0}]
                     /\ \A n \in Nodes : Answered(task[n])
                     /\ SumOver(db0) = SumOver(db) + total + SumOver(Holdings)

LEMMA HeldIs ==
  ASSUME HasTotal, NEW a, InOrder(a), Answered(a)
  PROVE  /\ IsFiniteSet(DOMAIN a.batch) /\ a.batch \in [DOMAIN a.batch -> Values \cup {0}]
         /\ a.batch \in [DOMAIN a.batch -> Int]
         /\ Held(a) = Restrict(a.batch, DOMAIN a.batch \ {a.key})
         /\ a.key = Nil => Held(a) = a.batch
         /\ SumOver(Held(a)) \in Int
<1> DEFINE b == a.batch
           D == DOMAIN b
<1>1. PICK ks \in SUBSET Keys : b \in [ks -> Replied]
  BY DEF InOrder, TaskStates, Batches
<1>2. D \subseteq Keys /\ IsFiniteSet(D)
  BY <1>1, ScanAssumption, FS_Subset
<1>3. b \in [D -> Values \cup {0}]
  BY <1>1 DEF Replied, Answered, HasTotal
<1>4. b \in [D -> Int]
  BY <1>3, Int64Is, ScanAssumption
<1>5. Held(a) = Restrict(b, D \ {a.key})
  BY DEF Held, Answered, Restrict
<1>6. ASSUME a.key = Nil PROVE Held(a) = b
  <2>1. Nil \notin D
    BY <1>2, ScanAssumption
  <2>2. D \ {a.key} = D
    BY <1>6, <2>1
  <2> HIDE DEF b
  <2>3. Restrict(b, D) = b
    BY <1>4, RestrictAll
  <2>4. QED
    BY <1>5, <2>2, <2>3
<1>7. SumOver(Held(a)) \in Int
  <2> DEFINE E == D \ {a.key}
             r == Restrict(b, E)
  <2>1. IsFiniteSet(E)
    BY <1>2, FS_Subset
  <2>2. r \in [E -> Int]
    BY <1>4 DEF Restrict
  <2> HIDE DEF r, E
  <2>3. SumOver(r) \in Int
    BY <2>1, <2>2, SumType
  <2>4. QED
    BY <1>5, <2>3 DEF r, E
<1>8. QED
  BY <1>2, <1>3, <1>4, <1>5, <1>6, <1>7

LEMMA CountInit == Init => CountInv
<1> SUFFICES ASSUME Init PROVE CountInv
  OBVIOUS
<1>1. \A n \in Nodes : DOMAIN task[n].batch = {}
  BY DEF Init, NewTask
<1>2. \A n \in Nodes : SumOver(Held(task[n])) = 0 /\ Answered(task[n])
  <2> SUFFICES ASSUME NEW n \in Nodes PROVE SumOver(Held(task[n])) = 0 /\ Answered(task[n])
    OBVIOUS
  <2>1. DOMAIN Held(task[n]) = {}
    BY <1>1 DEF Held, Restrict
  <2>2. QED
    BY <1>1, <2>1, SumEmpty DEF Answered
<1>3. SumOver(Holdings) = 0
  <2>1. Holdings \in [Nodes -> Int] /\ \A n \in Nodes : Holdings[n] = 0
    BY <1>2 DEF Holdings
  <2>2. QED
    BY <2>1, ScanAssumption, SumOfZeros
<1>4. db0 = db /\ db \in [Keys -> Values] /\ total = 0
  BY DEF Init
<1>5. SumOver(db) \in Int
  <2>1. db \in [Keys -> Int] /\ IsFiniteSet(Keys)
    BY <1>4, ScanAssumption, Int64Is
  <2>2. QED
    BY <2>1, SumType
<1>6. SumOver(db0) = SumOver(db) + total + SumOver(Holdings)
  BY <1>3, <1>4, <1>5
<1>7. QED
  BY <1>2, <1>4, <1>6, TypeInit DEF CountInv

LEMMA HoldingsChange ==
  ASSUME HasTotal, TypeInv, \A m \in Nodes : Answered(task[m]),
         NEW n \in Nodes, NEW c, Goes(n, c), Answered(c)
  PROVE  /\ SumOver(Holdings) \in Int /\ SumOver(Held(c)) \in Int
         /\ SumOver(Held(task[n])) \in Int
         /\ SumOver(Holdings') = (SumOver(Holdings) - SumOver(Held(task[n]))) + SumOver(Held(c))
         /\ \A m \in Nodes : Answered(task'[m])
<1>1. \A m \in Nodes : task'[m] = IF m = n THEN c ELSE task[m]
  BY DEF Goes, TypeInv
<1>2. \A m \in Nodes : Answered(task'[m])
  BY <1>1
<1>3. \A m \in Nodes : SumOver(Held(task[m])) \in Int
  BY HeldIs, TypedNow
<1>4. SumOver(Held(c)) \in Int
  BY HeldIs DEF Goes
<1> DEFINE p == Holdings
           v1 == SumOver(Held(c))
<1>5. Holdings' = [p EXCEPT ![n] = v1]
  BY <1>1 DEF Holdings, Held
<1>6. p \in [Nodes -> Int] /\ v1 \in Int
  BY <1>3, <1>4 DEF Holdings
<1>10. p[n] = SumOver(Held(task[n]))
  BY DEF Holdings
<1>11. IsFiniteSet(Nodes)
  BY ScanAssumption
<1> HIDE DEF p, v1
<1>7. SumOver([p EXCEPT ![n] = v1]) = (SumOver(p) - p[n]) + v1
  BY <1>6, <1>11, SumChanges
<1>8. SumOver(p) \in Int
  BY <1>6, <1>11, SumType
<1>9. QED
  BY <1>2, <1>3, <1>4, <1>5, <1>7, <1>8, <1>10 DEF p, v1

\* A task goes to state c; what leaves one place comes to another.
LEMMA CountStep ==
  ASSUME HasTotal, CountInv, TypeInv', UNCHANGED <<db0, touched>>, touched = {},
         NEW n \in Nodes, NEW c, Goes(n, c), Answered(c),
         db' \in [Keys -> Values \cup {0}],
         SumOver(db') + total' + SumOver(Held(c))
           = SumOver(db) + total + SumOver(Held(task[n]))
  PROVE  CountInv'
<1> DEFINE H == SumOver(Holdings)
           J == SumOver(Holdings')
           v == SumOver(Held(c))
           u == SumOver(Held(task[n]))
<1>6. H \in Int /\ v \in Int /\ u \in Int /\ J = (H - u) + v
      /\ \A m \in Nodes : Answered(task'[m])
  BY HoldingsChange DEF CountInv
<1>2. (\A m \in Nodes : Answered(task[m]))'
  BY <1>6 DEF Answered
<1>7. SumOver(db) \in Int /\ SumOver(db') \in Int /\ total \in Int /\ total' \in Int
  <2>1. \A f \in [Keys -> Values \cup {0}] : SumOver(f) \in Int
    <3> SUFFICES ASSUME NEW f \in [Keys -> Values \cup {0}] PROVE SumOver(f) \in Int
      OBVIOUS
    <3>1. f \in [Keys -> Int] /\ IsFiniteSet(Keys)
      BY ScanAssumption, Int64Is
    <3>2. QED
      BY <3>1, SumType
  <2>2. QED
    BY <2>1 DEF CountInv, TypeInv
<1>8. SumOver(db0) = SumOver(db) + total + H
  BY DEF CountInv
<1>9. SumOver(db') + total' + v = SumOver(db) + total + u
  OBVIOUS
<1> HIDE DEF H, J, u, v
<1>10. SumOver(db0) = SumOver(db') + total' + J
  BY <1>6, <1>7, <1>8, <1>9
<1>11. (SumOver(db0) = SumOver(db) + total + SumOver(Holdings))'
  BY <1>10 DEF J
<1>12. QED
  BY <1>2, <1>11 DEF CountInv

LEMMA CountTask ==
  ASSUME Decr, Nonnegative, "pipeline" \notin Faults, CountInv, NEW n \in Nodes, Task(n)
  PROVE  CountInv'
<1> DEFINE a == task[n]
<1>1. HasTotal /\ Command = "sum"
  BY CommandAssumption DEF HasTotal
<1>2. TypeInv /\ TypeInv' /\ InOrder(a)
  BY TasksTyped, TypedNow DEF CountInv
<1>3. UNCHANGED <<db0, touched>>
  BY DEF Task, Connect, FetchPage, ScanError, Replies, PipelineError, PassOver, Tally,
         Store, env
<1>4. CASE touched # {}
  BY <1>2, <1>3, <1>4 DEF CountInv
<1> SUFFICES ASSUME touched = {} PROVE CountInv'
  BY <1>4
<1>5. Answered(a) /\ db \in [Keys -> Values \cup {0}]
  BY DEF CountInv
<1>6. /\ IsFiniteSet(DOMAIN a.batch) /\ a.batch \in [DOMAIN a.batch -> Int]
      /\ a.batch \in [DOMAIN a.batch -> Values \cup {0}]
      /\ Held(a) = Restrict(a.batch, DOMAIN a.batch \ {a.key})
      /\ a.key = Nil => Held(a) = a.batch
      /\ SumOver(Held(a)) \in Int
  BY <1>1, <1>2, <1>5, HeldIs
<1>7. total \in Int
  BY <1>2 DEF TypeInv
<1>8. CASE Connect(n) \/ FetchPage(n) \/ ScanError(n)
  <2>1. UNCHANGED <<db, total>>
    BY <1>8 DEF Connect, FetchPage, ScanError, shared
  <2>2. PICK c : Goes(n, c) /\ c.batch = a.batch /\ c.key = a.key
    BY <1>2, <1>8, ConnectIs, PageIs, ScanErrorIs
  <2>3. Held(c) = Held(a) /\ Answered(c)
    BY <1>5, <2>2 DEF Held, Answered
  <2>4. QED
    BY <1>1, <1>2, <1>3, <1>5, <2>1, <2>2, <2>3, CountStep
<1>9. CASE PipelineError(n)
  BY <1>9 DEF PipelineError
<1>10. ASSUME NEW k \in Keys, PassOver(n, k) PROVE CountInv'
  BY <1>5, <1>10 DEF PassOver, Ignores, Answered
<1>11. CASE Replies(n)
  <2> DEFINE S == a.sent
             f == db'
  <2>1. db' = Executed(S) /\ total' = total /\ a.pc = "reply"
    BY <1>11 DEF Replies, shared, Ready
  <2>2. PICK c : Goes(n, c) /\ c.batch = [k \in S |-> Reply(k)] /\ c.key = Nil
    BY <1>2, <1>11, RepliesIs
  <2>3. S \in SUBSET Keys /\ IsFiniteSet(Keys) /\ IsFiniteSet(S)
    BY <1>2, ScanAssumption, FS_Subset DEF InOrder, TaskStates
  <2>4. db \in [Keys -> Int] /\ db' \in [Keys -> Values \cup {0}] /\ db' \in [Keys -> Int]
    <3>1. db' \in [Keys -> Values \cup {0}]
      BY <1>5, <2>1 DEF Executed
    <3>2. QED
      BY <1>5, <3>1, Int64Is, ScanAssumption
  <2>5. c.batch = Restrict(db, S) /\ Answered(c)
    <3>1. \A k \in S : Reply(k) = db[k] /\ db[k] # Nil
      BY <1>1, <2>3, <2>4, ScanAssumption DEF Reply, ReplyOf
    <3>2. QED
      BY <2>2, <2>3, <3>1 DEF Restrict, Answered
  <2>6. Held(c) = Restrict(db, S)
    BY <1>1, <2>2, <2>5, HeldIs DEF Goes
  <2>7. SumOver(Held(a)) = 0
    <3>1. DOMAIN a.batch = {} /\ a.key = Nil
      BY <1>2, <2>1 DEF InOrder
    <3>2. Held(a) = a.batch
      BY <1>6, <3>1
    <3>3. QED
      BY <3>1, <3>2, SumEmpty
  <2> DEFINE R == Keys \ S
             x == Restrict(db, S)
             y == Restrict(db, R)
             z == Restrict(db', S)
  <2>8. SumOver(db) = SumOver(x) + SumOver(y)
    <3> HIDE DEF S
    <3>1. QED
      BY <2>3, <2>4, SumSplits
  <2>9. SumOver(db') = SumOver(z) + SumOver(y)
    <3>1. SumOver(db') = SumOver(Restrict(db', S)) + SumOver(Restrict(db', R))
      <4> HIDE DEF S
      <4> DEFINE g == db'
      <4>1. g \in [Keys -> Int] /\ S \in SUBSET Keys /\ IsFiniteSet(Keys)
        BY <2>3, <2>4
      <4> HIDE DEF g
      <4>2. SumOver(g) = SumOver(Restrict(g, S)) + SumOver(Restrict(g, Keys \ S))
        BY <4>1, SumSplits
      <4>3. QED
        BY <4>2 DEF g
    <3>2. Restrict(db', R) = y
      BY <2>1 DEF Executed, Restrict
    <3>3. QED
      BY <3>1, <3>2
  <2>10. SumOver(z) = 0
    <3>1. z \in [S -> Int] /\ \A k \in S : z[k] = 0
      BY <2>1, <2>3 DEF Executed, Restrict
    <3> HIDE DEF z, S
    <3>2. QED
      BY <2>3, <3>1, SumOfZeros
  <2>11. SumOver(x) \in Int /\ SumOver(y) \in Int
    <3>1. IsFiniteSet(R)
      BY <2>3, FS_Subset
    <3>2. x \in [S -> Int] /\ y \in [R -> Int]
      BY <2>3, <2>4 DEF Restrict
    <3> HIDE DEF x, y, S, R
    <3>3. SumOver(x) \in Int
      BY <2>3, <3>2, SumType
    <3>4. SumOver(y) \in Int
      BY <3>1, <3>2, SumType
    <3>5. QED
      BY <3>3, <3>4
  <2> HIDE DEF x, y, z, a
  <2>12. SumOver(db') + total' + SumOver(Held(c)) = SumOver(db) + total + SumOver(Held(a))
    BY <1>7, <2>1, <2>6, <2>7, <2>8, <2>9, <2>10, <2>11 DEF x
  <2>13. QED
    BY <1>1, <1>2, <1>3, <2>2, <2>4, <2>5, <2>12, CountStep DEF a
<1>12. ASSUME NEW k \in Keys, Tally(n, k) PROVE CountInv'
  <2> DEFINE b == a.batch
             D == DOMAIN b
  <2>1. /\ db' = db /\ a.key = Nil /\ k \in D
        /\ total' = total + (IF b[k] > 0 THEN b[k] ELSE 0)
    BY <1>12 DEF Tally
  <2>2. PICK c : Goes(n, c) /\ c.batch = b /\ c.key = k
    BY <1>2, <1>12, TallyIs
  <2>3. Answered(c)
    BY <1>5, <2>2 DEF Answered
  <2>4. Held(a) = b /\ Held(c) = Restrict(b, D \ {k})
    BY <1>1, <1>6, <2>1, <2>2, <2>3, HeldIs DEF Goes
  <2>5. b[k] \in Nat
    BY <1>6, <2>1, ValuesAre
  <2> HIDE DEF b
  <2>6. SumOver(b) = b[k] + SumOver(Restrict(b, D \ {k})) /\ SumOver(Restrict(b, D \ {k})) \in Int
    <3>1. IsFiniteSet(D) /\ b \in [D -> Int]
      BY <1>6 DEF b
    <3> HIDE DEF D
    <3>2. QED
      BY <2>1, <3>1, SumTakes
  <2>7. SumOver(db) \in Int
    <3>1. db \in [Keys -> Int] /\ IsFiniteSet(Keys)
      BY <1>5, Int64Is, ScanAssumption
    <3>2. QED
      BY <3>1, SumType
  <2> HIDE DEF a
  <2>8. SumOver(db') + total' + SumOver(Held(c)) = SumOver(db) + total + SumOver(Held(a))
    BY <1>7, <2>1, <2>4, <2>5, <2>6, <2>7
  <2>9. QED
    BY <1>1, <1>2, <1>3, <1>5, <2>1, <2>2, <2>3, <2>8, CountStep DEF a
<1>13. ASSUME NEW k \in Keys, Store(n, k) PROVE CountInv'
  <2> DEFINE b == a.batch
             D == DOMAIN b
  <2>1. db' = db /\ total' = total /\ a.key = k /\ k \in D /\ a.pc = "store"
    BY <1>1, <1>13 DEF Store, Ready
  <2>2. PICK c : Goes(n, c) /\ c.batch = Restrict(b, D \ {k}) /\ c.key = Nil
    BY <1>2, <1>13, <2>1, StoreIs, HandledInOrder
  <2>3. Answered(c)
    BY <1>5, <2>2 DEF Answered, Restrict
  <2>4. Held(a) = Restrict(b, D \ {k}) /\ Held(c) = Restrict(b, D \ {k})
    BY <1>1, <1>6, <2>1, <2>2, <2>3, HeldIs DEF Goes
  <2>5. QED
    BY <1>1, <1>2, <1>3, <1>5, <2>1, <2>2, <2>3, <2>4, CountStep
<1>14. QED
  BY <1>8, <1>9, <1>10, <1>11, <1>12, <1>13 DEF Task

LEMMA CountSteps ==
  Decr /\ Nonnegative /\ "pipeline" \notin Faults /\ CountInv /\ [Next]_vars => CountInv'
<1> SUFFICES ASSUME Decr, Nonnegative, "pipeline" \notin Faults, CountInv, [Next]_vars
             PROVE  CountInv'
  OBVIOUS
<1>1. TypeInv'
  BY TypedSteps DEF CountInv
<1>2. CASE Main \/ Interrupt \/ UNCHANGED vars
  <2>1. UNCHANGED <<db, db0, task, total, touched>>
    BY <1>2 DEF Main, Interrupt, WaitDone, ReadTotal, Report, Exit, vars, shared, env
  <2>2. Holdings' = Holdings /\ (\A n \in Nodes : Answered(task[n]))' = (\A n \in Nodes : Answered(task[n]))
    BY <2>1 DEF Holdings, Held, Answered
  <2>3. QED
    BY <1>1, <2>1, <2>2 DEF CountInv
<1>3. ASSUME NEW k \in Keys, OtherClient(k) PROVE CountInv'
  <2>1. touched' # {} /\ db0' = db0
    BY <1>3 DEF OtherClient
  <2>2. QED
    BY <1>1, <2>1 DEF CountInv
<1>4. QED
  BY <1>2, <1>3, CountTask DEF Next

\* With --decr and nobody else writing, the value of every counter is in exactly
\* one place - on its server, in a reply not yet handled, or in the total - however
\* the tasks interleave, however often SCAN returns a key and wherever a scan or
\* the whole command is cut short, as long as no pipeline fails.
THEOREM CountersCountedOnce ==
  ASSUME Decr, Nonnegative, "pipeline" \notin Faults
  PROVE  Spec => []CountedOnce
<1>1. Init => CountInv
  BY CountInit
<1>2. CountInv /\ [Next]_vars => CountInv'
  BY CountSteps
<1>3. CountInv => CountedOnce
  <2> SUFFICES ASSUME CountInv, touched = {}
               PROVE  SumOver(db0) = SumOver(db) + total
                                       + SumOver([n \in Nodes |-> SumOver(Unhandled(n))])
    BY DEF CountedOnce
  <2>1. Holdings = [n \in Nodes |-> SumOver(Unhandled(n))]
    BY DEF Holdings, Held, Unhandled
  <2>2. QED
    BY <2>1 DEF CountInv
<1>4. QED
  BY <1>1, <1>2, <1>3, PTL DEF Spec
-----------------------------------------------------------------------------
\* What is printed is true.

\* Each reply is one to its own key, for a value it has had.
TrueReplies(b) == \A k \in DOMAIN b : \E v \in had[k] : b[k] = ReplyOf(v)

TrueIndex == \A h \in DOMAIN q.index : h \in Keys /\ TrueOf(h, q.index[h])

TruthInv ==
  /\ TypeInv
  /\ had = [k \in Keys |-> had[k]] /\ \A k \in Keys : db[k] \in had[k]
  /\ \A n \in Nodes : TrueReplies(task[n].batch)
  /\ TrueIndex
  /\ \A r \in Range(rows) : r[1] \in Keys /\ TrueOf(r[1], r[2])

LEMMA TruthInit == Init => TruthInv
<1> SUFFICES ASSUME Init PROVE TruthInv
  OBVIOUS
<1>1. \A n \in Nodes : TrueReplies(task[n].batch)
  BY DEF Init, NewTask, TrueReplies
<1>2. TrueIndex
  BY SameQueue DEF Init, QP!New, TrueIndex
<1>3. Range(rows) = {}
  BY DEF Init, Range
<1>4. had = [k \in Keys |-> had[k]] /\ \A k \in Keys : db[k] \in had[k]
  BY DEF Init
<1>5. QED
  BY <1>1, <1>2, <1>3, <1>4, TypeInit DEF TruthInv

\* A task goes to state c.
LEMMA TruthStep ==
  ASSUME TruthInv, TypeInv', NEW n \in Nodes, NEW c, Goes(n, c), TrueReplies(c.batch),
         TrueIndex', UNCHANGED <<db, had, rows>>
  PROVE  TruthInv'
<1>1. \A m \in Nodes : task'[m] = IF m = n THEN c ELSE task[m]
  BY DEF Goes, TruthInv, TypeInv
<1>2. \A m \in Nodes : TrueReplies(task'[m].batch)
  BY <1>1 DEF TruthInv
<1>3. (\A m \in Nodes : TrueReplies(task[m].batch))'
  BY <1>2 DEF TrueReplies
<1>4. (\A r \in Range(rows) : r[1] \in Keys /\ TrueOf(r[1], r[2]))'
  BY DEF TruthInv, TrueOf
<1>5. QED
  BY <1>3, <1>4 DEF TruthInv

\* A push of a true entry.
LEMMA TruthPush ==
  ASSUME TypeInv, TrueIndex, had' = had, NEW k \in Keys, NEW w \in Int64, TrueOf(k, w),
         ~HasTotal, q' = PQ!PushOrUpdate(q, k, w)
  PROVE  TrueIndex'
<1>1. k \in Hashes /\ Sort \in {"asc", "desc"} /\ QueueSize \in Nat
  BY ScanAssumption, QueueSizeIs DEF Hashes
<1>2. QP!QueueType(q, Int64, Hashes) /\ QP!Linked(q) /\ QP!Outcome(q, k, w, q')
  BY <1>1, PushTyped DEF TypeInv, QueueTyped
<1> DEFINE i == q.index
           j == q'.index
<1>3. QP!FirstStays /\ QP!Outcome(q, k, w, q')
  BY <1>2, Plain
<1>4. ASSUME NEW h \in DOMAIN j PROVE h \in Keys /\ TrueOf(h, j[h])
  <2>1. (h \in DOMAIN i /\ j[h] = i[h]) \/ (h = k /\ j[h] = w)
    <3>1. CASE j = [i EXCEPT ![k] = MergeOf(i[k], w)]
      BY <1>3, <3>1 DEF QP!FirstStays
    <3>2. CASE j = QP!Put(i, k, w) \/ j = i
      BY <3>2 DEF QP!Put
    <3>3. ASSUME NEW v \in DOMAIN i, j = QP!Put(QP!Drop(i, v), k, w)
          PROVE  (h \in DOMAIN i /\ j[h] = i[h]) \/ (h = k /\ j[h] = w)
      BY <3>3 DEF QP!Put, QP!Drop, QP!Restrict
    <3>4. QED
      BY <1>3, <3>1, <3>2, <3>3 DEF QP!Outcome
  <2>2. QED
    BY <2>1 DEF TrueIndex
<1>5. QED
  BY <1>4 DEF TrueIndex, TrueOf

LEMMA TruthTask == ASSUME ~HasTotal, TruthInv, NEW n \in Nodes, Task(n) PROVE TruthInv'
<1> DEFINE a == task[n]
<1>1. TypeInv /\ TypeInv' /\ InOrder(a) /\ TrueReplies(a.batch) /\ TrueIndex
  BY TasksTyped, TypedNow DEF TruthInv
<1>2. UNCHANGED <<db, had, rows>>
  <2>1. \A ks : Executed(ks) = db
    BY <1>1, Plain DEF Executed, TypeInv
  <2>2. QED
    BY <2>1 DEF Task, Connect, FetchPage, ScanError, Replies, PipelineError, PassOver, Tally,
                Store, main, env
<1>3. ASSUME NEW c, Goes(n, c), TrueReplies(c.batch), q' = q PROVE TruthInv'
  BY <1>1, <1>2, <1>3, TruthStep DEF TrueIndex, TrueOf
<1>4. CASE Connect(n) \/ FetchPage(n) \/ ScanError(n) \/ PipelineError(n)
  <2>1. PICK c : Goes(n, c) /\ c.batch = a.batch
    BY <1>1, <1>4, ConnectIs, PageIs, ScanErrorIs, PipelineErrorIs
  <2>2. q' = q
    BY <1>4 DEF Connect, FetchPage, ScanError, PipelineError, shared
  <2>3. QED
    BY <1>1, <1>3, <2>1, <2>2
<1>5. CASE Replies(n)
  <2>1. PICK c : Goes(n, c) /\ c.batch = [k \in a.sent |-> Reply(k)]
    BY <1>1, <1>5, RepliesIs
  <2>2. a.sent \subseteq Keys
    BY <1>1 DEF InOrder, TaskStates
  <2>3. TrueReplies(c.batch)
    BY <2>1, <2>2 DEF TruthInv, TrueReplies, Reply
  <2>4. q' = q
    BY <1>5 DEF Replies, shared
  <2>5. QED
    BY <1>3, <2>1, <2>3, <2>4
<1>6. ASSUME NEW k \in Keys, PassOver(n, k) \/ Tally(n, k) \/ Store(n, k)
      PROVE  TruthInv'
  <2>1. a.pc = "store" /\ k \in DOMAIN a.batch
    BY <1>6 DEF PassOver, Tally, Store, Ready
  <2>2. Handled(a, k).batch = Restrict(a.batch, DOMAIN a.batch \ {k})
    BY <1>1, <2>1, HandledInOrder
  <2>3. PICK c : Goes(n, c) /\ c.batch = Handled(a, k).batch
    <3>1. PassOver(n, k) => Goes(n, Handled(a, k))
      BY <1>1, PassOverIs
    <3>2. ~Tally(n, k)
      BY DEF Tally
    <3>3. QED
      BY <1>1, <1>6, <3>1, <3>2, StoreIs
  <2>4. TrueReplies(c.batch)
    BY <1>1, <2>2, <2>3 DEF TrueReplies, Restrict
  <2>5. CASE q' = q
    BY <1>3, <2>3, <2>4, <2>5
  <2>6. CASE q' # q
    <3> DEFINE v == a.batch[k]
    <3>1. Store(n, k)
      BY <1>6, <2>6 DEF PassOver, Tally, shared
    <3>2. ~Ignores(v) /\ ~Skips(k, v) /\ q' = PQ!PushOrUpdate(q, k, WeightOf(v))
      BY <2>6, <3>1, Plain DEF Store
    <3>3. WeightOf(v) \in Int64
      BY <1>1, <2>1, <3>2, StoredReplies
    <3>4. TrueOf(k, WeightOf(v))
      BY <1>1, <2>1, <3>2 DEF TrueReplies, TrueOf
    <3> HIDE DEF v
    <3>5. TrueIndex'
      BY <1>1, <1>2, <3>2, <3>3, <3>4, TruthPush
    <3>6. QED
      BY <1>1, <1>2, <2>3, <2>4, <3>5, TruthStep
  <2>7. QED
    BY <2>5, <2>6
<1>7. QED
  BY <1>4, <1>5, <1>6 DEF Task

LEMMA TruthReport ==
  ASSUME TruthInv, Report PROVE \A r \in Range(rows') : r[1] \in Keys /\ TrueOf(r[1], r[2])
<1> DEFINE D == DOMAIN q.index
           m == Cardinality(D)
           i == q.index
<1>1. /\ m \in Nat /\ Len(results') = m /\ results' \in Seq(D \X Int64)
      /\ \E ids \in [1 .. m -> D] : results' = [x \in 1 .. m |-> <<ids[x], i[ids[x]]>>]
  BY ReportIs DEF TruthInv
<1>2. rows' = Printed(results')
  BY DEF Report
<1>3. \A g \in D : g \in Keys /\ TrueOf(g, i[g])
  BY DEF TruthInv, TrueIndex
<1> HIDE DEF m, i, D
<1>4. PICK ids \in [1 .. m -> D] : results' = [x \in 1 .. m |-> <<ids[x], i[ids[x]]>>]
  BY <1>1
<1>5. /\ rows' \in Seq(D \X Int64)
      /\ \A x \in 1 .. Len(rows') : x + Offset \in 1 .. m /\ rows'[x] = results'[x + Offset]
  BY <1>1, <1>2, PrintedIs
<1>6. ASSUME NEW x \in 1 .. Len(rows')
      PROVE  rows'[x][1] \in Keys /\ TrueOf(rows'[x][1], rows'[x][2])
  <2>1. x + Offset \in 1 .. m /\ rows'[x] = results'[x + Offset]
    BY <1>5
  <2>2. rows'[x] = <<ids[x + Offset], i[ids[x + Offset]]>>
    BY <1>4, <2>1
  <2>3. QED
    BY <1>3, <1>4, <2>1, <2>2
<1>7. DOMAIN rows' = 1 .. Len(rows')
  BY <1>5
<1>8. QED
  BY <1>6, <1>7 DEF Range

\* What has been true of a key stays so when another client writes to it.
LEMMA TruthOther == ASSUME TruthInv, NEW k \in Keys, OtherClient(k) PROVE TruthInv'
<1>1. PICK v : db' = [db EXCEPT ![k] = v] /\ had' = [had EXCEPT ![k] = @ \cup {v}]
  BY DEF OtherClient
<1>2. /\ had' = [g \in Keys |-> had'[g]]
      /\ \A g \in Keys : had[g] \subseteq had'[g] /\ db'[g] \in had'[g]
  BY <1>1 DEF TruthInv, TypeInv
<1>3. UNCHANGED <<task, q, rows>>
  BY DEF OtherClient, shared, main
<1>4. TypeInv'
  BY TypedSteps DEF Next, TruthInv
<1>5. \A g, w : g \in Keys /\ TrueOf(g, w) => TrueOf(g, w)'
  BY <1>2 DEF TrueOf
<1>6. (\A n \in Nodes : TrueReplies(task[n].batch))'
  <2> SUFFICES ASSUME NEW n \in Nodes PROVE TrueReplies(task[n].batch)'
    OBVIOUS
  <2>1. TrueReplies(task[n].batch) /\ DOMAIN task[n].batch \subseteq Keys
    BY TypedNow DEF TruthInv, TaskStates, Batches
  <2>2. QED
    BY <1>2, <1>3, <2>1 DEF TrueReplies
<1>7. TrueIndex'
  BY <1>3, <1>5 DEF TruthInv, TrueIndex
<1>8. (\A r \in Range(rows) : r[1] \in Keys /\ TrueOf(r[1], r[2]))'
  BY <1>3, <1>5 DEF TruthInv
<1>9. QED
  BY <1>2, <1>4, <1>6, <1>7, <1>8 DEF TruthInv

LEMMA TruthKept == ~HasTotal /\ TruthInv /\ [Next]_vars => TruthInv'
<1> SUFFICES ASSUME ~HasTotal, TruthInv, [Next]_vars PROVE TruthInv'
  OBVIOUS
<1>1. CASE Main \/ Interrupt \/ UNCHANGED vars
  <2>1. UNCHANGED <<db, had, task, q>>
    BY <1>1 DEF Main, WaitDone, ReadTotal, Report, Exit, Interrupt, vars, shared, env
  <2>2. (\A r \in Range(rows) : r[1] \in Keys /\ TrueOf(r[1], r[2]))'
    <3>1. CASE Report
      BY <2>1, <3>1, TruthReport DEF TrueOf
    <3>2. CASE ~Report
      <4>1. UNCHANGED rows
        BY <1>1, <3>2 DEF Main, WaitDone, ReadTotal, Exit, Interrupt, vars, main
      <4>2. QED
        BY <2>1, <4>1 DEF TruthInv, TrueOf
    <3>3. QED
      BY <3>1, <3>2
  <2>3. TypeInv'
    BY TypedSteps DEF TruthInv
  <2>4. QED
    BY <2>1, <2>2, <2>3 DEF TruthInv, TrueReplies, TrueIndex, TrueOf
<1>2. QED
  BY <1>1, TruthTask, TruthOther DEF Next

\* Every row that idle or ttl prints, in a report cut short or not, is the reply to
\* its own key for a value the key has had, and none that the arguments skip,
\* whatever fails, however often SCAN returns the key and whoever writes to it.
THEOREM RowsAreTrue == ASSUME ~HasTotal PROVE Spec => []RowsTellTheTruth
<1>1. Init => TruthInv
  BY TruthInit
<1>2. TruthInv /\ [Next]_vars => TruthInv'
  BY TruthKept
<1>3. TruthInv => RowsTellTheTruth
  BY DEF TruthInv, RowsTellTheTruth
<1>4. QED
  BY <1>1, <1>2, <1>3, PTL DEF Spec
-----------------------------------------------------------------------------
\* What is printed is a page of the ranking.

\* The keys the code takes for selected.
Kept == {k \in Keys : ~ShouldSkip(k)}

\* A task asks for no other keys and, where keys are not grouped, the queue has no
\* others.
OnlyKept ==
  /\ \A n \in Nodes : task[n].sent \subseteq Kept /\ DOMAIN task[n].batch \subseteq Kept
  /\ ~HasTotal => DOMAIN q.index \subseteq Kept

\* The results are different entries, best ones first, and the rows a part of them.
Ranked == /\ rows = Printed(results)
          /\ \A x, y \in 1 .. Len(results) :
               x < y => /\ results[x][1] # results[y][1]
                        /\ ~PQ!Better(results[y][2], results[x][2])

RankInv == TypeInv /\ OnlyKept /\ (Reported => Ranked)

LEMMA RankInit == Init => RankInv
<1> SUFFICES ASSUME Init PROVE RankInv
  OBVIOUS
<1>1. OnlyKept
  <2>1. \A n \in Nodes : task[n].sent = {} /\ DOMAIN task[n].batch = {}
    BY DEF Init, NewTask
  <2>2. DOMAIN q.index = {}
    BY SameQueue DEF Init, QP!New
  <2>3. QED
    BY <2>1, <2>2 DEF OnlyKept
<1>2. QED
  BY <1>1, TypeInit DEF RankInv, Reported, Init

\* A task goes to state c.
LEMMA RankStep ==
  ASSUME RankInv, TypeInv', NEW n \in Nodes, NEW c, Goes(n, c),
         c.sent \subseteq Kept, DOMAIN c.batch \subseteq Kept,
         ~HasTotal => DOMAIN q'.index \subseteq Kept,
         UNCHANGED <<phase, results, rows>>
  PROVE  RankInv'
<1>1. \A m \in Nodes : task'[m] = IF m = n THEN c ELSE task[m]
  BY DEF Goes, RankInv, TypeInv
<1>2. \A m \in Nodes : task'[m].sent \subseteq Kept /\ DOMAIN task'[m].batch \subseteq Kept
  BY <1>1 DEF RankInv, OnlyKept
<1>3. OnlyKept'
  BY <1>2 DEF OnlyKept, Kept
<1>4. (Reported => Ranked)'
  BY DEF RankInv, Reported, Ranked
<1>5. QED
  BY <1>3, <1>4 DEF RankInv

LEMMA RankTask == ASSUME RankInv, NEW n \in Nodes, Task(n) PROVE RankInv'
<1> DEFINE a == task[n]
<1>1. TypeInv /\ TypeInv' /\ InOrder(a) /\ a.sent \subseteq Kept /\ DOMAIN a.batch \subseteq Kept
  BY TasksTyped, TypedNow DEF RankInv, OnlyKept
<1>2. UNCHANGED <<phase, results, rows>>
  BY DEF Task, Connect, FetchPage, ScanError, Replies, PipelineError, PassOver, Tally,
         Store, main
<1>3. ASSUME NEW c, Goes(n, c), c.sent \subseteq Kept, DOMAIN c.batch \subseteq Kept, q' = q
      PROVE  RankInv'
  BY <1>1, <1>2, <1>3, RankStep DEF RankInv, OnlyKept
<1>4. CASE Connect(n) \/ ScanError(n) \/ PipelineError(n)
  <2>1. PICK c : Goes(n, c) /\ c.batch = a.batch /\ (c.sent = a.sent \/ c.sent = {})
    BY <1>1, <1>4, ConnectIs, ScanErrorIs, PipelineErrorIs
  <2>2. q' = q
    BY <1>4 DEF Connect, ScanError, PipelineError, shared
  <2>3. QED
    BY <1>1, <1>3, <2>1, <2>2
<1>5. CASE FetchPage(n)
  <2>1. PICK page, c : /\ Goes(n, c) /\ c.batch = a.batch
                       /\ c.sent = {k \in page.keys : ~ShouldSkip(k)}
                       /\ c.sent \subseteq Present(n)
    BY <1>1, <1>5, PageIs
  <2>2. q' = q /\ c.sent \subseteq Kept
    BY <1>5, <2>1 DEF FetchPage, shared, Kept, Present
  <2>3. QED
    BY <1>1, <1>3, <2>1, <2>2
<1>6. CASE Replies(n)
  <2>1. PICK c : Goes(n, c) /\ c.sent = {} /\ c.batch = [k \in a.sent |-> Reply(k)]
    BY <1>1, <1>6, RepliesIs
  <2>2. q' = q /\ DOMAIN c.batch = a.sent
    BY <1>6, <2>1 DEF Replies, shared
  <2>3. QED
    BY <1>1, <1>3, <2>1, <2>2
<1>7. ASSUME NEW k \in Keys, PassOver(n, k) \/ Tally(n, k) \/ Store(n, k)
      PROVE  RankInv'
  <2>1. a.pc = "store" /\ k \in DOMAIN a.batch /\ k \in Kept
    BY <1>1, <1>7 DEF PassOver, Tally, Store, Ready
  <2>2. /\ Handled(a, k).sent = {} /\ DOMAIN Handled(a, k).batch \subseteq DOMAIN a.batch
        /\ a.sent = {}
    <3>1. a.sent = {} /\ a \in TaskStates
      BY <1>1, <2>1 DEF InOrder
    <3>2. QED
      BY <3>1 DEF Handled, Restrict, TaskStates
  <2>3. PICK c : Goes(n, c) /\ c.sent = {} /\ DOMAIN c.batch \subseteq DOMAIN a.batch
    <3>1. PassOver(n, k) => Goes(n, Handled(a, k))
      BY <1>1, PassOverIs
    <3>2. QED
      BY <1>1, <1>7, <2>2, <3>1, TallyIs, StoreIs
  <2>4. CASE q' = q
    BY <1>1, <1>3, <2>3, <2>4
  <2>5. CASE q' # q
    <3> DEFINE v == a.batch[k]
    <3>1. Store(n, k)
      BY <1>7, <2>5 DEF PassOver, Tally, shared
    <3>2. ~Ignores(v) /\ q' = PQ!PushOrUpdate(q, Identity(k), WeightOf(v))
      BY <2>5, <3>1 DEF Store
    <3>3. Identity(k) \in Hashes /\ WeightOf(v) \in Int64
      BY <1>1, <2>1, <3>2, StoredReplies, HashesAre
    <3> HIDE DEF v
    <3>4. QP!Outcome(q, Identity(k), WeightOf(v), q')
      BY <1>1, <3>2, <3>3, PushTyped DEF TypeInv
    <3>5. DOMAIN q'.index \subseteq DOMAIN q.index \cup {Identity(k)}
      BY <3>4 DEF QP!Outcome, QP!Put, QP!Drop, QP!Restrict
    <3>6. ~HasTotal => DOMAIN q'.index \subseteq Kept
      BY <2>1, <3>5, Plain DEF RankInv, OnlyKept
    <3>7. QED
      BY <1>1, <1>2, <2>3, <3>6, RankStep
  <2>6. QED
    BY <2>4, <2>5
<1>8. QED
  BY <1>4, <1>5, <1>6, <1>7 DEF Task

LEMMA RankReport == ASSUME RankInv, Report PROVE Ranked'
<1> DEFINE D == DOMAIN q.index
           m == Cardinality(D)
           i == q.index
<1>1. /\ m \in Nat /\ Len(results') = m
      /\ \E ids \in [1 .. m -> D] :
           /\ \A x, y \in 1 .. m : ids[x] = ids[y] => x = y
           /\ \A x, y \in 1 .. m : x < y => ~PQ!Better(i[ids[y]], i[ids[x]])
           /\ results' = [x \in 1 .. m |-> <<ids[x], i[ids[x]]>>]
  BY ReportIs DEF RankInv
<1> HIDE DEF m, i, D
<1>2. PICK ids \in [1 .. m -> D] :
        /\ \A x, y \in 1 .. m : ids[x] = ids[y] => x = y
        /\ \A x, y \in 1 .. m : x < y => ~PQ!Better(i[ids[y]], i[ids[x]])
        /\ results' = [x \in 1 .. m |-> <<ids[x], i[ids[x]]>>]
  BY <1>1
<1>3. \A x \in 1 .. m : results'[x][1] = ids[x] /\ results'[x][2] = i[ids[x]]
  BY <1>2
<1>4. \A x, y \in 1 .. m : x < y => /\ results'[x][1] # results'[y][1]
                                    /\ ~PQ!Better(results'[y][2], results'[x][2])
  BY <1>1, <1>2, <1>3
<1>5. rows' = Printed(results')
  BY DEF Report
<1>6. \A x, y \in 1 .. Len(results') :
         x < y => /\ results'[x][1] # results'[y][1]
                  /\ ~PQ!Better(results'[y][2], results'[x][2])
  BY <1>1, <1>4
<1>7. QED
  BY <1>5, <1>6 DEF Ranked, PQ!Better

LEMMA RankKept == RankInv /\ [Next]_vars => RankInv'
<1> SUFFICES ASSUME RankInv, [Next]_vars PROVE RankInv'
  OBVIOUS
<1>1. TypeInv'
  BY TypedSteps DEF RankInv
<1>2. ASSUME NEW n \in Nodes, Task(n) PROVE RankInv'
  BY <1>2, RankTask
<1>3. CASE Main \/ Interrupt \/ (\E k \in Keys : OtherClient(k)) \/ UNCHANGED vars
  <2>1. UNCHANGED <<task, q>>
    BY <1>3 DEF Main, WaitDone, ReadTotal, Report, Exit, Interrupt, OtherClient, vars, shared
  <2>2. OnlyKept'
    BY <2>1 DEF RankInv, OnlyKept, Kept
  <2>3. CASE Report
    BY <1>1, <2>2, <2>3, RankReport DEF RankInv
  <2>4. CASE ~Report
    <3>1. UNCHANGED <<results, rows>> /\ (Reported' => Reported)
      BY <1>3, <2>4 DEF Main, WaitDone, ReadTotal, Exit, Interrupt, OtherClient, vars, main,
                        Reported
    <3>2. (Reported => Ranked)'
      BY <3>1 DEF RankInv, Ranked
    <3>3. QED
      BY <1>1, <2>2, <3>2 DEF RankInv
  <2>5. QED
    BY <2>3, <2>4
<1>4. QED
  BY <1>2, <1>3 DEF Next

\* A list of different entries has at least as many better ones as come before.
LEMMA CountBefore ==
  ASSUME NEW D, IsFiniteSet(D), NEW x \in Nat, NEW f \in [1 .. x -> D]
  PROVE  /\ IsFiniteSet({f[y] : y \in 1 .. x}) /\ Cardinality({f[y] : y \in 1 .. x}) <= x
         /\ (\A y, z \in 1 .. x : f[y] = f[z] => y = z) => x <= Cardinality(D)
<1> DEFINE P == {f[y] : y \in 1 .. x}
<1>1. IsFiniteSet(1 .. x) /\ Cardinality(1 .. x) = x
  BY FS_Interval
<1>2. f \in Surjection(1 .. x, P)
  BY DEF Surjection
<1>3. IsFiniteSet(P) /\ Cardinality(P) <= x
  BY <1>1, <1>2, FS_Surjection
<1>4. ASSUME \A y, z \in 1 .. x : f[y] = f[z] => y = z PROVE x <= Cardinality(D)
  <2>1. f \in Injection(1 .. x, D)
    BY <1>4 DEF Injection, IsInjective
  <2>2. Cardinality(1 .. x) <= Cardinality(D)
    BY <2>1, FS_Injection
  <2>3. QED
    BY <1>1, <2>2
<1> HIDE DEF P
<1>5. QED
  BY <1>3, <1>4 DEF P

\* idle and ttl: the size of the queue, when the sum of the two fits and is not 0.
PageFits == Limit + Offset \in 1 .. U64Max

LEMMA PageSize == ~HasTotal /\ PageFits => QueueSize = Limit + Offset /\ QueueSize # 0
<1> SUFFICES ASSUME ~HasTotal, PageFits PROVE QueueSize = Limit + Offset /\ QueueSize # 0
  OBVIOUS
<1>1. QueueSize = (Limit + Offset) % (U64Max + 1)
  BY DEF QueueSize, HasTotal
<1>2. Limit \in Nat /\ Offset \in Nat /\ U64Max \in Nat
  <2>1. 2 ^ Bits \in Nat /\ 2 ^ Bits >= 1
    BY BitsAssumption
  <2>2. QED
    BY <2>1, CommandAssumption DEF U64Max
<1>3. \A x, u \in Nat : x <= u => x % (u + 1) = x
  BY Z3
<1> HIDE DEF U64Max
<1>4. Limit + Offset \in Nat /\ Limit + Offset <= U64Max /\ Limit + Offset # 0
  BY <1>2 DEF PageFits
<1>5. (Limit + Offset) % (U64Max + 1) = Limit + Offset
  BY <1>2, <1>3, <1>4
<1>6. QED
  BY <1>1, <1>4, <1>5

LEMMA InvRanks ==
  ASSUME ~HasTotal, PageFits, AllValid, ScanInv, RankInv
  PROVE  RowsAreThePage
<1> SUFFICES ASSUME Reported, ~interrupted, touched = {}, \A n \in Nodes : task[n].missed = {}
    PROVE  LET Rank(i) == Offset + i
               Enough  == Cardinality(Wanted) - Offset
           IN  /\ Len(rows) = IF Enough < 0 THEN 0 ELSE IF Enough < Limit THEN Enough ELSE Limit
               /\ \A i \in DOMAIN rows :
                    /\ rows[i][2] = db0[rows[i][1]]
                    /\ Cardinality({k \in Wanted : PQ!Better(db0[k], rows[i][2])}) < Rank(i)
                    /\ Rank(i) <= Cardinality({k \in Wanted : ~PQ!Better(rows[i][2], db0[k])})
  BY DEF RowsAreThePage
<1> DEFINE D == DOMAIN q.index
           m == Cardinality(D)
           w == Cardinality(Wanted)
\* Wanted keys are due ones, the queue has only such, and they have their places.
<1>1. Wanted = Due
  <2>1. \A k \in Keys : Home[k] \in Nodes
    BY ScanAssumption
  <2>2. Selected(Keys) = Kept
    BY KeptAreSelected DEF Kept
  <2>3. \A k \in Keys : k \notin task[Home[k]].missed
    BY <2>1
  <2>4. QED
    BY <2>2, <2>3, Plain DEF Wanted, Due, Kept, HasTtl
<1>2. D \subseteq Wanted /\ \A h \in D : q.index[h] = db0[h]
  BY <1>1 DEF ScanInv, QueueInv, RankInv, OnlyKept, Due, Kept
<1>3. /\ IsFiniteSet(Wanted) /\ IsFiniteSet(D) /\ w \in Nat /\ m \in Nat /\ m <= w
      /\ (m = w => D = Wanted)
  <2>1. IsFiniteSet(Wanted)
    BY <1>1, ScanAssumption, FS_Subset DEF Due
  <2> HIDE DEF D
  <2>2. QED
    BY <1>2, <2>1, FS_Subset, FS_CardinalityType
<1>4. \A k \in Wanted : k \in Keys /\ db0[k] \in Int
  BY <1>1 DEF Due, ScanInv, DataInv, Typical
<1>5. \A k \in Wanted \ D : /\ m = QueueSize
                            /\ \A h \in D : ~PQ!Better(db0[k], db0[h])
  <2> SUFFICES ASSUME NEW k \in Wanted \ D
               PROVE  m = QueueSize /\ \A h \in D : ~PQ!Better(db0[k], db0[h])
    OBVIOUS
  <2>1. Home[k] \in Nodes
    BY <1>4, ScanAssumption
  <2>2. k \in PlacedKeys
    BY <1>1, <2>1, DueArePlaced
  <2>3. QED
    BY <1>2, <2>2, SameQueue, SameSets DEF PlacedKeys, QP!Placed
<1>6. m <= QueueSize /\ QueueSize = Limit + Offset /\ Limit \in Nat /\ Offset \in Nat
  <2>1. QueueSize = Limit + Offset /\ QueueSize # 0
    BY PageSize
  <2>2. QP!Cardinality(D) <= QueueSize
    BY <2>1 DEF ScanInv, QueueInv, QP!Within
  <2>3. QED
    BY <2>1, <2>2, SameSets, CommandAssumption
\* The results are the entries of the queue, in order.
<1>7. Len(results) = m /\ Range(results) = {<<h, q.index[h]>> : h \in D}
  BY DEF ScanInv, Delivered, Complete
<1>8. /\ rows = Printed(results) /\ results \in Seq(Hashes \X Int64)
      /\ \A x, y \in 1 .. m : x < y => /\ results[x][1] # results[y][1]
                                       /\ ~PQ!Better(results[y][2], results[x][2])
  BY <1>7 DEF RankInv, Ranked, TypeInv
<1>9. /\ \A x \in 1 .. m : results[x][1] \in D /\ results[x][2] = db0[results[x][1]]
      /\ \A h \in D : \E x \in 1 .. m : results[x][1] = h
  <2>1. DOMAIN results = 1 .. m
    BY <1>7, <1>8
  <2>2. \A x \in 1 .. m : results[x] \in Range(results)
    BY <2>1 DEF Range
  <2>3. \A h \in D : \E x \in 1 .. m : results[x] = <<h, q.index[h]>>
    BY <1>7, <2>1 DEF Range
  <2>4. QED
    BY <1>2, <1>7, <2>2, <2>3
<1> HIDE DEF D, m, w
<1>10. rows = Skip(results, Offset)
  BY <1>8 DEF Printed
<1>11. /\ Len(rows) = IF Offset < m THEN m - Offset ELSE 0
       /\ \A i \in 1 .. Len(rows) : i + Offset \in 1 .. m /\ rows[i] = results[i + Offset]
       /\ DOMAIN rows = 1 .. Len(rows) /\ Len(rows) \in Nat
  <2> DEFINE S == Hashes \X Int64
  <2>1. results \in Seq(S)
    BY <1>8
  <2> HIDE DEF S
  <2>2. /\ Skip(results, Offset) \in Seq(S)
        /\ Len(Skip(results, Offset)) = IF Offset < Len(results) THEN Len(results) - Offset ELSE 0
        /\ \A i \in 1 .. Len(Skip(results, Offset)) :
             /\ i + Offset \in 1 .. Len(results)
             /\ Skip(results, Offset)[i] = results[i + Offset]
    BY <1>6, <2>1, SkipIs
  <2>3. Len(rows) \in Nat /\ DOMAIN rows = 1 .. Len(rows)
    BY <1>10, <2>2
  <2>4. QED
    BY <1>7, <1>10, <2>2, <2>3
<1>12. Len(rows) = IF w - Offset < 0 THEN 0 ELSE IF w - Offset < Limit THEN w - Offset ELSE Limit
  <2>1. m = w \/ m = QueueSize
    <3>1. CASE D = Wanted
      BY <3>1 DEF m, w
    <3>2. CASE D # Wanted
      BY <1>2, <1>5, <3>2
    <3>3. QED
      BY <3>1, <3>2
  <2> DEFINE r == Len(rows)
  <2>2. r = IF Offset < m THEN m - Offset ELSE 0
    BY <1>11
  <2> HIDE DEF r
  <2>3. r = IF w - Offset < 0 THEN 0 ELSE IF w - Offset < Limit THEN w - Offset ELSE Limit
    BY <1>3, <1>6, <2>1, <2>2
  <2>4. QED
    BY <2>3 DEF r
<1>13. ASSUME NEW i \in DOMAIN rows
       PROVE  /\ rows[i][2] = db0[rows[i][1]]
              /\ Cardinality({k \in Wanted : PQ!Better(db0[k], rows[i][2])}) < Offset + i
              /\ Offset + i <= Cardinality({k \in Wanted : ~PQ!Better(rows[i][2], db0[k])})
  <2> DEFINE x == i + Offset
             b == results[x][1]
             v == db0[b]
             f == [y \in 1 .. x |-> results[y][1]]
             g == [y \in 1 .. x - 1 |-> results[y][1]]
             A == {k \in Wanted : PQ!Better(db0[k], v)}
             C == {k \in Wanted : ~PQ!Better(v, db0[k])}
  <2>1. x \in 1 .. m /\ rows[i] = results[x] /\ i \in Nat /\ x = Offset + i
    BY <1>3, <1>6, <1>11
  <2>2. b \in D /\ rows[i][1] = b /\ rows[i][2] = v
    BY <1>9, <2>1
  <2>3. \A y \in 1 .. x : y \in 1 .. m /\ results[y][1] \in D /\ results[y][1] \in Wanted
                          /\ results[y][2] = db0[results[y][1]]
    BY <1>2, <1>3, <1>9, <2>1 DEF D
  <2> HIDE DEF x
  <2>4. \A y \in 1 .. m : db0[results[y][1]] \in Int
    BY <1>2, <1>4, <1>9 DEF D
  <2>5. ~PQ!Better(v, v) /\ v \in Int
    BY <2>1, <2>4, ScanAssumption DEF PQ!Better
  <2>6. A \subseteq {g[y] : y \in 1 .. x - 1}
    <3> SUFFICES ASSUME NEW k \in A PROVE \E y \in 1 .. x - 1 : g[y] = k
      OBVIOUS
    <3>1. k \in Wanted /\ PQ!Better(db0[k], v)
      OBVIOUS
    <3>2. k \in D
      BY <1>5, <2>2, <3>1
    <3>3. PICK y \in 1 .. m : results[y][1] = k
      BY <1>9, <3>2
    <3>4. results[y][2] = db0[k] /\ results[x][2] = v
      BY <1>9, <2>1, <3>3
    <3>5. y # x
      BY <2>5, <3>1, <3>3
    <3>6. ~(x < y)
      BY <1>8, <2>1, <3>1, <3>4
    <3>7. y \in 1 .. x - 1
      BY <1>3, <2>1, <3>5, <3>6
    <3>8. QED
      BY <3>3, <3>7
  <2>7. Cardinality(A) < x
    <3> DEFINE P == {g[y] : y \in 1 .. x - 1}
    <3>1. g \in [1 .. x - 1 -> D] /\ x - 1 \in Nat
      <4>1. \A y \in 1 .. x - 1 : y \in 1 .. x
        BY <1>3, <2>1
      <4>2. QED
        BY <1>3, <2>1, <2>3, <4>1
    <3>2. A \subseteq P
      BY <2>6
    <3> HIDE DEF g, A
    <3>3. IsFiniteSet(P) /\ Cardinality(P) <= x - 1
      BY <1>3, <3>1, CountBefore
    <3> HIDE DEF P
    <3>4. Cardinality(A) <= Cardinality(P) /\ Cardinality(A) \in Nat /\ Cardinality(P) \in Nat
      BY <3>2, <3>3, FS_Subset, FS_CardinalityType
    <3>5. QED
      BY <1>3, <2>1, <3>3, <3>4
  <2>8. x <= Cardinality(C)
    <3>1. \A y \in 1 .. x : ~PQ!Better(v, db0[results[y][1]])
      <4> SUFFICES ASSUME NEW y \in 1 .. x PROVE ~PQ!Better(v, db0[results[y][1]])
        OBVIOUS
      <4>1. CASE y = x
        BY <2>5, <4>1
      <4>2. CASE y < x
        BY <1>8, <1>9, <2>1, <2>3, <4>2
      <4>3. QED
        BY <1>3, <2>1, <4>1, <4>2
    <3>2. f \in [1 .. x -> C]
      BY <2>3, <3>1
    <3>3. \A y, z \in 1 .. x : f[y] = f[z] => y = z
      <4>1. \A y, z \in 1 .. x : y < z => results[y][1] # results[z][1]
        BY <1>8, <2>3
      <4>2. \A y, z \in 1 .. x : y < z \/ z < y \/ y = z
        BY <1>3, <2>1
      <4>3. QED
        BY <4>1, <4>2
    <3>4. IsFiniteSet(C)
      BY <1>3, FS_Subset
    <3> HIDE DEF f, C
    <3>5. x \in Nat
      BY <1>3, <2>1
    <3>6. QED
      BY <3>2, <3>3, <3>4, <3>5, CountBefore
  <2> HIDE DEF v, b
  <2>9. /\ A = {k \in Wanted : PQ!Better(db0[k], rows[i][2])}
        /\ C = {k \in Wanted : ~PQ!Better(rows[i][2], db0[k])}
    BY <2>2, Zenon
  <2> HIDE DEF A, C
  <2>10. Cardinality(A) < Offset + i /\ Offset + i <= Cardinality(C)
    BY <2>1, <2>7, <2>8
  <2>11. rows[i][2] = db0[rows[i][1]]
    BY <2>2 DEF v
  <2>12. QED
    BY <2>9, <2>10, <2>11, Zenon
<1>14. QED
  BY <1>12, <1>13, Zenon DEF w

\* idle and ttl, with expressions that compile, when --limit and --offset add up to
\* at least 1 and fit a u64: the rows of a report on undisturbed nodes, whatever
\* pages their keys came in and however often, are the page of the true ranking
\* of all wanted keys that was asked for, with the true values.
THEOREM RowsAreTheRanking ==
  ASSUME ~HasTotal, PageFits, AllValid
  PROVE  Spec => []RowsAreThePage
<1>1. Init => ScanInv /\ RankInv
  BY ScanInit, RankInit
<1>2. ScanInv /\ RankInv /\ [Next]_vars => ScanInv' /\ RankInv'
  BY ScanStep, RankKept
<1>3. ScanInv /\ RankInv => RowsAreThePage
  BY InvRanks
<1>4. QED
  BY <1>1, <1>2, <1>3, PTL DEF Spec
-----------------------------------------------------------------------------
\* Totals are exact.

\* Key k counts towards an entry.
Entered(k) == FilterMissing /\ GroupBy => k \in DOMAIN GroupOf

\* Those of the keys G that count towards entry h.
Members(G, h) == {k \in G : Entered(k) /\ Identity(k) = h}

\* The index i has what keys G count for.
IndexOf(G, i) ==
  /\ DOMAIN i = {Identity(k) : k \in {j \in G : Entered(j)}}
  /\ \A h \in DOMAIN i : i[h] = SumOver(Restrict(db0, Members(G, h)))

\* No other client wrote and no error cost a key.
Undisturbed == touched = {} /\ \A n \in Nodes : task[n].missed = {}

\* What task n, in state a, has to do with the keys G that are in the queue.  A key
\* that is not is in the pipeline or among the replies, with its value, or SCAN has
\* not returned it; one that is comes again only from --decr, as 0.
Brings(n, a, G) ==
  /\ a.sent \subseteq Own(n) \cap Kept \cap a.seen
  /\ DOMAIN a.batch \subseteq Own(n) \cap Kept \cap a.seen
  /\ \A k \in DOMAIN a.batch : a.batch[k] = IF k \in G THEN 0 ELSE db0[k]
  /\ ~Decr => /\ G \cap a.sent = {} /\ G \cap DOMAIN a.batch = {}
              /\ G \cap Own(n) \subseteq a.seen
  /\ Own(n) \cap Kept \subseteq G \cup a.sent \cup DOMAIN a.batch \cup (Own(n) \ a.seen)
  /\ ~a.more \/ a.pc \in {"done", "failed"} => Own(n) \subseteq a.seen

\* What is left of key k on its server: GETSET k 0 was executed if a task has read it.
Left(k, G, b) == IF Decr /\ (k \in G \/ k \in DOMAIN b) THEN 0 ELSE db0[k]

Exact(G) ==
  /\ \A n \in Nodes : Brings(n, task[n], G)
  /\ \A k \in Keys : db[k] = Left(k, G, task[Home[k]].batch)
  /\ IndexOf(G, q.index)

Entities == {Identity(k) : k \in Keys}

\* The queue has room for all, and an i64 for the sum of any keys.
EverythingFits ==
  /\ QueueSize = 0 \/ Cardinality(Entities) <= QueueSize
  /\ \A f \in [Keys -> Values], S \in SUBSET Keys : SumOver(Restrict(f, S)) \in Int64

ExactInv ==
  /\ TypeInv
  /\ db0 \in [Keys -> Values]
  /\ phase = "wait" \/ interrupted \/ AllDone
  /\ Undisturbed => \E G \in SUBSET Kept : Exact(G)
  /\ Reported /\ ~interrupted =>
       Range(results) = {<<h, q.index[h]>> : h \in DOMAIN q.index}

LEMMA WrapFits == \A x \in Int64 : Wrapped(x) = x
<1> DEFINE B == 2 ^ (Bits - 1)
<1>1. B \in Nat /\ B >= 2 /\ 2 ^ Bits = 2 * B
  BY BitsAssumption
<1>2. Int64 = -B .. B - 1 /\ \A x : Wrapped(x) = ((x + B) % (2 * B)) - B
  BY <1>1 DEF Int64, Wrapped
<1> HIDE DEF B
<1>3. \A x \in -B .. B - 1 : ((x + B) % (2 * B)) - B = x
  BY <1>1, Z3
<1>4. QED
  BY <1>2, <1>3

\* The sums of members.
LEMMA MembersAre ==
  ASSUME EverythingFits, db0 \in [Keys -> Values], NEW G \in SUBSET Keys, NEW h
  PROVE  /\ SumOver(Restrict(db0, Members(G, h))) \in Int64
         /\ \A k \in Keys \ G :
              Entered(k) /\ Identity(k) = h =>
                SumOver(Restrict(db0, Members(G \cup {k}, h)))
                  = db0[k] + SumOver(Restrict(db0, Members(G, h)))
<1> DEFINE A == Members(G, h)
<1>1. A \in SUBSET Keys
  BY DEF Members
<1>2. SumOver(Restrict(db0, A)) \in Int64
  <2> HIDE DEF A
  <2>1. QED
    BY <1>1 DEF EverythingFits
<1>3. ASSUME NEW k \in Keys \ G, Entered(k), Identity(k) = h
      PROVE  SumOver(Restrict(db0, Members(G \cup {k}, h))) = db0[k] + SumOver(Restrict(db0, A))
  <2>1. Members(G \cup {k}, h) = A \cup {k} /\ k \in Keys \ A
    BY <1>3 DEF Members
  <2>2. db0 \in [Keys -> Int] /\ IsFiniteSet(Keys)
    BY ScanAssumption, Int64Is
  <2> HIDE DEF A
  <2>3. SumOver(Restrict(db0, A \cup {k})) = db0[k] + SumOver(Restrict(db0, A))
    BY <1>1, <2>1, <2>2, SumAdds
  <2>4. QED
    BY <2>1, <2>3
<1>4. QED
  BY <1>2, <1>3

\* There is room for one more entry.
LEMMA RoomForAll ==
  ASSUME EverythingFits, NEW r, DOMAIN r.index \subseteq Entities,
         NEW h \in Entities \ DOMAIN r.index
  PROVE  ~QP!Full(r)
<1> DEFINE D == DOMAIN r.index
<1>1. IsFiniteSet(Entities)
  <2>1. Entities \subseteq Hashes
    BY HashesAre DEF Entities
  <2>2. QED
    BY <2>1, HashesAre, FS_Subset
<1>2. IsFiniteSet(D)
  BY <1>1, FS_Subset
<1>3. QP!Cardinality(D) = Cardinality(D)
  BY SameSets
<1> HIDE DEF D
<1>4. /\ IsFiniteSet(D \cup {h}) /\ Cardinality(D \cup {h}) = Cardinality(D) + 1
      /\ Cardinality(D) \in Nat
  BY <1>2, FS_AddElement, FS_CardinalityType DEF D
<1>5. Cardinality(D \cup {h}) <= Cardinality(Entities) /\ Cardinality(Entities) \in Nat
  <2>1. D \cup {h} \in SUBSET Entities
    BY DEF D
  <2>2. QED
    BY <1>1, <2>1, FS_Subset, FS_CardinalityType
<1>6. QueueSize \in Nat
  BY QueueSizeIs
<1>7. QueueSize # 0 => ~(Cardinality(D) >= QueueSize)
  BY <1>4, <1>5, <1>6 DEF EverythingFits
<1>8. QED
  BY <1>3, <1>7 DEF QP!Full, D

\* A push brings what its key counts for.
LEMMA IndexPush ==
  ASSUME HasTotal, EverythingFits, db0 \in [Keys -> Values], NEW G \in SUBSET Keys,
         NEW r, IndexOf(G, r.index), NEW k \in Keys, Entered(k),
         NEW t, QP!Outcome(r, Identity(k), IF k \in G THEN 0 ELSE db0[k], t)
  PROVE  IndexOf(G \cup {k}, t.index)
<1> DEFINE i == r.index
           j == t.index
           D == DOMAIN i
           h == Identity(k)
           w == IF k \in G THEN 0 ELSE db0[k]
           J == G \cup {k}
           S(g) == SumOver(Restrict(db0, Members(G, g)))
           T(g) == SumOver(Restrict(db0, Members(J, g)))
<1>1. /\ D = {Identity(x) : x \in {y \in G : Entered(y)}} /\ \A g \in D : i[g] = S(g)
      /\ \A g : S(g) \in Int64 /\ T(g) \in Int64
  <2>1. J \in SUBSET Keys
    OBVIOUS
  <2> HIDE DEF J
  <2>2. QED
    BY <2>1, MembersAre DEF IndexOf
<1>2. {Identity(x) : x \in {y \in J : Entered(y)}} = D \cup {h}
  BY <1>1
<1>3. \A g : g # h => T(g) = S(g)
  <2>1. \A g : g # h => Members(J, g) = Members(G, g)
    BY DEF Members
  <2>2. QED
    BY <2>1
<1>4. T(h) = w + S(h) /\ w \in Int64 /\ w \in Int
  <2>1. CASE k \in G
    <3>1. J = G /\ w = 0
      BY <2>1
    <3>2. S(h) \in Int
      BY <1>1, Int64Is
    <3> HIDE DEF w, J
    <3>3. T(h) = S(h)
      BY <3>1
    <3> HIDE DEF S, T
    <3>4. QED
      BY <3>1, <3>2, <3>3, Int64Is
  <2>2. CASE k \notin G
    <3>1. k \in Keys \ G /\ w = db0[k] /\ db0[k] \in Int64
      BY <2>2, ScanAssumption
    <3>2. T(h) = db0[k] + S(h)
      BY <3>1, MembersAre
    <3>3. QED
      BY <3>1, <3>2, Int64Is
  <2>3. QED
    BY <2>1, <2>2
<1>5. h \notin D => S(h) = 0 /\ k \notin G
  <2> SUFFICES ASSUME h \notin D PROVE S(h) = 0 /\ k \notin G
    OBVIOUS
  <2>1. Members(G, h) = {} /\ k \notin G
    BY <1>1 DEF Members
  <2>2. QED
    BY <2>1, SumOfNone
<1>6. \/ h \in D /\ j = [i EXCEPT ![h] = MergeOf(i[h], w)]
      \/ h \notin D /\ j = QP!Put(i, h, w)
  <2>1. h \notin D => ~QP!Full(r)
    <3>1. D \subseteq Entities /\ h \in Entities
      BY <1>1 DEF Entities
    <3>2. QED
      BY <3>1, RoomForAll
  <2>2. QED
    BY <2>1 DEF QP!Outcome
<1> HIDE DEF S, T, w, h, J, D
<1>7. CASE h \in D /\ j = [i EXCEPT ![h] = MergeOf(i[h], w)]
  <2>1. MergeOf(i[h], w) = T(h)
    <3> DEFINE s == S(h)
               u == T(h)
    <3>1. i[h] = s /\ s \in Int /\ w \in Int /\ u = w + s
      BY <1>1, <1>4, <1>7, Int64Is
    <3>2. Wrapped(u) = u
      BY <1>1, WrapFits
    <3> HIDE DEF s, u
    <3>3. i[h] + w = u
      BY <3>1
    <3>4. MergeOf(i[h], w) = u
      BY <3>2, <3>3 DEF MergeOf, AddUp
    <3>5. QED
      BY <3>4 DEF u
  <2>2. DOMAIN j = D \cup {h} /\ \A g \in D : j[g] = IF g = h THEN T(h) ELSE i[g]
    BY <1>7, <2>1 DEF D
  <2>3. \A g \in D \cup {h} : j[g] = T(g)
    BY <1>1, <1>3, <1>7, <2>2
  <2>4. QED
    BY <1>2, <2>2, <2>3 DEF IndexOf, T, J
<1>8. CASE h \notin D /\ j = QP!Put(i, h, w)
  <2>1. T(h) = w
    BY <1>4, <1>5, <1>8
  <2>2. DOMAIN j = D \cup {h} /\ \A g \in D \cup {h} : j[g] = IF g = h THEN w ELSE i[g]
    BY <1>8 DEF QP!Put, D
  <2>3. \A g \in D \cup {h} : j[g] = T(g)
    BY <1>1, <1>3, <2>1, <2>2
  <2>4. QED
    BY <1>2, <2>2, <2>3 DEF IndexOf, T, J
<1>9. QED
  BY <1>6, <1>7, <1>8

\* A key that does not count changes nothing.
LEMMA IndexSame ==
  ASSUME NEW G, NEW i, IndexOf(G, i), NEW k, ~Entered(k)
  PROVE  IndexOf(G \cup {k}, i)
<1>1. {j \in G \cup {k} : Entered(j)} = {j \in G : Entered(j)}
  OBVIOUS
<1>2. \A h : Members(G \cup {k}, h) = Members(G, h)
  BY DEF Members
<1>3. QED
  BY <1>1, <1>2 DEF IndexOf

LEMMA ExactInit == Init => ExactInv
<1> SUFFICES ASSUME Init PROVE ExactInv
  OBVIOUS
<1>1. \A n \in Nodes : /\ task[n].sent = {} /\ task[n].seen = {} /\ task[n].more = TRUE
                       /\ task[n].pc = "connect" /\ DOMAIN task[n].batch = {}
  BY DEF Init, NewTask
<1>2. \A n \in Nodes : Brings(n, task[n], {})
  BY <1>1 DEF Brings
<1>3. \A k \in Keys : Home[k] \in Nodes
  BY ScanAssumption
<1>4. \A k \in Keys : db[k] = Left(k, {}, task[Home[k]].batch)
  BY <1>1, <1>3 DEF Init, Left
<1>5. IndexOf({}, q.index)
  <2>1. DOMAIN q.index = {}
    BY SameQueue DEF Init, QP!New
  <2>2. QED
    BY <2>1 DEF IndexOf
<1>6. Exact({})
  BY <1>2, <1>4, <1>5 DEF Exact
<1>7. phase = "wait" /\ db0 \in [Keys -> Values]
  BY DEF Init
<1>8. QED
  BY <1>6, <1>7, TypeInit DEF ExactInv, Reported

\* Task n, in state c, the servers and the queue after a step that brings the keys
\* in the queue from G to J.
Takes(n, c, G, J) ==
  /\ J \in SUBSET Kept /\ G \subseteq J /\ J \ G \subseteq Own(n)
  /\ Brings(n, c, J)
  /\ \A k \in Keys : db'[k] = Left(k, J, IF k \in Own(n) THEN c.batch ELSE task[Home[k]].batch)
  /\ IndexOf(J, q'.index)

\* Task n goes to state c.
LEMMA ExactStep ==
  ASSUME ExactInv, TypeInv', NEW n \in Nodes, NEW c, Goes(n, c),
         task[n].pc \notin {"done", "failed"}, UNCHANGED <<db0, touched, phase, interrupted>>,
         task[n].missed \subseteq c.missed,
         \A G \in SUBSET Kept :
           Undisturbed /\ c.missed = {} /\ Exact(G) => \E J : Takes(n, c, G, J)
  PROVE  ExactInv'
<1>1. \A m \in Nodes : task'[m] = IF m = n THEN c ELSE task[m]
  BY DEF Goes, ExactInv, TypeInv
<1>2. phase = "wait" \/ interrupted
  BY DEF ExactInv, AllDone
<1>3. ASSUME Undisturbed' PROVE \E J \in SUBSET Kept : Exact(J)'
  <2>1. c.missed = {} /\ Undisturbed
    <3>1. touched = {} /\ \A m \in Nodes : task'[m].missed = {}
      BY <1>3 DEF Undisturbed
    <3>2. \A m \in Nodes : task[m].missed = {}
      BY <1>1, <3>1
    <3>3. QED
      BY <1>1, <3>1, <3>2 DEF Undisturbed
  <2>2. PICK G \in SUBSET Kept : Exact(G)
    BY <2>1 DEF ExactInv
  <2>3. PICK J : Takes(n, c, G, J)
    BY <2>1, <2>2
  <2>4. ASSUME NEW m \in Nodes PROVE Brings(m, task'[m], J)
    <3>1. CASE m = n
      BY <1>1, <2>3, <3>1 DEF Takes
    <3>2. CASE m # n
      <4> DEFINE a == task[m]
      <4>1. Brings(m, a, G) /\ task'[m] = a
        BY <1>1, <2>2, <3>2 DEF Exact
      <4>2. \A k \in Own(m) : k \in J <=> k \in G
        BY <2>3, <3>2 DEF Takes, Own
      <4> HIDE DEF a
      <4>3. Brings(m, a, J)
        BY <4>1, <4>2 DEF Brings
      <4>4. QED
        BY <4>1, <4>3
    <3>3. QED
      BY <3>1, <3>2
  <2>5. \A k \in Keys : db'[k] = Left(k, J, task'[Home[k]].batch)
    <3>1. \A k \in Keys : Home[k] \in Nodes /\ (k \in Own(n) <=> Home[k] = n)
      BY ScanAssumption DEF Own
    <3>2. QED
      BY <1>1, <2>3, <3>1 DEF Takes
  <2>6. IndexOf(J, q'.index) /\ J \in SUBSET Kept
    BY <2>3 DEF Takes
  <2>7. (\A m \in Nodes : Brings(m, task[m], J))'
    BY <2>4 DEF Brings, Own, Kept
  <2>8. (\A k \in Keys : db[k] = Left(k, J, task[Home[k]].batch))'
    BY <2>5 DEF Left
  <2>9. IndexOf(J, q.index)'
    BY <2>6 DEF IndexOf, Members, Entered
  <2>10. Exact(J)'
    BY <2>7, <2>8, <2>9 DEF Exact
  <2>11. QED
    BY <2>6, <2>10
<1>4. (Undisturbed => \E J \in SUBSET Kept : Exact(J))'
  BY <1>3 DEF Kept
<1>5. (db0 \in [Keys -> Values])' /\ (phase = "wait" \/ interrupted)'
  BY <1>2 DEF ExactInv
<1>6. QED
  BY <1>4, <1>5 DEF ExactInv, Reported

\* What is known of an undisturbed task.
LEMMA ExactNow ==
  ASSUME ExactInv, NEW n \in Nodes, NEW G \in SUBSET Kept, Undisturbed, Exact(G)
  PROVE  /\ InOrder(task[n]) /\ Brings(n, task[n], G) /\ task[n].missed = {}
         /\ IndexOf(G, q.index) /\ db0 \in [Keys -> Values] /\ Values \subseteq Int
         /\ \A k \in Keys : db[k] = Left(k, G, task[Home[k]].batch) /\ db[k] \in Int
         /\ \A k \in Own(n) : db[k] = Left(k, G, task[n].batch)
<1>1. Values \subseteq Int
  BY ScanAssumption, Int64Is
<1>2. \A k \in Keys : db[k] = Left(k, G, task[Home[k]].batch)
  BY DEF Exact
<1>3. \A k \in Keys : db[k] \in Int
  <2> SUFFICES ASSUME NEW k \in Keys PROVE db[k] \in Int
    OBVIOUS
  <2>1. db0[k] \in Int
    BY <1>1 DEF ExactInv
  <2>2. db[k] = 0 \/ db[k] = db0[k]
    BY <1>2 DEF Left
  <2>3. QED
    BY <2>1, <2>2
<1>4. InOrder(task[n]) /\ Brings(n, task[n], G) /\ task[n].missed = {}
  BY TypedNow DEF ExactInv, Exact, Undisturbed
<1>5. \A k \in Own(n) : db[k] = Left(k, G, task[n].batch)
  BY <1>2 DEF Own
<1>6. IndexOf(G, q.index) /\ db0 \in [Keys -> Values]
  BY DEF ExactInv, Exact
<1>7. QED
  BY <1>1, <1>2, <1>3, <1>4, <1>5, <1>6

\* A step that leaves the servers, the queue and what task n has to do alone.
LEMMA TakesNothing ==
  ASSUME ExactInv, NEW n \in Nodes, NEW G \in SUBSET Kept, Undisturbed, Exact(G),
         NEW c, c.batch = task[n].batch, c.sent = task[n].sent, c.seen = task[n].seen,
         ~c.more \/ c.pc \in {"done", "failed"} => Own(n) \subseteq c.seen,
         UNCHANGED <<db, q>>
  PROVE  Takes(n, c, G, G)
<1>1. Brings(n, c, G)
  BY ExactNow DEF Brings
<1>2. \A k \in Keys : db'[k] = Left(k, G, IF k \in Own(n) THEN c.batch ELSE task[Home[k]].batch)
  BY ExactNow DEF Own
<1>3. QED
  BY <1>1, <1>2, ExactNow DEF Takes

LEMMA TakesPage ==
  ASSUME ExactInv, NEW n \in Nodes, NEW G \in SUBSET Kept, Undisturbed, Exact(G),
         Decr \/ "duplicates" \notin Faults, FetchPage(n),
         NEW page \in Pages(Present(n), task[n].seen, task[n].pages), NEW c,
         c.batch = task[n].batch,
         c.sent = {k \in page.keys : ~ShouldSkip(k)}, c.sent \subseteq Present(n),
         c.seen = task[n].seen \cup page.keys, c.more = page.more,
         c.pc = IF c.sent = {} THEN NextPage(c) ELSE "reply"
  PROVE  Takes(n, c, G, G)
<1> DEFINE a == task[n]
<1>1. InOrder(a) /\ Brings(n, a, G) /\ a.pc = "scan" /\ UNCHANGED <<db, q>>
  BY ExactNow DEF FetchPage, Ready, shared
<1>2. Present(n) = Own(n)
  <2>1. \A k \in Keys : db[k] # Nil
    BY ExactNow, ScanAssumption
  <2>2. QED
    BY <2>1 DEF Present, Own
<1>3. /\ page.keys \subseteq Own(n) /\ (~page.more => Own(n) \subseteq a.seen \cup page.keys)
      /\ ("duplicates" \notin Faults => page.keys \cap a.seen = {})
  BY <1>2 DEF Pages
<1>4. a.sent = {} /\ DOMAIN a.batch = {}
  BY <1>1 DEF InOrder
<1> HIDE DEF a
<1>5. c.sent = page.keys \cap Kept /\ Own(n) \subseteq Keys
  <2>1. Own(n) \subseteq Keys
    BY DEF Own
  <2>2. QED
    BY <1>3, <2>1 DEF Kept
<1>6. c.seen = a.seen \cup page.keys /\ c.more = page.more /\ DOMAIN c.batch = {}
  BY <1>4 DEF a
<1>7. ~c.more \/ c.pc \in {"done", "failed"} => Own(n) \subseteq c.seen
  BY <1>3, <1>6 DEF NextPage
<1>8. Own(n) \cap Kept \subseteq G \cup c.sent \cup DOMAIN c.batch \cup (Own(n) \ c.seen)
  BY <1>1, <1>4, <1>5, <1>6 DEF Brings
<1>9. ~Decr => G \cap c.sent = {} /\ G \cap Own(n) \subseteq c.seen
  BY <1>1, <1>3, <1>5, <1>6 DEF Brings
<1>10. c.sent \subseteq Own(n) \cap Kept \cap c.seen
  BY <1>3, <1>5, <1>6
<1>11. Brings(n, c, G)
  BY <1>6, <1>7, <1>8, <1>9, <1>10 DEF Brings
<1>12. \A k \in Keys : db'[k] = Left(k, G, IF k \in Own(n) THEN c.batch ELSE task[Home[k]].batch)
  BY <1>1, ExactNow DEF Own, a
<1>13. QED
  BY <1>1, <1>11, <1>12, ExactNow DEF Takes

LEMMA TakesReplies ==
  ASSUME ExactInv, NEW n \in Nodes, NEW G \in SUBSET Kept, Undisturbed, Exact(G), HasTotal,
         Replies(n), NEW c, c.batch = [k \in task[n].sent |-> Reply(k)],
         c.seen = task[n].seen, c.sent = {}, c.more = task[n].more, c.pc = "store"
  PROVE  Takes(n, c, G, G)
<1> DEFINE a == task[n]
<1>1. /\ InOrder(a) /\ Brings(n, a, G) /\ a.pc = "reply" /\ q' = q
      /\ db' = Executed(a.sent)
  BY ExactNow DEF Replies, Ready, shared
<1>2. DOMAIN a.batch = {} /\ a.sent \subseteq Own(n) \cap Kept \cap a.seen
  BY <1>1 DEF InOrder, Brings
<1>3. \A k \in Own(n) : k \in Keys /\ db[k] = IF Decr /\ k \in G THEN 0 ELSE db0[k]
  BY <1>2, ExactNow DEF Left, Own
<1>4. \A k \in a.sent : Reply(k) = db[k]
  BY DEF Reply, ReplyOf, HasTotal
<1>5. \A k \in a.sent : ~Decr => k \notin G
  BY <1>1 DEF Brings
<1>6. DOMAIN c.batch = a.sent /\ \A k \in a.sent : c.batch[k] = IF k \in G THEN 0 ELSE db0[k]
  BY <1>2, <1>3, <1>4, <1>5
<1>7. /\ c.seen = a.seen /\ c.more = a.more
      /\ \A k \in Keys \ Own(n) : db[k] = Left(k, G, task[Home[k]].batch)
  BY ExactNow
<1> HIDE DEF a
<1>8. Brings(n, c, G)
  BY <1>1, <1>2, <1>6, <1>7 DEF Brings
<1>9. ASSUME NEW k \in Keys
      PROVE  db'[k] = Left(k, G, IF k \in Own(n) THEN c.batch ELSE task[Home[k]].batch)
  <2>1. db'[k] = IF Decr /\ k \in a.sent THEN 0 ELSE db[k]
    BY <1>1 DEF Executed
  <2>2. CASE k \in Own(n)
    BY <1>3, <1>6, <2>1, <2>2 DEF Left
  <2>3. CASE k \notin Own(n)
    <3>1. k \notin a.sent
      BY <1>2, <2>3
    <3>2. QED
      BY <1>7, <2>1, <2>3, <3>1
  <2>4. QED
    BY <2>2, <2>3
<1>10. QED
  BY <1>1, <1>8, <1>9, ExactNow DEF Takes

\* The reply of key k is stored.
LEMMA TakesEntry ==
  ASSUME ExactInv, NEW n \in Nodes, NEW G \in SUBSET Kept, Undisturbed, Exact(G),
         HasTotal, EverythingFits, NEW k, Store(n, k), NEW c,
         LET h == Handled(task[n], k)
         IN  /\ c.batch = h.batch /\ c.pc = h.pc /\ c.seen = h.seen /\ c.sent = h.sent
             /\ c.more = h.more
  PROVE  Takes(n, c, G, G \cup {k})
<1> DEFINE a == task[n]
           J == G \cup {k}
           v == a.batch[k]
           A == DOMAIN a.batch
<1>1. /\ InOrder(a) /\ Brings(n, a, G) /\ a.pc = "store" /\ k \in A /\ db' = db
      /\ q' = IF Skips(k, v) THEN q ELSE PQ!PushOrUpdate(q, Identity(k), WeightOf(v))
      /\ ~Ignores(v)
  BY ExactNow DEF Store, Ready
<1>2. /\ c.batch = Restrict(a.batch, A \ {k}) /\ c.seen = a.seen /\ c.sent = a.sent
      /\ c.more = a.more /\ c.pc # "failed" /\ (c.pc = "done" => ~a.more)
  BY <1>1, HandledInOrder
<1>3. /\ DOMAIN c.batch = A \ {k} /\ (\A x \in A \ {k} : c.batch[x] = a.batch[x])
      /\ a.sent = {}
  BY <1>1, <1>2 DEF Restrict, InOrder
<1>4. k \in Own(n) /\ k \in Kept /\ k \in a.seen /\ v = IF k \in G THEN 0 ELSE db0[k]
  BY <1>1 DEF Brings
<1>5. k \in Keys /\ J \in SUBSET Kept /\ G \in SUBSET Keys
  BY <1>4 DEF Kept
<1>6. Brings(n, c, J)
  <2> HIDE DEF a, v
  <2>1. /\ c.sent \subseteq Own(n) \cap Kept \cap c.seen
        /\ DOMAIN c.batch \subseteq Own(n) \cap Kept \cap c.seen
    BY <1>1, <1>2, <1>3 DEF Brings
  <2>2. \A x \in DOMAIN c.batch : c.batch[x] = IF x \in J THEN 0 ELSE db0[x]
    BY <1>1, <1>3 DEF Brings
  <2>3. ~Decr => /\ J \cap c.sent = {} /\ J \cap DOMAIN c.batch = {}
                 /\ J \cap Own(n) \subseteq c.seen
    BY <1>1, <1>2, <1>3, <1>4 DEF Brings
  <2>4. Own(n) \cap Kept \subseteq J \cup c.sent \cup DOMAIN c.batch \cup (Own(n) \ c.seen)
    BY <1>1, <1>2, <1>3 DEF Brings
  <2>5. ~c.more \/ c.pc \in {"done", "failed"} => Own(n) \subseteq c.seen
    BY <1>1, <1>2 DEF Brings
  <2>6. QED
    BY <2>1, <2>2, <2>3, <2>4, <2>5 DEF Brings
<1>7. ASSUME NEW x \in Keys
      PROVE  db'[x] = Left(x, J, IF x \in Own(n) THEN c.batch ELSE task[Home[x]].batch)
  <2>1. CASE x \in Own(n)
    <3>1. db[x] = Left(x, G, a.batch)
      BY <2>1, ExactNow
    <3>2. x \in G \/ x \in A <=> x \in J \/ x \in DOMAIN c.batch
      BY <1>1, <1>3
    <3> HIDE DEF a
    <3>3. QED
      BY <1>1, <2>1, <3>1, <3>2 DEF Left
  <2>2. CASE x \notin Own(n)
    <3>1. db[x] = Left(x, G, task[Home[x]].batch) /\ x # k
      BY <1>4, <2>2, ExactNow
    <3>2. QED
      BY <1>1, <2>2, <3>1 DEF Left
  <2>3. QED
    BY <2>1, <2>2
<1>8. IndexOf(J, q'.index)
  <2>1. IndexOf(G, q.index) /\ db0 \in [Keys -> Values] /\ (Skips(k, v) <=> ~Entered(k))
    <3>1. Skips(k, v) <=> ~Entered(k)
      BY DEF Skips, Entered, HasTotal
    <3>2. QED
      BY <3>1, ExactNow
  <2>2. CASE ~Entered(k)
    BY <1>1, <2>1, <2>2, IndexSame
  <2>3. CASE Entered(k)
    <3>1. Identity(k) \in Hashes /\ WeightOf(v) \in Int64
      BY <1>1, <1>5, HashesAre, StoredReplies
    <3>2. WeightOf(v) = v
      BY <1>4, <1>5, ExactNow, ScanAssumption DEF WeightOf
    <3> HIDE DEF v
    <3>3. QP!Outcome(q, Identity(k), v, q')
      <4>1. q' = PQ!PushOrUpdate(q, Identity(k), WeightOf(v))
        BY <1>1, <2>1, <2>3
      <4>2. QP!Outcome(q, Identity(k), WeightOf(v), q')
        BY <3>1, <4>1, PushTyped DEF ExactInv, TypeInv
      <4>3. QED
        BY <3>2, <4>2
    <3>4. QP!Outcome(q, Identity(k), IF k \in G THEN 0 ELSE db0[k], q')
      BY <1>4, <3>3
    <3>5. QED
      BY <1>5, <2>1, <2>3, <3>4, IndexPush
  <2>4. QED
    BY <2>2, <2>3
<1>9. J \ G \subseteq Own(n)
  BY <1>4
<1>10. QED
  BY <1>5, <1>6, <1>7, <1>8, <1>9 DEF Takes

LEMMA ExactTask ==
  ASSUME HasTotal, EverythingFits, Decr \/ "duplicates" \notin Faults,
         ExactInv, NEW n \in Nodes, Task(n)
  PROVE  ExactInv'
<1> DEFINE a == task[n]
<1>1. TypeInv /\ TypeInv' /\ InOrder(a)
  BY TasksTyped, TypedNow DEF ExactInv
<1>2. /\ UNCHANGED <<db0, touched, phase, interrupted>>
      /\ a.pc \notin {"done", "failed"}
  BY DEF Task, Connect, FetchPage, ScanError, Replies, PipelineError, PassOver, Tally,
         Store, main, env, Ready
<1>3. ASSUME NEW c, Goes(n, c), a.missed \subseteq c.missed,
             \A G \in SUBSET Kept :
               Undisturbed /\ c.missed = {} /\ Exact(G) => \E J : Takes(n, c, G, J)
      PROVE  ExactInv'
  BY <1>1, <1>2, <1>3, ExactStep
<1>4. CASE Connect(n) \/ ScanError(n)
  <2>1. PICK c : /\ Goes(n, c) /\ c.batch = a.batch /\ c.sent = a.sent /\ c.seen = a.seen
                 /\ \/ c.pc = "scan" /\ c.missed = a.missed /\ c.more = a.more
                    \/ c.missed = a.missed \cup Unseen(n)
    <3>1. Connect(n) => a.missed = {}
      BY <1>1 DEF Connect, Ready, InOrder
    <3>2. QED
      BY <1>1, <1>4, <3>1, ConnectIs, ScanErrorIs
  <2>2. UNCHANGED <<db, q>>
    BY <1>4 DEF Connect, ScanError, shared
  <2>3. ASSUME NEW G \in SUBSET Kept, Undisturbed, c.missed = {}, Exact(G)
        PROVE  Takes(n, c, G, G)
    <3>1. Brings(n, a, G)
      BY <2>3, ExactNow
    <3>2. ~c.more \/ c.pc \in {"done", "failed"} => Own(n) \subseteq c.seen
      <4>1. Unseen(n) = {} => Own(n) \subseteq c.seen
        BY <2>1 DEF Unseen, Own
      <4>2. QED
        BY <2>1, <2>3, <3>1, <4>1 DEF Brings
    <3>3. QED
      BY <2>1, <2>2, <2>3, <3>2, TakesNothing
  <2>4. QED
    BY <1>3, <2>1, <2>3
<1>5. CASE FetchPage(n)
  <2>1. PICK page \in Pages(Present(n), a.seen, a.pages) : \E c :
          /\ Goes(n, c) /\ c.batch = a.batch
          /\ c.sent = {k \in page.keys : ~ShouldSkip(k)} /\ c.sent \subseteq Present(n)
          /\ c.seen = a.seen \cup page.keys /\ c.more = page.more
          /\ c.missed = a.missed
          /\ c.pc = IF c.sent = {} THEN NextPage(c) ELSE "reply"
    BY <1>1, <1>5, PageIs
  <2>2. PICK c :
          /\ Goes(n, c) /\ c.batch = a.batch
          /\ c.sent = {k \in page.keys : ~ShouldSkip(k)} /\ c.sent \subseteq Present(n)
          /\ c.seen = a.seen \cup page.keys /\ c.more = page.more
          /\ c.missed = a.missed
          /\ c.pc = IF c.sent = {} THEN NextPage(c) ELSE "reply"
    BY <2>1
  <2>3. ASSUME NEW G \in SUBSET Kept, Undisturbed, c.missed = {}, Exact(G)
        PROVE  Takes(n, c, G, G)
    BY <1>5, <2>2, <2>3, TakesPage
  <2>4. QED
    BY <1>3, <2>2, <2>3
<1>6. CASE Replies(n)
  <2>1. PICK c : /\ Goes(n, c) /\ c.batch = [k \in a.sent |-> Reply(k)]
                 /\ c.seen = a.seen /\ c.sent = {} /\ c.more = a.more
                 /\ c.missed = a.missed /\ c.pc = "store"
    BY <1>1, <1>6, RepliesIs
  <2>2. ASSUME NEW G \in SUBSET Kept, Undisturbed, c.missed = {}, Exact(G)
        PROVE  Takes(n, c, G, G)
    BY <1>6, <2>1, <2>2, TakesReplies
  <2>3. QED
    BY <1>3, <2>1, <2>2
<1>7. CASE PipelineError(n)
  <2>1. PICK c : Goes(n, c) /\ a.missed \subseteq c.missed /\ a.sent \subseteq c.missed
    BY <1>1, <1>7, PipelineErrorIs
  <2>2. a.sent # {}
    BY <1>1, <1>7 DEF PipelineError, Ready, InOrder
  <2>3. c.missed # {}
    BY <2>1, <2>2
  <2>4. QED
    BY <1>3, <2>1, <2>3
<1>8. ASSUME NEW k \in Keys, PassOver(n, k) PROVE ExactInv'
  <2> DEFINE c == Handled(a, k)
  <2>1. Goes(n, c) /\ c.missed = a.missed
    BY <1>1, <1>8, PassOverIs, HandledInOrder DEF PassOver, Ready
  <2>2. ASSUME NEW G \in SUBSET Kept, Undisturbed, Exact(G) PROVE FALSE
    <3>1. k \in DOMAIN a.batch /\ a.batch[k] = Nil
      BY <1>8 DEF PassOver, Ignores
    <3>2. a.batch[k] = 0 \/ (k \in Keys /\ a.batch[k] = db0[k])
      BY <2>2, <3>1, ExactNow DEF Brings, Own
    <3>3. a.batch[k] \in Int
      BY <2>2, <3>2, ExactNow
    <3>4. QED
      BY <3>1, <3>3, ScanAssumption
  <2> HIDE DEF c
  <2>3. QED
    BY <1>3, <2>1, <2>2
<1>9. ASSUME NEW k \in Keys, Tally(n, k) PROVE ExactInv'
  <2>1. PICK c : /\ Goes(n, c) /\ c.batch = a.batch /\ c.seen = a.seen /\ c.sent = a.sent
                 /\ c.more = a.more /\ c.missed = a.missed /\ c.pc = "store"
    BY <1>1, <1>9, TallyIs
  <2>2. UNCHANGED <<db, q>>
    BY <1>9 DEF Tally
  <2>3. ASSUME NEW G \in SUBSET Kept, Undisturbed, c.missed = {}, Exact(G)
        PROVE  Takes(n, c, G, G)
    <3>1. ~c.more \/ c.pc \in {"done", "failed"} => Own(n) \subseteq c.seen
      BY <2>1, <2>3, ExactNow DEF Brings
    <3>2. QED
      BY <2>1, <2>2, <2>3, <3>1, TakesNothing
  <2>4. QED
    BY <1>3, <2>1, <2>3
<1>10. ASSUME NEW k \in Keys, Store(n, k) PROVE ExactInv'
  <2> DEFINE h == Handled(a, k)
  <2>1. PICK c : /\ Goes(n, c) /\ c.batch = h.batch /\ c.pc = h.pc /\ c.seen = h.seen
                 /\ c.sent = h.sent /\ c.more = h.more /\ c.missed = h.missed
    BY <1>1, <1>10, StoreIs
  <2>2. c.missed = a.missed
    BY <1>1, <1>10, <2>1, HandledInOrder DEF Store, Ready
  <2>3. ASSUME NEW G \in SUBSET Kept, Undisturbed, c.missed = {}, Exact(G)
        PROVE  Takes(n, c, G, G \cup {k})
    BY <1>10, <2>1, <2>3, TakesEntry
  <2> HIDE DEF h
  <2>4. QED
    BY <1>3, <2>1, <2>2, <2>3
<1>11. QED
  BY <1>4, <1>5, <1>6, <1>7, <1>8, <1>9, <1>10 DEF Task

LEMMA ExactReport ==
  ASSUME ExactInv, Report
  PROVE  Range(results') = {<<h, q.index[h]>> : h \in DOMAIN q.index}
<1> DEFINE D == DOMAIN q.index
           m == Cardinality(D)
           i == q.index
<1>1. \E ids \in [1 .. m -> D] :
           /\ \A g \in D : \E x \in 1 .. m : ids[x] = g
           /\ results' = [x \in 1 .. m |-> <<ids[x], i[ids[x]]>>]
  BY ReportIs DEF ExactInv
<1> HIDE DEF m, i, D
<1>2. PICK ids \in [1 .. m -> D] :
        /\ \A g \in D : \E x \in 1 .. m : ids[x] = g
        /\ results' = [x \in 1 .. m |-> <<ids[x], i[ids[x]]>>]
  BY <1>1
<1>3. Range(results') = {<<ids[x], i[ids[x]]>> : x \in 1 .. m}
  BY <1>2 DEF Range
<1>4. Range(results') = {<<h, i[h]>> : h \in D}
  BY <1>2, <1>3
<1>5. QED
  BY <1>4 DEF i, D

LEMMA ExactKept ==
  ASSUME HasTotal, EverythingFits, Decr \/ "duplicates" \notin Faults, ExactInv, [Next]_vars
  PROVE  ExactInv'
<1>1. TypeInv'
  BY TypedSteps DEF ExactInv
<1>2. ASSUME NEW n \in Nodes, Task(n) PROVE ExactInv'
  BY <1>2, ExactTask
<1>3. CASE Main \/ Interrupt \/ UNCHANGED vars
  <2>1. UNCHANGED <<db, db0, touched, task, q>>
    BY <1>3 DEF Main, WaitDone, ReadTotal, Report, Exit, Interrupt, vars, shared, env
  <2>2. (Undisturbed => \E G \in SUBSET Kept : Exact(G))'
    <3> SUFFICES ASSUME Undisturbed' PROVE (\E G \in SUBSET Kept : Exact(G))'
      OBVIOUS
    <3>1. Undisturbed
      BY <2>1 DEF Undisturbed
    <3>2. PICK G \in SUBSET Kept : Exact(G)
      BY <3>1 DEF ExactInv
    <3>3. Kept' = Kept /\ \A n : Own(n)' = Own(n)
      BY <2>1 DEF Kept, Own
    <3>4. (\A n \in Nodes : Brings(n, task[n], G))'
      BY <2>1, <3>2, <3>3 DEF Exact, Brings
    <3>5. (\A k \in Keys : db[k] = Left(k, G, task[Home[k]].batch))'
      BY <2>1, <3>2 DEF Exact, Left
    <3>6. IndexOf(G, q.index)'
      BY <2>1, <3>2 DEF Exact, IndexOf, Members, Entered
    <3>7. Exact(G)'
      BY <3>4, <3>5, <3>6 DEF Exact
    <3>8. QED
      BY <3>2, <3>3, <3>7
  <2>3. (db0 \in [Keys -> Values])'
    BY <2>1 DEF ExactInv
  <2>4. (phase = "wait" \/ interrupted \/ AllDone)'
    BY <1>3, <2>1 DEF ExactInv, AllDone, Main, WaitDone, ReadTotal, Report, Exit, Interrupt,
                      vars, main
  <2>5. (Reported /\ ~interrupted =>
           Range(results) = {<<h, q.index[h]>> : h \in DOMAIN q.index})'
    <3>1. CASE Report
      BY <2>1, <3>1, ExactReport
    <3>2. CASE ~Report
      <4>1. results' = results /\ (Reported' => Reported) /\ (~interrupted' => ~interrupted)
        BY <1>3, <3>2 DEF Main, WaitDone, ReadTotal, Exit, Interrupt, vars, main, Reported,
                          ExactInv, TypeInv
      <4>2. QED
        BY <2>1, <4>1 DEF ExactInv
    <3>3. QED
      BY <3>1, <3>2
  <2>6. QED
    BY <1>1, <2>2, <2>3, <2>4, <2>5 DEF ExactInv
<1>4. ASSUME NEW k \in Keys, OtherClient(k) PROVE ExactInv'
  <2>1. UNCHANGED <<db0, task, q, phase, interrupted, results>> /\ touched' # {}
    BY <1>4 DEF OtherClient, shared, main
  <2>2. QED
    BY <1>1, <2>1 DEF ExactInv, Undisturbed, AllDone, Reported
<1>5. QED
  BY <1>2, <1>3, <1>4 DEF Next

\* When all tasks are done the keys of the queue are all there are.
LEMMA AllKept ==
  ASSUME ExactInv, Undisturbed, AllDone, NEW G \in SUBSET Kept, Exact(G)
  PROVE  G = Kept
<1> SUFFICES ASSUME NEW k \in Kept PROVE k \in G
  OBVIOUS
<1> DEFINE n == Home[k]
           a == task[n]
<1>1. n \in Nodes /\ k \in Own(n)
  BY ScanAssumption DEF Own, Kept
<1>2. /\ InOrder(a) /\ Brings(n, a, G) /\ a.pc \in {"done", "failed"}
  BY <1>1, ExactNow DEF AllDone
<1> HIDE DEF a, n
<1>3. a.sent = {} /\ DOMAIN a.batch = {} /\ Own(n) \subseteq a.seen
  BY <1>2 DEF InOrder, Brings
<1>4. QED
  BY <1>1, <1>2, <1>3 DEF Brings

LEMMA InvIsExact == ASSUME HasTotal, EverythingFits, AllValid, ExactInv PROVE ExactTotals
<1> DEFINE grouped == Wanted \cap DOMAIN GroupOf
           Its(g) == {k \in grouped : GroupOf[k] = g}
           S == {<<k, db0[k]>> : k \in Wanted \ grouped}
           T == {<<g, SumOver(Restrict(db0, Its(g)))>> : g \in {GroupOf[k] : k \in grouped}}
<1> SUFFICES ASSUME Reported, ~interrupted, touched = {}, \A n \in Nodes : task[n].missed = {}
             PROVE  Range(results) = S \cup T
  BY DEF ExactTotals
<1>1. Undisturbed /\ AllDone
  BY DEF Undisturbed, ExactInv, Reported
<1>2. PICK G \in SUBSET Kept : Exact(G)
  BY <1>1 DEF ExactInv
<1>3. IndexOf(Kept, q.index)
  <2>1. G = Kept
    BY <1>1, <1>2, AllKept
  <2>2. QED
    BY <1>2, <2>1 DEF Exact
<1>4. Wanted = {k \in Kept : Entered(k)}
  <2>1. Selected(Keys) = Kept
    BY KeptAreSelected DEF Kept
  <2>2. \A k \in Keys : k \notin task[Home[k]].missed
    BY ScanAssumption
  <2>3. ~SkipMissing
    BY CommandAssumption DEF HasTotal
  <2>4. QED
    BY <2>1, <2>2, <2>3 DEF Wanted, Entered, Kept
<1>5. /\ DOMAIN q.index = {Identity(k) : k \in Wanted}
      /\ \A h \in DOMAIN q.index : q.index[h] = SumOver(Restrict(db0, Members(Kept, h)))
  BY <1>3, <1>4 DEF IndexOf
<1>6. Range(results) = {<<h, q.index[h]>> : h \in DOMAIN q.index}
  BY DEF ExactInv
<1>7. ASSUME NEW k \in grouped
      PROVE  Identity(k) = GroupOf[k] /\ Members(Kept, GroupOf[k]) = Its(GroupOf[k])
  <2>1. Identity(k) = GroupOf[k] /\ GroupOf[k] \notin Keys
    BY ScanAssumption DEF Identity, Range
  <2>2. \A j \in Wanted : Identity(j) = GroupOf[k] => j \in DOMAIN GroupOf /\ GroupOf[j] = GroupOf[k]
    BY <1>4, <2>1 DEF Identity, Kept
  <2>3. \A j \in grouped : Identity(j) = GroupOf[j]
    BY DEF Identity
  <2>4. Members(Kept, GroupOf[k]) = {j \in Wanted : Identity(j) = GroupOf[k]}
    BY <1>4 DEF Members
  <2>5. QED
    BY <2>1, <2>2, <2>3, <2>4
<1>8. ASSUME NEW k \in Wanted \ grouped
      PROVE  Identity(k) = k /\ SumOver(Restrict(db0, Members(Kept, k))) = db0[k]
  <2>1. Identity(k) = k /\ k \in Keys /\ k \in Kept /\ Entered(k)
    BY <1>4 DEF Identity, Kept
  <2>2. \A j \in Wanted : Identity(j) = k => j = k
    <3>1. \A j \in DOMAIN GroupOf : GroupOf[j] \notin Keys
      BY ScanAssumption DEF Range
    <3>2. QED
      BY <2>1, <3>1 DEF Identity
  <2>3. Members(Kept, k) = {k}
    BY <1>4, <2>1, <2>2 DEF Members
  <2>4. db0 \in [Keys -> Int] /\ IsFiniteSet(Keys) /\ db0[k] \in Int
    BY <2>1, ScanAssumption, Int64Is DEF ExactInv
  <2>5. {} \in SUBSET Keys /\ k \in Keys \ {} /\ {} \cup {k} = {k}
    BY <2>1
  <2>6. SumOver(Restrict(db0, {} \cup {k})) = db0[k] + SumOver(Restrict(db0, {}))
    BY <2>4, <2>5, SumAdds
  <2>7. QED
    BY <2>1, <2>3, <2>4, <2>5, <2>6, SumOfNone
<1> HIDE DEF grouped, Its
<1>9. \A k \in grouped : <<Identity(k), q.index[Identity(k)]>>
                           = <<GroupOf[k], SumOver(Restrict(db0, Its(GroupOf[k])))>>
  BY <1>5, <1>7 DEF grouped
<1>10. \A k \in Wanted \ grouped : <<Identity(k), q.index[Identity(k)]>> = <<k, db0[k]>>
  BY <1>5, <1>8
<1>11. Range(results) = {<<Identity(k), q.index[Identity(k)]>> : k \in Wanted}
  BY <1>5, <1>6
<1>12. Range(results) \subseteq S \cup T
  BY <1>9, <1>10, <1>11
<1>13. S \subseteq Range(results)
  BY <1>10, <1>11
<1>14. T \subseteq Range(results)
  <2>1. grouped \subseteq Wanted
    BY DEF grouped
  <2>2. QED
    BY <1>9, <1>11, <2>1
<1>15. QED
  BY <1>12, <1>13, <1>14

\* memory and sum, with expressions that compile, room for every entry and sums that
\* fit an i64: a report on undisturbed nodes, whatever tasks interleave, lists just
\* the groups and keys that are wanted, each with the sum of its keys on all nodes.
\* A key that SCAN returns twice is added twice, except with --decr.
THEOREM TotalsAreExact ==
  ASSUME HasTotal, EverythingFits, AllValid, Decr \/ "duplicates" \notin Faults
  PROVE  Spec => []ExactTotals
<1>1. Init => ExactInv
  BY ExactInit
<1>2. ExactInv /\ [Next]_vars => ExactInv'
  BY ExactKept
<1>3. ExactInv => ExactTotals
  BY InvIsExact
<1>4. QED
  BY <1>1, <1>2, <1>3, PTL DEF Spec
=============================================================================
