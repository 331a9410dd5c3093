--------------------------- MODULE MaintainProofs ---------------------------
(***************************************************************************)
(* What touch and expire guarantee for any nodes, keys, slots and regular  *)
(* expressions, and any number of pages and faults: they act on no key     *)
(* that is not wanted, leave none out, and what they count adds up.        *)
(***************************************************************************)
EXTENDS Maintain, ScanServerProofs

\* The keys that the code takes for wanted.
Kept == {k \in Keys : ~ShouldSkip(k)}

\* Grouping by slot leaves no key out and brings none in.
LEMMA GroupsPartition == ASSUME NEW ks PROVE UNION Groups(ks) = ks
BY DEF Groups
-----------------------------------------------------------------------------
\* The fields of a task's state, with whatever values.
Shape(a) == a \in [pc : {a.pc}, seen : {a.seen}, pages : {a.pages}, more : {a.more},
                   sent : {a.sent}, batch : {a.batch}, page : {a.page}, count : {a.count}]

\* The changes of them that the actions make.
LEMMA SetPc ==
  ASSUME NEW a, Shape(a), NEW v
  PROVE  LET c == [a EXCEPT !.pc = v]
         IN  Shape(c) /\ c.pc = v /\ c.seen = a.seen /\ c.more = a.more /\ c.sent = a.sent
BY DEF Shape

LEMMA Committed ==
  ASSUME NEW a, Shape(a)
  PROVE  LET c == Commit(a)
         IN  /\ Shape(c) /\ c.pc = NextPage(a)
             /\ c.seen = a.seen /\ c.more = a.more /\ c.sent = a.sent
<1> DEFINE p == NextPage(a)
<1>1. Commit(a) = [a EXCEPT !.pc = p, !.count = a.page]
  BY DEF Commit
<1> HIDE DEF p
<1>2. QED
  BY <1>1 DEF Shape, p

LEMMA Failed ==
  ASSUME NEW a, Shape(a)
  PROVE  LET c == Failing(a)
         IN  /\ Shape(c) /\ c.pc = IF argv.ignore THEN NextPage(a) ELSE "failed"
             /\ c.seen = a.seen /\ c.more = a.more /\ c.sent = a.sent
<1>1. CASE argv.ignore
  <2>1. Failing(a) = Commit(a)
    BY <1>1 DEF Failing
  <2> DEFINE c == Commit(a)
  <2>2. Shape(c) /\ c.pc = NextPage(a) /\ c.seen = a.seen /\ c.more = a.more /\ c.sent = a.sent
    BY Committed
  <2>3. QED
    BY <1>1, <2>1, <2>2
<1>2. CASE ~argv.ignore
  <2> DEFINE c == [a EXCEPT !.pc = "failed"]
  <2>1. Failing(a) = c
    BY <1>2 DEF Failing
  <2>2. Shape(c) /\ c.pc = "failed" /\ c.seen = a.seen /\ c.more = a.more /\ c.sent = a.sent
    BY SetPc
  <2>3. QED
    BY <1>2, <2>1, <2>2
<1>3. QED
  BY <1>1, <1>2

LEMMA Sends ==
  ASSUME NEW a, Shape(a), NEW ks
  PROVE  LET c == [a EXCEPT !.pc = "reply", !.sent = ks]
         IN  Shape(c) /\ c.pc = "reply" /\ c.seen = a.seen /\ c.more = a.more /\ c.sent = ks
BY DEF Shape
-----------------------------------------------------------------------------
\* What task n, in state a, owes: it has sent nothing but its own wanted keys, and
\* each of these that it may not leave out has been asked for or is excused, is in
\* its pipeline, or is still to be returned; that there is nothing left to return
\* when it stops, SCAN guarantees.
Owes(n, a, asks, excused) ==
  /\ Shape(a)
  /\ a.sent \subseteq Kept \cap Own(n)
  /\ a.pc # "reply" => a.sent = {}
  /\ ~a.more \/ a.pc \in {"done", "failed"} => Own(n) \ a.seen \subseteq excused
  /\ argv.command # "dry-run" /\ ~Qualifier =>
       Kept \cap Own(n) \subseteq asks \cup excused \cup a.sent \cup (Own(n) \ a.seen)

MaintainInv ==
  /\ task = [n \in Nodes |-> task[n]]
  /\ present = Keys \ removed
  /\ asked \subseteq Kept
  /\ \A n \in Nodes : Owes(n, task[n], asked, removed \cup missed)
  /\ phase = "exited" /\ ~interrupted => \A n \in Nodes : task[n].pc \in {"done", "failed"}

LEMMA MaintainInit == Init => MaintainInv
<1> SUFFICES ASSUME Init PROVE MaintainInv
  OBVIOUS
<1>1. /\ Shape(NewTask) /\ NewTask.sent = {} /\ NewTask.seen = {} /\ NewTask.more = TRUE
      /\ NewTask.pc = "connect"
  BY DEF NewTask, Shape
<1>2. \A n \in Nodes : Owes(n, NewTask, {}, {})
  BY <1>1 DEF Owes
<1>3. QED
  BY <1>2 DEF Init, MaintainInv

\* A task pays no less when more has been asked for or excused.
LEMMA OwesLess ==
  ASSUME NEW n, NEW a, NEW A1, NEW A2, NEW E1, NEW E2,
         Owes(n, a, A1, E1), A1 \subseteq A2, E1 \subseteq E2
  PROVE  Owes(n, a, A2, E2)
BY DEF Owes

\* A step of task n that takes it to state c.
LEMMA TaskStep ==
  ASSUME MaintainInv, NEW n \in Nodes, NEW c,
         task' = [task EXCEPT ![n] = c],
         UNCHANGED <<argv, present, removed, interrupted>>, phase' = "wait",
         asked \subseteq asked', asked' \subseteq Kept, missed \subseteq missed',
         Owes(n, c, asked', removed \cup missed')
  PROVE  MaintainInv'
<1>1. \A m \in Nodes : Owes(m, task'[m], asked', removed \cup missed')
  <2> SUFFICES ASSUME NEW m \in Nodes
               PROVE  Owes(m, task'[m], asked', removed \cup missed')
    OBVIOUS
  <2>1. CASE m = n
    BY <2>1 DEF MaintainInv
  <2>2. CASE m # n
    <3>1. task'[m] = task[m] /\ Owes(m, task[m], asked, removed \cup missed)
      BY <2>2 DEF MaintainInv
    <3>2. QED
      BY <3>1, OwesLess
  <2>3. QED
    BY <2>1, <2>2
<1>2. \A m \in Nodes : Owes(m, task[m], asked, removed \cup missed)'
  BY <1>1 DEF Owes
<1>3. (task = [m \in Nodes |-> task[m]])'
  BY DEF MaintainInv
<1>4. QED
  BY <1>2, <1>3 DEF MaintainInv

LEMMA ConnectStep == ASSUME MaintainInv, NEW n \in Nodes, Connect(n) PROVE MaintainInv'
<1> DEFINE a == task[n]
<1>1. Owes(n, a, asked, removed \cup missed) /\ a.pc = "connect"
  BY DEF MaintainInv, Connect, Ready
<1>2. PICK v \in {"scan", "failed"} :
        /\ task' = [task EXCEPT ![n] = [a EXCEPT !.pc = v]]
        /\ missed \subseteq missed' /\ (v = "failed" => Unseen(n) \subseteq missed')
  BY DEF Connect
<1>3. UNCHANGED <<argv, present, removed, interrupted, asked>> /\ phase' = "wait"
  BY DEF Connect, Ready, history
<1> DEFINE c == [a EXCEPT !.pc = v]
<1>4. Shape(c) /\ c.pc = v /\ c.seen = a.seen /\ c.more = a.more /\ c.sent = a.sent
  BY <1>1, SetPc DEF Owes
<1>5. Owes(n, c, asked, removed \cup missed')
  <2> HIDE DEF a, c
  <2>1. v = "failed" => Own(n) \ a.seen \subseteq missed'
    BY <1>2 DEF Unseen, a
  <2>2. QED
    BY <1>1, <1>2, <1>4, <2>1 DEF Owes
<1>6. QED
  BY <1>2, <1>3, <1>5, TaskStep DEF MaintainInv

LEMMA ScanErrorStep == ASSUME MaintainInv, NEW n \in Nodes, ScanError(n) PROVE MaintainInv'
<1> DEFINE a == task[n]
<1>1. Owes(n, a, asked, removed \cup missed) /\ a.pc = "scan"
  BY DEF MaintainInv, ScanError, Ready
<1>2. PICK v \in {"done", "failed"} :
        /\ task' = [task EXCEPT ![n] = [a EXCEPT !.pc = v]]
        /\ missed' = missed \cup Unseen(n)
  BY DEF ScanError
<1>3. UNCHANGED <<argv, present, removed, interrupted, asked>> /\ phase' = "wait"
  BY DEF ScanError, Ready, history
<1> DEFINE c == [a EXCEPT !.pc = v]
<1>4. Shape(c) /\ c.pc = v /\ c.seen = a.seen /\ c.more = a.more /\ c.sent = a.sent
  BY <1>1, SetPc DEF Owes
<1>5. Owes(n, c, asked, removed \cup missed')
  <2> HIDE DEF a, c
  <2>1. Own(n) \ a.seen \subseteq missed'
    BY <1>2 DEF Unseen, a
  <2>2. QED
    BY <1>1, <1>2, <1>4, <2>1 DEF Owes
<1>6. QED
  BY <1>2, <1>3, <1>5, TaskStep DEF MaintainInv

LEMMA FetchPageStep == ASSUME MaintainInv, NEW n \in Nodes, FetchPage(n) PROVE MaintainInv'
<1> DEFINE a == task[n]
<1>1. Owes(n, a, asked, removed \cup missed) /\ a.pc = "scan" /\ present = Keys \ removed
  BY DEF MaintainInv, FetchPage, Ready
<1>2. PICK page \in Pages(present \cap Own(n), a.seen, a.pages) :
        LET kept == {k \in page.keys : ~ShouldSkip(k)}
            Counted(x) ==
              Add(Scanned(x, page.keys, kept), "success",
                  IF argv.command = "dry-run" THEN Cardinality(kept) ELSE 0)
            b == [a EXCEPT !.seen = a.seen \cup page.keys,
                           !.pages = a.pages + 1,
                           !.more = page.more,
                           !.page = Counted(a.page)]
        IN  task' = [task EXCEPT ![n] = IF kept = {} \/ argv.command = "dry-run" THEN Commit(b)
                                        ELSE [b EXCEPT !.pc = "reply", !.sent = kept]]
  BY DEF FetchPage
<1>3. UNCHANGED <<argv, present, removed, interrupted, asked, missed>> /\ phase' = "wait"
  BY DEF FetchPage, Ready, history
<1> DEFINE kept == {k \in page.keys : ~ShouldSkip(k)}
           pages == a.pages + 1
           counts == Add(Scanned(a.page, page.keys, kept), "success",
                         IF argv.command = "dry-run" THEN Cardinality(kept) ELSE 0)
           b == [a EXCEPT !.seen = a.seen \cup page.keys, !.pages = pages,
                          !.more = page.more, !.page = counts]
           c == IF kept = {} \/ argv.command = "dry-run" THEN Commit(b)
                ELSE [b EXCEPT !.pc = "reply", !.sent = kept]
<1>4. task' = [task EXCEPT ![n] = c]
  BY <1>2
<1>5. /\ Shape(b) /\ b.pc = "scan" /\ b.seen = a.seen \cup page.keys /\ b.more = page.more
      /\ b.sent = a.sent
  <2>1. Shape(a)
    BY <1>1 DEF Owes
  <2> DEFINE seen == a.seen \cup page.keys
             more == page.more
  <2> HIDE DEF a, pages, counts, seen, more
  <2>2. LET d == [a EXCEPT !.seen = seen, !.pages = pages, !.more = more, !.page = counts]
        IN  Shape(d) /\ d.pc = a.pc /\ d.seen = seen /\ d.more = more /\ d.sent = a.sent
    BY <2>1 DEF Shape
  <2>3. QED
    BY <1>1, <2>2 DEF seen, more
<1>6. /\ Shape(c) /\ c.seen = b.seen /\ c.more = b.more
      /\ \/ (kept = {} \/ argv.command = "dry-run") /\ c.pc = NextPage(b) /\ c.sent = b.sent
         \/ c.pc = "reply" /\ c.sent = kept
  <2> HIDE DEF b, kept
  <2>1. LET d == Commit(b)
        IN  /\ Shape(d) /\ d.pc = NextPage(b)
            /\ d.seen = b.seen /\ d.more = b.more /\ d.sent = b.sent
    BY <1>5, Committed, Zenon
  <2>2. LET d == [b EXCEPT !.pc = "reply", !.sent = kept]
        IN  Shape(d) /\ d.pc = "reply" /\ d.seen = b.seen /\ d.more = b.more /\ d.sent = kept
    BY <1>5, Sends, Zenon
  <2>3. CASE kept = {} \/ argv.command = "dry-run"
    <3>1. c = Commit(b)
      BY <2>3
    <3>2. QED
      BY <2>1, <2>3, <3>1
  <2>4. CASE ~(kept = {} \/ argv.command = "dry-run")
    <3>1. c = [b EXCEPT !.pc = "reply", !.sent = kept]
      BY <2>4
    <3>2. QED
      BY <2>2, <3>1
  <2>5. QED
    BY <2>3, <2>4
<1>7. /\ page.keys \subseteq present \cap Own(n)
      /\ ~page.more => present \cap Own(n) \subseteq a.seen \cup page.keys
  BY DEF Pages
<1>8. kept \subseteq Kept \cap Own(n) /\ Kept \cap page.keys \subseteq kept
  BY <1>7 DEF Own, Kept
<1>9. Owes(n, c, asked, removed \cup missed)
  <2>1. a.sent = {}
    BY <1>1 DEF Owes
  <2>2. page.more \/ Own(n) \ (a.seen \cup page.keys) \subseteq removed
    BY <1>1, <1>7 DEF Own
  <2>3. NextPage(b) = IF page.more THEN "scan" ELSE "done"
    BY <1>5 DEF NextPage
  <2> HIDE DEF a, b, c, kept
  <2>4. c.sent \subseteq Kept \cap Own(n) /\ (c.pc # "reply" => c.sent = {})
    BY <1>5, <1>6, <1>8, <2>1, <2>3
  <2>5. ~c.more \/ c.pc \in {"done", "failed"} => Own(n) \ c.seen \subseteq removed \cup missed
    BY <1>5, <1>6, <2>2, <2>3
  <2>6. ASSUME argv.command # "dry-run", ~Qualifier
        PROVE  Kept \cap Own(n) \subseteq asked \cup (removed \cup missed) \cup c.sent
                                          \cup (Own(n) \ c.seen)
    <3>1. Kept \cap Own(n) \subseteq asked \cup (removed \cup missed) \cup (Own(n) \ a.seen)
      BY <1>1, <2>1, <2>6 DEF Owes
    <3>2. Kept \cap page.keys \subseteq c.sent
      BY <1>5, <1>6, <1>8, <2>6
    <3>3. QED
      BY <1>5, <1>6, <3>1, <3>2
  <2>7. QED
    BY <1>6, <2>4, <2>5, <2>6 DEF Owes
<1>10. QED
  <2> HIDE DEF a, c
  <2>1. QED
    BY <1>1, <1>3, <1>4, <1>9, TaskStep DEF MaintainInv

\* The end of a page whose keys have all been asked for or are excused, which may
\* fail the task if what it has not scanned is excused too.
LEMMA PageEnds ==
  ASSUME NEW n, NEW a, NEW A1, NEW E1, Owes(n, a, A1, E1),
         NEW A2, NEW E2, A1 \subseteq A2, E1 \subseteq E2, a.sent \subseteq A2 \cup E2,
         NEW c, Shape(c), c.seen = a.seen, c.more = a.more, c.sent = {}, c.pc # "reply",
         c.pc # a.pc => \/ c.pc \in {NextPage(a), "count"}
                        \/ c.pc = "failed" /\ Own(n) \ a.seen \subseteq E2
  PROVE  Owes(n, c, A2, E2)
<1>1. ~c.more \/ c.pc \in {"done", "failed"} => Own(n) \ c.seen \subseteq E2
  BY DEF Owes, NextPage
<1>2. argv.command # "dry-run" /\ ~Qualifier =>
        Kept \cap Own(n) \subseteq A2 \cup E2 \cup c.sent \cup (Own(n) \ c.seen)
  BY DEF Owes
<1>3. QED
  BY <1>1, <1>2 DEF Owes

LEMMA TouchRepliesStep == ASSUME MaintainInv, NEW n \in Nodes, TouchReplies(n) PROVE MaintainInv'
<1> DEFINE a == task[n]
<1>1. /\ Owes(n, a, asked, removed \cup missed) /\ a.pc = "reply" /\ asked \subseteq Kept
      /\ present = Keys \ removed /\ argv.command = "touch"
  BY DEF MaintainInv, TouchReplies, Ready
<1>2. PICK v : task' = [task EXCEPT ![n] = Commit([a EXCEPT !.sent = {}, !.page = v])]
  BY DEF TouchReplies
<1>3. /\ UNCHANGED <<argv, present, removed, interrupted, missed>> /\ phase' = "wait"
      /\ asked' = asked \cup (a.sent \cap present)
  <2>1. UNION Groups(a.sent) = a.sent
    BY GroupsPartition
  <2>2. QED
    BY <2>1 DEF TouchReplies, Ready, history
<1> DEFINE b == [a EXCEPT !.sent = {}, !.page = v]
           c == Commit(b)
<1>4. Shape(b) /\ b.pc = "reply" /\ b.seen = a.seen /\ b.more = a.more /\ b.sent = {}
  <2>1. Shape(a)
    BY <1>1 DEF Owes
  <2>2. QED
    BY <1>1, <2>1 DEF Shape
<1>5. Shape(c) /\ c.pc = NextPage(a) /\ c.seen = a.seen /\ c.more = a.more /\ c.sent = {}
  <2> HIDE DEF b
  <2>1. QED
    BY <1>4, Committed DEF NextPage
<1>6. a.sent \subseteq Kept \cap Own(n) /\ a.sent \subseteq asked' \cup (removed \cup missed)
  BY <1>1, <1>3 DEF Owes, Own
<1> HIDE DEF a, c
<1>7. Owes(n, c, asked', removed \cup missed)
  <2>1. c.pc # "reply"
    BY <1>5 DEF NextPage
  <2>2. asked \subseteq asked'
    BY <1>3
  <2>3. QED
    BY <1>1, <1>5, <1>6, <2>1, <2>2, PageEnds
<1>8. task' = [task EXCEPT ![n] = c]
  BY <1>2 DEF a, c
<1>9. QED
  BY <1>1, <1>3, <1>6, <1>7, <1>8, TaskStep

LEMMA TouchErrorStep == ASSUME MaintainInv, NEW n \in Nodes, TouchError(n) PROVE MaintainInv'
<1> DEFINE a == task[n]
           b == [a EXCEPT !.sent = {}]
           c == Failing(b)
<1>1. /\ Owes(n, a, asked, removed \cup missed) /\ a.pc = "reply" /\ asked \subseteq Kept
      /\ present = Keys \ removed /\ argv.command = "touch"
  BY DEF MaintainInv, TouchError, Ready
<1>2. task' = [task EXCEPT ![n] = c]
  BY DEF TouchError
<1>3. /\ UNCHANGED <<argv, present, removed, interrupted>> /\ phase' = "wait"
      /\ missed' = missed \cup a.sent \cup CostOfFailing(n)
  BY DEF TouchError, Ready, history
<1>4. asked \subseteq asked' /\ asked' \subseteq asked \cup a.sent
  <2>1. PICK groups \in SUBSET Groups(a.sent) : asked' = asked \cup ((UNION groups) \cap present)
    BY DEF TouchError
  <2>2. UNION groups \subseteq UNION Groups(a.sent)
    BY <2>1
  <2>3. QED
    BY <2>1, <2>2, GroupsPartition
<1>5. Shape(b) /\ b.pc = "reply" /\ b.seen = a.seen /\ b.more = a.more /\ b.sent = {}
  <2>1. Shape(a)
    BY <1>1 DEF Owes
  <2>2. QED
    BY <1>1, <2>1 DEF Shape
<1>6. /\ Shape(c) /\ c.pc = IF argv.ignore THEN NextPage(a) ELSE "failed"
      /\ c.seen = a.seen /\ c.more = a.more /\ c.sent = {}
  <2> HIDE DEF b
  <2>1. QED
    BY <1>5, Failed DEF NextPage
<1>7. a.sent \subseteq Kept /\ a.sent \subseteq asked' \cup (removed \cup missed')
  BY <1>1, <1>3 DEF Owes
<1>8. CostOfFailing(n) = IF argv.ignore THEN {} ELSE Own(n) \ a.seen
  BY DEF CostOfFailing, Unseen
<1> HIDE DEF a, c
<1>9. Owes(n, c, asked', removed \cup missed')
  <2>1. NextPage(a) # "reply"
    BY DEF NextPage
  <2>2. /\ c.pc # "reply"
        /\ c.pc = NextPage(a) \/ (c.pc = "failed" /\ Own(n) \ a.seen \subseteq missed')
    BY <1>3, <1>6, <1>8, <2>1
  <2>3. QED
    BY <1>1, <1>3, <1>4, <1>6, <1>7, <2>2, PageEnds
<1>10. QED
  BY <1>1, <1>2, <1>3, <1>4, <1>7, <1>9, TaskStep

LEMMA ExpireRepliesStep == ASSUME MaintainInv, NEW n \in Nodes, ExpireReplies(n) PROVE MaintainInv'
<1> DEFINE a == task[n]
<1>1. /\ Owes(n, a, asked, removed \cup missed) /\ a.pc = "reply" /\ asked \subseteq Kept
      /\ present = Keys \ removed /\ argv.command = "expire"
  BY DEF MaintainInv, ExpireReplies, Ready
<1>2. PICK bad \in SUBSET a.sent : \E lost \in SUBSET bad :
        LET executed == Subjects((a.sent \ bad) \cup lost)
            failed   == bad \cup (a.sent \ Subjects(a.sent))
        IN  /\ asked' = asked \cup (executed \cap present)
            /\ missed' = missed \cup (bad \ lost)
            /\ task' = [task EXCEPT ![n].pc = "count", ![n].sent = {},
                                    ![n].batch = [k \in a.sent |-> k \notin failed]]
  BY DEF ExpireReplies
<1>3. PICK lost \in SUBSET bad :
        LET executed == Subjects((a.sent \ bad) \cup lost)
            failed   == bad \cup (a.sent \ Subjects(a.sent))
        IN  /\ asked' = asked \cup (executed \cap present)
            /\ missed' = missed \cup (bad \ lost)
            /\ task' = [task EXCEPT ![n].pc = "count", ![n].sent = {},
                                    ![n].batch = [k \in a.sent |-> k \notin failed]]
  BY <1>2
<1> DEFINE v == [k \in a.sent |-> k \notin bad \cup (a.sent \ Subjects(a.sent))]
           c == [a EXCEPT !.pc = "count", !.sent = {}, !.batch = v]
<1>4. task' = [task EXCEPT ![n] = c]
  BY <1>3 DEF MaintainInv
<1>5. UNCHANGED <<argv, present, removed, interrupted>> /\ phase' = "wait"
  BY DEF ExpireReplies, Ready, history
<1>6. Shape(c) /\ c.pc = "count" /\ c.seen = a.seen /\ c.more = a.more /\ c.sent = {}
  <2> HIDE DEF v
  <2>1. Shape(a)
    BY <1>1 DEF Owes
  <2>2. QED
    BY <2>1 DEF Shape
<1>7. /\ asked' = asked \cup (Subjects((a.sent \ bad) \cup lost) \cap present)
      /\ missed' = missed \cup (bad \ lost)
  BY <1>3
<1>8. a.sent \subseteq Kept \cap Own(n) /\ asked' \subseteq Kept
  BY <1>1, <1>7 DEF Owes, Subjects
<1>9. ~Qualifier => a.sent \subseteq asked' \cup (removed \cup missed')
  BY <1>1, <1>7, <1>8 DEF Subjects, Own
<1> HIDE DEF a, c
<1>10. Owes(n, c, asked', removed \cup missed')
  <2>1. CASE Qualifier
    BY <1>1, <1>6, <1>7, <2>1 DEF Owes
  <2>2. CASE ~Qualifier
    <3>1. asked \subseteq asked' /\ removed \cup missed \subseteq removed \cup missed'
      BY <1>7
    <3>2. QED
      BY <1>1, <1>6, <1>9, <2>2, <3>1, PageEnds
  <2>3. QED
    BY <2>1, <2>2
<1>11. QED
  BY <1>1, <1>4, <1>5, <1>7, <1>8, <1>10, TaskStep

LEMMA CountSuccessStep ==
  ASSUME MaintainInv, NEW n \in Nodes, NEW k, CountSuccess(n, k)
  PROVE  MaintainInv'
<1> DEFINE a == task[n]
<1>1. Owes(n, a, asked, removed \cup missed) /\ a.pc = "count" /\ asked \subseteq Kept
  BY DEF MaintainInv, CountSuccess, Ready
<1> DEFINE r == Restrict(a.batch, DOMAIN a.batch \ {k})
           v == Add(a.page, "success", 1)
<1>2. LET b == [a EXCEPT !.batch = r, !.page = v]
      IN  task' = [task EXCEPT ![n] = IF DOMAIN r = {} THEN Commit(b) ELSE b]
  BY DEF CountSuccess
<1>3. /\ UNCHANGED <<argv, present, removed, interrupted, asked, missed>>
      /\ phase' = "wait"
  BY DEF CountSuccess, Ready, history
<1> DEFINE b == [a EXCEPT !.batch = r, !.page = v]
           c == IF DOMAIN r = {} THEN Commit(b) ELSE b
<1>4. task' = [task EXCEPT ![n] = c]
  BY <1>2
<1>5. a.sent = {}
  BY <1>1 DEF Owes
<1> HIDE DEF r, v
<1>6. Shape(b) /\ b.pc = "count" /\ b.seen = a.seen /\ b.more = a.more /\ b.sent = {}
  <2> HIDE DEF a
  <2>1. QED
    BY <1>1, <1>5 DEF Owes, Shape
<1>7. /\ Shape(c) /\ c.pc \in {NextPage(a), "count"}
      /\ c.seen = a.seen /\ c.more = a.more /\ c.sent = {}
  <2> HIDE DEF b
  <2>1. QED
    BY <1>6, Committed DEF NextPage
<1> HIDE DEF a, c
<1>8. Owes(n, c, asked, removed \cup missed)
  <2>1. c.pc # "reply"
    BY <1>7 DEF NextPage
  <2>2. QED
    BY <1>1, <1>5, <1>7, <2>1, PageEnds
<1>9. QED
  BY <1>1, <1>3, <1>4, <1>8, TaskStep

LEMMA CountErrorStep ==
  ASSUME MaintainInv, NEW n \in Nodes, NEW k, CountError(n, k)
  PROVE  MaintainInv'
<1> DEFINE a == task[n]
<1>1. Owes(n, a, asked, removed \cup missed) /\ a.pc = "count" /\ asked \subseteq Kept
  BY DEF MaintainInv, CountError, Ready
<1> DEFINE r == IF argv.ignore THEN Restrict(a.batch, DOMAIN a.batch \ {k}) ELSE NewTask.batch
           v == Add(a.page, "errored", 1)
<1>2. LET b == [a EXCEPT !.batch = r, !.page = v]
      IN  task' = [task EXCEPT ![n] = IF DOMAIN r = {} THEN Failing(b) ELSE b]
  BY DEF CountError
<1>3. /\ UNCHANGED <<argv, present, removed, interrupted, asked>> /\ phase' = "wait"
      /\ missed' = missed \cup CostOfFailing(n)
  BY DEF CountError, Ready, history
<1> DEFINE b == [a EXCEPT !.batch = r, !.page = v]
           c == IF DOMAIN r = {} THEN Failing(b) ELSE b
<1>4. task' = [task EXCEPT ![n] = c]
  BY <1>2
<1>5. a.sent = {}
  BY <1>1 DEF Owes
<1> HIDE DEF r, v
<1>6. Shape(b) /\ b.pc = "count" /\ b.seen = a.seen /\ b.more = a.more /\ b.sent = {}
  <2> HIDE DEF a
  <2>1. QED
    BY <1>1, <1>5 DEF Owes, Shape
<1>7. /\ c.pc \in {NextPage(a), "count"} \/ (c.pc = "failed" /\ ~argv.ignore)
      /\ Shape(c) /\ c.seen = a.seen /\ c.more = a.more /\ c.sent = {}
  <2> HIDE DEF b
  <2>1. QED
    BY <1>6, Failed DEF NextPage
<1>8. ~argv.ignore => Own(n) \ a.seen \subseteq missed'
  BY <1>3 DEF CostOfFailing, Unseen
<1> HIDE DEF a, c
<1>9. Owes(n, c, asked, removed \cup missed')
  <2>1. c.pc # "reply"
    BY <1>7 DEF NextPage
  <2>2. \/ c.pc \in {NextPage(a), "count"}
        \/ c.pc = "failed" /\ Own(n) \ a.seen \subseteq removed \cup missed'
    BY <1>7, <1>8
  <2>3. removed \cup missed \subseteq removed \cup missed'
    BY <1>3
  <2>4. QED
    BY <1>1, <1>5, <1>7, <2>1, <2>2, <2>3, PageEnds
<1>10. QED
  BY <1>1, <1>3, <1>4, <1>9, TaskStep

LEMMA WaitDoneStep == MaintainInv /\ WaitDone => MaintainInv'
BY DEF MaintainInv, WaitDone, history, Owes

LEMMA InterruptStep == MaintainInv /\ Interrupt => MaintainInv'
BY DEF MaintainInv, Interrupt, Owes

LEMMA RemoveStep == ASSUME MaintainInv, NEW k, Remove(k) PROVE MaintainInv'
<1>1. /\ UNCHANGED <<argv, task, phase, asked, missed, interrupted>>
      /\ present' = present \ {k} /\ removed' = removed \cup {k}
  BY DEF Remove
<1>2. ASSUME NEW n \in Nodes PROVE Owes(n, task[n], asked, removed' \cup missed)
  <2>1. Owes(n, task[n], asked, removed \cup missed)
    BY DEF MaintainInv
  <2>2. removed \cup missed \subseteq removed' \cup missed
    BY <1>1
  <2>3. QED
    BY <2>1, <2>2, OwesLess
<1>3. \A n \in Nodes : Owes(n, task[n], asked, removed \cup missed)'
  BY <1>1, <1>2 DEF Owes
<1>4. QED
  BY <1>1, <1>3 DEF MaintainInv

LEMMA MaintainStep == MaintainInv /\ [Next]_vars => MaintainInv'
<1> SUFFICES ASSUME MaintainInv, [Next]_vars PROVE MaintainInv'
  OBVIOUS
<1>1. ASSUME NEW n \in Nodes, Task(n) PROVE MaintainInv'
  BY <1>1, ConnectStep, FetchPageStep, ScanErrorStep, TouchRepliesStep, TouchErrorStep,
     ExpireRepliesStep, CountSuccessStep, CountErrorStep DEF Task
<1>2. CASE UNCHANGED vars
  BY <1>2 DEF MaintainInv, vars, history, Owes
<1>3. QED
  BY <1>1, <1>2, WaitDoneStep, InterruptStep, RemoveStep DEF Next

LEMMA MaintainInvariant == Spec => []MaintainInv
BY MaintainInit, MaintainStep, PTL DEF Spec
-----------------------------------------------------------------------------
\* With expressions that compile touch and expire act on no key that the
\* documentation excludes; with one that does not they act on too many.
THEOREM NothingUnwanted == Spec => [](AllValid => OnlyWanted)
<1>1. MaintainInv => (AllValid => OnlyWanted)
  <2>1. MaintainInv => asked \subseteq Kept
    BY DEF MaintainInv
  <2>2. QED
    BY <2>1, KeptAreSelected DEF OnlyWanted, Kept
<1>2. QED
  BY <1>1, MaintainInvariant, PTL

\* A run that ends by itself has acted on every wanted key that was there all the
\* time and was hit by no fault, except for expire with a qualifier.
THEOREM NothingLeftOut == Spec => [](~Qualifier => EveryKeyReached)
<1>1. MaintainInv => (~Qualifier => EveryKeyReached)
  <2> SUFFICES ASSUME MaintainInv, ~Qualifier, phase = "exited", ~interrupted, argv.command # "dry-run",
                      NEW k \in Selected(Keys)
               PROVE  k \in asked \cup removed \cup missed
    BY DEF EveryKeyReached
  <2>1. k \in Kept /\ k \in Keys
    BY SelectedAreKept DEF Selected, Kept
  <2>2. Home[k] \in Nodes /\ k \in Own(Home[k])
    BY <2>1, MaintainAssumption DEF Own
  <2> DEFINE n == Home[k]
  <2>3. Owes(n, task[n], asked, removed \cup missed) /\ task[n].pc \in {"done", "failed"}
    BY <2>2 DEF MaintainInv
  <2> HIDE DEF n
  <2>4. Own(n) \ task[n].seen \subseteq removed \cup missed /\ task[n].sent = {}
    BY <2>3 DEF Owes
  <2>5. k \in asked \cup (removed \cup missed)
    BY <2>1, <2>2, <2>3, <2>4 DEF Owes, n
  <2>6. QED
    BY <2>5
<1>2. QED
  BY <1>1, MaintainInvariant, PTL
-----------------------------------------------------------------------------
\* The counts.

LEMMA CountsAre == Counts = {"scanned", "success", "skipped", "errored"}
BY DEF Counts, NoCounts

LEMMA NoneCounted == /\ NoCounts \in [Counts -> Nat]
                     /\ \A f \in Counts : NoCounts[f] = 0
BY CountsAre DEF NoCounts

\* The states of a task.
Tasks == [pc    : {"connect", "scan", "reply", "count", "done", "failed"},
          seen  : SUBSET Keys,
          pages : 0 .. MaxPages,
          more  : BOOLEAN,
          sent  : SUBSET Keys,
          batch : UNION {[ks -> BOOLEAN] : ks \in SUBSET Keys},
          page  : [Counts -> Nat],
          count : [Counts -> Nat]]

\* Every key that a has scanned is in one of its counts, or among those it still
\* has to deal with.
Balanced(a) ==
  a.page["scanned"] = a.page["success"] + a.page["skipped"] + a.page["errored"]
                        + Cardinality(a.sent) + Cardinality(DOMAIN a.batch)

\* TOUCH does not count the keys that a fault cost or that were gone.
Excused == argv.command = "touch" /\ removed \cup missed # {}

\* What the counts of a task in state a have to do with each other and with the
\* rest of its state.
InOrder(a, excused) ==
  /\ a \in Tasks
  /\ a.more => a.pages < MaxPages
  /\ a.pc \in {"connect", "scan"} => a.more
  /\ (a.pc = "reply") <=> (a.sent # {})
  /\ (a.pc = "count") <=> (DOMAIN a.batch # {})
  /\ \A f \in Counts : a.count[f] <= a.page[f]
  /\ a.pc \in {"connect", "scan", "done"} => a.count = a.page
  /\ excused \/ a.pc = "failed" \/ Balanced(a)

\* The values count f has on the nodes, and what they add up to.
Everywhere(f) == [n \in Nodes |-> task[n].page[f]]

CountsInv ==
  /\ argv \in [command : {"touch", "expire", "dry-run"}, ignore : BOOLEAN]
  /\ present = Keys \ removed /\ removed \subseteq Keys
  /\ task = [n \in Nodes |-> task[n]]
  /\ \A n \in Nodes : InOrder(task[n], Excused)
  /\ counters \in [Counts -> Nat]
  /\ \A f \in Counts : counters[f] = SumOver(Everywhere(f))
  /\ phase \in {"wait", "exited"}
  /\ asked \subseteq Keys /\ missed \subseteq Keys
  /\ interrupted \in BOOLEAN

LEMMA NewTaskIs ==
  /\ NewTask \in Tasks /\ NewTask.pc = "connect" /\ NewTask.sent = {}
  /\ DOMAIN NewTask.batch = {} /\ NewTask.more /\ NewTask.pages = 0
  /\ NewTask.page = NoCounts /\ NewTask.count = NoCounts
<1>1. [k \in {} |-> TRUE] \in UNION {[ks -> BOOLEAN] : ks \in SUBSET Keys}
  <2>1. [k \in {} |-> TRUE] \in [{} -> BOOLEAN]
    OBVIOUS
  <2>2. QED
    BY <2>1
<1> DEFINE none == [k \in {} |-> TRUE]
<1>2. DOMAIN none = {}
  OBVIOUS
<1>3. 0 \in 0 .. MaxPages
  BY ScanServerAssumption
<1> HIDE DEF none
<1>4. NewTask = [pc |-> "connect", seen |-> {}, pages |-> 0, more |-> TRUE, sent |-> {},
                 batch |-> none, page |-> NoCounts, count |-> NoCounts]
  BY DEF NewTask, none
<1>5. none \in UNION {[ks -> BOOLEAN] : ks \in SUBSET Keys}
  BY <1>1 DEF none
<1>6. QED
  BY <1>2, <1>3, <1>4, <1>5, NoneCounted DEF Tasks

LEMMA CountsInit == Init => CountsInv
<1> SUFFICES ASSUME Init PROVE CountsInv
  OBVIOUS
<1>1. InOrder(NewTask, Excused)
  <2>1. Balanced(NewTask)
    <3>1. Cardinality({}) = 0
      BY FS_EmptySet
    <3>2. QED
      BY <3>1, NewTaskIs, NoneCounted, CountsAre DEF Balanced
  <2>2. 0 < MaxPages
    BY ScanServerAssumption
  <2>3. QED
    BY <2>1, <2>2, NewTaskIs, NoneCounted DEF InOrder
<1>2. ASSUME NEW f \in Counts PROVE counters[f] = SumOver(Everywhere(f))
  <2>1. \A n \in Nodes : Everywhere(f)[n] = 0
    BY NewTaskIs, NoneCounted DEF Init, Everywhere
  <2>2. Everywhere(f) \in [Nodes -> Nat]
    BY <2>1 DEF Everywhere
  <2>3. SumOver(Everywhere(f)) = 0
    BY <2>1, <2>2, MaintainAssumption, SumOfZeros
  <2>4. QED
    BY <2>3, NoneCounted DEF Init
<1>3. QED
  BY <1>1, <1>2, NoneCounted DEF Init, CountsInv

\* What Add, Commit and Failing do to the counts and the state of a task.
LEMMA AddIs ==
  ASSUME NEW c \in [Counts -> Nat], NEW field \in Counts, NEW amount \in Nat
  PROVE  /\ Add(c, field, amount) \in [Counts -> Nat]
         /\ Add(c, field, amount)[field] = c[field] + amount
         /\ \A f \in Counts \ {field} : Add(c, field, amount)[f] = c[f]
BY DEF Add

LEMMA CommitIs ==
  ASSUME NEW a \in Tasks
  PROVE  LET c == Commit(a)
         IN  /\ c \in Tasks /\ c.pc = NextPage(a) /\ c.seen = a.seen /\ c.pages = a.pages
             /\ c.more = a.more /\ c.sent = a.sent /\ c.batch = a.batch
             /\ c.page = a.page /\ c.count = a.page
<1> DEFINE p == NextPage(a)
<1>1. p \in {"scan", "done"}
  BY DEF NextPage
<1>2. Commit(a) = [a EXCEPT !.pc = p, !.count = a.page]
  BY DEF Commit
<1> HIDE DEF p
<1>3. QED
  BY <1>1, <1>2 DEF Tasks, p

LEMMA WithPc ==
  ASSUME NEW a \in Tasks, NEW p \in {"connect", "scan", "reply", "count", "done", "failed"}
  PROVE  LET c == [a EXCEPT !.pc = p]
         IN  /\ c \in Tasks /\ c.pc = p /\ c.seen = a.seen /\ c.pages = a.pages
             /\ c.more = a.more /\ c.sent = a.sent /\ c.batch = a.batch
             /\ c.page = a.page /\ c.count = a.count
BY DEF Tasks

\* A page ends in order if nothing of it is left and its counts are balanced.
LEMMA CommitInOrder ==
  ASSUME NEW a \in Tasks, NEW excused, a.sent = {}, DOMAIN a.batch = {},
         a.more => a.pages < MaxPages, excused \/ Balanced(a)
  PROVE  InOrder(Commit(a), excused)
<1> DEFINE c == Commit(a)
<1>1. /\ c \in Tasks /\ c.pc = NextPage(a) /\ c.pages = a.pages
      /\ c.more = a.more /\ c.sent = a.sent /\ c.batch = a.batch
      /\ c.page = a.page /\ c.count = a.page
  BY CommitIs
<1> HIDE DEF c
<1>2. c.pc = IF a.more THEN "scan" ELSE "done"
  BY <1>1 DEF NextPage
<1>3. \A f \in Counts : c.count[f] <= c.page[f]
  BY <1>1 DEF Tasks
<1>4. excused \/ Balanced(c)
  BY <1>1 DEF Balanced
<1>5. QED
  BY <1>1, <1>2, <1>3, <1>4 DEF InOrder, c

LEMMA FailingInOrder ==
  ASSUME NEW a \in Tasks, NEW excused, a.sent = {}, DOMAIN a.batch = {},
         a.more => a.pages < MaxPages, \A f \in Counts : a.count[f] <= a.page[f],
         argv.ignore => excused \/ Balanced(a)
  PROVE  InOrder(Failing(a), excused) /\ Failing(a).page = a.page
<1>1. CASE argv.ignore
  <2>1. Failing(a) = Commit(a)
    BY <1>1 DEF Failing
  <2>2. Commit(a).page = a.page
    BY CommitIs
  <2>3. QED
    BY <1>1, <2>1, <2>2, CommitInOrder
<1>2. CASE ~argv.ignore
  <2> DEFINE c == [a EXCEPT !.pc = "failed"]
  <2>1. Failing(a) = c
    BY <1>2 DEF Failing
  <2>2. /\ c \in Tasks /\ c.pc = "failed" /\ c.pages = a.pages /\ c.more = a.more
        /\ c.sent = a.sent /\ c.batch = a.batch /\ c.page = a.page /\ c.count = a.count
    BY WithPc
  <2> HIDE DEF c
  <2>3. InOrder(c, excused)
    BY <2>2 DEF InOrder
  <2>4. QED
    BY <2>1, <2>2, <2>3
<1>3. QED
  BY <1>1, <1>2

\* Being excused is for good.
LEMMA StaysInOrder ==
  ASSUME NEW a, NEW e1, InOrder(a, e1), NEW e2, e1 => e2
  PROVE  InOrder(a, e2)
BY DEF InOrder

\* A step of task n that takes it to state c and adds plus to its counts and to
\* the shared ones.
LEMMA CountsTaskStep ==
  ASSUME CountsInv, NEW n \in Nodes, NEW c, InOrder(c, Excused'),
         task' = [task EXCEPT ![n] = c],
         NEW plus \in [Counts -> Nat],
         \A f \in Counts : c.page[f] = task[n].page[f] + plus[f],
         counters' \in [Counts -> Nat],
         \A f \in Counts : counters'[f] = counters[f] + plus[f],
         UNCHANGED <<argv, present, removed, phase, interrupted>>,
         asked' \subseteq Keys, missed \subseteq missed', missed' \subseteq Keys
  PROVE  CountsInv'
<1>1. Excused => Excused'
  BY DEF Excused
<1>2. ASSUME NEW m \in Nodes PROVE InOrder(task'[m], Excused')
  <2>1. CASE m = n
    BY <2>1 DEF CountsInv
  <2>2. CASE m # n
    <3>1. task'[m] = task[m] /\ InOrder(task[m], Excused)
      BY <2>2 DEF CountsInv
    <3>2. QED
      BY <1>1, <3>1, StaysInOrder
  <2>3. QED
    BY <2>1, <2>2
<1>3. ASSUME NEW f \in Counts PROVE counters'[f] = SumOver(Everywhere(f)')
  <2> DEFINE g == Everywhere(f)
             v == c.page[f]
  <2>1. g \in [Nodes -> Int] /\ g[n] = task[n].page[f]
    BY DEF Everywhere, CountsInv, InOrder, Tasks
  <2>2. v \in Int
    BY DEF InOrder, Tasks
  <2>3. Everywhere(f)' = [g EXCEPT ![n] = v]
    BY DEF Everywhere, CountsInv
  <2>4. v = g[n] + plus[f] /\ counters'[f] = counters[f] + plus[f] /\ counters[f] = SumOver(g)
    BY <2>1 DEF CountsInv
  <2> HIDE DEF g, v
  <2>5. SumOver([g EXCEPT ![n] = v]) = (SumOver(g) - g[n]) + v
    BY <2>1, <2>2, MaintainAssumption, SumChanges, ZenonT(40)
  <2>6. SumOver(g) \in Int /\ g[n] \in Int /\ plus[f] \in Int
    BY <2>1, MaintainAssumption, SumType
  <2>7. QED
    BY <2>3, <2>4, <2>5, <2>6
<1>4. (task = [m \in Nodes |-> task[m]])'
  BY DEF CountsInv
<1>5. \A m \in Nodes : InOrder(task[m], Excused)'
  BY <1>2 DEF InOrder, Tasks, Balanced
<1>6. \A f \in Counts : (counters[f] = SumOver(Everywhere(f)))'
  BY <1>3
<1>7. QED
  BY <1>4, <1>5, <1>6 DEF CountsInv

\* A step that counts nothing.
LEMMA UncountedStep ==
  ASSUME CountsInv, NEW n \in Nodes, NEW c, InOrder(c, Excused'),
         task' = [task EXCEPT ![n] = c], c.page = task[n].page,
         UNCHANGED <<argv, present, removed, phase, interrupted, counters>>,
         asked' \subseteq Keys, missed \subseteq missed', missed' \subseteq Keys
  PROVE  CountsInv'
<1>1. \A f \in Counts : /\ c.page[f] = task[n].page[f] + NoCounts[f]
                        /\ counters'[f] = counters[f] + NoCounts[f]
  BY NoneCounted DEF CountsInv, InOrder, Tasks
<1>2. counters' \in [Counts -> Nat]
  BY DEF CountsInv
<1>3. NoCounts \in [Counts -> Nat]
  BY NoneCounted
<1>4. UNCHANGED <<argv, present, removed, phase, interrupted>>
  OBVIOUS
<1>5. QED
  BY <1>1, <1>2, <1>3, <1>4, CountsTaskStep
-----------------------------------------------------------------------------
\* What a task's state says of its counts while it is at work.
LEMMA TaskFacts ==
  ASSUME CountsInv, NEW n \in Nodes
  PROVE  LET a == task[n]
         IN  /\ a \in Tasks /\ IsFiniteSet(a.sent) /\ IsFiniteSet(DOMAIN a.batch)
             /\ a.sent \subseteq Keys /\ DOMAIN a.batch \subseteq Keys
             /\ Own(n) \subseteq Keys /\ Unseen(n) \subseteq Keys /\ CostOfFailing(n) \subseteq Keys
<1> DEFINE a == task[n]
<1>1. a \in Tasks
  BY DEF CountsInv, InOrder
<1>2. a.sent \in SUBSET Keys /\ DOMAIN a.batch \in SUBSET Keys
  BY <1>1 DEF Tasks
<1>3. IsFiniteSet(a.sent) /\ IsFiniteSet(DOMAIN a.batch)
  BY <1>2, MaintainAssumption, FS_Subset
<1>4. Own(n) \subseteq Keys /\ Unseen(n) \subseteq Keys /\ CostOfFailing(n) \subseteq Keys
  BY DEF Own, Unseen, CostOfFailing
<1>5. QED
  BY <1>1, <1>2, <1>3, <1>4

\* The steps that only move on.
LEMMA ConnectCounts == ASSUME CountsInv, NEW n \in Nodes, Connect(n) PROVE CountsInv'
<1> DEFINE a == task[n]
<1>1. a \in Tasks /\ InOrder(a, Excused) /\ a.pc = "connect"
  BY TaskFacts DEF CountsInv, Connect, Ready
<1>2. PICK v \in {"scan", "failed"} : task' = [task EXCEPT ![n] = [a EXCEPT !.pc = v]]
  BY DEF Connect
<1>3. /\ UNCHANGED <<argv, present, removed, phase, interrupted, counters, asked>>
      /\ missed \subseteq missed' /\ missed' \subseteq Keys
  BY TaskFacts DEF Connect, history, CountsInv
<1> DEFINE c == [a EXCEPT !.pc = v]
<1>4. /\ c \in Tasks /\ c.pc = v /\ c.pages = a.pages /\ c.more = a.more /\ c.sent = a.sent
      /\ c.batch = a.batch /\ c.page = a.page /\ c.count = a.count
  <2>1. v \in {"connect", "scan", "reply", "count", "done", "failed"}
    OBVIOUS
  <2> HIDE DEF a
  <2>2. QED
    BY <1>1, <2>1 DEF Tasks
<1>5. Excused => Excused'
  BY <1>3 DEF Excused
<1>6. InOrder(c, Excused')
  <2> HIDE DEF a, c
  <2>1. QED
    BY <1>1, <1>4, <1>5 DEF InOrder, Balanced
<1>7. asked' \subseteq Keys
  BY <1>3 DEF CountsInv
<1>8. task' = [task EXCEPT ![n] = c] /\ c.page = task[n].page
  BY <1>2, <1>4
<1> HIDE DEF c
<1>9. QED
  BY <1>3, <1>6, <1>7, <1>8, UncountedStep

LEMMA ScanErrorCounts == ASSUME CountsInv, NEW n \in Nodes, ScanError(n) PROVE CountsInv'
<1> DEFINE a == task[n]
<1>1. a \in Tasks /\ InOrder(a, Excused) /\ a.pc = "scan"
  BY TaskFacts DEF CountsInv, ScanError, Ready
<1>2. PICK v \in {"done", "failed"} : task' = [task EXCEPT ![n] = [a EXCEPT !.pc = v]]
  BY DEF ScanError
<1>3. /\ UNCHANGED <<argv, present, removed, phase, interrupted, counters, asked>>
      /\ missed \subseteq missed' /\ missed' \subseteq Keys
  BY TaskFacts DEF ScanError, history, CountsInv
<1> DEFINE c == [a EXCEPT !.pc = v]
<1>4. /\ c \in Tasks /\ c.pc = v /\ c.pages = a.pages /\ c.more = a.more /\ c.sent = a.sent
      /\ c.batch = a.batch /\ c.page = a.page /\ c.count = a.count
  <2>1. v \in {"connect", "scan", "reply", "count", "done", "failed"}
    OBVIOUS
  <2> HIDE DEF a
  <2>2. QED
    BY <1>1, <2>1 DEF Tasks
<1>5. Excused => Excused'
  BY <1>3 DEF Excused
<1>6. InOrder(c, Excused')
  <2> HIDE DEF a, c
  <2>1. QED
    BY <1>1, <1>4, <1>5 DEF InOrder, Balanced
<1>7. asked' \subseteq Keys
  BY <1>3 DEF CountsInv
<1>8. task' = [task EXCEPT ![n] = c] /\ c.page = task[n].page
  BY <1>2, <1>4
<1> HIDE DEF c
<1>9. QED
  BY <1>3, <1>6, <1>7, <1>8, UncountedStep

\* What a page of which kept is left adds to counts of which success is known.
PageCounts(keys, kept, success) ==
  [scanned |-> Cardinality(keys), success |-> success,
   skipped |-> Cardinality(keys \ kept), errored |-> 0]

LEMMA CountingAPage ==
  ASSUME NEW c \in [Counts -> Nat], NEW keys, IsFiniteSet(keys), NEW kept \in SUBSET keys,
         NEW success \in Nat
  PROVE  LET all == Add(Scanned(c, keys, kept), "success", success)
             plus == PageCounts(keys, kept, success)
         IN  /\ all \in [Counts -> Nat] /\ plus \in [Counts -> Nat]
             /\ \A f \in Counts : all[f] = c[f] + plus[f]
<1>1. Cardinality(keys) \in Nat /\ Cardinality(keys \ kept) \in Nat
  <2>1. keys \ kept \in SUBSET keys
    OBVIOUS
  <2>2. QED
    BY <2>1, FS_Subset, FS_CardinalityType
<1> DEFINE c1 == Add(c, "scanned", Cardinality(keys))
           c2 == Add(c1, "skipped", Cardinality(keys \ kept))
           all == Add(c2, "success", success)
           plus == PageCounts(keys, kept, success)
<1>2. c1 \in [Counts -> Nat] /\ c1["scanned"] = c["scanned"] + Cardinality(keys)
      /\ \A f \in Counts \ {"scanned"} : c1[f] = c[f]
  <2>1. "scanned" \in Counts
    BY CountsAre
  <2>2. QED
    BY <1>1, <2>1, AddIs, Zenon
<1> HIDE DEF c1
<1>3. c2 \in [Counts -> Nat] /\ c2["skipped"] = c1["skipped"] + Cardinality(keys \ kept)
      /\ \A f \in Counts \ {"skipped"} : c2[f] = c1[f]
  <2>1. "skipped" \in Counts
    BY CountsAre
  <2>2. QED
    BY <1>1, <1>2, <2>1, AddIs, ZenonT(40)
<1> HIDE DEF c2
<1>4. all \in [Counts -> Nat] /\ all["success"] = c2["success"] + success
      /\ \A f \in Counts \ {"success"} : all[f] = c2[f]
  <2>1. "success" \in Counts
    BY CountsAre
  <2>2. QED
    BY <1>3, <2>1, AddIs, Zenon
<1>5. plus \in [Counts -> Nat]
  BY <1>1, CountsAre DEF PageCounts
<1> HIDE DEF all
<1>6. \A f \in Counts : all[f] = c[f] + plus[f]
  BY <1>1, <1>2, <1>3, <1>4, CountsAre DEF PageCounts
<1>7. QED
  BY <1>4, <1>5, <1>6 DEF all, c2, c1, Scanned

LEMMA KeptAndSkipped ==
  ASSUME NEW keys, IsFiniteSet(keys), NEW kept \in SUBSET keys
  PROVE  /\ Cardinality(keys) \in Nat /\ Cardinality(kept) \in Nat /\ Cardinality(keys \ kept) \in Nat
         /\ Cardinality(keys) = Cardinality(kept) + Cardinality(keys \ kept)
<1>1. IsFiniteSet(kept) /\ IsFiniteSet(keys \ kept)
  BY FS_Subset
<1>2. kept \cap (keys \ kept) = {} /\ kept \cup (keys \ kept) = keys
  OBVIOUS
<1>3. Cardinality(keys) = Cardinality(kept) + Cardinality(keys \ kept) - Cardinality({})
  BY <1>1, <1>2, FS_Union
<1>4. QED
  BY <1>1, <1>3, FS_EmptySet, FS_CardinalityType

\* What is left of a page when its keys have been sorted out: nothing in a dry run.
LEMMA AfterAPage ==
  ASSUME NEW b \in Tasks, NEW excused, b.more => b.pages < MaxPages, DOMAIN b.batch = {}, b.sent = {},
         NEW kept \in SUBSET Keys, NEW now \in BOOLEAN,
         \A f \in Counts : b.count[f] <= b.page[f],
         \/ excused
         \/ b.page["scanned"] = b.page["success"] + b.page["skipped"] + b.page["errored"]
                                + IF now THEN 0 ELSE Cardinality(kept),
         kept = {} => now
  PROVE  LET c == IF now THEN Commit(b) ELSE [b EXCEPT !.pc = "reply", !.sent = kept]
         IN  InOrder(c, excused) /\ c.page = b.page
<1>1. Cardinality({}) = 0
  BY FS_EmptySet
<1>2. \A f \in Counts : b.page[f] \in Nat
  BY DEF Tasks
<1>3. CASE now
  <2>1. excused \/ Balanced(b)
    BY <1>1, <1>2, <1>3, CountsAre DEF Balanced
  <2>2. InOrder(Commit(b), excused)
    BY <2>1, CommitInOrder
  <2>3. Commit(b).page = b.page
    BY CommitIs
  <2>4. QED
    BY <1>3, <2>2, <2>3
<1>4. CASE ~now
  <2> DEFINE c == [b EXCEPT !.pc = "reply", !.sent = kept]
  <2>1. /\ c \in Tasks /\ c.pc = "reply" /\ c.sent = kept /\ c.pages = b.pages /\ c.more = b.more
        /\ c.batch = b.batch /\ c.page = b.page /\ c.count = b.count
    BY DEF Tasks
  <2> HIDE DEF c
  <2>2. excused \/ Balanced(c)
    <3>1. Cardinality(kept) \in Nat
      BY MaintainAssumption, FS_Subset, FS_CardinalityType
    <3>2. Cardinality(DOMAIN c.batch) = 0 /\ Cardinality(c.sent) = Cardinality(kept)
      BY <1>1, <2>1
    <3>3. QED
      BY <1>2, <1>4, <2>1, <3>1, <3>2, CountsAre DEF Balanced
  <2>3. InOrder(c, excused)
    BY <1>4, <2>1, <2>2 DEF InOrder
  <2>4. QED
    BY <1>4, <2>1, <2>3 DEF c
<1>5. QED
  BY <1>3, <1>4

LEMMA FetchPageCounts == ASSUME CountsInv, NEW n \in Nodes, FetchPage(n) PROVE CountsInv'
<1> DEFINE a == task[n]
<1>1. /\ a \in Tasks /\ InOrder(a, Excused) /\ a.pc = "scan" /\ present \subseteq Keys
      /\ Own(n) \subseteq Keys
  BY TaskFacts DEF CountsInv, FetchPage, Ready
<1>2. PICK page \in Pages(present \cap Own(n), a.seen, a.pages) :
        LET kept == {k \in page.keys : ~ShouldSkip(k)}
            Counted(x) ==
              Add(Scanned(x, page.keys, kept), "success",
                  IF argv.command = "dry-run" THEN Cardinality(kept) ELSE 0)
            b == [a EXCEPT !.seen = a.seen \cup page.keys,
                           !.pages = a.pages + 1,
                           !.more = page.more,
                           !.page = Counted(a.page)]
        IN  /\ task' = [task EXCEPT ![n] = IF kept = {} \/ argv.command = "dry-run" THEN Commit(b)
                                           ELSE [b EXCEPT !.pc = "reply", !.sent = kept]]
            /\ counters' = Counted(counters)
  BY DEF FetchPage
<1>3. UNCHANGED <<argv, present, removed, phase, interrupted, asked, missed>>
  BY DEF FetchPage, history
<1> DEFINE keys == page.keys
           kept == {k \in keys : ~ShouldSkip(k)}
           dry == argv.command = "dry-run"
           success == IF dry THEN Cardinality(kept) ELSE 0
           plus == PageCounts(keys, kept, success)
           seen == a.seen \cup keys
           pages == a.pages + 1
           more == page.more
           counts == Add(Scanned(a.page, keys, kept), "success", success)
           shared == Add(Scanned(counters, keys, kept), "success", success)
           b == [a EXCEPT !.seen = seen, !.pages = pages, !.more = more, !.page = counts]
           now == kept = {} \/ dry
           c == IF now THEN Commit(b) ELSE [b EXCEPT !.pc = "reply", !.sent = kept]
<1>4. task' = [task EXCEPT ![n] = c] /\ counters' = shared
  BY <1>2
<1>5. /\ keys \in SUBSET Keys /\ kept \in SUBSET keys /\ more \in BOOLEAN
      /\ more => pages < MaxPages
  BY <1>1 DEF Pages
<1>6. IsFiniteSet(keys)
  BY <1>5, MaintainAssumption, FS_Subset
<1>7. /\ Cardinality(keys) \in Nat /\ Cardinality(kept) \in Nat /\ Cardinality(keys \ kept) \in Nat
      /\ Cardinality(keys) = Cardinality(kept) + Cardinality(keys \ kept)
  BY <1>5, <1>6, KeptAndSkipped, Zenon
<1> HIDE DEF keys, kept, dry
<1>8. success \in Nat
  BY <1>7
<1>9. a.page \in [Counts -> Nat] /\ counters \in [Counts -> Nat]
  BY <1>1 DEF Tasks, CountsInv
<1> HIDE DEF a, success
<1>10. /\ counts \in [Counts -> Nat] /\ plus \in [Counts -> Nat]
       /\ \A f \in Counts : counts[f] = a.page[f] + plus[f]
  BY <1>5, <1>6, <1>8, <1>9, CountingAPage, Zenon
<1>11. /\ shared \in [Counts -> Nat]
       /\ \A f \in Counts : shared[f] = counters[f] + plus[f]
  BY <1>5, <1>6, <1>8, <1>9, CountingAPage, Zenon
<1>12. /\ plus["scanned"] = Cardinality(keys) /\ plus["success"] = success
       /\ plus["skipped"] = Cardinality(keys \ kept) /\ plus["errored"] = 0
  BY DEF PageCounts
<1> HIDE DEF plus, counts, shared
<1>13. pages \in 0 .. MaxPages
  <2>1. a.more /\ a.pages \in 0 .. MaxPages /\ a.pages < MaxPages
    BY <1>1 DEF InOrder, Tasks
  <2>2. QED
    BY <2>1, ScanServerAssumption
<1>14. seen \in SUBSET Keys
  BY <1>1, <1>5 DEF Tasks
<1> HIDE DEF seen, pages, more
<1>15. /\ b \in Tasks /\ b.pages = pages /\ b.more = more /\ b.page = counts /\ b.count = a.count
       /\ b.sent = a.sent /\ b.batch = a.batch
  BY <1>1, <1>5, <1>10, <1>13, <1>14 DEF Tasks
<1> HIDE DEF b
<1>16. Excused => Excused'
  BY <1>3 DEF Excused
<1>17. /\ a.sent = {} /\ DOMAIN a.batch = {} /\ a.count = a.page
       /\ Excused' \/ Balanced(a)
  BY <1>1, <1>16 DEF InOrder
<1>18. \A f \in Counts : b.count[f] <= b.page[f]
  BY <1>9, <1>10, <1>15, <1>17
<1>19. now \in BOOLEAN /\ (kept = {} => now)
  BY DEF dry
<1>20. \/ Excused'
       \/ b.page["scanned"] = b.page["success"] + b.page["skipped"] + b.page["errored"]
                              + IF now THEN 0 ELSE Cardinality(kept)
  <2> SUFFICES ASSUME Balanced(a)
               PROVE  b.page["scanned"] = b.page["success"] + b.page["skipped"] + b.page["errored"]
                                          + IF now THEN 0 ELSE Cardinality(kept)
    BY <1>17
  <2>1. Cardinality({}) = 0
    BY FS_EmptySet
  <2>2. a.page["scanned"] = a.page["success"] + a.page["skipped"] + a.page["errored"]
    BY <1>9, <1>17, <2>1, CountsAre DEF Balanced
  <2>3. success + (IF now THEN 0 ELSE Cardinality(kept)) = Cardinality(kept)
    BY <1>7, <2>1 DEF success
  <2> HIDE DEF now
  <2>4. QED
    BY <1>7, <1>8, <1>9, <1>10, <1>12, <1>15, <2>2, <2>3, CountsAre
<1>21. kept \in SUBSET Keys
  BY <1>5
<1> HIDE DEF now
<1>22. InOrder(c, Excused') /\ c.page = b.page
  BY <1>5, <1>15, <1>17, <1>18, <1>19, <1>20, <1>21, AfterAPage, Zenon
<1> HIDE DEF c
<1>23. \A f \in Counts : /\ c.page[f] = task[n].page[f] + plus[f]
                         /\ counters'[f] = counters[f] + plus[f]
  BY <1>4, <1>10, <1>11, <1>15, <1>22 DEF a
<1>24. /\ asked' \subseteq Keys /\ missed \subseteq missed' /\ missed' \subseteq Keys
       /\ counters' \in [Counts -> Nat]
  BY <1>3, <1>4, <1>11 DEF CountsInv
<1>25. QED
  BY <1>3, <1>4, <1>10, <1>22, <1>23, <1>24, CountsTaskStep, ZenonT(40)
-----------------------------------------------------------------------------
\* Every key is in the group of its slot and in no other: what TOUCH counts of keys
\* that are all there is their number.
LEMMA TouchesEach ==
  ASSUME NEW sent \in SUBSET Keys
  PROVE  LET count == SumOver([g \in Groups(sent) |-> Cardinality(g \cap present)])
         IN  count \in Nat /\ (sent \subseteq present => count = Cardinality(sent))
<1> DEFINE P == Groups(sent)
           f == [g \in P |-> Cardinality(g \cap present)]
<1>1. IsFiniteSet(sent)
  BY MaintainAssumption, FS_Subset
<1>2. P \in SUBSET (SUBSET sent)
  BY DEF Groups
<1>3. IsFiniteSet(P)
  BY <1>1, <1>2, FS_SUBSET, FS_Subset
<1>4. f \in [P -> Nat]
  <2> SUFFICES ASSUME NEW g \in P PROVE Cardinality(g \cap present) \in Nat
    OBVIOUS
  <2>1. g \cap present \in SUBSET sent
    BY <1>2
  <2>2. QED
    BY <1>1, <2>1, FS_Subset, FS_CardinalityType
<1>5. SumOver(f) \in Nat
  <2> HIDE DEF P, f
  <2>1. QED
    BY <1>3, <1>4, SumNat
<1>6. ASSUME sent \subseteq present PROVE SumOver(f) = Cardinality(sent)
  <2>1. UNION P = sent
    BY GroupsPartition
  <2>2. \A s, t \in P : s # t => s \cap t = {}
    BY DEF Groups
  <2>3. f = [g \in P |-> Cardinality(g)]
    <3>1. \A g \in P : g \cap present = g
      BY <1>2, <1>6
    <3>2. QED
      BY <3>1
  <2> HIDE DEF P, f
  <2>4. SumOver([g \in P |-> Cardinality(g)]) = Cardinality(UNION P)
    BY <1>1, <1>3, <2>1, <2>2, SumOfSizes
  <2>5. QED
    BY <2>1, <2>3, <2>4
<1>7. QED
  BY <1>5, <1>6

LEMMA TouchRepliesCounts == ASSUME CountsInv, NEW n \in Nodes, TouchReplies(n) PROVE CountsInv'
<1> DEFINE a == task[n]
           count == SumOver([g \in Groups(a.sent) |-> Cardinality(g \cap present)])
           plus == Add(NoCounts, "success", count)
           counts == Add(a.page, "success", count)
           shared == Add(counters, "success", count)
           b == [a EXCEPT !.sent = {}, !.page = counts]
           c == Commit(b)
<1>1. /\ a \in Tasks /\ InOrder(a, Excused) /\ a.pc = "reply" /\ argv.command = "touch"
      /\ IsFiniteSet(a.sent) /\ a.sent \subseteq Keys
  BY TaskFacts DEF CountsInv, TouchReplies, Ready
<1>2. task' = [task EXCEPT ![n] = c] /\ counters' = shared
  BY DEF TouchReplies
<1>3. /\ UNCHANGED <<argv, present, removed, phase, interrupted, missed>>
      /\ asked' \subseteq asked \cup present
  BY DEF TouchReplies, history
<1>4. count \in Nat /\ (a.sent \subseteq present => count = Cardinality(a.sent))
  <2> HIDE DEF a
  <2>1. QED
    BY <1>1, TouchesEach, Zenon
<1>5. "success" \in Counts
  BY CountsAre
<1>6. a.page \in [Counts -> Nat] /\ counters \in [Counts -> Nat] /\ NoCounts \in [Counts -> Nat]
  BY <1>1, NoneCounted DEF Tasks, CountsInv
<1> HIDE DEF a, count
<1>7. /\ counts \in [Counts -> Nat] /\ counts["success"] = a.page["success"] + count
      /\ \A f \in Counts \ {"success"} : counts[f] = a.page[f]
  BY <1>4, <1>5, <1>6, AddIs, ZenonT(40)
<1>8. /\ shared \in [Counts -> Nat] /\ shared["success"] = counters["success"] + count
      /\ \A f \in Counts \ {"success"} : shared[f] = counters[f]
  BY <1>4, <1>5, <1>6, AddIs, Zenon
<1>9. /\ plus \in [Counts -> Nat] /\ plus["success"] = NoCounts["success"] + count
      /\ \A f \in Counts \ {"success"} : plus[f] = NoCounts[f]
  BY <1>4, <1>5, <1>6, AddIs, Zenon
<1> HIDE DEF counts, shared, plus
<1>10. /\ b \in Tasks /\ b.pages = a.pages /\ b.more = a.more /\ b.page = counts
       /\ b.count = a.count /\ b.sent = {} /\ b.batch = a.batch
  BY <1>1, <1>7 DEF Tasks
<1> HIDE DEF b
<1>11. Excused' \/ Balanced(b)
  <2> SUFFICES ASSUME ~Excused' PROVE Balanced(b)
    OBVIOUS
  <2>1. removed = {} /\ ~Excused
    BY <1>1, <1>3 DEF Excused
  <2>2. count = Cardinality(a.sent)
    BY <1>1, <1>4, <2>1 DEF CountsInv
  <2>3. Cardinality({}) = 0 /\ DOMAIN a.batch = {}
    BY <1>1, FS_EmptySet DEF InOrder
  <2>4. a.page["scanned"] = a.page["success"] + a.page["skipped"] + a.page["errored"] + count
    BY <1>1, <1>4, <1>6, <2>1, <2>2, <2>3, CountsAre DEF InOrder, Balanced
  <2>5. Cardinality(b.sent) = 0 /\ Cardinality(DOMAIN b.batch) = 0
    BY <1>10, <2>3
  <2>6. QED
    BY <1>4, <1>6, <1>7, <1>10, <2>4, <2>5, CountsAre DEF Balanced
<1>12. DOMAIN b.batch = {} /\ (b.more => b.pages < MaxPages)
  BY <1>1, <1>10 DEF InOrder
<1>13. InOrder(c, Excused')
  BY <1>10, <1>11, <1>12, CommitInOrder
<1>14. c.page = counts
  BY <1>10, CommitIs
<1> HIDE DEF c
<1>15. \A f \in Counts : /\ c.page[f] = task[n].page[f] + plus[f]
                         /\ counters'[f] = counters[f] + plus[f]
  BY <1>2, <1>4, <1>6, <1>7, <1>8, <1>9, <1>14, NoneCounted, CountsAre DEF a
<1>16. /\ asked' \subseteq Keys /\ missed \subseteq missed' /\ missed' \subseteq Keys
       /\ counters' \in [Counts -> Nat]
  BY <1>2, <1>3, <1>8 DEF CountsInv
<1>17. QED
  BY <1>2, <1>3, <1>9, <1>13, <1>15, <1>16, CountsTaskStep, ZenonT(40)

LEMMA TouchErrorCounts == ASSUME CountsInv, NEW n \in Nodes, TouchError(n) PROVE CountsInv'
<1> DEFINE a == task[n]
           b == [a EXCEPT !.sent = {}]
           c == Failing(b)
<1>1. /\ a \in Tasks /\ InOrder(a, Excused) /\ a.pc = "reply" /\ argv.command = "touch"
      /\ a.sent \subseteq Keys /\ CostOfFailing(n) \subseteq Keys
  BY TaskFacts DEF CountsInv, TouchError, Ready
<1>2. task' = [task EXCEPT ![n] = c]
  BY DEF TouchError
<1>3. /\ UNCHANGED <<argv, present, removed, phase, interrupted, counters>>
      /\ missed' = missed \cup a.sent \cup CostOfFailing(n) /\ asked' \subseteq asked \cup present
  BY DEF TouchError, history
<1> HIDE DEF a
<1>4. /\ b \in Tasks /\ b.pages = a.pages /\ b.more = a.more /\ b.page = a.page
      /\ b.count = a.count /\ b.sent = {} /\ b.batch = a.batch
  BY <1>1 DEF Tasks
<1> HIDE DEF b
<1>5. Excused'
  <2>1. a.sent # {}
    BY <1>1 DEF InOrder
  <2>2. QED
    BY <1>1, <1>3, <2>1 DEF Excused
<1>6. /\ DOMAIN b.batch = {} /\ (b.more => b.pages < MaxPages)
      /\ \A f \in Counts : b.count[f] <= b.page[f]
  BY <1>1, <1>4 DEF InOrder
<1>7. InOrder(c, Excused') /\ c.page = b.page
  BY <1>4, <1>5, <1>6, FailingInOrder
<1>8. asked' \subseteq Keys /\ missed \subseteq missed' /\ missed' \subseteq Keys
  BY <1>1, <1>3 DEF CountsInv
<1>9. c.page = task[n].page
  BY <1>4, <1>7 DEF a
<1> HIDE DEF c
<1>10. QED
  BY <1>2, <1>3, <1>7, <1>8, <1>9, UncountedStep

LEMMA ExpireRepliesCounts == ASSUME CountsInv, NEW n \in Nodes, ExpireReplies(n) PROVE CountsInv'
<1> DEFINE a == task[n]
<1>1. /\ a \in Tasks /\ InOrder(a, Excused) /\ a.pc = "reply" /\ a.sent \in SUBSET Keys
  BY TaskFacts DEF CountsInv, ExpireReplies, Ready
<1>2. PICK bad \in SUBSET a.sent, lost \in SUBSET a.sent :
        LET executed == Subjects((a.sent \ bad) \cup lost)
            failed   == bad \cup (a.sent \ Subjects(a.sent))
        IN  /\ asked' = asked \cup (executed \cap present)
            /\ missed' = missed \cup (bad \ lost)
            /\ task' = [task EXCEPT ![n].pc = "count", ![n].sent = {},
                                    ![n].batch = [k \in a.sent |-> k \notin failed]]
  BY DEF ExpireReplies
<1> DEFINE v == [k \in a.sent |-> k \notin bad \cup (a.sent \ Subjects(a.sent))]
           c == [a EXCEPT !.pc = "count", !.sent = {}, !.batch = v]
<1>3. task' = [task EXCEPT ![n] = c]
  BY <1>2 DEF CountsInv
<1>4. UNCHANGED <<argv, present, removed, phase, interrupted, counters>>
  BY DEF ExpireReplies, history
<1>5. v \in UNION {[ks -> BOOLEAN] : ks \in SUBSET Keys} /\ DOMAIN v = a.sent
  <2>1. v \in [a.sent -> BOOLEAN]
    OBVIOUS
  <2> HIDE DEF v
  <2>2. QED
    BY <1>1, <2>1
<1> HIDE DEF a, v
<1>6. /\ c \in Tasks /\ c.pc = "count" /\ c.pages = a.pages /\ c.more = a.more /\ c.page = a.page
      /\ c.count = a.count /\ c.sent = {} /\ c.batch = v
  BY <1>1, <1>5 DEF Tasks
<1> HIDE DEF c
<1>7. a.sent # {} /\ DOMAIN a.batch = {}
  BY <1>1 DEF InOrder
<1>8. /\ asked' \subseteq Keys /\ missed \subseteq missed' /\ missed' \subseteq Keys
  BY <1>1, <1>2 DEF CountsInv, Subjects
<1>9. Excused' \/ Balanced(c)
  <2> SUFFICES ASSUME ~Excused' PROVE Balanced(c)
    OBVIOUS
  <2>1. ~Excused
    BY <1>4, <1>8 DEF Excused
  <2>2. Balanced(a)
    BY <1>1, <2>1 DEF InOrder
  <2>3. /\ Cardinality(a.sent) = Cardinality(DOMAIN c.batch)
        /\ Cardinality(c.sent) = 0 /\ Cardinality(DOMAIN a.batch) = 0
    BY <1>5, <1>6, <1>7, FS_EmptySet
  <2>4. Cardinality(a.sent) \in Nat /\ \A f \in Counts : a.page[f] \in Nat
    BY <1>1, MaintainAssumption, FS_Subset, FS_CardinalityType DEF Tasks
  <2>5. QED
    BY <1>6, <2>2, <2>3, <2>4, CountsAre DEF Balanced
<1>10. InOrder(c, Excused')
  BY <1>1, <1>5, <1>6, <1>7, <1>9 DEF InOrder
<1>11. c.page = task[n].page
  BY <1>6 DEF a
<1>12. QED
  BY <1>3, <1>4, <1>8, <1>10, <1>11, UncountedStep

\* A task that counts a result as field and has the results rest left.
Tallied(a, rest, field) == [a EXCEPT !.batch = rest, !.page = Add(a.page, field, 1)]

\* A result that is counted is no longer in the batch.
LEMMA CountingAResult ==
  ASSUME NEW a, NEW excused, InOrder(a, excused), a.pc = "count", NEW k \in DOMAIN a.batch,
         NEW field \in {"success", "errored"},
         NEW r \in {Restrict(a.batch, DOMAIN a.batch \ {k}), NewTask.batch}
  PROVE  LET b == Tallied(a, r, field)
         IN  /\ b \in Tasks /\ b.pc = a.pc /\ b.pages = a.pages /\ b.more = a.more /\ b.sent = {}
             /\ b.count = a.count /\ b.batch = r /\ b.page = Add(a.page, field, 1)
             /\ \A f \in Counts : b.count[f] <= b.page[f]
             /\ Balanced(a) /\ r = Restrict(a.batch, DOMAIN a.batch \ {k}) => Balanced(b)
<1> DEFINE batches == UNION {[ks -> BOOLEAN] : ks \in SUBSET Keys}
           rest == Restrict(a.batch, DOMAIN a.batch \ {k})
           counts == Add(a.page, field, 1)
           b == [a EXCEPT !.batch = r, !.page = counts]
<1>1. a \in Tasks /\ a.sent = {} /\ a.batch \in batches /\ a.page \in [Counts -> Nat]
  BY DEF InOrder, Tasks
<1>2. rest \in batches /\ DOMAIN rest = DOMAIN a.batch \ {k}
  <2>1. PICK ks \in SUBSET Keys : a.batch \in [ks -> BOOLEAN]
    BY <1>1
  <2>2. rest \in [ks \ {k} -> BOOLEAN]
    BY <2>1 DEF Restrict
  <2>3. ks \ {k} \in SUBSET Keys /\ DOMAIN a.batch = ks
    BY <2>1
  <2> HIDE DEF rest
  <2>4. QED
    BY <2>2, <2>3
<1>3. r \in batches
  BY <1>2, NewTaskIs DEF Tasks
<1>4. field \in Counts /\ 1 \in Nat
  BY CountsAre
<1>5. /\ counts \in [Counts -> Nat] /\ counts[field] = a.page[field] + 1
      /\ \A f \in Counts \ {field} : counts[f] = a.page[f]
  BY <1>1, <1>4, AddIs, Zenon
<1> HIDE DEF rest, counts
<1>6. /\ b \in Tasks /\ b.pc = a.pc /\ b.pages = a.pages /\ b.more = a.more /\ b.sent = a.sent
      /\ b.count = a.count /\ b.batch = r /\ b.page = counts
  BY <1>1, <1>3, <1>5 DEF Tasks
<1> HIDE DEF b
<1>7. ASSUME NEW f \in Counts PROVE b.count[f] <= b.page[f]
  <2>1. a.count[f] <= a.page[f] /\ a.count[f] \in Nat /\ a.page[f] \in Nat
    BY <1>1 DEF InOrder, Tasks
  <2>2. CASE f = field
    BY <1>5, <1>6, <2>1, <2>2
  <2>3. CASE f # field
    BY <1>5, <1>6, <2>1, <2>3
  <2>4. QED
    BY <2>2, <2>3
<1>8. ASSUME r = rest, Balanced(a) PROVE Balanced(b)
  <2>1. IsFiniteSet(DOMAIN a.batch) /\ IsFiniteSet(a.sent)
    <3>1. DOMAIN a.batch \in SUBSET Keys /\ a.sent \in SUBSET Keys
      BY <1>1 DEF Tasks
    <3>2. QED
      BY <3>1, MaintainAssumption, FS_Subset
  <2>2. /\ Cardinality(DOMAIN b.batch) = Cardinality(DOMAIN a.batch) - 1
        /\ Cardinality(DOMAIN a.batch) \in Nat
    <3>1. DOMAIN b.batch = DOMAIN a.batch \ {k}
      BY <1>2, <1>3, <1>6, <1>8
    <3>2. QED
      BY <2>1, <3>1, FS_RemoveElement, FS_CardinalityType
  <2>3. Balanced(a) /\ Cardinality(a.sent) \in Nat /\ Cardinality(b.sent) = Cardinality(a.sent)
    BY <1>6, <1>8, <2>1, FS_CardinalityType DEF InOrder
  <2>4. \A f \in Counts : a.page[f] \in Nat
    BY <1>1
  <2>5. /\ b.page["scanned"] = a.page["scanned"] /\ b.page["skipped"] = a.page["skipped"]
        /\ b.page["success"] + b.page["errored"] = a.page["success"] + a.page["errored"] + 1
        /\ b.page["success"] \in Nat /\ b.page["errored"] \in Nat
    BY <1>5, <1>6, <2>4, CountsAre
  <2>6. QED
    BY <2>2, <2>3, <2>4, <2>5, CountsAre DEF Balanced
<1>9. QED
  BY <1>1, <1>6, <1>7, <1>8 DEF b, counts, rest, Tallied

\* One more of a count, for a task and for all.
LEMMA OneMore ==
  ASSUME CountsInv, NEW n \in Nodes, NEW field \in Counts,
         NEW c, c.page = Add(task[n].page, field, 1), counters' = Add(counters, field, 1)
  PROVE  LET plus == Add(NoCounts, field, 1)
         IN  /\ plus \in [Counts -> Nat] /\ counters' \in [Counts -> Nat]
             /\ \A f \in Counts : c.page[f] = task[n].page[f] + plus[f]
             /\ \A f \in Counts : counters'[f] = counters[f] + plus[f]
<1> DEFINE old == task[n].page
           counts == Add(old, field, 1)
           shared == Add(counters, field, 1)
           plus == Add(NoCounts, field, 1)
<1>1. old \in [Counts -> Nat] /\ counters \in [Counts -> Nat] /\ NoCounts \in [Counts -> Nat] /\ 1 \in Nat
  BY NoneCounted DEF CountsInv, InOrder, Tasks
<1> HIDE DEF old
<1>2. /\ counts \in [Counts -> Nat] /\ counts[field] = old[field] + 1
      /\ \A f \in Counts \ {field} : counts[f] = old[f]
  BY <1>1, AddIs, ZenonT(40)
<1>3. /\ shared \in [Counts -> Nat] /\ shared[field] = counters[field] + 1
      /\ \A f \in Counts \ {field} : shared[f] = counters[f]
  BY <1>1, AddIs, Zenon
<1>4. /\ plus \in [Counts -> Nat] /\ plus[field] = NoCounts[field] + 1
      /\ \A f \in Counts \ {field} : plus[f] = NoCounts[f]
  BY <1>1, AddIs, Zenon
<1> HIDE DEF counts, shared, plus
<1>5. \A f \in Counts : counts[f] = old[f] + plus[f] /\ shared[f] = counters[f] + plus[f]
  BY <1>1, <1>2, <1>3, <1>4, NoneCounted
<1>6. c.page = counts /\ counters' = shared
  BY DEF counts, shared, old
<1>7. QED
  BY <1>3, <1>4, <1>5, <1>6 DEF plus, old

LEMMA CountSuccessCounts ==
  ASSUME CountsInv, NEW n \in Nodes, NEW k, CountSuccess(n, k)
  PROVE  CountsInv'
<1> DEFINE a == task[n]
           r == Restrict(a.batch, DOMAIN a.batch \ {k})
           b == Tallied(a, r, "success")
           c == IF DOMAIN r = {} THEN Commit(b) ELSE b
           plus == Add(NoCounts, "success", 1)
<1>1. /\ InOrder(a, Excused) /\ a.pc = "count" /\ k \in DOMAIN a.batch
      /\ "success" \in Counts
  BY CountsAre DEF CountsInv, CountSuccess, Ready
<1>2. task' = [task EXCEPT ![n] = c] /\ counters' = Add(counters, "success", 1)
  BY DEF CountSuccess, Tallied
<1>3. UNCHANGED <<argv, present, removed, phase, interrupted, asked, missed>>
  BY DEF CountSuccess, history
<1>4. Excused' = Excused
  BY <1>3 DEF Excused
<1> HIDE DEF a
<1>5. /\ b \in Tasks /\ b.pc = a.pc /\ b.pages = a.pages /\ b.more = a.more /\ b.sent = {}
      /\ b.count = a.count /\ b.batch = r /\ b.page = Add(a.page, "success", 1)
      /\ \A f \in Counts : b.count[f] <= b.page[f]
      /\ Balanced(a) => Balanced(b)
  <2>1. /\ "success" \in {"success", "errored"}
        /\ r \in {Restrict(a.batch, DOMAIN a.batch \ {k}), NewTask.batch}
        /\ r = Restrict(a.batch, DOMAIN a.batch \ {k})
    OBVIOUS
  <2> HIDE DEF r
  <2>2. QED
    BY <1>1, <2>1, CountingAResult, ZenonT(40)
<1> HIDE DEF b, r
<1>6. b.more => b.pages < MaxPages
  BY <1>1, <1>5 DEF InOrder
<1>7. InOrder(c, Excused) /\ c.page = b.page
  <2>1. CASE DOMAIN r = {}
    <3>0. Excused \/ Balanced(b)
      BY <1>1, <1>5 DEF InOrder
    <3>1. InOrder(Commit(b), Excused) /\ Commit(b).page = b.page
      BY <1>5, <1>6, <2>1, <3>0, CommitInOrder, CommitIs
    <3>2. QED
      BY <2>1, <3>1
  <2>2. CASE DOMAIN r # {}
    BY <1>1, <1>5, <1>6, <2>2 DEF InOrder
  <2>3. QED
    BY <2>1, <2>2
<1> HIDE DEF c
<1>8. c.page = Add(task[n].page, "success", 1)
  BY <1>5, <1>7 DEF a
<1>9. /\ plus \in [Counts -> Nat] /\ counters' \in [Counts -> Nat]
      /\ \A f \in Counts : c.page[f] = task[n].page[f] + plus[f]
      /\ \A f \in Counts : counters'[f] = counters[f] + plus[f]
  BY <1>1, <1>2, <1>8, OneMore, Zenon
<1>10. /\ asked' \subseteq Keys /\ missed \subseteq missed' /\ missed' \subseteq Keys
       /\ InOrder(c, Excused')
  BY <1>3, <1>4, <1>7 DEF CountsInv
<1> HIDE DEF plus
<1>11. QED
  BY <1>2, <1>3, <1>9, <1>10, CountsTaskStep

LEMMA CountErrorCounts ==
  ASSUME CountsInv, NEW n \in Nodes, NEW k, CountError(n, k)
  PROVE  CountsInv'
<1> DEFINE a == task[n]
           r == IF argv.ignore THEN Restrict(a.batch, DOMAIN a.batch \ {k}) ELSE NewTask.batch
           b == Tallied(a, r, "errored")
           c == IF DOMAIN r = {} THEN Failing(b) ELSE b
           plus == Add(NoCounts, "errored", 1)
<1>1. /\ InOrder(a, Excused) /\ a.pc = "count" /\ k \in DOMAIN a.batch
      /\ "errored" \in Counts /\ CostOfFailing(n) \subseteq Keys
  BY CountsAre, TaskFacts DEF CountsInv, CountError, Ready
<1>2. task' = [task EXCEPT ![n] = c] /\ counters' = Add(counters, "errored", 1)
  BY DEF CountError, Tallied
<1>3. /\ UNCHANGED <<argv, present, removed, phase, interrupted, asked>>
      /\ missed' = missed \cup CostOfFailing(n)
  BY DEF CountError, history
<1>4. (Excused => Excused') /\ argv.ignore \in BOOLEAN
  BY <1>3 DEF Excused, CountsInv
<1> HIDE DEF a
<1>5. /\ b \in Tasks /\ b.pc = a.pc /\ b.pages = a.pages /\ b.more = a.more /\ b.sent = {}
      /\ b.count = a.count /\ b.batch = r /\ b.page = Add(a.page, "errored", 1)
      /\ \A f \in Counts : b.count[f] <= b.page[f]
      /\ argv.ignore /\ Balanced(a) => Balanced(b)
  <2>1. /\ "errored" \in {"success", "errored"}
        /\ r \in {Restrict(a.batch, DOMAIN a.batch \ {k}), NewTask.batch}
        /\ argv.ignore => r = Restrict(a.batch, DOMAIN a.batch \ {k})
    OBVIOUS
  <2> HIDE DEF r
  <2>2. /\ b \in Tasks /\ b.pc = a.pc /\ b.pages = a.pages /\ b.more = a.more /\ b.sent = {}
        /\ b.count = a.count /\ b.batch = r /\ b.page = Add(a.page, "errored", 1)
        /\ \A f \in Counts : b.count[f] <= b.page[f]
        /\ Balanced(a) /\ r = Restrict(a.batch, DOMAIN a.batch \ {k}) => Balanced(b)
    BY <1>1, <2>1, CountingAResult, Zenon
  <2> HIDE DEF b
  <2>3. QED
    BY <2>1, <2>2
<1>6. ~argv.ignore => DOMAIN r = {}
  BY NewTaskIs
<1> HIDE DEF b, r
<1>7. b.more => b.pages < MaxPages
  BY <1>1, <1>5 DEF InOrder
<1>8. InOrder(c, Excused) /\ c.page = b.page
  <2>1. CASE DOMAIN r = {}
    <3>0. argv.ignore => Excused \/ Balanced(b)
      BY <1>1, <1>5 DEF InOrder
    <3>1. InOrder(Failing(b), Excused) /\ Failing(b).page = b.page
      BY <1>5, <1>7, <2>1, <3>0, FailingInOrder
    <3>2. QED
      BY <2>1, <3>1
  <2>2. CASE DOMAIN r # {}
    BY <1>1, <1>5, <1>6, <1>7, <2>2 DEF InOrder
  <2>3. QED
    BY <2>1, <2>2
<1> HIDE DEF c
<1>9. c.page = Add(task[n].page, "errored", 1)
  BY <1>5, <1>8 DEF a
<1>10. /\ plus \in [Counts -> Nat] /\ counters' \in [Counts -> Nat]
       /\ \A f \in Counts : c.page[f] = task[n].page[f] + plus[f]
       /\ \A f \in Counts : counters'[f] = counters[f] + plus[f]
  BY <1>1, <1>2, <1>9, OneMore, Zenon
<1>11. /\ asked' \subseteq Keys /\ missed \subseteq missed' /\ missed' \subseteq Keys
  BY <1>1, <1>3 DEF CountsInv
<1>12. InOrder(c, Excused')
  BY <1>4, <1>8, StaysInOrder
<1> HIDE DEF plus
<1>13. QED
  BY <1>2, <1>3, <1>10, <1>11, <1>12, CountsTaskStep

\* The steps of main change no count.
LEMMA MainCounts ==
  ASSUME CountsInv, UNCHANGED <<argv, present, task, counters, asked, removed, missed>>,
         phase' \in {"wait", "exited"}, interrupted' \in BOOLEAN
  PROVE  CountsInv'
<1>1. \A n \in Nodes : InOrder(task[n], Excused)'
  <2>1. Excused' = Excused
    BY DEF Excused
  <2>2. \A n \in Nodes : InOrder(task[n], Excused)
    BY DEF CountsInv
  <2>3. QED
    BY <2>1, <2>2 DEF InOrder, Tasks, Balanced
<1>2. \A f \in Counts : (counters[f] = SumOver(Everywhere(f)))'
  BY DEF CountsInv, Everywhere
<1>3. QED
  BY <1>1, <1>2 DEF CountsInv

LEMMA WaitDoneCounts == CountsInv /\ WaitDone => CountsInv'
<1> SUFFICES ASSUME CountsInv, WaitDone PROVE CountsInv'
  OBVIOUS
<1>1. /\ UNCHANGED <<argv, present, task, counters, asked, removed, missed, interrupted>>
      /\ phase' = "exited"
  BY DEF WaitDone, history
<1>2. QED
  BY <1>1, MainCounts DEF CountsInv

LEMMA InterruptCounts == CountsInv /\ Interrupt => CountsInv'
<1> SUFFICES ASSUME CountsInv, Interrupt PROVE CountsInv'
  OBVIOUS
<1>1. /\ UNCHANGED <<argv, present, task, counters, asked, removed, missed>>
      /\ phase' = "exited" /\ interrupted' = TRUE
  BY DEF Interrupt
<1>2. QED
  BY <1>1, MainCounts

LEMMA RemoveCounts == ASSUME CountsInv, NEW k, Remove(k) PROVE CountsInv'
<1>1. /\ UNCHANGED <<argv, task, counters, phase, asked, missed, interrupted>>
      /\ present' = present \ {k} /\ removed' = removed \cup {k} /\ k \in present
  BY DEF Remove
<1>2. Excused => Excused'
  BY <1>1 DEF Excused
<1>3. \A n \in Nodes : InOrder(task[n], Excused')
  BY <1>2, StaysInOrder DEF CountsInv
<1>4. \A n \in Nodes : InOrder(task[n], Excused)'
  BY <1>1, <1>3 DEF InOrder, Tasks, Balanced
<1>5. \A f \in Counts : (counters[f] = SumOver(Everywhere(f)))'
  BY <1>1 DEF CountsInv, Everywhere
<1>6. QED
  BY <1>1, <1>4, <1>5 DEF CountsInv

LEMMA CountsStep == CountsInv /\ [Next]_vars => CountsInv'
<1> SUFFICES ASSUME CountsInv, [Next]_vars PROVE CountsInv'
  OBVIOUS
<1>1. ASSUME NEW n \in Nodes, Task(n) PROVE CountsInv'
  BY <1>1, ConnectCounts, FetchPageCounts, ScanErrorCounts, TouchRepliesCounts,
     TouchErrorCounts, ExpireRepliesCounts, CountSuccessCounts, CountErrorCounts DEF Task
<1>2. CASE UNCHANGED vars
  BY <1>2 DEF CountsInv, vars, history, InOrder, Tasks, Balanced, Excused, Everywhere
<1>3. QED
  BY <1>1, <1>2, WaitDoneCounts, InterruptCounts, RemoveCounts DEF Next

LEMMA CountsInvariant == Spec => []CountsInv
BY CountsInit, CountsStep, PTL DEF Spec
-----------------------------------------------------------------------------
\* The type invariant: among the rest, a task waits for replies just when it has a
\* pipeline, handles results just when there are some, and no count of the message
\* that ends its node is ahead of what its page has counted.
THEOREM MaintainTypes == Spec => []TypeOK
<1>1. CountsInv => TypeOK
  <2> SUFFICES ASSUME CountsInv PROVE TypeOK
    OBVIOUS
  <2>1. ASSUME NEW n \in Nodes PROVE TaskType(task[n])
    <3> DEFINE a == task[n]
    <3>1. InOrder(a, Excused) /\ a \in Tasks
      BY DEF CountsInv, InOrder
    <3> HIDE DEF a
    <3>2. DOMAIN a.batch \subseteq Keys /\ a.sent \subseteq Keys /\ a.seen \subseteq Keys
      BY <3>1 DEF Tasks
    <3>3. \A f \in Counts : a.page[f] \in Nat /\ a.count[f] \in 0 .. a.page[f]
      BY <3>1 DEF InOrder, Tasks
    <3>4. QED
      BY <3>1, <3>2, <3>3 DEF TaskType, InOrder, Tasks, a
  <2>2. DOMAIN task = Nodes
    BY DEF CountsInv
  <2>3. QED
    BY <2>1, <2>2 DEF TypeOK, CountsInv
<1>2. QED
  BY <1>1, CountsInvariant, PTL

\* What the messages of the nodes say never exceeds what the display showed, and it
\* adds up to it when all nodes are done.
THEOREM MessagesAddUp == Spec => []TotalsAgree
<1>1. CountsInv => TotalsAgree
  <2> SUFFICES ASSUME CountsInv, NEW f \in Counts
               PROVE  LET local == SumOver([n \in Nodes |-> task[n].count[f]])
                      IN  /\ local <= counters[f]
                          /\ (\A n \in Nodes : task[n].pc = "done") => local = counters[f]
    BY DEF TotalsAgree
  <2> DEFINE local == [n \in Nodes |-> task[n].count[f]]
             page == Everywhere(f)
  <2>1. local \in [Nodes -> Int] /\ page \in [Nodes -> Int] /\ \A n \in Nodes : local[n] <= page[n]
    BY DEF CountsInv, InOrder, Tasks, Everywhere
  <2>2. counters[f] = SumOver(page)
    BY DEF CountsInv
  <2>3. (\A n \in Nodes : task[n].pc = "done") => local = page
    BY DEF CountsInv, InOrder, Everywhere
  <2> HIDE DEF page
  <2>4. SumOver(local) <= SumOver(page)
    <3> HIDE DEF local
    <3>1. QED
      BY <2>1, MaintainAssumption, SumMonotonic
  <2>5. QED
    BY <2>2, <2>3, <2>4
<1>2. QED
  BY <1>1, CountsInvariant, PTL

\* When all nodes are done, every key that was scanned has been counted as a success,
\* as skipped or as an error, and only once.
THEOREM ScannedAreAccountedFor == Spec => []EveryKeyCounted
<1>1. CountsInv => EveryKeyCounted
  <2> SUFFICES ASSUME CountsInv, \A n \in Nodes : task[n].pc = "done", ~Excused
               PROVE  counters.scanned = counters.success + counters.skipped + counters.errored
    BY DEF EveryKeyCounted, Excused
  <2> DEFINE S == Everywhere("success")
             K == Everywhere("skipped")
             E == Everywhere("errored")
             SK == [n \in Nodes |-> S[n] + K[n]]
             SKE == [n \in Nodes |-> SK[n] + E[n]]
  <2>1. "scanned" \in Counts /\ "success" \in Counts /\ "skipped" \in Counts /\ "errored" \in Counts
    BY CountsAre
  <2>2. S \in [Nodes -> Int] /\ K \in [Nodes -> Int] /\ E \in [Nodes -> Int]
    BY <2>1 DEF CountsInv, InOrder, Tasks, Everywhere
  <2>3. Everywhere("scanned") = SKE
    <3>1. ASSUME NEW n \in Nodes PROVE Everywhere("scanned")[n] = SKE[n]
      <4>1. InOrder(task[n], Excused) /\ task[n].pc = "done" /\ ~Excused
        BY DEF CountsInv
      <4>2. Balanced(task[n]) /\ task[n].sent = {} /\ DOMAIN task[n].batch = {}
        BY <4>1 DEF InOrder
      <4>3. task[n].page["scanned"] = task[n].page["success"] + task[n].page["skipped"]
                                      + task[n].page["errored"]
        <5>1. \A f \in Counts : task[n].page[f] \in Nat
          BY <4>1 DEF InOrder, Tasks
        <5>2. QED
          BY <2>1, <4>2, <5>1, FS_EmptySet DEF Balanced
      <4>4. QED
        BY <4>3 DEF Everywhere
    <3>2. QED
      BY <3>1 DEF Everywhere
  <2> HIDE DEF S, K, E
  <2>4. SK \in [Nodes -> Int]
    BY <2>2
  <2>5. SumOver(SK) = SumOver(S) + SumOver(K)
    BY <2>2, MaintainAssumption, SumPlus
  <2> HIDE DEF SK
  <2>6. SumOver(SKE) = SumOver(SK) + SumOver(E)
    BY <2>2, <2>4, MaintainAssumption, SumPlus
  <2> HIDE DEF SKE
  <2>7. counters["scanned"] = counters["success"] + counters["skipped"] + counters["errored"]
    BY <2>1, <2>3, <2>5, <2>6 DEF CountsInv, S, K, E
  <2>8. QED
    BY <2>7
<1>2. QED
  BY <1>1, CountsInvariant, PTL
=============================================================================
