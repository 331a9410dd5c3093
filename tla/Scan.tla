-------------------------------- MODULE Scan --------------------------------
(***************************************************************************)
(* A command at work: one task per node connects, runs the SCAN loop of    *)
(* utils::scan_server, sends a pipeline of one command per key of a page   *)
(* and puts what the replies say into the counters, the total and the      *)
(* queue that all tasks share; main waits for the tasks or for ctrl-c and  *)
(* prints the report.  Servers and other clients are the environment.      *)
(*                                                                         *)
(* A step of a task ends where it awaits, or between two of its accesses   *)
(* to what it shares with the other tasks and with main.                   *)
(*                                                                         *)
(* An operator whose name ends in _Fault is a plausible bug in the one     *)
(* that follows it; nothing uses it but the mutation runs.                 *)
(***************************************************************************)
EXTENDS Commands, ScanServer

CONSTANTS Sort,
          Nodes,
          Keys,         \* the keys that match --pattern
          Home,         \* the node each key is stored on
          Values,       \* what a server can reply of an existing key
          Ignore,       \* the values --ignore can have
          MaxWrites     \* bounds the writes of other clients

ASSUME ScanAssumption ==
  /\ Sort \in {"asc", "desc"}
  /\ Keys \subseteq Int /\ IsFiniteSet(Keys)
  /\ Values \subseteq Int64 /\ Nil \notin Int
  /\ Command = "ttl" => \A v \in Values : v >= -1
  /\ Home \in [Keys -> Nodes] /\ IsFiniteSet(Nodes)
  /\ DOMAIN GroupOf \subseteq Keys /\ Range(GroupOf) \subseteq Int \ Keys
  /\ Ignore \subseteq BOOLEAN /\ MaxWrites \in Nat

VARIABLES
  ignore,        \* --ignore
  db,            \* the keyspace of all nodes: a value or Nil for every key
  task,          \* the state of the task of every node
  total,         \* State::total_used
  q,             \* State::pqueue
  phase,         \* of main
  printedTotal,  \* the total print_* read
  results,       \* what State::take returned, as <<identity, weight>>
  rows,          \* the part of it that is printed
  \* history variables
  writes,        \* the number of writes of other clients
  db0,           \* the keyspace at the start
  touched,       \* the keys other clients wrote to
  had,           \* what every key has been while nobody but them wrote to it
  interrupted    \* main stopped waiting

shared  == <<total, q>>
main    == <<phase, printedTotal, results, rows, interrupted>>
env     == <<ignore, writes, db0, touched, had>>
vars    == <<db, task, shared, main, env>>

PQ == INSTANCE PQueueOps WITH MaxSize <- QueueSize, Merge <- MergeOf

NewTask == [pc    |-> "connect",
            seen  |-> {},                  \* the keys SCAN has returned
            pages |-> 0,
            more  |-> TRUE,                \* page.has_more()
            sent  |-> {},                  \* the keys of the pipeline
            batch |-> [k \in {} |-> Nil],  \* the replies not handled yet
            key   |-> Nil,                 \* the one whose value is in the total
            count |-> NoCounts,
            missed |-> {}]                 \* history: the keys an error cost it

Init == /\ db \in [Keys -> Values]
        /\ task = [n \in Nodes |-> NewTask]
        /\ total = 0
        /\ q = PQ!New
        /\ phase = "wait"
        /\ printedTotal = 0
        /\ results = << >> /\ rows = << >>
        /\ ignore \in Ignore
        /\ writes = 0 /\ db0 = db /\ touched = {}
        /\ had = [k \in Keys |-> {db[k]}]
        /\ interrupted = FALSE
-----------------------------------------------------------------------------
\* The tasks.  They are gone when main has returned.

Ready(n, pc) == task[n].pc = pc /\ phase # "exited"

Present(n) == {k \in Keys : Home[k] = n /\ db[k] # Nil}

Unseen(n) == {k \in Keys : Home[k] = n} \ task[n].seen

\* build, init, check_readonly, dbsize: an error of any ends the task, --ignore
\* or not.
Connect(n) ==
  /\ Ready(n, "connect")
  /\ \/ task' = [task EXCEPT ![n].pc = "scan"]
     \/ /\ "connect" \in Faults
        /\ task' = [task EXCEPT ![n].pc = "failed", ![n].missed = Unseen(n)]
  /\ UNCHANGED <<db, shared, main, env>>

\* try_next returns a page, which the closure filters before it sends a
\* pipeline for what is left.
FetchPage(n) ==
  /\ Ready(n, "scan")
  /\ \E page \in Pages(Present(n), task[n].seen, task[n].pages) :
       LET kept    == {k \in page.keys : ~ShouldSkip(k)}
           skipped == Cardinality(page.keys \ kept)
           a       == [task[n] EXCEPT !.seen = @ \cup page.keys,
                                      !.pages = @ + 1,
                                      !.more = page.more,
                                      !.sent = kept,
                                      !.count.scanned = @ + Cardinality(page.keys),
                                      !.count.skipped = @ + skipped]
       IN  task' = [task EXCEPT ![n] =
                      [a EXCEPT !.pc = IF kept = {} THEN NextPage(a) ELSE "reply"]]
  /\ UNCHANGED <<db, shared, main, env>>

\* try_next fails: the iteration is over.
ScanError(n) ==
  /\ Ready(n, "scan")
  /\ "scan" \in Faults
  /\ task' = [task EXCEPT ![n].pc = IF ignore THEN "done" ELSE "failed",
                          ![n].missed = @ \cup Unseen(n)]
  /\ UNCHANGED <<db, shared, main, env>>

\* What the server says of a value: TTL has a number for a missing key too.
ReplyOf(v) == IF v = Nil /\ Command = "ttl" THEN -2 ELSE v

Reply(k) == ReplyOf(db[k])

Executed_Fault(ks) == db    \* GET whatever the arguments say

\* GETSET key 0 leaves a 0 behind, also where there was nothing.
Executed(ks) == [k \in Keys |-> IF Decr /\ k \in ks THEN 0 ELSE db[k]]

Replies_Fault(n) ==    \* the replies are handled in another order than the keys
  /\ Ready(n, "reply")
  /\ db' = Executed(task[n].sent)
  /\ \E order \in Bijection(task[n].sent, task[n].sent) :
       task' = [task EXCEPT ![n].pc = "store",
                            ![n].batch = [k \in task[n].sent |-> Reply(order[k])],
                            ![n].sent = {},
                            ![n].count.success = @ + Cardinality(task[n].sent)]
  /\ UNCHANGED <<shared, main, env>>

Replies(n) ==
  /\ Ready(n, "reply")
  /\ db' = Executed(task[n].sent)
  /\ task' = [task EXCEPT ![n].pc = "store",
                          ![n].batch = [k \in task[n].sent |-> Reply(k)],
                          ![n].sent = {},
                          ![n].count.success = @ + Cardinality(task[n].sent)]
  /\ UNCHANGED <<shared, main, env>>

\* pipeline.all returns an error, whatever part of it was executed.
PipelineError_Fault(n) ==    \* ends the scan although errors are ignored
  /\ Ready(n, "reply")
  /\ "pipeline" \in Faults
  /\ \E ks \in SUBSET task[n].sent : db' = Executed(ks)
  /\ task' = [task EXCEPT ![n].pc = IF ignore THEN "done" ELSE "failed",
                          ![n].sent = {},
                          ![n].missed = @ \cup task[n].sent]
  /\ UNCHANGED <<shared, main, env>>

PipelineError(n) ==
  /\ Ready(n, "reply")
  /\ "pipeline" \in Faults
  /\ \E ks \in SUBSET task[n].sent : db' = Executed(ks)
  /\ task' = [task EXCEPT ![n].pc = IF ignore THEN NextPage(task[n]) ELSE "failed",
                          ![n].sent = {},
                          ![n].missed = @ \cup task[n].sent
                                          \cup IF ignore THEN {} ELSE Unseen(n)]
  /\ UNCHANGED <<shared, main, env>>

\* The loop over the replies, a the task's state after reply k is handled.
Handled_Fault(a, k) ==    \* does not forget which value is in the total
  LET rest == Restrict(a.batch, DOMAIN a.batch \ {k})
  IN  [a EXCEPT !.batch = rest,
                !.pc = IF DOMAIN rest = {} THEN NextPage(a) ELSE "store"]

Handled(a, k) ==
  LET rest == Restrict(a.batch, DOMAIN a.batch \ {k})
  IN  [a EXCEPT !.batch = rest, !.key = Nil,
                !.pc = IF DOMAIN rest = {} THEN NextPage(a) ELSE "store"]

\* if let Some(..) fails
PassOver(n, k) ==
  /\ Ready(n, "store")
  /\ k \in DOMAIN task[n].batch /\ Ignores(task[n].batch[k])
  /\ task[n].key = Nil
  /\ task' = [task EXCEPT ![n] = Handled(@, k)]
  /\ UNCHANGED <<db, shared, main, env>>

\* incr_atomic(&state.total_used, value)
Tally(n, k) ==
  /\ Ready(n, "store")
  /\ HasTotal
  /\ k \in DOMAIN task[n].batch /\ ~Ignores(task[n].batch[k])
  /\ task[n].key = Nil
  /\ task' = [task EXCEPT ![n].key = k]
  /\ total' = total + (IF task[n].batch[k] > 0 THEN task[n].batch[k] ELSE 0)
  /\ UNCHANGED <<db, q, main, env>>

\* The key is skipped or its entry pushed.
Store_Fault(n, k) ==    \* pushes before the total has the value
  /\ Ready(n, "store")
  /\ k \in DOMAIN task[n].batch /\ ~Ignores(task[n].batch[k])
  /\ LET reply == task[n].batch[k]
     IN  /\ task' = [task EXCEPT ![n] = Handled(@, k)]
         /\ q' = IF Skips(k, reply) THEN q
                 ELSE PQ!PushOrUpdate(q, Identity(k), WeightOf(reply))
         /\ UNCHANGED <<db, total, main, env>>

Store(n, k) ==
  /\ Ready(n, "store")
  /\ k \in DOMAIN task[n].batch /\ ~Ignores(task[n].batch[k])
  /\ HasTotal => task[n].key = k
  /\ LET reply == task[n].batch[k]
     IN  /\ task' = [task EXCEPT
                       ![n] = [Handled(task[n], k) EXCEPT
                                 !.count.skipped = @ + IF Skips(k, reply) THEN 1 ELSE 0]]
         /\ q' = IF Skips(k, reply) THEN q
                 ELSE PQ!PushOrUpdate(q, Identity(k), WeightOf(reply))
  /\ UNCHANGED <<db, total, main, env>>

Task(n) == \/ Connect(n) \/ FetchPage(n) \/ ScanError(n)
           \/ Replies(n) \/ PipelineError(n)
           \/ \E k \in Keys : PassOver(n, k) \/ Tally(n, k) \/ Store(n, k)
-----------------------------------------------------------------------------
\* main

\* try_join_all: an error of one task is looked at when all have returned.
WaitDone_Fault ==    \* stops at the first error
  /\ phase = "wait"
  /\ \/ \E n \in Nodes : task[n].pc = "failed"
     \/ \A n \in Nodes : task[n].pc = "done"
  /\ phase' = IF HasTotal THEN "total" ELSE "take"
  /\ UNCHANGED <<db, task, shared, printedTotal, results, rows, interrupted, env>>

WaitDone_Fault2 ==    \* never returns after an error
  /\ phase = "wait"
  /\ \A n \in Nodes : task[n].pc = "done"
  /\ phase' = IF HasTotal THEN "total" ELSE "take"
  /\ UNCHANGED <<db, task, shared, printedTotal, results, rows, interrupted, env>>

WaitDone ==
  /\ phase = "wait"
  /\ \A n \in Nodes : task[n].pc \in {"done", "failed"}
  /\ phase' = IF HasTotal THEN "total" ELSE "take"
  /\ UNCHANGED <<db, task, shared, printedTotal, results, rows, interrupted, env>>

\* Ctrl-c wins the select: the tasks are neither awaited nor aborted.
Interrupt ==
  /\ phase = "wait"
  /\ "interrupt" \in Faults
  /\ phase' = IF HasTotal THEN "total" ELSE "take"
  /\ interrupted' = TRUE
  /\ UNCHANGED <<db, task, shared, printedTotal, results, rows, env>>

\* The first thing print_* does, where there is a total.
ReadTotal ==
  /\ phase = "total"
  /\ phase' = "take"
  /\ printedTotal' = total
  /\ UNCHANGED <<db, task, shared, results, rows, interrupted, env>>

\* State::take, moving or copying the queue, and the rows made of it.
Report_Fault ==    \* waits until no task shares the queue
  /\ phase = "take"
  /\ \A n \in Nodes : task[n].pc \in {"done", "failed"}
  /\ phase' = "print"
  /\ LET ids == PQ!IntoVec(q)
     IN  results' = [i \in DOMAIN ids |-> <<ids[i], q.index[ids[i]]>>]
  /\ rows' = Printed(results')
  /\ UNCHANGED <<db, task, shared, printedTotal, interrupted, env>>

Report ==
  /\ phase = "take"
  /\ phase' = "print"
  /\ LET ids == PQ!IntoVec(q)
     IN  results' = [i \in DOMAIN ids |-> <<ids[i], q.index[ids[i]]>>]
  /\ rows' = Printed(results')
  /\ UNCHANGED <<db, task, shared, printedTotal, interrupted, env>>

\* The output is written and main returns.
Exit == /\ phase = "print"
        /\ phase' = "exited"
        /\ UNCHANGED <<db, task, shared, printedTotal, results, rows, interrupted, env>>

Main == WaitDone \/ ReadTotal \/ Report \/ Exit

\* Another client, or an expiration, changes or removes a key.
OtherClient(k) ==
  /\ phase # "exited"
  /\ writes < MaxWrites
  /\ db[k] # Nil
  /\ \E v \in Values \cup {Nil} : /\ v # db[k]
                                 /\ db' = [db EXCEPT ![k] = v]
                                 /\ had' = [had EXCEPT ![k] = @ \cup {v}]
  /\ writes' = writes + 1
  /\ touched' = touched \cup {k}
  /\ UNCHANGED <<ignore, task, shared, main, db0>>

Next == (\E n \in Nodes : Task(n)) \/ Main \/ Interrupt \/ \E k \in Keys : OtherClient(k)

\* Nothing but the select it awaits keeps main waiting; nobody has to press
\* ctrl-c.
Spec == Init /\ [][Next]_vars /\ WF_vars(Main)

\* A server answers, or the client gives up on it and reports an error.
LiveSpec == Spec /\ \A n \in Nodes : WF_vars(Task(n))
-----------------------------------------------------------------------------
Replied == Values \cup {0, Nil} \cup (IF Command = "ttl" THEN {-2} ELSE {})

TaskType(a) ==
  /\ a.pc \in {"connect", "scan", "reply", "store", "done", "failed"}
  /\ a.seen \subseteq Keys /\ a.sent \subseteq Keys /\ a.missed \subseteq Keys
  /\ a.pages \in 0 .. MaxPages
  /\ a.more \in BOOLEAN
  /\ DOMAIN a.batch \subseteq Keys /\ Range(a.batch) \subseteq Replied
  /\ a.key \in DOMAIN a.batch \cup {Nil}
  /\ \A c \in DOMAIN NoCounts : a.count[c] \in Nat

\* The type invariant.
TypeOK ==
  /\ ignore \in Ignore
  /\ db \in [Keys -> Values \cup {0, Nil}]
  /\ DOMAIN task = Nodes /\ \A n \in Nodes : TaskType(task[n])
  /\ total \in Nat /\ printedTotal \in Nat
  /\ DOMAIN q.index \subseteq Keys \cup Range(GroupOf)
  /\ Range(q.index) \subseteq Int64
  /\ phase \in {"wait", "total", "take", "print", "exited"}
  /\ Range(results) \subseteq (Keys \cup Range(GroupOf)) \X Int64
  /\ Len(rows) <= Len(results)
  /\ writes \in 0 .. MaxWrites
  /\ interrupted \in BOOLEAN

Reported == phase \in {"print", "exited"}

\* The total is ahead of the queue at all times: a value is added to it before
\* its entry is pushed, so that no share of it exceeds the whole.
TotalAhead == total >= SumOver(q.index)

\* The weights of a report's rows add up to no more than the total it is printed
\* with, in whatever order tasks and main have got at the two.
RowsWithinTotal ==
  Reported => printedTotal >= SumOver([i \in DOMAIN rows |-> rows[i][2]])

\* serialize divides each by it, unless it is 0, and prints the result as a
\* percentage, which is then at most 100.
PartsOfWhole ==
  Reported /\ printedTotal > 0 => \A i \in DOMAIN rows : rows[i][2] <= printedTotal

\* A report that was not cut short has nothing that the total it is printed with
\* lacks.
PartsOfWholeUnlessInterrupted == interrupted \/ RowsWithinTotal

\* The keys a report that was not cut short must account for: those which were
\* there, unchanged, all the time, which the arguments do not exclude and which
\* no error of their node is to blame for: a failed pipeline costs its page, a
\* failed SCAN the keys it had not returned yet.
Wanted == {k \in Selected(Keys) \ touched :
             /\ k \notin task[Home[k]].missed
             /\ GroupBy /\ FilterMissing => k \in DOMAIN GroupOf
             /\ SkipMissing => db0[k] # -1}

Listed == {r[1] : r \in Range(results)}

\* Whatever happens to other nodes, to other keys and to other pages, every
\* such key is among the results or has lost its place to entries none of
\* which is worse.
NothingForgotten ==
  Reported /\ ~interrupted =>
    \A k \in Wanted : \/ k \in Listed
                      \/ k \in DOMAIN GroupOf /\ GroupOf[k] \in Listed
                      \/ /\ Len(results) = QueueSize
                         /\ \A r \in Range(results) : ~PQ!Better(db0[k], r[2])

\* A report on undisturbed nodes is exact when everything fits: every group, or
\* key, has the sum of its keys, on whatever nodes they are.
ExactTotals ==
  Reported /\ ~interrupted /\ touched = {} /\ (\A n \in Nodes : task[n].missed = {}) =>
    LET grouped == Wanted \cap DOMAIN GroupOf
        Members(g) == {k \in grouped : GroupOf[k] = g}
    IN  Range(results) = {<<k, db0[k]>> : k \in Wanted \ grouped}
                           \cup {<<g, SumOver(Restrict(db0, Members(g)))>> :
                                   g \in {GroupOf[k] : k \in grouped}}

\* The rows are the page of the true ranking that --limit and --offset ask for
\* (where that is well defined: no groups, every key returned once), with the
\* true values, although the queue never held more than Limit + Offset entries.
RowsAreThePage ==
  Reported /\ ~interrupted /\ touched = {} /\ (\A n \in Nodes : task[n].missed = {}) =>
    LET Rank(i) == Offset + i
        Enough  == Cardinality(Wanted) - Offset
    IN  /\ Len(rows) = IF Enough < 0 THEN 0 ELSE IF Enough < Limit THEN Enough ELSE Limit
        /\ \A i \in DOMAIN rows :
             /\ rows[i][2] = db0[rows[i][1]]
             /\ Cardinality({k \in Wanted : PQ!Better(db0[k], rows[i][2])}) < Rank(i)
             /\ Rank(i) <= Cardinality({k \in Wanted : ~PQ!Better(rows[i][2], db0[k])})

\* argv.rs:328: --decr is "to decrement counters by the value read".  So every
\* counter's value is in exactly one place: still on the server, in a reply not
\* yet handled, or in the total; also if SCAN returns it twice, as long as no
\* other client changes one.  It is not so when a pipeline fails: what it had
\* executed was zeroed and never read.
Unhandled(n) == Restrict(task[n].batch, {k \in DOMAIN task[n].batch :
                                            k # task[n].key /\ task[n].batch[k] # Nil})
CountedOnce ==
  touched = {} =>
    SumOver(db0) = SumOver(db) + total
                     + SumOver([n \in Nodes |-> SumOver(Unhandled(n))])

\* argv.rs:363, "Skip keys that do not have a TTL", of keys that expire or change
\* between their page and their command, and in any report, cut short or not:
\* every row of ttl and idle is the reply to its own key for a value that key has
\* had, and one the arguments do not skip.  So there is no -1 with --skip-missing,
\* but there is a -2 for a key that was gone when its TTL was asked for.
TrueOf(k, w) == \E v \in had[k] : /\ w = WeightOf(ReplyOf(v))
                                 /\ ~Ignores(ReplyOf(v)) /\ ~Skips(k, ReplyOf(v))
RowsTellTheTruth == ~HasTotal => \A r \in Range(rows) : TrueOf(r[1], r[2])

\* A report is printed in the end, whatever fails.
AlwaysReports == <>(phase = "exited")

\* After ctrl-c it is printed whether or not the tasks ever make progress.
InterruptReports == interrupted ~> phase = "exited"
=============================================================================
