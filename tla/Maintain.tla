------------------------------ MODULE Maintain ------------------------------
(***************************************************************************)
(* The commands that act on keys and report no rows, touch and expire: one *)
(* task per node scans its keys and sends TOUCH or EXPIRE for what the     *)
(* regular expressions leave of a page; the tasks share the Counters the   *)
(* progress display shows, and each keeps counts of its own for the        *)
(* message that ends its node.                                             *)
(*                                                                         *)
(* An operator whose name ends in _Fault is a plausible bug in the one     *)
(* that follows it; nothing uses it but the mutation runs.                 *)
(***************************************************************************)
EXTENDS ScanServer, Functions

CONSTANTS Nodes,
          Keys,         \* the keys that match --pattern
          Home,         \* the node each key is stored on
          Slot,         \* the hash slot of each key
          Qualifier,    \* --qualifier is given, of expire
          MaxRemovals   \* bounds the keys that disappear

ASSUME MaintainAssumption ==
  /\ IsFiniteSet(Nodes) /\ IsFiniteSet(Keys)
  /\ Home \in [Keys -> Nodes] /\ DOMAIN Slot = Keys
  /\ Qualifier \in BOOLEAN /\ MaxRemovals \in Nat

VARIABLES
  argv,          \* the command and --ignore; "dry-run" is expire without --really
  present,       \* the keys that exist
  task,          \* the state of the task of every node
  counters,      \* the shared Counters
  phase,         \* of main
  \* history variables
  asked,         \* the keys a TOUCH or EXPIRE was executed on
  removed,       \* the keys that disappeared
  missed,        \* the keys the environment's faults cost
  interrupted    \* main stopped waiting

history == <<removed, interrupted>>
vars    == <<argv, present, task, counters, phase, asked, missed, history>>

NewTask == [pc    |-> "connect",
            seen  |-> {},                  \* the keys SCAN has returned
            pages |-> 0,
            more  |-> TRUE,                \* page.has_more()
            sent  |-> {},                  \* the keys of the pipeline
            batch |-> [k \in {} |-> TRUE], \* the results not handled yet: is it Ok?
            page  |-> NoCounts,            \* the counts inside the closure
            count |-> NoCounts]            \* local_scanned, local_success, ...

Init == /\ argv \in [command : {"touch", "expire", "dry-run"}, ignore : BOOLEAN]
        /\ present = Keys
        /\ task = [n \in Nodes |-> NewTask]
        /\ counters = NoCounts
        /\ phase = "wait"
        /\ asked = {} /\ removed = {} /\ missed = {}
        /\ interrupted = FALSE
-----------------------------------------------------------------------------
Ready(n, pc) == task[n].pc = pc /\ phase = "wait"

Own(n) == {k \in Keys : Home[k] = n}
Unseen(n) == Own(n) \ task[n].seen

\* Counter::incr_*, and the closure's own count with it
Add(c, field, amount) == [c EXCEPT ![field] = @ + amount]

Commit_Fault(a) == [a EXCEPT !.pc = NextPage(a)]    \* forgets the page

\* The closure returns Ok and scan_server takes over its counts.
Commit(a) == [a EXCEPT !.pc = NextPage(a), !.count = a.page]

\* A task ends with an error, or goes on as if nothing had happened.
Failing(a) == IF argv.ignore THEN Commit(a) ELSE [a EXCEPT !.pc = "failed"]
CostOfFailing(n) == IF argv.ignore THEN {} ELSE Unseen(n)

Connect(n) ==
  /\ Ready(n, "connect")
  /\ \/ /\ task' = [task EXCEPT ![n].pc = "scan"]
        /\ UNCHANGED missed
     \/ /\ "connect" \in Faults
        /\ task' = [task EXCEPT ![n].pc = "failed"]
        /\ missed' = missed \cup Unseen(n)
  /\ UNCHANGED <<argv, present, counters, phase, asked, history>>

\* The closure's work on the counts of a page of which kept is left.
Scanned(c, page, kept) ==
  Add(Add(c, "scanned", Cardinality(page)), "skipped", Cardinality(page \ kept))

FetchPage_Fault(n) ==    \* sends an empty pipeline
  /\ Ready(n, "scan")
  /\ \E page \in Pages(present \cap Own(n), task[n].seen, task[n].pages) :
       LET kept == {k \in page.keys : ~ShouldSkip(k)}
       IN  /\ task' = [task EXCEPT ![n].seen = @ \cup page.keys,
                                   ![n].pages = @ + 1,
                                   ![n].more = page.more,
                                   ![n].sent = kept,
                                   ![n].page = Scanned(@, page.keys, kept),
                                   ![n].pc = "reply"]
           /\ counters' = Scanned(counters, page.keys, kept)
  /\ UNCHANGED <<argv, present, phase, asked, missed, history>>

\* try_next returns a page and the closure runs to its end, or to its pipeline.
\* A dry run counts every key as a success.
FetchPage(n) ==
  /\ Ready(n, "scan")
  /\ \E page \in Pages(present \cap Own(n), task[n].seen, task[n].pages) :
       LET kept == {k \in page.keys : ~ShouldSkip(k)}
           Counted(c) ==
             Add(Scanned(c, page.keys, kept), "success",
                 IF argv.command = "dry-run" THEN Cardinality(kept) ELSE 0)
           a == [task[n] EXCEPT !.seen = @ \cup page.keys,
                                !.pages = @ + 1,
                                !.more = page.more,
                                !.page = Counted(@)]
       IN  /\ task' = [task EXCEPT
                         ![n] = IF kept = {} \/ argv.command = "dry-run" THEN Commit(a)
                                ELSE [a EXCEPT !.pc = "reply", !.sent = kept]]
           /\ counters' = Counted(counters)
  /\ UNCHANGED <<argv, present, phase, asked, missed, history>>

\* try_next fails: the iteration is over.
ScanError(n) ==
  /\ Ready(n, "scan")
  /\ "scan" \in Faults
  /\ task' = [task EXCEPT ![n].pc = IF argv.ignore THEN "done" ELSE "failed"]
  /\ missed' = missed \cup Unseen(n)
  /\ UNCHANGED <<argv, present, counters, phase, asked, history>>
-----------------------------------------------------------------------------
\* TOUCH: one command per hash slot, whose keys it counts.

Groups_Fault(ks) ==    \* a slot's last key replaces the others
  {{CHOOSE k \in ks : Slot[k] = s} : s \in {Slot[k] : k \in ks}}

\* group_by_hash_slot
Groups(ks) == {{k \in ks : Slot[k] = s} : s \in {Slot[k] : k \in ks}}

TouchReplies(n) ==
  /\ Ready(n, "reply") /\ argv.command = "touch"
  /\ LET groups == Groups(task[n].sent)
         count  == SumOver([g \in groups |-> Cardinality(g \cap present)])
         a      == [task[n] EXCEPT !.sent = {}, !.page = Add(@, "success", count)]
     IN  /\ task' = [task EXCEPT ![n] = Commit(a)]
         /\ counters' = Add(counters, "success", count)
         /\ asked' = asked \cup ((UNION groups) \cap present)
  /\ UNCHANGED <<argv, present, phase, missed, history>>

\* pipeline.all returns an error, whatever part of it was executed.
TouchError(n) ==
  /\ Ready(n, "reply") /\ argv.command = "touch"
  /\ "pipeline" \in Faults
  /\ \E groups \in SUBSET Groups(task[n].sent) :
       asked' = asked \cup ((UNION groups) \cap present)
  /\ missed' = missed \cup task[n].sent \cup CostOfFailing(n)
  /\ task' = [task EXCEPT ![n] = Failing([@ EXCEPT !.sent = {}])]
  /\ UNCHANGED <<argv, present, counters, phase, history>>
-----------------------------------------------------------------------------
\* EXPIRE: one command and one result per key.

\* The key an EXPIRE is about: the qualified form leaves it out of the
\* arguments, and the server refuses what is left of them.
Subjects(ks) == IF Qualifier THEN {} ELSE ks

\* try_all: the commands of bad fail, of which those of lost are executed all
\* the same.  EXPIRE replies 0, which is no error, of a key that is gone.
ExpireReplies(n) ==
  /\ Ready(n, "reply") /\ argv.command = "expire"
  /\ \E bad \in SUBSET task[n].sent : \E lost \in SUBSET bad :
       LET executed == Subjects((task[n].sent \ bad) \cup lost)
           failed   == bad \cup (task[n].sent \ Subjects(task[n].sent))
       IN  /\ bad # {} => "reply" \in Faults
           /\ asked' = asked \cup (executed \cap present)
           /\ missed' = missed \cup (bad \ lost)
           /\ task' = [task EXCEPT ![n].pc = "count",
                                   ![n].sent = {},
                                   ![n].batch = [k \in task[n].sent |-> k \notin failed]]
  /\ UNCHANGED <<argv, present, counters, phase, history>>

\* An iteration of the loop over the results.
CountSuccess(n, k) ==
  /\ Ready(n, "count")
  /\ k \in DOMAIN task[n].batch /\ task[n].batch[k]
  /\ LET rest == Restrict(task[n].batch, DOMAIN task[n].batch \ {k})
         a    == [task[n] EXCEPT !.batch = rest, !.page = Add(@, "success", 1)]
     IN  task' = [task EXCEPT ![n] = IF DOMAIN rest = {} THEN Commit(a) ELSE a]
  /\ counters' = Add(counters, "success", 1)
  /\ UNCHANGED <<argv, present, phase, asked, missed, history>>

CountError_Fault(n, k) ==    \* an ignored error is not counted
  /\ Ready(n, "count")
  /\ k \in DOMAIN task[n].batch /\ ~task[n].batch[k]
  /\ LET rest == Restrict(task[n].batch, DOMAIN task[n].batch \ {k})
         a    == [task[n] EXCEPT !.batch = rest]
     IN  task' = [task EXCEPT ![n] = IF DOMAIN rest = {} THEN Commit(a) ELSE a]
  /\ UNCHANGED <<argv, present, counters, phase, asked, missed, history>>

\* The first error ends the task, and with it the counting of its page, unless
\* errors are ignored.
CountError(n, k) ==
  /\ Ready(n, "count")
  /\ k \in DOMAIN task[n].batch /\ ~task[n].batch[k]
  /\ LET rest == IF argv.ignore
                 THEN Restrict(task[n].batch, DOMAIN task[n].batch \ {k})
                 ELSE NewTask.batch
         a    == [task[n] EXCEPT !.batch = rest, !.page = Add(@, "errored", 1)]
     IN  task' = [task EXCEPT ![n] = IF DOMAIN rest = {} THEN Failing(a) ELSE a]
  /\ counters' = Add(counters, "errored", 1)
  /\ missed' = missed \cup CostOfFailing(n)
  /\ UNCHANGED <<argv, present, phase, asked, history>>

Task(n) == \/ Connect(n) \/ FetchPage(n) \/ ScanError(n)
           \/ TouchReplies(n) \/ TouchError(n)
           \/ ExpireReplies(n) \/ \E k \in Keys : CountSuccess(n, k) \/ CountError(n, k)
-----------------------------------------------------------------------------
\* main: there is nothing to print when the wait is over.
WaitDone ==
  /\ phase = "wait"
  /\ \A n \in Nodes : task[n].pc \in {"done", "failed"}
  /\ phase' = "exited"
  /\ UNCHANGED <<argv, present, task, counters, asked, missed, history>>

Interrupt ==
  /\ phase = "wait"
  /\ "interrupt" \in Faults
  /\ phase' = "exited"
  /\ interrupted' = TRUE
  /\ UNCHANGED <<argv, present, task, counters, asked, missed, removed>>

\* A key expires or is deleted.
Remove(k) ==
  /\ phase = "wait"
  /\ Cardinality(removed) < MaxRemovals
  /\ k \in present
  /\ present' = present \ {k}
  /\ removed' = removed \cup {k}
  /\ UNCHANGED <<argv, task, counters, phase, asked, missed, interrupted>>

Next == \/ \E n \in Nodes : Task(n)
        \/ WaitDone \/ Interrupt
        \/ \E k \in Keys : Remove(k)

Spec == Init /\ [][Next]_vars
-----------------------------------------------------------------------------
Counts == DOMAIN NoCounts

TaskType(a) ==
  /\ a.pc \in {"connect", "scan", "reply", "count", "done", "failed"}
  /\ a.seen \subseteq Keys
  /\ a.pages \in 0 .. MaxPages /\ a.more \in BOOLEAN
  /\ a.sent \subseteq Keys /\ (a.pc = "reply") = (a.sent # {})
  /\ DOMAIN a.batch \subseteq Keys /\ (a.pc = "count") = (DOMAIN a.batch # {})
  /\ \A c \in Counts : a.page[c] \in Nat /\ a.count[c] \in 0 .. a.page[c]

\* The type invariant.
TypeOK == /\ argv \in [command : {"touch", "expire", "dry-run"}, ignore : BOOLEAN]
          /\ present = Keys \ removed /\ removed \subseteq Keys
          /\ DOMAIN task = Nodes /\ \A n \in Nodes : TaskType(task[n])
          /\ \A c \in Counts : counters[c] \in Nat
          /\ phase \in {"wait", "exited"}
          /\ asked \subseteq Keys /\ missed \subseteq Keys
          /\ interrupted \in BOOLEAN

\* No key is touched or expired that the regular expressions exclude.  Not so with
\* an expression that is none: it is dropped, and every key taken for wanted.
OnlyWanted == asked \subseteq Selected(Keys)

\* argv.rs:72, of --filter: "Keys that do not match will be skipped before any
\* subsequent operations are performed."  What expire --really does to the others
\* cannot be undone.
ExpiresOnlyWanted == argv.command = "expire" => OnlyWanted

\* A run that was not cut short has acted on every key that was there all the
\* time, is wanted and was not hit by a fault: whatever happened to the other
\* commands of its pipeline, to other pages and to other nodes.
EveryKeyReached ==
  phase = "exited" /\ ~interrupted /\ argv.command # "dry-run" =>
    Selected(Keys) \subseteq asked \cup removed \cup missed

\* A run without fatal errors accounts for every key it scanned, once: also for
\* failed EXPIREs that are ignored and for keys that are gone by then.  TOUCH
\* counts neither, so there it holds of runs without such keys.
EveryKeyCounted ==
  /\ \A n \in Nodes : task[n].pc = "done"
  /\ argv.command = "touch" => removed \cup missed = {}
  => counters.scanned = counters.success + counters.skipped + counters.errored

\* The shared counters and the messages of the nodes are about the same keys:
\* they agree when all nodes are done, and before, or if nodes fail, the
\* counters are ahead.
TotalsAgree ==
  \A c \in Counts :
    LET local == SumOver([n \in Nodes |-> task[n].count[c]])
    IN  /\ local <= counters[c]
        /\ (\A n \in Nodes : task[n].pc = "done") => local = counters[c]
=============================================================================
