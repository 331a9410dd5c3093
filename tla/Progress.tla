------------------------------ MODULE Progress ------------------------------
(***************************************************************************)
(* The progress display: a bar per node behind one mutex, which the task   *)
(* of the node and two helpers it spawns update.  --min-refresh-delay      *)
(* drops updates of a bar that come too soon; finish is never dropped.     *)
(*                                                                         *)
(* Time passes in ticks, as many as it likes between two steps.  Instants  *)
(* are kept as the time since or until then, no further back than the      *)
(* refresh delay, beyond which nothing makes a difference.  Formatting and *)
(* the line of totals, which a helper of its own copies from the Counters  *)
(* every second, are not modelled.                                         *)
(*                                                                         *)
(* An operator whose name ends in _Fault is a plausible bug in the one     *)
(* that follows it; nothing uses it but the mutation runs.                 *)
(***************************************************************************)
EXTENDS Integers, FiniteSets

CONSTANTS Nodes,
          Quiet, Refresh, Delay,   \* the values --quiet, --min-refresh-delay
                                   \* (0 if absent) and --delay can have
          Estimates,               \* what DBSIZE can return, of every node
          MaxPages                 \* bounds the pages of each node, of a key each

ASSUME ProgressAssumption ==
  /\ Quiet \subseteq BOOLEAN /\ Refresh \subseteq Nat /\ Delay \subseteq Nat
  /\ Estimates \in [Nodes -> SUBSET Nat] /\ MaxPages \in [Nodes -> Nat \ {0}]

VARIABLES
  argv,       \* quiet, refresh, delay: argv and the globals it sets
  bars,       \* ServerBars::bars
  updated,    \* ServerBars::updated, as the time since
  task,       \* the state of the task of every node
  helpers,    \* the helpers of every node that run
  aborted,    \* the nodes whose helpers have been aborted
  shown       \* history: the time since a bar was last added or updated

display == <<bars, updated, shown>>
vars == <<argv, display, task, helpers, aborted>>

NewTask == [pc    |-> "connect",
            local |-> 0,        \* local_scanned, and the pages so far
            more  |-> TRUE,     \* page.has_more()
            sleep |-> 0,        \* the rest of its sleep
            gap   |-> 0]        \* history: how old what its bar showed was when
                                \* it last had something to show

None == [n \in {} |-> 0]

\* set_globals
Init == /\ argv \in [quiet : Quiet, refresh : Refresh, delay : Delay]
        /\ bars = None /\ updated = None /\ shown = None
        /\ task = [n \in Nodes |-> NewTask]
        /\ helpers = [n \in Nodes |-> {}] /\ aborted = {}

With(f, n, v) == [m \in DOMAIN f \cup {n} |-> IF m = n THEN v ELSE f[m]]
-----------------------------------------------------------------------------
\* The methods of ServerBars and Progress, as parts of the actions that call
\* them.  All return at once when output is quiet.

Due_Fault(n) == \/ argv.refresh = 0
                \/ n \in DOMAIN updated /\ updated[n] >= argv.refresh \div 2

\* should_update
Due(n) == \/ argv.refresh = 0
          \/ n \in DOMAIN updated /\ updated[n] >= argv.refresh

TryUpdateBar_Fault(n, bar) ==    \* a dropped update puts off the next one
  /\ bars' = IF Due(n) /\ n \in DOMAIN bars THEN With(bars, n, bar) ELSE bars
  /\ updated' = IF argv.refresh > 0 THEN With(updated, n, 0) ELSE updated
  /\ shown' = IF Due(n) /\ n \in DOMAIN bars THEN With(shown, n, 0) ELSE shown

TryUpdateBar(n, bar) ==
  /\ bars' = IF Due(n) /\ n \in DOMAIN bars THEN With(bars, n, bar) ELSE bars
  /\ updated' = IF argv.refresh > 0 /\ (Due(n) \/ n \notin DOMAIN updated)
                THEN With(updated, n, 0) ELSE updated
  /\ shown' = IF Due(n) /\ n \in DOMAIN bars THEN With(shown, n, 0) ELSE shown

\* update, with a position and without one
UpdateTo(n, message, position) ==
  IF argv.quiet THEN UNCHANGED display
  ELSE TryUpdateBar(n, [bars[n] EXCEPT !.message = message, !.position = position])

UpdateMessage(n, message) ==
  IF argv.quiet THEN UNCHANGED display
  ELSE TryUpdateBar(n, [bars[n] EXCEPT !.message = message])

AddServer_Fault(n, estimate) ==    \* also when output is quiet
  /\ bars' = With(bars, n, [length |-> estimate, position |-> 0,
                            message |-> "", finished |-> FALSE])
  /\ updated' = With(updated, n, 0)
  /\ shown' = With(shown, n, 0)

AddServer(n, estimate) ==
  IF argv.quiet THEN UNCHANGED display
  ELSE /\ bars' = With(bars, n, [length |-> estimate, position |-> 0,
                                 message |-> "", finished |-> FALSE])
       /\ updated' = With(updated, n, 0)
       /\ shown' = With(shown, n, 0)

Finish_Fault(n, message) ==    \* an update, which may be dropped
  IF argv.quiet THEN UNCHANGED display
  ELSE TryUpdateBar(n, [bars[n] EXCEPT !.message = message, !.finished = TRUE,
                                       !.position = bars[n].length])

\* finish_with_message also fills the bar.
Finish(n, message) ==
  IF argv.quiet THEN UNCHANGED display
  ELSE /\ bars' = [bars EXCEPT ![n] = [@ EXCEPT !.message = message, !.finished = TRUE,
                                                !.position = bars[n].length]]
       /\ UNCHANGED <<updated, shown>>
-----------------------------------------------------------------------------
\* The task of a node, from the end of one await to the next

\* What the task's counts and its bar have to do with each other is recorded
\* where the task shows them.
Showing(n, a) == [a EXCEPT !.pc = "scan",
                           !.gap = IF n \in DOMAIN shown THEN shown[n] ELSE 0]

\* Connecting fails, or the node gets its bar and its helpers.
Connect(n) ==
  /\ task[n].pc = "connect"
  /\ \/ /\ task' = [task EXCEPT ![n].pc = "ended"]
        /\ UNCHANGED <<display, helpers>>
     \/ /\ task' = [task EXCEPT ![n].pc = "scan"]
        /\ \E e \in Estimates[n] : AddServer(n, e)
        /\ helpers' = [helpers EXCEPT ![n] = {"estimate", "events"}]
  /\ UNCHANGED <<argv, aborted>>

\* Whether the loop says that it sleeps before it does.
SaysSleeping == argv.delay > argv.refresh \div 2

\* A page and its replies are there; the loop sleeps or goes on.
FetchPage(n) ==
  /\ task[n].pc = "scan" /\ task[n].more
  /\ \E more \in BOOLEAN :
       LET a == [task[n] EXCEPT !.more = more, !.local = @ + 1]
       IN  /\ more => a.local < MaxPages[n]
           /\ IF more /\ argv.delay > 0
              THEN /\ task' = [task EXCEPT ![n] = [a EXCEPT !.pc = "sleep",
                                                            !.sleep = argv.delay]]
                   /\ IF SaysSleeping THEN UpdateTo(n, "sleeping", a.local)
                                      ELSE UNCHANGED display
              ELSE /\ task' = [task EXCEPT ![n] = Showing(n, a)]
                   /\ UpdateTo(n, "counts", a.local)
  /\ UNCHANGED <<argv, helpers, aborted>>

WakeUp(n) ==
  /\ task[n].pc = "sleep" /\ task[n].sleep = 0
  /\ task' = [task EXCEPT ![n] = Showing(n, @)]
  /\ UpdateTo(n, "counts", task[n].local)
  /\ UNCHANGED <<argv, helpers, aborted>>

\* The loop ends after the last page, or before it with an error.
Outcome(n) == IF task[n].more THEN "errored" ELSE "finished"

EndScan(n) ==
  /\ task[n].pc = "scan"
  /\ task' = [task EXCEPT ![n].pc = "finish"]
  /\ Finish(n, Outcome(n))
  /\ UNCHANGED <<argv, helpers, aborted>>

Abort_Fault(n) ==    \* of a scan that did not fail
  /\ task[n].pc = "finish"
  /\ task' = [task EXCEPT ![n].pc = "ended"]
  /\ aborted' = IF task[n].more THEN aborted ELSE aborted \cup {n}
  /\ UNCHANGED <<argv, display, helpers>>

\* scan_node has returned, with or without an error.
Abort(n) ==
  /\ task[n].pc = "finish"
  /\ task' = [task EXCEPT ![n].pc = "ended"]
  /\ aborted' = aborted \cup {n}
  /\ UNCHANGED <<argv, display, helpers>>

Task(n) == Connect(n) \/ FetchPage(n) \/ WakeUp(n) \/ EndScan(n) \/ Abort(n)
-----------------------------------------------------------------------------
\* The helpers.  One that is aborted ends where it awaits next.

UpdateEstimate(n) ==
  /\ "estimate" \in helpers[n] /\ ~argv.quiet
  /\ \E e \in Estimates[n] : bars' = [bars EXCEPT ![n].length = e]
  /\ UNCHANGED <<argv, updated, shown, task, helpers, aborted>>

\* A disconnection, a reconnection or an unresponsive connection; when output is
\* quiet it is logged instead.
Event(n) ==
  /\ "events" \in helpers[n] /\ ~argv.quiet
  /\ UpdateMessage(n, "event")
  /\ UNCHANGED <<argv, task, helpers, aborted>>

\* The estimate's ends as well when a DBSIZE fails.
HelperEnds(n, h) ==
  /\ h \in helpers[n]
  /\ n \in aborted \/ h = "estimate"
  /\ helpers' = [helpers EXCEPT ![n] = @ \ {h}]
  /\ UNCHANGED <<argv, display, task, aborted>>

Older(age) == IF age < argv.refresh THEN age + 1 ELSE age

Tick ==
  /\ updated' = [n \in DOMAIN updated |-> Older(updated[n])]
  /\ shown' = [n \in DOMAIN shown |-> Older(shown[n])]
  /\ task' = [n \in Nodes |->
                [task[n] EXCEPT !.sleep = IF @ = 0 THEN 0 ELSE @ - 1]]
  /\ UNCHANGED <<argv, bars, helpers, aborted>>

StopHelpers(n) == n \in aborted /\ \E h \in {"estimate", "events"} : HelperEnds(n, h)

Next == \/ \E n \in Nodes : \/ Task(n) \/ UpdateEstimate(n) \/ Event(n)
                            \/ \E h \in {"estimate", "events"} : HelperEnds(n, h)
        \/ Tick

\* A task that has something to do does it, and the runtime ends what was
\* aborted.  Nothing is assumed of servers, events and time.
Spec == /\ Init /\ [][Next]_vars
        /\ \A n \in Nodes : WF_vars(Abort(n)) /\ WF_vars(StopHelpers(n))
-----------------------------------------------------------------------------
Messages == {"", "counts", "sleeping", "event", "finished", "errored"}

\* The type invariant.
TypeOK ==
  /\ argv \in [quiet : Quiet, refresh : Refresh, delay : Delay]
  /\ DOMAIN bars \subseteq Nodes /\ DOMAIN updated = DOMAIN bars
  /\ DOMAIN shown = DOMAIN bars
  /\ argv.quiet => DOMAIN bars = {}
  /\ \A n \in DOMAIN bars : /\ bars[n].length \in Estimates[n] /\ bars[n].position \in Nat
                            /\ bars[n].message \in Messages
                            /\ updated[n] \in 0 .. argv.refresh
                            /\ shown[n] \in 0 .. argv.refresh
  /\ task \in [Nodes -> [pc : {"connect", "scan", "sleep", "finish", "ended"},
                         local : Nat, more : BOOLEAN,
                         sleep : 0 .. argv.delay, gap : 0 .. argv.refresh]]
  /\ helpers \in [Nodes -> SUBSET {"estimate", "events"}]
  /\ aborted \subseteq Nodes

\* While a node is scanned its bar shows the keys scanned so far, unless the bar
\* had changed less than the refresh delay before: updates that are dropped, and
\* those of other nodes, never put off the next one.
BarsKeepUp ==
  \A n \in DOMAIN bars :
    task[n].pc = "scan" => \/ bars[n].position = task[n].local
                           \/ task[n].gap < argv.refresh

\* argv.rs:81: "Set a minimum refresh delay between progress bar updates".  What the
\* scan and the events write keeps it, for as long as the node is scanned.  The
\* estimates do not: update_estimate has no throttle, so the length of a bar, and the
\* percentage with it, changes at any time; but nothing else does then.
OnlyEstimatesHurry ==
  [][\A n \in DOMAIN bars :
       bars'[n] # bars[n] /\ ~bars'[n].finished /\ shown[n] < argv.refresh =>
         bars'[n].message = bars[n].message /\ bars'[n].position = bars[n].position]_vars

\* What is left on the bar of a node is how its scan ended: the throttle never
\* swallows it.  Only an event between finish and abort can replace the message.
OutcomeStays ==
  \A n \in DOMAIN bars :
    task[n].pc \in {"finish", "ended"} =>
      bars[n].finished /\ bars[n].message \in {Outcome(n), "event"}

\* No helper outlives its node, failed or not.
HelpersEnd == \A n \in Nodes : task[n].pc = "finish" ~> helpers[n] = {}
=============================================================================
