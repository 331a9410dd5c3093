--------------------------- MODULE ProgressProofs ---------------------------
(***************************************************************************)
(* What the progress display guarantees for any nodes, any refresh delay,  *)
(* sleeps and estimates, and any number of pages and events.               *)
(***************************************************************************)
EXTENDS Progress, TLAPS

Bar == [length : Nat, position : Nat, message : Messages, finished : BOOLEAN]

Tasks == [pc : {"connect", "scan", "sleep", "finish", "ended"},
          local : Nat, more : BOOLEAN, sleep : 0 .. argv.delay, gap : 0 .. argv.refresh]

Args == [quiet : Quiet, refresh : Refresh, delay : Delay]

\* The two maps of the display are about the same bars, and the time of the last
\* update is that of the last one to be seen.
DisplayOK ==
  /\ DOMAIN bars \subseteq Nodes /\ bars \in [DOMAIN bars -> Bar]
  /\ updated \in [DOMAIN bars -> 0 .. argv.refresh] /\ shown = updated
  /\ \A n \in DOMAIN bars : bars[n].length \in Estimates[n]
  /\ argv.quiet => DOMAIN bars = {}

\* What the state a of a node's task and its helpers hs have to do with bars.
NodeOK(n, a, hs, bs) ==
  /\ a.pc = "connect" => n \notin DOMAIN bs /\ hs = {} /\ a.local = 0
  /\ ~argv.quiet /\ (a.pc \in {"scan", "sleep", "finish"} \/ hs # {}) => n \in DOMAIN bs
  /\ n \in DOMAIN bs /\ a.pc = "scan" => bs[n].position = a.local \/ a.gap < argv.refresh
  /\ n \in DOMAIN bs /\ a.pc \in {"finish", "ended"} =>
       /\ bs[n].finished
       /\ bs[n].message \in {IF a.more THEN "errored" ELSE "finished", "event"}

ProgressInv ==
  /\ argv \in Args
  /\ DisplayOK
  /\ task \in [Nodes -> Tasks]
  /\ helpers \in [Nodes -> SUBSET {"estimate", "events"}]
  /\ aborted \subseteq Nodes
  /\ \A n \in Nodes : NodeOK(n, task[n], helpers[n], bars)

LEMMA ArgsAre == ASSUME argv \in Args PROVE argv.refresh \in Nat /\ argv.delay \in Nat
BY ProgressAssumption DEF Args

LEMMA ProgressInit == Init => ProgressInv
<1> SUFFICES ASSUME Init PROVE ProgressInv
  OBVIOUS
<1>1. argv \in Args /\ argv.refresh \in Nat /\ argv.delay \in Nat
  BY ArgsAre DEF Init, Args
<1>2. NewTask \in Tasks /\ NewTask.pc = "connect" /\ NewTask.local = 0
  BY <1>1 DEF NewTask, Tasks
<1>3. DOMAIN None = {}
  BY DEF None
<1>4. \A n \in Nodes : NodeOK(n, NewTask, {}, None)
  <2> HIDE DEF None
  <2>1. QED
    BY <1>2, <1>3 DEF NodeOK
<1>5. DisplayOK
  BY <1>3 DEF Init, DisplayOK, None
<1>6. QED
  BY <1>1, <1>2, <1>4, <1>5 DEF Init, ProgressInv
-----------------------------------------------------------------------------
\* A step that touches no bar but that of n.
OnlyBar(n) == /\ DisplayOK'
              /\ DOMAIN bars' \ {n} = DOMAIN bars \ {n}
              /\ \A m \in DOMAIN bars \ {n} : bars'[m] = bars[m]

\* A step of node n, of its task or of its helpers.
LEMMA NodeStep ==
  ASSUME ProgressInv, NEW n \in Nodes, UNCHANGED argv, aborted' \subseteq Nodes, OnlyBar(n),
         NEW a \in Tasks, task' = [task EXCEPT ![n] = a],
         NEW hs \in SUBSET {"estimate", "events"}, helpers' = [helpers EXCEPT ![n] = hs],
         NodeOK(n, a, hs, bars')
  PROVE  ProgressInv'
<1>1. \A m \in Nodes : NodeOK(m, task'[m], helpers'[m], bars')
  <2> SUFFICES ASSUME NEW m \in Nodes PROVE NodeOK(m, task'[m], helpers'[m], bars')
    OBVIOUS
  <2>1. CASE m = n
    BY <2>1 DEF ProgressInv
  <2>2. CASE m # n
    <3>1. /\ NodeOK(m, task[m], helpers[m], bars)
          /\ task'[m] = task[m] /\ helpers'[m] = helpers[m]
      BY <2>2 DEF ProgressInv
    <3>2. /\ m \in DOMAIN bars' <=> m \in DOMAIN bars
          /\ m \in DOMAIN bars => bars'[m] = bars[m]
      BY <2>2 DEF OnlyBar
    <3>3. QED
      BY <3>1, <3>2 DEF NodeOK
  <2>3. QED
    BY <2>1, <2>2
<1>2. \A m \in Nodes : NodeOK(m, task[m], helpers[m], bars)'
  BY <1>1 DEF NodeOK
<1>3. task' \in [Nodes -> Tasks] /\ helpers' \in [Nodes -> SUBSET {"estimate", "events"}]
  BY DEF ProgressInv
<1>4. Tasks' = Tasks /\ Args' = Args
  BY DEF Tasks, Args
<1>5. QED
  BY <1>2, <1>3, <1>4 DEF ProgressInv, OnlyBar

\* Nothing of the display changes.
LEMMA StillDisplay ==
  ASSUME ProgressInv, NEW n, UNCHANGED <<argv, bars, updated, shown>>
  PROVE  OnlyBar(n)
BY DEF ProgressInv, OnlyBar, DisplayOK

\* try_update_bar, of a bar that is there: it shows b or stays as it is.
LEMMA TryUpdateBarIs ==
  ASSUME ProgressInv, UNCHANGED argv, NEW n \in DOMAIN bars,
         NEW b \in Bar, b.length = bars[n].length, TryUpdateBar(n, b)
  PROVE  /\ OnlyBar(n) /\ n \in DOMAIN bars' /\ DOMAIN bars' = DOMAIN bars
         /\ bars'[n] = IF Due(n) THEN b ELSE bars[n]
         /\ Due(n) <=> shown[n] >= argv.refresh
<1>1. argv.refresh \in Nat /\ n \in Nodes /\ DisplayOK
  BY ArgsAre DEF ProgressInv, DisplayOK
<1>2. /\ bars \in [DOMAIN bars -> Bar] /\ updated \in [DOMAIN bars -> 0 .. argv.refresh]
      /\ shown = updated /\ DOMAIN updated = DOMAIN bars /\ ~argv.quiet
      /\ DOMAIN bars \subseteq Nodes
  BY <1>1 DEF DisplayOK
<1>3. Due(n) <=> shown[n] >= argv.refresh
  BY <1>1, <1>2 DEF Due
<1>4. /\ DOMAIN bars' = DOMAIN bars /\ bars' \in [DOMAIN bars -> Bar]
      /\ bars'[n] = IF Due(n) THEN b ELSE bars[n]
      /\ \A m \in DOMAIN bars \ {n} : bars'[m] = bars[m]
  <2>1. CASE Due(n)
    <3>1. bars' = With(bars, n, b)
      BY <2>1 DEF TryUpdateBar
    <3>2. QED
      BY <1>2, <2>1, <3>1 DEF With
  <2>2. CASE ~Due(n)
    <3>1. bars' = bars
      BY <2>2 DEF TryUpdateBar
    <3>2. QED
      BY <1>2, <2>2, <3>1
  <2>3. QED
    BY <2>1, <2>2
<1>5. updated' \in [DOMAIN bars -> 0 .. argv.refresh] /\ shown' = updated'
  <2>1. CASE Due(n) /\ argv.refresh > 0
    <3>1. updated' = With(updated, n, 0) /\ shown' = With(updated, n, 0)
      BY <1>2, <2>1 DEF TryUpdateBar
    <3>2. With(updated, n, 0) \in [DOMAIN bars -> 0 .. argv.refresh]
      <4> DEFINE ages == 0 .. argv.refresh
      <4>1. 0 \in ages /\ updated \in [DOMAIN bars -> ages]
        BY <1>1, <1>2
      <4> HIDE DEF ages
      <4>2. With(updated, n, 0) \in [DOMAIN bars -> ages]
        BY <1>2, <4>1 DEF With
      <4>3. QED
        BY <4>2 DEF ages
    <3>3. QED
      BY <3>1, <3>2
  <2>2. CASE ~Due(n)
    BY <1>2, <2>2 DEF TryUpdateBar
  <2>3. CASE Due(n) /\ argv.refresh = 0
    <3>1. updated' = updated /\ shown' = With(shown, n, 0)
      BY <1>1, <1>2, <2>3 DEF TryUpdateBar
    <3>2. \A m \in DOMAIN bars : updated[m] = 0
      BY <1>2, <2>3
    <3>3. With(updated, n, 0) = updated
      BY <1>2, <3>2 DEF With
    <3>4. QED
      BY <1>2, <3>1, <3>3
  <2>4. QED
    BY <1>1, <2>1, <2>2, <2>3
<1>6. \A m \in DOMAIN bars' : bars'[m].length \in Estimates[m]
  BY <1>1, <1>4 DEF DisplayOK
<1>7. DisplayOK'
  BY <1>2, <1>4, <1>5, <1>6 DEF DisplayOK
<1>8. QED
  BY <1>3, <1>4, <1>7 DEF OnlyBar

\* update, with a position p: n's bar shows it unless it was shown too soon before.
LEMMA UpdateToIs ==
  ASSUME ProgressInv, UNCHANGED argv, NEW n \in Nodes, ~argv.quiet => n \in DOMAIN bars,
         NEW v \in Messages, NEW p \in Nat, UpdateTo(n, v, p)
  PROVE  /\ OnlyBar(n) /\ DOMAIN bars' = DOMAIN bars
         /\ n \in DOMAIN bars =>
              \/ shown[n] >= argv.refresh /\ bars'[n].position = p
                                          /\ bars'[n].finished = bars[n].finished
              \/ shown[n] < argv.refresh /\ bars'[n] = bars[n]
<1>1. CASE argv.quiet
  <2>1. UNCHANGED <<bars, updated, shown>> /\ DOMAIN bars = {}
    BY <1>1 DEF UpdateTo, display, ProgressInv, DisplayOK
  <2>2. QED
    BY <2>1, StillDisplay
<1>2. CASE ~argv.quiet
  <2> DEFINE b == [bars[n] EXCEPT !.message = v, !.position = p]
  <2>1. n \in DOMAIN bars /\ bars[n] \in Bar /\ TryUpdateBar(n, b)
    BY <1>2 DEF UpdateTo, ProgressInv, DisplayOK
  <2>2. b \in Bar /\ b.length = bars[n].length /\ b.position = p /\ b.finished = bars[n].finished
    BY <2>1 DEF Bar
  <2> HIDE DEF b
  <2>3. argv.refresh \in Nat /\ shown[n] \in Nat
    BY <2>1, ArgsAre DEF ProgressInv, DisplayOK
  <2>4. QED
    BY <2>1, <2>2, <2>3, TryUpdateBarIs
<1>3. QED
  BY <1>1, <1>2

\* update without a position
LEMMA UpdateMessageIs ==
  ASSUME ProgressInv, UNCHANGED argv, NEW n \in Nodes, ~argv.quiet => n \in DOMAIN bars,
         NEW v \in Messages, UpdateMessage(n, v)
  PROVE  /\ OnlyBar(n) /\ DOMAIN bars' = DOMAIN bars
         /\ n \in DOMAIN bars =>
              \/ /\ shown[n] >= argv.refresh /\ bars'[n].message = v
                 /\ bars'[n].position = bars[n].position
                 /\ bars'[n].finished = bars[n].finished
              \/ bars'[n] = bars[n]
<1>1. CASE argv.quiet
  <2>1. UNCHANGED <<bars, updated, shown>> /\ DOMAIN bars = {}
    BY <1>1 DEF UpdateMessage, display, ProgressInv, DisplayOK
  <2>2. QED
    BY <2>1, StillDisplay
<1>2. CASE ~argv.quiet
  <2> DEFINE b == [bars[n] EXCEPT !.message = v]
  <2>1. n \in DOMAIN bars /\ bars[n] \in Bar /\ TryUpdateBar(n, b)
    BY <1>2 DEF UpdateMessage, ProgressInv, DisplayOK
  <2>2. /\ b \in Bar /\ b.length = bars[n].length /\ b.message = v
        /\ b.position = bars[n].position /\ b.finished = bars[n].finished
    BY <2>1 DEF Bar
  <2> HIDE DEF b
  <2>3. QED
    BY <2>1, <2>2, TryUpdateBarIs
<1>3. QED
  BY <1>1, <1>2
-----------------------------------------------------------------------------
\* No bar that is not finished changes too soon in anything but its length.
Kept == \A n \in DOMAIN bars :
          bars'[n] # bars[n] /\ ~bars'[n].finished /\ shown[n] < argv.refresh =>
            bars'[n].message = bars[n].message /\ bars'[n].position = bars[n].position

LEMMA KeptIf ==
  ASSUME ProgressInv, NEW n, OnlyBar(n),
         n \in DOMAIN bars => \/ shown[n] >= argv.refresh \/ bars'[n].finished
                              \/ /\ bars'[n].message = bars[n].message
                                 /\ bars'[n].position = bars[n].position
  PROVE  Kept
<1>1. argv.refresh \in Nat /\ \A m \in DOMAIN bars : shown[m] \in 0 .. argv.refresh
  BY ArgsAre DEF ProgressInv, DisplayOK
<1>2. QED
  BY <1>1 DEF OnlyBar, Kept

LEMMA ConnectStep ==
  ASSUME ProgressInv, NEW n \in Nodes, Connect(n)
  PROVE  ProgressInv' /\ Kept
<1> DEFINE a == task[n]
<1>1. /\ a \in Tasks /\ a.pc = "connect" /\ n \notin DOMAIN bars /\ helpers[n] = {}
      /\ a.local = 0 /\ UNCHANGED <<argv, aborted>> /\ aborted \subseteq Nodes
      /\ helpers \in [Nodes -> SUBSET {"estimate", "events"}]
  BY DEF ProgressInv, NodeOK, Connect
<1>2. CASE task' = [task EXCEPT ![n].pc = "ended"] /\ UNCHANGED <<display, helpers>>
  <2> DEFINE c == [a EXCEPT !.pc = "ended"]
  <2>1. c \in Tasks /\ c.pc = "ended" /\ task' = [task EXCEPT ![n] = c]
    BY <1>1, <1>2 DEF Tasks
  <2>2. OnlyBar(n) /\ bars' = bars
    BY <1>1, <1>2, StillDisplay DEF display
  <2> HIDE DEF c
  <2>3. NodeOK(n, c, {}, bars')
    BY <1>1, <2>1, <2>2 DEF NodeOK
  <2>4. helpers' = [helpers EXCEPT ![n] = {}]
    BY <1>1, <1>2
  <2>5. Kept
    BY <1>1, <2>2, KeptIf
  <2>6. QED
    BY <1>1, <2>1, <2>2, <2>3, <2>4, <2>5, NodeStep
<1>3. CASE /\ task' = [task EXCEPT ![n].pc = "scan"]
           /\ \E e \in Estimates[n] : AddServer(n, e)
           /\ helpers' = [helpers EXCEPT ![n] = {"estimate", "events"}]
  <2> DEFINE c == [a EXCEPT !.pc = "scan"]
             hs == {"estimate", "events"}
  <2>1. c \in Tasks /\ c.pc = "scan" /\ c.local = 0 /\ task' = [task EXCEPT ![n] = c]
    BY <1>1, <1>3 DEF Tasks
  <2>2. PICK e \in Estimates[n] : AddServer(n, e)
    BY <1>3
  <2>3. /\ OnlyBar(n)
        /\ ~argv.quiet => n \in DOMAIN bars' /\ bars'[n].position = 0
        /\ argv.quiet => DOMAIN bars' = {}
    <3>1. CASE argv.quiet
      BY <1>1, <2>2, <3>1, StillDisplay DEF AddServer, display, ProgressInv, DisplayOK
    <3>2. CASE ~argv.quiet
      <4> DEFINE b == [length |-> e, position |-> 0, message |-> "", finished |-> FALSE]
      <4>1. /\ bars' = With(bars, n, b) /\ updated' = With(updated, n, 0)
            /\ shown' = With(shown, n, 0)
        BY <2>2, <3>2 DEF AddServer
      <4>2. b \in Bar /\ b.position = 0 /\ b.length = e
        BY ProgressAssumption DEF Bar, Messages
      <4> HIDE DEF b
      <4>3. /\ DisplayOK /\ argv.refresh \in Nat
        BY ArgsAre DEF ProgressInv
      <4>4. /\ bars' \in [DOMAIN bars \cup {n} -> Bar] /\ bars'[n] = b
            /\ \A m \in DOMAIN bars : bars'[m] = bars[m]
            /\ DOMAIN bars' = DOMAIN bars \cup {n}
        BY <1>1, <4>1, <4>2, <4>3 DEF With, DisplayOK
      <4>5. updated' \in [DOMAIN bars \cup {n} -> 0 .. argv.refresh] /\ shown' = updated'
        BY <1>1, <4>1, <4>3 DEF With, DisplayOK
      <4>6. \A m \in DOMAIN bars' : bars'[m].length \in Estimates[m]
        BY <4>2, <4>3, <4>4 DEF DisplayOK
      <4>7. DisplayOK'
        BY <1>1, <3>2, <4>3, <4>4, <4>5, <4>6 DEF DisplayOK
      <4>8. QED
        BY <1>1, <3>2, <4>2, <4>4, <4>7 DEF OnlyBar
    <3>3. QED
      BY <3>1, <3>2
  <2> HIDE DEF c
  <2>4. NodeOK(n, c, hs, bars')
    BY <1>1, <2>1, <2>3 DEF NodeOK
  <2>5. Kept
    BY <1>1, <2>3, KeptIf
  <2>6. QED
    BY <1>1, <1>3, <2>1, <2>3, <2>4, <2>5, NodeStep
<1>4. QED
  BY <1>2, <1>3 DEF Connect

\* The task shows its count: a is its state before.
LEMMA ShowStep ==
  ASSUME ProgressInv, NEW n \in Nodes, UNCHANGED <<argv, helpers, aborted>>,
         NEW a \in Tasks, task[n].pc \in {"scan", "sleep"},
         task' = [task EXCEPT ![n] = Showing(n, a)], UpdateTo(n, "counts", a.local)
  PROVE  ProgressInv' /\ Kept
<1> DEFINE g == IF n \in DOMAIN shown THEN shown[n] ELSE 0
           c == [a EXCEPT !.pc = "scan", !.gap = g]
<1>1. /\ NodeOK(n, task[n], helpers[n], bars) /\ argv.refresh \in Nat
      /\ DisplayOK /\ aborted \subseteq Nodes
      /\ helpers \in [Nodes -> SUBSET {"estimate", "events"}]
  BY ArgsAre DEF ProgressInv
<1>2. g \in 0 .. argv.refresh /\ (n \in DOMAIN bars => g = shown[n])
  BY <1>1 DEF DisplayOK
<1>3. task' = [task EXCEPT ![n] = c]
  BY DEF Showing
<1>4. c \in Tasks /\ c.pc = "scan" /\ c.local = a.local /\ c.gap = g /\ a.local \in Nat
  <2> HIDE DEF g
  <2>1. QED
    BY <1>2 DEF Tasks
<1>5. ~argv.quiet => n \in DOMAIN bars
  BY <1>1 DEF NodeOK
<1>6. /\ OnlyBar(n) /\ DOMAIN bars' = DOMAIN bars
      /\ n \in DOMAIN bars =>
           \/ shown[n] >= argv.refresh /\ bars'[n].position = a.local
                                       /\ bars'[n].finished = bars[n].finished
           \/ shown[n] < argv.refresh /\ bars'[n] = bars[n]
  BY <1>4, <1>5, UpdateToIs DEF Messages
<1> HIDE DEF c, g
<1>7. NodeOK(n, c, helpers[n], bars')
  BY <1>2, <1>4, <1>5, <1>6 DEF NodeOK
<1>8. Kept
  BY <1>6, KeptIf
<1>9. helpers' = [helpers EXCEPT ![n] = helpers[n]] /\ helpers[n] \in SUBSET {"estimate", "events"}
  BY <1>1
<1>10. QED
  BY <1>1, <1>3, <1>4, <1>6, <1>7, <1>8, <1>9, NodeStep

LEMMA FetchPageStep ==
  ASSUME ProgressInv, NEW n \in Nodes, FetchPage(n)
  PROVE  ProgressInv' /\ Kept
<1>1. /\ NodeOK(n, task[n], helpers[n], bars) /\ task[n] \in Tasks /\ argv.delay \in Nat
      /\ DisplayOK /\ aborted \subseteq Nodes /\ UNCHANGED <<argv, helpers, aborted>>
      /\ helpers \in [Nodes -> SUBSET {"estimate", "events"}] /\ task[n].pc = "scan"
  BY ArgsAre DEF ProgressInv, FetchPage
<1>2. PICK more \in BOOLEAN :
        LET a == [task[n] EXCEPT !.more = more, !.local = task[n].local + 1]
        IN  IF more /\ argv.delay > 0
            THEN /\ task' = [task EXCEPT ![n] = [a EXCEPT !.pc = "sleep", !.sleep = argv.delay]]
                 /\ IF SaysSleeping THEN UpdateTo(n, "sleeping", a.local)
                                    ELSE UNCHANGED display
            ELSE /\ task' = [task EXCEPT ![n] = Showing(n, a)]
                 /\ UpdateTo(n, "counts", a.local)
  BY DEF FetchPage
<1> DEFINE l == task[n].local + 1
           a == [task[n] EXCEPT !.more = more, !.local = l]
<1>3. a \in Tasks /\ a.local = l /\ l \in Nat
  <2>1. l \in Nat
    BY <1>1 DEF Tasks
  <2> HIDE DEF l
  <2>2. QED
    BY <1>1, <2>1 DEF Tasks
<1>4. CASE more /\ argv.delay > 0
  <2> DEFINE c == [a EXCEPT !.pc = "sleep", !.sleep = argv.delay]
  <2>1. task' = [task EXCEPT ![n] = c]
    BY <1>2, <1>4
  <2>2. IF SaysSleeping THEN UpdateTo(n, "sleeping", l) ELSE UNCHANGED display
    BY <1>2, <1>3, <1>4
  <2>3. c \in Tasks /\ c.pc = "sleep"
    <3> DEFINE d == argv.delay
    <3>1. d \in 0 .. argv.delay
      BY <1>1
    <3> HIDE DEF a, d
    <3>2. [a EXCEPT !.pc = "sleep", !.sleep = d] \in Tasks
      BY <1>3, <3>1 DEF Tasks
    <3>3. [a EXCEPT !.pc = "sleep", !.sleep = d].pc = "sleep"
      BY <1>3 DEF Tasks
    <3>4. QED
      BY <3>2, <3>3 DEF d
  <2>4. ~argv.quiet => n \in DOMAIN bars
    BY <1>1 DEF NodeOK
  <2> HIDE DEF c, a, l
  <2>5. OnlyBar(n) /\ Kept /\ DOMAIN bars' = DOMAIN bars
    <3>1. CASE SaysSleeping
      <4>1. UpdateTo(n, "sleeping", l) /\ "sleeping" \in Messages
        BY <2>2, <3>1 DEF Messages
      <4>2. /\ OnlyBar(n) /\ DOMAIN bars' = DOMAIN bars
            /\ n \in DOMAIN bars => shown[n] >= argv.refresh \/ bars'[n] = bars[n]
        BY <1>1, <1>3, <2>4, <4>1, UpdateToIs
      <4>3. QED
        BY <4>2, KeptIf
    <3>2. CASE ~SaysSleeping
      <4>1. UNCHANGED <<bars, updated, shown>>
        BY <2>2, <3>2 DEF display
      <4>2. OnlyBar(n)
        BY <1>1, <4>1, StillDisplay
      <4>3. QED
        BY <4>1, <4>2, KeptIf
    <3>3. QED
      BY <3>1, <3>2
  <2>6. NodeOK(n, c, helpers[n], bars')
    BY <2>3, <2>4, <2>5 DEF NodeOK
  <2>7. helpers' = [helpers EXCEPT ![n] = helpers[n]] /\ helpers[n] \in SUBSET {"estimate", "events"}
    BY <1>1
  <2>8. QED
    BY <1>1, <2>1, <2>3, <2>5, <2>6, <2>7, NodeStep
<1>5. CASE ~(more /\ argv.delay > 0)
  <2>1. task' = [task EXCEPT ![n] = Showing(n, a)] /\ UpdateTo(n, "counts", a.local)
    BY <1>2, <1>5
  <2> HIDE DEF a
  <2>2. QED
    BY <1>1, <1>3, <2>1, ShowStep
<1>6. QED
  BY <1>4, <1>5

LEMMA WakeUpStep ==
  ASSUME ProgressInv, NEW n \in Nodes, WakeUp(n)
  PROVE  ProgressInv' /\ Kept
<1>1. /\ task[n] \in Tasks /\ task[n].pc = "sleep" /\ UNCHANGED <<argv, helpers, aborted>>
      /\ task' = [task EXCEPT ![n] = Showing(n, task[n])] /\ UpdateTo(n, "counts", task[n].local)
  BY DEF WakeUp, ProgressInv
<1>2. QED
  BY <1>1, ShowStep

LEMMA EndScanStep ==
  ASSUME ProgressInv, NEW n \in Nodes, EndScan(n)
  PROVE  ProgressInv' /\ Kept
<1> DEFINE c == [task[n] EXCEPT !.pc = "finish"]
<1>1. /\ NodeOK(n, task[n], helpers[n], bars) /\ task[n] \in Tasks
      /\ DisplayOK /\ aborted \subseteq Nodes /\ UNCHANGED <<argv, helpers, aborted>>
      /\ helpers \in [Nodes -> SUBSET {"estimate", "events"}] /\ task[n].pc = "scan"
      /\ task' = [task EXCEPT ![n] = c] /\ Finish(n, Outcome(n))
  BY DEF ProgressInv, EndScan
<1>2. c \in Tasks /\ c.pc = "finish" /\ c.more = task[n].more
  BY <1>1 DEF Tasks
<1>3. ~argv.quiet => n \in DOMAIN bars
  BY <1>1 DEF NodeOK
<1>4. /\ OnlyBar(n) /\ DOMAIN bars' = DOMAIN bars
      /\ n \in DOMAIN bars => bars'[n].finished /\ bars'[n].message = Outcome(n)
  <2>1. CASE argv.quiet
    <3>1. UNCHANGED <<bars, updated, shown>> /\ DOMAIN bars = {}
      BY <1>1, <2>1 DEF Finish, display, DisplayOK
    <3>2. QED
      BY <1>1, <3>1, StillDisplay
  <2>2. CASE ~argv.quiet
    <3> DEFINE p == bars[n].length
               b == [bars[n] EXCEPT !.message = Outcome(n), !.finished = TRUE, !.position = p]
    <3>1. bars' = [bars EXCEPT ![n] = b] /\ UNCHANGED <<updated, shown>>
      BY <1>1, <2>2 DEF Finish
    <3>2. n \in DOMAIN bars /\ bars[n] \in Bar /\ p \in Nat /\ Outcome(n) \in Messages
      BY <1>1, <1>3, <2>2 DEF DisplayOK, Bar, Outcome, Messages
    <3>3. b \in Bar /\ b.finished /\ b.message = Outcome(n) /\ b.length = bars[n].length
      <4> HIDE DEF p
      <4>1. QED
        BY <3>2 DEF Bar
    <3> HIDE DEF b, p
    <3>4. /\ bars' \in [DOMAIN bars -> Bar] /\ DOMAIN bars' = DOMAIN bars /\ bars'[n] = b
          /\ \A m \in DOMAIN bars \ {n} : bars'[m] = bars[m]
      BY <1>1, <3>1, <3>2, <3>3 DEF DisplayOK
    <3>5. \A m \in DOMAIN bars : bars'[m].length \in Estimates[m]
      BY <1>1, <3>3, <3>4 DEF DisplayOK
    <3>6. DisplayOK'
      BY <1>1, <3>1, <3>4, <3>5 DEF DisplayOK
    <3>7. QED
      BY <3>3, <3>4, <3>6 DEF OnlyBar
  <2>3. QED
    BY <2>1, <2>2
<1> HIDE DEF c
<1>5. NodeOK(n, c, helpers[n], bars')
  BY <1>2, <1>3, <1>4 DEF NodeOK, Outcome
<1>6. Kept
  BY <1>4, KeptIf
<1>7. helpers' = [helpers EXCEPT ![n] = helpers[n]] /\ helpers[n] \in SUBSET {"estimate", "events"}
  BY <1>1
<1>8. QED
  BY <1>1, <1>2, <1>4, <1>5, <1>6, <1>7, NodeStep

LEMMA AbortStep ==
  ASSUME ProgressInv, NEW n \in Nodes, Abort(n)
  PROVE  ProgressInv' /\ Kept
<1> DEFINE c == [task[n] EXCEPT !.pc = "ended"]
<1>1. /\ NodeOK(n, task[n], helpers[n], bars) /\ task[n] \in Tasks /\ aborted \subseteq Nodes
      /\ helpers \in [Nodes -> SUBSET {"estimate", "events"}] /\ task[n].pc = "finish"
      /\ UNCHANGED <<argv, helpers>> /\ UNCHANGED <<bars, updated, shown>>
      /\ task' = [task EXCEPT ![n] = c] /\ aborted' = aborted \cup {n}
  BY DEF ProgressInv, Abort, display
<1>2. c \in Tasks /\ c.pc = "ended" /\ c.more = task[n].more
  BY <1>1 DEF Tasks
<1>3. OnlyBar(n)
  BY <1>1, StillDisplay
<1> HIDE DEF c
<1>4. NodeOK(n, c, helpers[n], bars')
  BY <1>1, <1>2 DEF NodeOK
<1>5. Kept
  BY <1>1, <1>3, KeptIf
<1>6. helpers' = [helpers EXCEPT ![n] = helpers[n]] /\ helpers[n] \in SUBSET {"estimate", "events"}
  BY <1>1
<1>7. QED
  BY <1>1, <1>2, <1>3, <1>4, <1>5, <1>6, NodeStep

LEMMA UpdateEstimateStep ==
  ASSUME ProgressInv, NEW n \in Nodes, UpdateEstimate(n)
  PROVE  ProgressInv' /\ Kept
<1>1. /\ NodeOK(n, task[n], helpers[n], bars) /\ task[n] \in Tasks /\ aborted \subseteq Nodes
      /\ helpers \in [Nodes -> SUBSET {"estimate", "events"}] /\ task \in [Nodes -> Tasks]
      /\ DisplayOK /\ UNCHANGED <<argv, updated, shown, task, helpers, aborted>>
      /\ n \in DOMAIN bars
  BY DEF ProgressInv, UpdateEstimate, NodeOK
<1>2. PICK e \in Estimates[n] : bars' = [bars EXCEPT ![n].length = e]
  BY DEF UpdateEstimate
<1> DEFINE b == [bars[n] EXCEPT !.length = e]
<1>3. bars[n] \in Bar /\ e \in Nat
  BY <1>1, ProgressAssumption DEF DisplayOK
<1>4. /\ b \in Bar /\ b.length = e /\ b.message = bars[n].message
      /\ b.position = bars[n].position /\ b.finished = bars[n].finished
  BY <1>3 DEF Bar
<1>5. bars' = [bars EXCEPT ![n] = b]
  BY <1>2
<1> HIDE DEF b
<1>6. /\ bars' \in [DOMAIN bars -> Bar] /\ DOMAIN bars' = DOMAIN bars /\ bars'[n] = b
      /\ \A m \in DOMAIN bars \ {n} : bars'[m] = bars[m]
  BY <1>1, <1>4, <1>5 DEF DisplayOK
<1>7. \A m \in DOMAIN bars : bars'[m].length \in Estimates[m]
  BY <1>1, <1>4, <1>6 DEF DisplayOK
<1>8. DisplayOK'
  BY <1>1, <1>6, <1>7 DEF DisplayOK
<1>9. OnlyBar(n)
  BY <1>6, <1>8 DEF OnlyBar
<1>10. NodeOK(n, task[n], helpers[n], bars')
  BY <1>1, <1>4, <1>6 DEF NodeOK
<1>11. Kept
  BY <1>4, <1>6, <1>9, KeptIf
<1>12. task' = [task EXCEPT ![n] = task[n]] /\ helpers' = [helpers EXCEPT ![n] = helpers[n]]
  BY <1>1
<1>13. QED
  BY <1>1, <1>9, <1>10, <1>11, <1>12, NodeStep

LEMMA EventStep ==
  ASSUME ProgressInv, NEW n \in Nodes, Event(n)
  PROVE  ProgressInv' /\ Kept
<1>1. /\ NodeOK(n, task[n], helpers[n], bars) /\ task[n] \in Tasks /\ aborted \subseteq Nodes
      /\ helpers \in [Nodes -> SUBSET {"estimate", "events"}] /\ task \in [Nodes -> Tasks]
      /\ UNCHANGED <<argv, task, helpers, aborted>> /\ n \in DOMAIN bars
  BY DEF ProgressInv, Event, NodeOK
<1>2. /\ OnlyBar(n) /\ DOMAIN bars' = DOMAIN bars
      /\ \/ /\ shown[n] >= argv.refresh /\ bars'[n].message = "event"
            /\ bars'[n].position = bars[n].position
            /\ bars'[n].finished = bars[n].finished
         \/ bars'[n] = bars[n]
  BY <1>1, UpdateMessageIs DEF Event, Messages
<1>3. NodeOK(n, task[n], helpers[n], bars')
  BY <1>1, <1>2 DEF NodeOK
<1>4. Kept
  BY <1>2, KeptIf
<1>5. task' = [task EXCEPT ![n] = task[n]] /\ helpers' = [helpers EXCEPT ![n] = helpers[n]]
  BY <1>1
<1>6. QED
  BY <1>1, <1>2, <1>3, <1>4, <1>5, NodeStep

LEMMA HelperEndsStep ==
  ASSUME ProgressInv, NEW n \in Nodes, NEW h, HelperEnds(n, h)
  PROVE  ProgressInv' /\ Kept
<1> DEFINE hs == helpers[n] \ {h}
<1>1. /\ NodeOK(n, task[n], helpers[n], bars) /\ task[n] \in Tasks /\ aborted \subseteq Nodes
      /\ helpers \in [Nodes -> SUBSET {"estimate", "events"}] /\ task \in [Nodes -> Tasks]
      /\ UNCHANGED <<argv, task, aborted>> /\ UNCHANGED <<bars, updated, shown>>
      /\ helpers' = [helpers EXCEPT ![n] = hs] /\ h \in helpers[n]
  BY DEF ProgressInv, HelperEnds, display
<1>2. OnlyBar(n)
  BY <1>1, StillDisplay
<1>3. NodeOK(n, task[n], hs, bars')
  BY <1>1 DEF NodeOK
<1>4. Kept
  BY <1>1, <1>2, KeptIf
<1>5. task' = [task EXCEPT ![n] = task[n]] /\ hs \in SUBSET {"estimate", "events"}
  BY <1>1
<1> HIDE DEF hs
<1>6. QED
  BY <1>1, <1>2, <1>3, <1>4, <1>5, NodeStep

LEMMA TickStep ==
  ASSUME ProgressInv, Tick
  PROVE  ProgressInv' /\ Kept
<1>1. /\ DisplayOK /\ argv.refresh \in Nat /\ argv.delay \in Nat
      /\ UNCHANGED <<argv, bars, helpers, aborted>> /\ task \in [Nodes -> Tasks]
      /\ task' = [n \in Nodes |->
                    [task[n] EXCEPT !.sleep = IF task[n].sleep = 0 THEN 0 ELSE task[n].sleep - 1]]
  BY ArgsAre DEF ProgressInv, Tick
<1>2. DisplayOK'
  <2>1. \A t \in 0 .. argv.refresh : Older(t) \in 0 .. argv.refresh
    BY <1>1 DEF Older
  <2>2. /\ updated' = [n \in DOMAIN bars |-> Older(updated[n])]
        /\ shown' = [n \in DOMAIN bars |-> Older(updated[n])]
    BY <1>1 DEF Tick, DisplayOK
  <2>3. updated' \in [DOMAIN bars -> 0 .. argv.refresh] /\ shown' = updated'
    BY <1>1, <2>1, <2>2 DEF DisplayOK
  <2>4. QED
    BY <1>1, <2>3 DEF DisplayOK
<1>3. ASSUME NEW n \in Nodes
      PROVE  /\ task'[n] \in Tasks /\ task'[n].pc = task[n].pc /\ task'[n].local = task[n].local
             /\ task'[n].more = task[n].more /\ task'[n].gap = task[n].gap
  <2> DEFINE s == IF task[n].sleep = 0 THEN 0 ELSE task[n].sleep - 1
             c == [task[n] EXCEPT !.sleep = s]
  <2>1. task'[n] = c /\ task[n] \in Tasks
    BY <1>1
  <2>2. s \in 0 .. argv.delay
    <3>1. task[n].sleep \in 0 .. argv.delay
      BY <2>1 DEF Tasks
    <3>2. ASSUME NEW d \in Nat, NEW k \in 0 .. d
          PROVE  (IF k = 0 THEN 0 ELSE k - 1) \in 0 .. d
      BY <3>2
    <3>3. QED
      BY <1>1, <3>1, <3>2
  <2> HIDE DEF s
  <2>3. /\ c \in Tasks /\ c.pc = task[n].pc /\ c.local = task[n].local
        /\ c.more = task[n].more /\ c.gap = task[n].gap
    BY <2>1, <2>2 DEF Tasks
  <2>4. QED
    BY <2>1, <2>3
<1>4. task' \in [Nodes -> Tasks]'
  <2>1. \A n \in Nodes : task'[n] \in Tasks
    BY <1>3
  <2>2. task' \in [Nodes -> Tasks]
    BY <1>1, <2>1
  <2>3. Tasks' = Tasks
    BY <1>1 DEF Tasks
  <2>4. QED
    BY <2>2, <2>3
<1>5. \A n \in Nodes : NodeOK(n, task[n], helpers[n], bars)'
  <2>1. ASSUME NEW n \in Nodes PROVE NodeOK(n, task'[n], helpers'[n], bars')
    <3>1. NodeOK(n, task[n], helpers[n], bars)
      BY DEF ProgressInv
    <3>2. /\ task'[n].pc = task[n].pc /\ task'[n].local = task[n].local
          /\ task'[n].more = task[n].more /\ task'[n].gap = task[n].gap
          /\ bars' = bars /\ helpers' = helpers /\ argv' = argv
      BY <1>1, <1>3
    <3>3. QED
      BY <3>1, <3>2 DEF NodeOK
  <2>2. QED
    BY <1>1, <2>1 DEF NodeOK
<1>6. ProgressInv'
  BY <1>1, <1>2, <1>4, <1>5 DEF ProgressInv, Args
<1>7. Kept
  BY <1>1 DEF Kept
<1>8. QED
  BY <1>6, <1>7

LEMMA ProgressStep == ProgressInv /\ [Next]_vars => ProgressInv' /\ Kept
<1> SUFFICES ASSUME ProgressInv, [Next]_vars PROVE ProgressInv' /\ Kept
  OBVIOUS
<1>1. ASSUME NEW n \in Nodes, Task(n) PROVE ProgressInv' /\ Kept
  BY <1>1, ConnectStep, FetchPageStep, WakeUpStep, EndScanStep, AbortStep DEF Task
<1>2. ASSUME NEW n \in Nodes, UpdateEstimate(n) PROVE ProgressInv' /\ Kept
  BY <1>2, UpdateEstimateStep
<1>3. ASSUME NEW n \in Nodes, Event(n) PROVE ProgressInv' /\ Kept
  BY <1>3, EventStep
<1>4. ASSUME NEW n \in Nodes, NEW h, HelperEnds(n, h) PROVE ProgressInv' /\ Kept
  BY <1>4, HelperEndsStep
<1>5. CASE UNCHANGED vars
  <2>1. UNCHANGED <<argv, bars, updated, shown, task, helpers, aborted>>
    BY <1>5 DEF vars, display
  <2>2. DisplayOK' /\ Tasks' = Tasks /\ Args' = Args
    BY <2>1 DEF ProgressInv, DisplayOK, Tasks, Args
  <2>3. \A n \in Nodes : NodeOK(n, task[n], helpers[n], bars)'
    BY <2>1 DEF ProgressInv, NodeOK
  <2>4. ProgressInv'
    BY <2>1, <2>2, <2>3 DEF ProgressInv
  <2>5. Kept
    BY <2>1 DEF Kept
  <2>6. QED
    BY <2>4, <2>5
<1>6. QED
  BY <1>1, <1>2, <1>3, <1>4, <1>5, TickStep DEF Next
-----------------------------------------------------------------------------
LEMMA InvGivesTypes == ProgressInv => TypeOK
<1> SUFFICES ASSUME ProgressInv PROVE TypeOK
  OBVIOUS
<1>1. DisplayOK
  BY DEF ProgressInv
<1>2. \A n \in DOMAIN bars : bars[n] \in Bar
  BY <1>1 DEF DisplayOK
<1>3. \A n \in DOMAIN bars : /\ bars[n].position \in Nat /\ bars[n].message \in Messages
  BY <1>2 DEF Bar
<1>4. QED
  BY <1>1, <1>3 DEF ProgressInv, TypeOK, DisplayOK, Args, Tasks

\* The program's every behaviour, with or without its fairness, keeps the invariant.
LEMMA ProgressInvariant == Spec => []ProgressInv
<1>1. ProgressInv /\ [Next]_vars => ProgressInv'
  BY ProgressStep
<1>2. QED
  BY <1>1, ProgressInit, PTL DEF Spec

\* Bars, tasks and helpers are of their types whatever the estimates and delays.
THEOREM ProgressTypes == Spec => []TypeOK
BY ProgressInvariant, InvGivesTypes, PTL

\* However updates of the same bar and of others interleave, a bar that is behind
\* its node's count changed less than the refresh delay before.
THEOREM BarsAreNotStarved == Spec => []BarsKeepUp
<1>1. ProgressInv => BarsKeepUp
  BY DEF ProgressInv, DisplayOK, NodeOK, BarsKeepUp
<1>2. QED
  BY <1>1, ProgressInvariant, PTL

\* Whatever was dropped before, the bar of a node that has ended says how.
THEOREM OutcomesAreShown == Spec => []OutcomeStays
<1>1. ProgressInv => OutcomeStays
  BY DEF ProgressInv, DisplayOK, NodeOK, OutcomeStays, Outcome
<1>2. QED
  BY <1>1, ProgressInvariant, PTL

\* Whatever comes to a bar that is not finished within the refresh delay, an event,
\* the scan or another estimate: its length is all that can change.
THEOREM UpdatesAreThrottled == Spec => OnlyEstimatesHurry
<1>1. ProgressInv /\ [Next]_vars =>
        [\A n \in DOMAIN bars :
           bars'[n] # bars[n] /\ ~bars'[n].finished /\ shown[n] < argv.refresh =>
             bars'[n].message = bars[n].message /\ bars'[n].position = bars[n].position]_vars
  BY ProgressStep DEF Kept
<1>2. QED
  BY <1>1, ProgressInvariant, PTL DEF Spec, OnlyEstimatesHurry
=============================================================================
