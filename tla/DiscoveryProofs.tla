--------------------------- MODULE DiscoveryProofs ---------------------------
(***************************************************************************)
(* What the discovery and the tasks of the servers guarantee for any       *)
(* deployment, any arguments and any number of failovers and lost          *)
(* connections.                                                            *)
(***************************************************************************)
EXTENDS Discovery, TLAPS

\* The servers discover_servers returns: the values of its map once the loop is
\* over, or what it finds without one.
Returned(t) == \/ phase = "invert" /\ listed = {} /\ t = Range(inverted)
               \/ phase = "discover" /\ ~ByReplicas /\ t = Found

\* What the two actions that end the discovery have in common.
LEMMA EndsDiscovery ==
  ASSUME TypeOK, Discover \/ CollectReplicas
  PROVE  /\ UNCHANGED <<argv, host, clusterMode, primary, cache, link, listed, inverted, down,
                        dropped, failedOver>>
         /\ refused \subseteq refused' /\ refused' \subseteq refused \cup {host}
         /\ \/ phase' = "panicked" /\ UNCHANGED <<nodes, task>>
            \/ \E t \in SUBSET Servers : /\ Start(t) /\ Returned(t)
                                         /\ phase = "discover" /\ t = {} =>
                                              host \in refused'
<1> USE DiscoveryAssumption
<1>1. CASE Discover
  <2>1. Found \subseteq Servers
    <3>1. cache \in [Shards -> Servers] /\ host \in Servers /\ link \subseteq Servers
      BY DEF TypeOK, Primaries
    <3>2. CASE ServerConfig = "clustered"
      BY <3>1, <3>2 DEF Found, Range
    <3>3. CASE ServerConfig = "sentinel"
      BY <3>1, <3>3 DEF Found
    <3>4. CASE ServerConfig \notin {"clustered", "sentinel"}
      BY <3>1, <3>4 DEF Found
    <3>5. QED
      BY <3>2, <3>3, <3>4
  <2>2. /\ UNCHANGED <<argv, host, clusterMode, primary, cache, link, listed, inverted, down,
                       dropped, failedOver>>
        /\ phase = "discover" /\ ~ByReplicas
        /\ refused' = IF Found = {} THEN refused \cup {host} ELSE refused
        /\ \/ Start(Found)
           \/ phase' = "panicked" /\ UNCHANGED <<nodes, task>>
    BY <1>1 DEF Discover, deployment, inversion
  <2>3. QED
    BY <2>1, <2>2 DEF Returned
<1>2. CASE CollectReplicas
  <2>1. Range(inverted) \subseteq Servers
    BY DEF TypeOK, Range
  <2>2. QED
    BY <1>2, <2>1 DEF CollectReplicas, deployment, inversion, history, Returned
<1>3. QED
  BY <1>1, <1>2
-----------------------------------------------------------------------------
\* The types, with what keeps the pages of a scan in bounds.
Progressing ==
  \A n \in Servers : /\ task[n].read + task[n].left <= PagesPerScan
                     /\ task[n].pc \in {"none", "connect", "scan"} => task[n].left > 0

TypeInv == TypeOK /\ Progressing

LEMMA TypeInit == Init => TypeInv
<1> SUFFICES ASSUME Init PROVE TypeInv
  OBVIOUS
<1> USE DiscoveryAssumption
<1>1. argv \in Options /\ (argv.replicas => argv.cluster)
  BY DEF Init, Accepted, Options, Fix
<1>2. QED
  BY <1>1 DEF Init, TypeInv, TypeOK, Progressing, NewTask, Primaries

\* The states a task can be in, and those in which its pages are in bounds.
Tasks == [pc : {"none", "connect", "scan", "done", "failed"},
          up : BOOLEAN, readonly : BOOLEAN,
          left : 0 .. PagesPerScan, read : 0 .. PagesPerScan]

InBounds(a) == /\ a \in Tasks
               /\ a.read + a.left <= PagesPerScan
               /\ a.pc \in {"none", "connect", "scan"} => a.left > 0

LEMMA TaskInBounds == ASSUME TypeInv, NEW n \in Servers PROVE InBounds(task[n])
BY DEF TypeInv, TypeOK, Progressing, InBounds, Tasks

\* The changes of a task that a step can make.
LEMMA StaysInBounds ==
  ASSUME NEW a, InBounds(a), NEW b \in BOOLEAN
  PROVE  /\ InBounds([a EXCEPT !.pc = "failed"])
         /\ InBounds([a EXCEPT !.pc = "done"])
         /\ InBounds([a EXCEPT !.up = TRUE, !.readonly = FALSE])
         /\ a.pc \in {"connect", "scan"} =>
              InBounds([a EXCEPT !.pc = "scan", !.up = TRUE, !.readonly = b])
         /\ a.pc = "scan" => /\ InBounds(Turned(a))
                             /\ InBounds([Turned(a) EXCEPT !.read = @ + 1])
<1> USE DiscoveryAssumption
<1>1. /\ a \in Tasks /\ a.read + a.left <= PagesPerScan
      /\ a.pc \in {"none", "connect", "scan"} => a.left > 0
  BY DEF InBounds
<1>2. /\ [a EXCEPT !.pc = "failed"] \in Tasks /\ [a EXCEPT !.pc = "done"] \in Tasks
      /\ [a EXCEPT !.pc = "failed"].left = a.left /\ [a EXCEPT !.pc = "done"].left = a.left
      /\ [a EXCEPT !.pc = "failed"].read = a.read /\ [a EXCEPT !.pc = "done"].read = a.read
      /\ [a EXCEPT !.pc = "failed"].pc = "failed" /\ [a EXCEPT !.pc = "done"].pc = "done"
  BY <1>1 DEF Tasks
<1>3. InBounds([a EXCEPT !.pc = "failed"]) /\ InBounds([a EXCEPT !.pc = "done"])
  BY <1>1, <1>2 DEF InBounds
<1>4. InBounds([a EXCEPT !.up = TRUE, !.readonly = FALSE])
  <2> DEFINE c == [a EXCEPT !.up = TRUE, !.readonly = FALSE]
  <2>1. c \in Tasks /\ c.left = a.left /\ c.read = a.read /\ c.pc = a.pc
    BY <1>1 DEF Tasks
  <2>2. QED
    BY <2>1, <1>1 DEF InBounds
<1>5. ASSUME a.pc \in {"connect", "scan"}
      PROVE  InBounds([a EXCEPT !.pc = "scan", !.up = TRUE, !.readonly = b])
  <2> DEFINE c == [a EXCEPT !.pc = "scan", !.up = TRUE, !.readonly = b]
  <2>1. c \in Tasks /\ c.left = a.left /\ c.read = a.read
    BY <1>1 DEF Tasks
  <2>2. QED
    BY <2>1, <1>1, <1>5 DEF InBounds
<1>6. ASSUME a.pc = "scan"
      PROVE  InBounds(Turned(a)) /\ InBounds([Turned(a) EXCEPT !.read = @ + 1])
  <2> DEFINE c == Turned(a)
             d == [c EXCEPT !.read = @ + 1]
  <2>1. a.left \in 1 .. PagesPerScan /\ a.read \in 0 .. PagesPerScan
    BY <1>1, <1>6 DEF Tasks
  <2> DEFINE l == a.left - 1
             p == IF a.left = 1 THEN "done" ELSE a.pc
  <2>2. c \in Tasks /\ c.left = l /\ c.read = a.read /\ c.pc = p
    <3>1. c = [a EXCEPT !.left = l, !.pc = p]
      BY DEF Turned
    <3>2. l \in 0 .. PagesPerScan /\ p \in {"none", "connect", "scan", "done", "failed"}
      BY <1>1, <2>1 DEF Tasks
    <3> HIDE DEF l, p
    <3>3. QED
      BY <1>1, <3>1, <3>2 DEF Tasks
  <2> HIDE DEF c
  <2>3. c.read < PagesPerScan
    BY <1>1, <2>1, <2>2
  <2>4. d \in Tasks /\ d.left = c.left /\ d.read = c.read + 1 /\ d.pc = c.pc
    BY <2>2, <2>3 DEF Tasks
  <2> HIDE DEF d
  <2>5. InBounds(c) /\ InBounds(d)
    BY <1>1, <2>1, <2>2, <2>4 DEF InBounds
  <2>6. QED
    BY <2>5 DEF c, d
<1>7. QED
  BY <1>3, <1>4, <1>5, <1>6

\* A step of the tasks leaves a task where it may be.
LEMMA TypeTask ==
  ASSUME TypeInv, NEW n \in Servers, Task(n)
  PROVE  TypeInv'
<1>1. InBounds(task[n]) /\ task \in [Servers -> Tasks]
  BY TaskInBounds DEF TypeInv, TypeOK, Tasks
<1>2. argv.replicas \in BOOLEAN
  BY DEF TypeInv, TypeOK, Options
<1>3. \E a : InBounds(a) /\ task' = [task EXCEPT ![n] = a]
  <2>1. CASE Connect(n)
    <3>1. \/ task' = [task EXCEPT ![n] = [task[n] EXCEPT !.pc = "failed"]]
          \/ task' = [task EXCEPT ![n] = [task[n] EXCEPT !.pc = "scan", !.up = TRUE,
                                                         !.readonly = argv.replicas]]
      BY <2>1, <1>1 DEF Connect
    <3>2. task[n].pc = "connect"
      BY <2>1 DEF Connect, Running
    <3>3. QED
      BY <3>1, <3>2, <1>1, <1>2, StaysInBounds
  <2>2. CASE ConnectFails(n)
    <3>1. task' = [task EXCEPT ![n] = [task[n] EXCEPT !.pc = "failed"]]
      BY <2>2, <1>1 DEF ConnectFails
    <3>2. QED
      BY <3>1, <1>1, StaysInBounds
  <2>3. CASE ReadPage(n)
    <3>1. /\ task' = [task EXCEPT ![n] = [Turned(task[n]) EXCEPT !.read = @ + 1]]
          /\ task[n].pc = "scan"
      BY <2>3 DEF ReadPage, Running
    <3>2. QED
      BY <3>1, <1>1, StaysInBounds
  <2>4. CASE Redirected(n)
    <3>1. /\ \/ task' = [task EXCEPT ![n] = Turned(task[n])]
             \/ task' = [task EXCEPT ![n] = [task[n] EXCEPT !.pc = "failed"]]
          /\ task[n].pc = "scan"
      BY <2>4 DEF Redirected, Running
    <3>2. QED
      BY <3>1, <1>1, StaysInBounds
  <2>5. CASE GiveUp(n)
    <3>1. \/ task' = [task EXCEPT ![n] = [task[n] EXCEPT !.pc = "done"]]
          \/ task' = [task EXCEPT ![n] = [task[n] EXCEPT !.pc = "failed"]]
      BY <2>5, <1>1 DEF GiveUp
    <3>2. QED
      BY <3>1, <1>1, StaysInBounds
  <2>6. CASE Reconnect(n)
    <3>1. task' = [task EXCEPT ![n] = [task[n] EXCEPT !.up = TRUE, !.readonly = FALSE]]
      BY <2>6, <1>1 DEF Reconnect
    <3>2. QED
      BY <3>1, <1>1, StaysInBounds
  <2>7. QED
    BY <2>1, <2>2, <2>3, <2>4, <2>5, <2>6 DEF Task
<1>4. task' \in [Servers -> Tasks] /\ \A m \in Servers : InBounds(task'[m])
  BY <1>1, <1>3, TaskInBounds DEF InBounds
<1>5. UNCHANGED <<argv, host, clusterMode, primary, cache, phase, link, listed, inverted,
                  nodes, down, dropped, failedOver>>
  BY DEF Task, Connect, ConnectFails, ReadPage, Redirected, GiveUp, Reconnect, deployment,
         inversion, history
<1>6. refused' \subseteq Servers
  BY DEF Task, Connect, ConnectFails, ReadPage, Redirected, GiveUp, Reconnect, history,
         TypeInv, TypeOK
<1>7. TypeOK'
  BY <1>4, <1>5, <1>6 DEF TypeInv, TypeOK, Tasks, Primaries
<1>8. Progressing'
  BY <1>4 DEF Progressing, InBounds
<1>9. QED
  BY <1>7, <1>8 DEF TypeInv

\* The type of the inverted map, which has changed its domain.
LEMMA TypeInvert ==
  ASSUME TypeOK, NEW n \in Servers, Invert(n)
  PROVE  DOMAIN inverted' \subseteq Servers /\ inverted' \in [DOMAIN inverted' -> Servers]
<1> USE DiscoveryAssumption
<1> DEFINE c == cache[ShardOf[n]]
<1>1. c \in Servers /\ DOMAIN inverted \subseteq Servers /\ inverted \in [DOMAIN inverted -> Servers]
  BY DEF TypeOK, Primaries
<1>2. inverted' = [p \in DOMAIN inverted \cup {c} |-> IF p = c THEN n ELSE inverted[p]]
  BY DEF Invert
<1> HIDE DEF c
<1>3. \A p \in DOMAIN inverted \cup {c} : (IF p = c THEN n ELSE inverted[p]) \in Servers
  BY <1>1
<1>4. QED
  BY <1>1, <1>2, <1>3

LEMMA TypeMain == ASSUME TypeInv, Main PROVE TypeInv'
<1> USE DiscoveryAssumption DEF TypeInv
<1>1. CASE InitClient
  <2>1. Entry \in Servers
    BY DEF TypeOK, Primaries, Entry
  <2>2. QED
    BY <1>1, <2>1 DEF InitClient, TypeOK, Progressing, deployment, inversion, history
<1>2. CASE Relink
  <2>1. Entry \in Servers
    BY DEF TypeOK, Primaries, Entry
  <2>2. QED
    BY <1>2, <2>1 DEF Relink, TypeOK, Progressing, deployment, inversion, history
<1>3. CASE ListReplicas
  BY <1>3 DEF ListReplicas, TypeOK, Progressing, deployment, history
<1>4. ASSUME NEW n \in Servers, Invert(n) PROVE TypeInv'
  <2>1. DOMAIN inverted' \subseteq Servers /\ inverted' \in [DOMAIN inverted' -> Servers]
    BY <1>4, TypeInvert
  <2>2. /\ UNCHANGED <<argv, host, clusterMode, primary, cache, phase, link, nodes, task, down,
                       dropped, refused, failedOver>>
        /\ listed' \subseteq Servers
    BY <1>4 DEF Invert, deployment, history, TypeOK
  <2>3. QED
    BY <2>1, <2>2 DEF TypeOK, Progressing
<1>5. CASE Discover \/ CollectReplicas
  <2>1. /\ UNCHANGED <<argv, host, clusterMode, primary, cache, link, listed, inverted, down,
                       dropped, failedOver>>
        /\ refused' \subseteq Servers
    BY <1>5, EndsDiscovery DEF TypeOK
  <2>2. CASE phase' = "panicked" /\ UNCHANGED <<nodes, task>>
    BY <2>1, <2>2 DEF TypeOK, Progressing
  <2>3. ASSUME NEW t \in SUBSET Servers, Start(t) PROVE TypeInv'
    <3>1. \A n \in Servers :
            task'[n] \in {NewTask, [NewTask EXCEPT !.pc = "connect"]}
      BY <2>3 DEF Start
    <3>2. InBounds(NewTask) /\ InBounds([NewTask EXCEPT !.pc = "connect"])
      <4>1. NewTask \in Tasks /\ NewTask.read = 0 /\ NewTask.left = PagesPerScan
        BY DEF Tasks, NewTask
      <4> DEFINE c == [NewTask EXCEPT !.pc = "connect"]
      <4>2. c \in Tasks /\ c.read = 0 /\ c.left = PagesPerScan
        BY <4>1 DEF Tasks
      <4>3. QED
        BY <4>1, <4>2 DEF InBounds
    <3>3. task' \in [Servers -> Tasks] /\ \A n \in Servers : InBounds(task'[n])
      <4>1. DOMAIN task' = Servers /\ task' = [n \in Servers |-> task'[n]]
        BY <2>3 DEF Start
      <4>2. QED
        BY <3>1, <3>2, <4>1 DEF InBounds
    <3>4. phase' = "scan" /\ nodes' \subseteq Servers
      BY <2>3 DEF Start
    <3>5. TypeOK'
      BY <2>1, <3>3, <3>4 DEF TypeOK, Tasks, Primaries
    <3>6. Progressing'
      BY <3>3 DEF Progressing, InBounds
    <3>7. QED
      BY <3>5, <3>6
  <2>4. QED
    BY <1>5, <2>2, <2>3, EndsDiscovery
<1>6. CASE WaitDone
  BY <1>6 DEF WaitDone, TypeOK, Progressing, deployment, inversion, history
<1>7. QED
  BY <1>1, <1>2, <1>3, <1>4, <1>5, <1>6 DEF Main

LEMMA TypeEnvironment == ASSUME TypeInv, Environment PROVE TypeInv'
<1> USE DiscoveryAssumption DEF TypeInv
<1>1. PICK n \in Servers : GoDown(n) \/ ComeBack(n) \/ Failover(n)
  BY DEF Environment
<1>2. CASE GoDown(n)
  <2> DEFINE c == [task[n] EXCEPT !.up = FALSE]
  <2>1. task' = [task EXCEPT ![n] = c] /\ task \in [Servers -> Tasks]
    BY <1>2 DEF GoDown, TypeOK, Tasks
  <2>2. /\ task' \in [Servers -> Tasks]
        /\ \A m \in Servers : /\ task'[m].read = task[m].read
                              /\ task'[m].left = task[m].left
                              /\ task'[m].pc = task[m].pc
    <3>1. /\ c \in Tasks /\ c.read = task[n].read
          /\ c.left = task[n].left /\ c.pc = task[n].pc
      BY <2>1 DEF Tasks
    <3> HIDE DEF c
    <3>2. QED
      BY <2>1, <3>1
  <2>3. /\ UNCHANGED <<argv, host, clusterMode, primary, cache, phase, listed, inverted, nodes,
                       refused, failedOver>>
        /\ down' \subseteq Servers /\ dropped' \subseteq Servers /\ link' \subseteq Servers
    BY <1>2 DEF GoDown, deployment, inversion, TypeOK
  <2>4. TypeOK'
    BY <2>2, <2>3 DEF TypeOK, Tasks, Primaries
  <2>5. Progressing'
    BY <2>2 DEF Progressing
  <2>6. QED
    BY <2>4, <2>5
<1>3. CASE ComeBack(n)
  BY <1>3 DEF ComeBack, TypeOK, Progressing, deployment, inversion, history
<1>4. CASE Failover(n)
  <2>1. primary' \in Primaries
    BY <1>4 DEF Failover, TypeOK, Primaries
  <2>2. /\ UNCHANGED <<argv, host, clusterMode, cache, phase, link, listed, inverted, nodes,
                       task, down, dropped, refused>>
        /\ failedOver' \subseteq Shards
    BY <1>4 DEF Failover, deployment, inversion, TypeOK
  <2>3. TypeOK'
    BY <2>1, <2>2 DEF TypeOK, Primaries
  <2>4. Progressing'
    BY <2>2 DEF Progressing
  <2>5. QED
    BY <2>3, <2>4
<1>5. QED
  BY <1>1, <1>2, <1>3, <1>4

LEMMA TypeStep == TypeInv /\ [Next]_vars => TypeInv'
<1> SUFFICES ASSUME TypeInv, [Next]_vars PROVE TypeInv'
  OBVIOUS
<1>1. CASE UNCHANGED vars
  BY <1>1 DEF vars, deployment, inversion, history, TypeInv, TypeOK, Progressing
<1>2. QED
  BY <1>1, TypeMain, TypeTask, TypeEnvironment DEF Next

\* Every variable of the discovery and of the tasks keeps its type; no task turns
\* more pages than its scan has.
THEOREM DiscoveryTypes == Spec => []TypeOK
<1>1. TypeInv => TypeOK
  BY DEF TypeInv
<1>2. QED
  BY <1>1, TypeInit, TypeStep, PTL DEF Spec
-----------------------------------------------------------------------------
\* What the client knows is the truth of every shard that has not failed over.  The
\* loop of discover_servers has one entry per primary it knows, which is one of its
\* other servers, and no primary is left without one once its replicas have passed.
\* So the nodes are of different shards, and none is a primary the client knew of
\* if replicas were asked for.
Inverted(p) == /\ p = cache[ShardOf[p]]
               /\ ShardOf[inverted[p]] = ShardOf[p] /\ inverted[p] # p

InversionInv ==
  /\ phase = "init" => listed = {} /\ DOMAIN inverted = {}
  /\ phase = "invert" => ByReplicas
  /\ \A p \in DOMAIN inverted : Inverted(p)
  /\ \A n \in listed : n # cache[ShardOf[n]]
  /\ phase = "invert" =>
       \A n \in Servers : n = cache[ShardOf[n]] \/ n \in listed \/ cache[ShardOf[n]] \in DOMAIN inverted

LinkInv == /\ \A m, n \in link : m = n
           /\ \A n \in link : ShardOf[n] = ShardOf[host]

KnowledgeInv ==
  /\ \A s \in Shards : primary[s] = cache[s] \/ s \in failedOver
  /\ InversionInv
  /\ LinkInv
  /\ phase = "init" => nodes = {}
  /\ NoShardTwice
  /\ ByReplicas => \A n \in nodes : n # cache[ShardOf[n]]

LEMMA KnowledgeInit == Init => KnowledgeInv
BY DEF Init, KnowledgeInv, InversionInv, LinkInv, NoShardTwice

\* What discover_servers returns: servers of different shards, and no primary the
\* client knows of if replicas were asked for.
LEMMA ReturnedAre ==
  ASSUME TypeOK, KnowledgeInv, NEW t \in SUBSET Servers, Returned(t)
  PROVE  /\ \A m, n \in t : m # n => ShardOf[m] # ShardOf[n]
         /\ ByReplicas => \A n \in t : n # cache[ShardOf[n]]
<1> USE DiscoveryAssumption
<1>1. /\ cache \in [Shards -> Servers] /\ \A s \in Shards : ShardOf[cache[s]] = s
      /\ ShardOf \in [Servers -> Shards]
  BY DEF TypeOK, Primaries
<1>2. CASE phase = "invert" /\ t = Range(inverted)
  <2>1. \A n \in t : \E p \in DOMAIN inverted : n = inverted[p] /\ Inverted(p)
    BY <1>2 DEF KnowledgeInv, InversionInv, Range
  <2>2. QED
    BY <2>1 DEF Inverted
<1>3. CASE ~ByReplicas /\ t = Found
  <2>1. CASE ServerConfig = "clustered"
    <3>1. \A n \in t : \E s \in Shards : n = cache[s]
      BY <1>1, <1>3, <2>1 DEF Found, Range
    <3>2. QED
      BY <1>1, <1>3, <3>1
  <2>2. CASE ServerConfig = "sentinel"
    BY <1>3, <2>2 DEF Found, KnowledgeInv, LinkInv
  <2>3. CASE ServerConfig \notin {"clustered", "sentinel"}
    BY <1>3, <2>3 DEF Found
  <2>4. QED
    BY <2>1, <2>2, <2>3
<1>4. QED
  BY <1>2, <1>3 DEF Returned

\* The loop keeps its part.
LEMMA InversionStep == TypeOK /\ InversionInv /\ [Next]_vars => InversionInv'
<1> SUFFICES ASSUME TypeOK, InversionInv, [Next]_vars PROVE InversionInv'
  OBVIOUS
<1> USE DiscoveryAssumption
<1>1. ByReplicas' = ByReplicas
  BY DEF Next, Main, Task, Environment, InitClient, Relink, ListReplicas, Invert, CollectReplicas,
         Discover, WaitDone, Connect, ConnectFails, ReadPage, Redirected, GiveUp, Reconnect,
         GoDown, ComeBack, Failover, vars, deployment, ServerConfig, ByReplicas
<1>2. CASE InitClient
  BY <1>1, <1>2 DEF InitClient, inversion, InversionInv
<1>3. CASE ListReplicas
  BY <1>1, <1>3 DEF ListReplicas, InversionInv, Inverted
<1>4. ASSUME NEW n \in Servers, Invert(n) PROVE InversionInv'
  <2> DEFINE c == cache[ShardOf[n]]
  <2>1. /\ inverted' = [p \in DOMAIN inverted \cup {c} |-> IF p = c THEN n ELSE inverted[p]]
        /\ listed' = listed \ {n} /\ n \in listed
        /\ UNCHANGED <<cache, phase>> /\ phase = "invert"
    BY <1>4 DEF Invert
  <2>2. c = cache[ShardOf[c]] /\ ShardOf[c] = ShardOf[n] /\ n # c
    BY <2>1 DEF TypeOK, Primaries, InversionInv
  <2> HIDE DEF c
  <2>3. DOMAIN inverted' = DOMAIN inverted \cup {c} /\ inverted'[c] = n
        /\ \A p \in DOMAIN inverted : p # c => inverted'[p] = inverted[p]
    BY <2>1
  <2>4. \A p \in DOMAIN inverted' : /\ p = cache[ShardOf[p]]
                                    /\ ShardOf[inverted'[p]] = ShardOf[p] /\ inverted'[p] # p
    BY <2>2, <2>3 DEF InversionInv, Inverted
  <2>5. \A m \in Servers : m = cache[ShardOf[m]] \/ m \in listed' \/ cache[ShardOf[m]] \in DOMAIN inverted'
    BY <2>1, <2>3 DEF InversionInv, c
  <2>6. QED
    BY <1>1, <2>1, <2>4, <2>5 DEF InversionInv, Inverted
<1>5. CASE Discover \/ CollectReplicas
  <2>1. UNCHANGED <<cache, listed, inverted>> /\ phase' \in {"panicked", "scan"}
    BY <1>5, EndsDiscovery DEF Start
  <2>2. QED
    BY <2>1 DEF InversionInv, Inverted
<1>6. CASE Relink \/ WaitDone
  BY <1>1, <1>6 DEF Relink, WaitDone, inversion, InversionInv, Inverted
<1>7. CASE \E n \in Servers : Task(n)
  <2>1. UNCHANGED <<cache, phase, listed, inverted>>
    BY <1>7 DEF Task, Connect, ConnectFails, ReadPage, Redirected, GiveUp, Reconnect, inversion
  <2>2. QED
    BY <1>1, <2>1 DEF InversionInv, Inverted
<1>8. CASE Environment
  BY <1>1, <1>8 DEF Environment, GoDown, ComeBack, Failover, inversion, InversionInv, Inverted
<1>9. CASE UNCHANGED vars
  BY <1>1, <1>9 DEF vars, inversion, InversionInv, Inverted
<1>10. QED
  BY <1>2, <1>3, <1>4, <1>5, <1>6, <1>7, <1>8, <1>9 DEF Next, Main

LEMMA KnowledgeStep == TypeOK /\ KnowledgeInv /\ [Next]_vars => KnowledgeInv'
<1> SUFFICES ASSUME TypeOK, KnowledgeInv, [Next]_vars PROVE KnowledgeInv'
  OBVIOUS
<1> USE DiscoveryAssumption
<1>1. UNCHANGED <<argv, host>> /\ ServerConfig' = ServerConfig /\ ByReplicas' = ByReplicas
  BY DEF Next, Main, Task, Environment, InitClient, Relink, ListReplicas, Invert, CollectReplicas,
         Discover, WaitDone, Connect, ConnectFails, ReadPage, Redirected, GiveUp, Reconnect,
         GoDown, ComeBack, Failover, vars, deployment, ServerConfig, ByReplicas
<1>2. InversionInv'
  BY InversionStep DEF KnowledgeInv
<1>3. LinkInv'
  <2>1. CASE link' \subseteq link
    BY <1>1, <2>1 DEF KnowledgeInv, LinkInv
  <2>2. CASE ServerConfig = "sentinel" /\ link' = {Entry}
    <3>1. ShardOf[Entry] = ShardOf[host]
      BY <2>2 DEF Entry, TypeOK, Primaries
    <3>2. QED
      BY <1>1, <2>2, <3>1 DEF LinkInv
  <2>3. QED
    BY <2>1, <2>2
    DEF Next, Main, Task, Environment, InitClient, Relink, ListReplicas, Invert, CollectReplicas,
        Discover, WaitDone, Connect, ConnectFails, ReadPage, Redirected, GiveUp, Reconnect,
        GoDown, ComeBack, Failover, vars
<1>4. ASSUME UNCHANGED <<primary, cache, nodes, failedOver>>, phase' = "init" => phase = "init"
      PROVE  KnowledgeInv'
  BY <1>1, <1>2, <1>3, <1>4 DEF KnowledgeInv, NoShardTwice
<1>5. CASE InitClient
  BY <1>1, <1>2, <1>3, <1>5 DEF InitClient, KnowledgeInv, NoShardTwice, history
<1>6. CASE Discover \/ CollectReplicas
  <2>1. UNCHANGED <<primary, cache, failedOver>>
    BY <1>6, EndsDiscovery
  <2>2. ASSUME NEW t \in SUBSET Servers, Start(t), Returned(t) PROVE KnowledgeInv'
    <3>1. /\ nodes' = t /\ phase' = "scan"
          /\ \A m, n \in t : m # n => ShardOf[m] # ShardOf[n]
          /\ ByReplicas => \A n \in t : n # cache[ShardOf[n]]
      BY <2>2, ReturnedAre DEF Start
    <3>2. QED
      BY <1>1, <1>2, <1>3, <2>1, <3>1 DEF KnowledgeInv, NoShardTwice
  <2>3. QED
    BY <1>4, <1>6, <2>1, <2>2, EndsDiscovery
<1>7. CASE Relink \/ ListReplicas \/ WaitDone \/ \E n \in Servers : Invert(n)
  BY <1>4, <1>7 DEF Relink, ListReplicas, WaitDone, Invert, history
<1>8. CASE \E n \in Servers : Task(n)
  BY <1>4, <1>8 DEF Task, Connect, ConnectFails, ReadPage, Redirected, GiveUp, Reconnect, history
<1>9. CASE Environment
  <2>1. PICK n \in Servers : GoDown(n) \/ ComeBack(n) \/ Failover(n)
    BY <1>9 DEF Environment
  <2>2. CASE GoDown(n) \/ ComeBack(n)
    BY <1>4, <2>2 DEF GoDown, ComeBack, history
  <2>3. CASE Failover(n)
    <3>1. /\ \A s \in Shards : s # ShardOf[n] => primary'[s] = primary[s]
          /\ failedOver' = failedOver \cup {ShardOf[n]}
          /\ UNCHANGED <<cache, phase, nodes>>
      BY <2>3 DEF Failover, TypeOK, Primaries
    <3>2. QED
      BY <1>1, <1>2, <1>3, <3>1 DEF KnowledgeInv, NoShardTwice
  <2>4. QED
    BY <2>1, <2>2, <2>3
<1>10. CASE UNCHANGED vars
  BY <1>4, <1>10 DEF vars, history
<1>11. QED
  BY <1>5, <1>6, <1>7, <1>8, <1>9, <1>10 DEF Next, Main

LEMMA KnowledgeAlways == Spec => []KnowledgeInv
BY DiscoveryTypes, KnowledgeInit, KnowledgeStep, PTL DEF Spec

\* Whatever the number of replicas and the order in which the loop overwrites one by
\* the other, discover_servers hands out no two servers of a shard: no key is
\* counted by two tasks.
THEOREM NoShardScannedTwice == Spec => []NoShardTwice
<1>1. KnowledgeInv => NoShardTwice
  BY DEF KnowledgeInv
<1>2. QED
  BY <1>1, KnowledgeAlways, PTL

\* --replicas never scans a server that was a primary when the client learnt of
\* the cluster: one that is a primary has become one by a failover.
THEOREM PrimariesAlwaysSpared == Spec => []PrimariesSpared
<1>1. TypeOK /\ KnowledgeInv => PrimariesSpared
  <2> SUFFICES ASSUME TypeOK, KnowledgeInv PROVE PrimariesSpared
    OBVIOUS
  <2>1. ASSUME ServerConfig = "clustered" /\ argv.replicas, NEW n \in nodes,
               primary[ShardOf[n]] = n
        PROVE  ShardOf[n] \in failedOver
    <3>1. ShardOf[n] \in Shards /\ n # cache[ShardOf[n]]
      BY <2>1, DiscoveryAssumption DEF TypeOK, KnowledgeInv, ByReplicas
    <3>2. QED
      BY <2>1, <3>1 DEF KnowledgeInv
  <2>2. QED
    BY <2>1 DEF PrimariesSpared
<1>2. QED
  BY <1>1, DiscoveryTypes, KnowledgeAlways, PTL
-----------------------------------------------------------------------------
\* The scans that nothing disturbed lose no page.
Undisturbed == Asked \ Disturbed

\* The task of server n, in state a, has read all the pages before those that are
\* still to come; a lost connection is no more than a delay, and the server has no
\* reason to redirect it.
OnCourse(n, a) ==
  /\ a.pc \in {"connect", "scan", "done"}
  /\ a.read + a.left = PagesPerScan
  /\ a.pc = "done" => a.left = 0
  /\ a.pc = "scan" => /\ a.up \/ n \in dropped
                      /\ argv.replicas => a.readonly
  /\ ~clusterMode \/ argv.replicas \/ primary[ShardOf[n]] = n

\* The arguments that clap should refuse.
Impossible == argv.sentinel /\ argv.replicas

ReadInv ==
  /\ ServerConfig = "clustered" => clusterMode
  /\ ServerConfig = "sentinel" => ~clusterMode
  /\ phase = "done" => \A n \in nodes : task[n].pc \in {"done", "failed"}
  /\ phase \in {"scan", "done"} /\ ~Impossible =>
       /\ \A s \in Undisturbed : \E n \in nodes : ShardOf[n] = s
       /\ \A n \in nodes : ShardOf[n] \in Undisturbed => OnCourse(n, task[n])

LEMMA ReadInit == Init => ReadInv
BY DEF Init, ReadInv

\* A shard that is undisturbed has been so all the time, and has kept its primary.
LEMMA UndisturbedBefore ==
  ASSUME TypeOK, TypeOK', [Next]_vars, NEW s \in Shards, s \in Undisturbed'
  PROVE  s \in Undisturbed /\ primary'[s] = primary[s]
<1> USE DiscoveryAssumption
<1>1. /\ UNCHANGED <<argv, host, clusterMode>> /\ ServerConfig' = ServerConfig
      /\ dropped \subseteq dropped' /\ refused \subseteq refused' /\ failedOver \subseteq failedOver'
  BY DEF Next, Main, Task, Environment, InitClient, Relink, ListReplicas, Invert, CollectReplicas,
         Discover, WaitDone, Connect, ConnectFails, ReadPage, Redirected, GiveUp, Reconnect,
         GoDown, ComeBack, Failover,
         vars, deployment, history, ServerConfig
<1>2. s \notin Disturbed /\ s \notin failedOver'
  BY <1>1 DEF Undisturbed, Disturbed
<1>3. \A r \in Shards : r \notin failedOver' => primary'[r] = primary[r]
  <2>1. CASE primary' = primary
    BY <2>1
  <2>2. CASE \E n \in Servers : Failover(n)
    BY <2>2 DEF Failover, TypeOK, Primaries
  <2>3. QED
    BY <2>1, <2>2
    DEF Next, Main, Task, Environment, InitClient, Relink, ListReplicas, Invert, CollectReplicas,
        Discover, WaitDone, Connect, ConnectFails, ReadPage, Redirected, GiveUp, Reconnect,
        GoDown, ComeBack, vars
<1>4. s \in Asked
  <2>1. primary'[s] = primary[s] /\ s \in Asked'
    BY <1>2, <1>3 DEF Undisturbed
  <2>2. CASE ServerConfig = "clustered"
    BY <1>1, <2>1, <2>2 DEF Asked
  <2>3. CASE ServerConfig = "sentinel"
    BY <1>1, <2>1, <2>3 DEF Asked
  <2>4. CASE ServerConfig \notin {"clustered", "sentinel"}
    BY <1>1, <2>1, <2>4 DEF Asked
  <2>5. QED
    BY <2>2, <2>3, <2>4
<1>5. QED
  BY <1>2, <1>3, <1>4 DEF Undisturbed

\* The nodes cover every shard that was asked for and is undisturbed, the sentinel's
\* if there are any, and their tasks start on course.
LEMMA NodesCover ==
  ASSUME TypeOK, KnowledgeInv, ReadInv, ~Impossible, NEW t \in SUBSET Servers, Returned(t)
  PROVE  /\ \A s \in Undisturbed : \/ phase = "discover" /\ t = {} /\ s = ShardOf[host]
                                   \/ \E n \in t : ShardOf[n] = s
         /\ \A n \in t : ShardOf[n] \in Undisturbed =>
              ~clusterMode \/ argv.replicas \/ primary[ShardOf[n]] = n
<1> USE DiscoveryAssumption
<1>1. /\ cache \in [Shards -> Servers] /\ \A s \in Shards : ShardOf[cache[s]] = s
      /\ ShardOf \in [Servers -> Shards] /\ host \in Servers
  BY DEF TypeOK, Primaries
<1>2. \A s \in Shards : s \in Undisturbed => primary[s] = cache[s] /\ s \in Asked
  BY DEF KnowledgeInv, Undisturbed, Disturbed
<1>3. Asked \subseteq Shards
  BY <1>1 DEF Asked
<1>4. CASE phase = "invert" /\ listed = {} /\ t = Range(inverted)
  <2>1. ByReplicas
    BY <1>4 DEF KnowledgeInv, InversionInv
  <2>2. ASSUME NEW s \in Undisturbed PROVE \E n \in t : ShardOf[n] = s
    <3>1. s \in Shards /\ s \in Asked /\ primary[s] = cache[s]
      BY <1>2, <1>3 DEF Undisturbed
    <3>2. PICK n \in Servers : ShardOf[n] = s /\ n # cache[s]
      BY <2>1, <3>1 DEF Asked, ByReplicas
    <3>3. cache[s] \in DOMAIN inverted
      BY <1>4, <3>2 DEF KnowledgeInv, InversionInv
    <3>4. ShardOf[inverted[cache[s]]] = s
      BY <1>1, <3>1, <3>3 DEF KnowledgeInv, InversionInv, Inverted
    <3>5. QED
      BY <1>4, <3>3, <3>4 DEF Range
  <2>3. QED
    BY <2>1, <2>2 DEF ByReplicas
<1>5. ASSUME phase = "discover", ~ByReplicas, t = Found, ServerConfig = "clustered"
      PROVE  /\ \A s \in Undisturbed : \E n \in t : ShardOf[n] = s
             /\ \A n \in t : ShardOf[n] \in Undisturbed => primary[ShardOf[n]] = n
  <2>1. t = Range(cache)
    BY <1>5 DEF Found
  <2>2. \A s \in Shards : cache[s] \in t /\ ShardOf[cache[s]] = s
    BY <1>1, <2>1 DEF Range
  <2>3. \A n \in t : \E s \in Shards : n = cache[s]
    BY <1>1, <2>1 DEF Range
  <2>4. QED
    BY <1>1, <1>2, <1>3, <2>2, <2>3 DEF Undisturbed
<1>6. ASSUME phase = "discover", t = Found, ServerConfig = "sentinel"
      PROVE  /\ \A s \in Undisturbed : s = ShardOf[host] /\ (t = {} \/ \E n \in t : ShardOf[n] = s)
             /\ ~clusterMode
  BY <1>6 DEF Found, Asked, ReadInv, KnowledgeInv, LinkInv, Undisturbed
<1>7. ASSUME t = Found, ServerConfig \notin {"clustered", "sentinel"}
      PROVE  /\ \A s \in Undisturbed : \E n \in t : ShardOf[n] = s
             /\ \A n \in t : ShardOf[n] \in Undisturbed => ~clusterMode \/ primary[ShardOf[n]] = n
  <2>1. t = {host} /\ Asked = IF clusterMode /\ primary[ShardOf[host]] # host THEN {}
                              ELSE {ShardOf[host]}
    BY <1>7 DEF Found, Asked
  <2>2. QED
    BY <1>1, <2>1 DEF Undisturbed
<1>8. QED
  BY <1>4, <1>5, <1>6, <1>7 DEF Returned

\* What no step of a task and none of the environment changes.
LEMMA StaysOnCourse ==
  ASSUME TypeOK, TypeOK', ReadInv, [Next]_vars, UNCHANGED <<phase, nodes>>,
         phase \in {"scan", "done"} /\ ~Impossible =>
           \A n \in nodes : ShardOf[n] \in Undisturbed' /\ OnCourse(n, task[n]) =>
             OnCourse(n, task[n])',
         phase = "done" => \A n \in nodes : task'[n].pc = task[n].pc
  PROVE  ReadInv'
<1> USE DiscoveryAssumption
<1>1. UNCHANGED <<argv, host, clusterMode>> /\ ServerConfig' = ServerConfig /\ Impossible' = Impossible
  BY DEF Next, Main, Task, Environment, InitClient, Relink, ListReplicas, Invert, CollectReplicas,
         Discover, WaitDone, Connect, ConnectFails, ReadPage, Redirected, GiveUp, Reconnect,
         GoDown, ComeBack, Failover,
         vars, deployment, history, ServerConfig, Impossible
<1>2. nodes \subseteq Servers /\ \A n \in nodes : ShardOf[n] \in Shards
  BY DEF TypeOK
<1>3. Undisturbed' \subseteq Shards
  <2>1. Asked' \subseteq Shards
    BY DEF Asked, TypeOK
  <2>2. QED
    BY <2>1 DEF Undisturbed
<1>4. ASSUME phase' \in {"scan", "done"}, ~Impossible'
      PROVE  /\ \A s \in Undisturbed' : \E n \in nodes' : ShardOf[n] = s
             /\ \A n \in nodes' : ShardOf[n] \in Undisturbed' => OnCourse(n, task[n])'
  <2>1. /\ \A s \in Undisturbed : \E n \in nodes : ShardOf[n] = s
        /\ \A n \in nodes : ShardOf[n] \in Undisturbed => OnCourse(n, task[n])
    BY <1>1, <1>4 DEF ReadInv
  <2>2. \A s \in Undisturbed' : s \in Undisturbed
    BY <1>3, UndisturbedBefore
  <2>3. ASSUME NEW n \in nodes, ShardOf[n] \in Undisturbed' PROVE OnCourse(n, task[n])'
    BY <1>1, <1>4, <2>1, <2>2, <2>3
  <2>4. QED
    BY <2>1, <2>2, <2>3 DEF OnCourse
<1>5. (phase = "done" => \A n \in nodes : task[n].pc \in {"done", "failed"})'
  BY DEF ReadInv
<1>6. QED
  BY <1>1, <1>4, <1>5 DEF ReadInv

\* Replicas are asked for of clusters only.
LEMMA ReplicasNeedClusters ==
  ASSUME TypeOK, ReadInv, ~Impossible, argv.replicas
  PROVE  clusterMode
BY DEF TypeOK, ReadInv, Impossible, ServerConfig, Options

LEMMA ReadTask == ASSUME TypeInv, TypeInv', ReadInv, NEW n \in Servers, Task(n) PROVE ReadInv'
<1> USE DiscoveryAssumption
<1>1. /\ UNCHANGED <<argv, clusterMode, primary, phase, nodes, dropped>>
      /\ refused \subseteq refused' /\ phase = "scan"
  BY DEF Task, Connect, ConnectFails, ReadPage, Redirected, GiveUp, Reconnect, deployment,
         history, Running
<1>2. \A m \in Servers : m # n => task'[m] = task[m]
  BY DEF Task, Connect, ConnectFails, ReadPage, Redirected, GiveUp, Reconnect, TypeInv, TypeOK
<1> DEFINE a == task[n]
<1>3. InBounds(a) /\ task \in [Servers -> Tasks]
  BY TaskInBounds DEF TypeInv, TypeOK, Tasks
<1>4. ASSUME ~Impossible, n \in nodes, ShardOf[n] \in Undisturbed', OnCourse(n, a)
      PROVE  OnCourse(n, task[n])'
  <2>1. /\ n \notin refused'
        /\ n \in dropped => argv.reconnect /\ ~argv.replicas
    BY <1>1, <1>4 DEF Undisturbed, Disturbed
  <2>2. /\ a \in Tasks /\ a.read + a.left = PagesPerScan
        /\ a.pc = "scan" => a.up \/ n \in dropped
        /\ a.pc = "scan" /\ argv.replicas => a.readonly
        /\ ~clusterMode \/ argv.replicas \/ primary[ShardOf[n]] = n
        /\ argv.replicas => clusterMode
        /\ argv.replicas \in BOOLEAN
        /\ a.pc = "connect" => a.left > 0
    BY <1>3, <1>4, ReplicasNeedClusters DEF OnCourse, InBounds, TypeInv, TypeOK, Options
  <2>3. SUFFICES OnCourse(n, task'[n])
    BY <1>1 DEF OnCourse
  <2>4. CASE Connect(n)
    <3> DEFINE c == [a EXCEPT !.pc = "scan", !.up = TRUE, !.readonly = argv.replicas]
    <3>1. task'[n] = c
      BY <1>3, <2>2, <2>4 DEF Connect
    <3>2. c.pc = "scan" /\ c.up /\ c.readonly = argv.replicas /\ c.read = a.read /\ c.left = a.left
      BY <2>2 DEF Tasks
    <3> HIDE DEF c
    <3>3. QED
      BY <2>2, <3>1, <3>2 DEF OnCourse
  <2>5. CASE ConnectFails(n)
    BY <2>1, <2>5 DEF ConnectFails
  <2>6. CASE ReadPage(n)
    <3> DEFINE l == a.left - 1
               p == IF a.left = 1 THEN "done" ELSE a.pc
               r == a.read + 1
               c == Turned(a)
               d == [c EXCEPT !.read = c.read + 1]
    <3>1. task'[n] = d /\ a.pc = "scan"
      BY <1>3, <2>6 DEF ReadPage, Running
    <3>2. a.left \in 1 .. PagesPerScan /\ a.read \in 0 .. PagesPerScan
      BY <1>3, <3>1 DEF InBounds, Tasks
    <3>3. c = [a EXCEPT !.left = l, !.pc = p]
      BY DEF Turned
    <3>4. d.left = l /\ d.pc = p /\ d.read = r /\ d.up = a.up /\ d.readonly = a.readonly
      <4> HIDE DEF l, p
      <4>1. c.left = l /\ c.pc = p /\ c.read = a.read /\ c.up = a.up /\ c.readonly = a.readonly
            /\ DOMAIN c = DOMAIN a
        BY <2>2, <3>3 DEF Tasks
      <4>2. "read" \in DOMAIN c
        BY <2>2, <4>1 DEF Tasks
      <4> HIDE DEF c
      <4>3. QED
        BY <4>1, <4>2
    <3> HIDE DEF d
    <3>5. QED
      BY <2>2, <3>1, <3>2, <3>4 DEF OnCourse
  <2>7. CASE Redirected(n)
    <3>1. ~Serves(n) /\ a.pc = "scan"
      BY <2>7 DEF Redirected, Running
    <3>2. QED
      BY <2>2, <3>1 DEF Serves
  <2>8. CASE GiveUp(n)
    BY <2>1, <2>2, <2>8 DEF GiveUp, Running
  <2>9. CASE Reconnect(n)
    <3> DEFINE c == [a EXCEPT !.up = TRUE, !.readonly = FALSE]
    <3>1. task'[n] = c /\ a.pc = "scan" /\ ~a.up
      BY <1>3, <2>9 DEF Reconnect, Running
    <3>2. c.pc = a.pc /\ c.up /\ c.read = a.read /\ c.left = a.left
      BY <2>2 DEF Tasks
    <3>3. ~argv.replicas
      BY <2>1, <2>2, <3>1
    <3> HIDE DEF c
    <3>4. QED
      BY <2>2, <3>1, <3>2, <3>3 DEF OnCourse
  <2>10. QED
    BY <2>4, <2>5, <2>6, <2>7, <2>8, <2>9 DEF Task
<1>5. ASSUME NEW m \in nodes, m # n, OnCourse(m, task[m]) PROVE OnCourse(m, task[m])'
  BY <1>1, <1>2, <1>5 DEF OnCourse, TypeInv, TypeOK
<1>6. QED
  <2>1. [Next]_vars
    BY DEF Next
  <2>2. ~Impossible => \A m \in nodes : ShardOf[m] \in Undisturbed' /\ OnCourse(m, task[m]) =>
                         OnCourse(m, task[m])'
    BY <1>4, <1>5
  <2>3. QED
    BY <1>1, <2>1, <2>2, StaysOnCourse DEF TypeInv

LEMMA ReadMain == ASSUME TypeInv, TypeInv', KnowledgeInv, ReadInv, Main PROVE ReadInv'
<1> USE DiscoveryAssumption
<1>1. UNCHANGED <<argv, host, clusterMode, primary, down, dropped, failedOver>>
      /\ ServerConfig' = ServerConfig /\ Impossible' = Impossible
  BY DEF Main, InitClient, Relink, ListReplicas, Invert, CollectReplicas, Discover, WaitDone,
         deployment, history, ServerConfig, Impossible
<1>2. \A s \in Undisturbed' : s \in Undisturbed
  <2>1. Undisturbed' \subseteq Shards
    BY DEF TypeInv, TypeOK, Undisturbed, Asked
  <2>2. [Next]_vars
    BY DEF Next
  <2>3. QED
    BY <2>1, <2>2, UndisturbedBefore DEF TypeInv
<1>3. ASSUME phase' \notin {"scan", "done"} PROVE ReadInv'
  BY <1>1, <1>3 DEF ReadInv
<1>4. CASE InitClient \/ Relink \/ ListReplicas \/ \E n \in Servers : Invert(n)
  BY <1>3, <1>4 DEF InitClient, Relink, ListReplicas, Invert
<1>5. CASE Discover \/ CollectReplicas
  <2>1. ASSUME NEW t \in SUBSET Servers, Start(t), Returned(t),
               phase = "discover" /\ t = {} => host \in refused'
        PROVE  ReadInv'
    <3>1. /\ phase' = "scan" /\ nodes' = t
          /\ task' = [n \in Servers |-> IF n \in t THEN [NewTask EXCEPT !.pc = "connect"]
                                        ELSE NewTask]
      BY <2>1 DEF Start
    <3>2. \A n \in t : task'[n].pc = "connect" /\ task'[n].read = 0 /\ task'[n].left = PagesPerScan
      BY <3>1 DEF NewTask
    <3>3. phase = "discover" /\ t = {} => ShardOf[host] \notin Undisturbed'
      BY <1>1, <2>1 DEF Undisturbed, Disturbed
    <3>4. ASSUME ~Impossible
          PROVE  /\ \A s \in Undisturbed' : \E n \in t : ShardOf[n] = s
                 /\ \A n \in t : ShardOf[n] \in Undisturbed' => OnCourse(n, task'[n])
      <4>1. /\ \A s \in Undisturbed : \/ phase = "discover" /\ t = {} /\ s = ShardOf[host]
                                      \/ \E n \in t : ShardOf[n] = s
            /\ \A n \in t : ShardOf[n] \in Undisturbed =>
                 ~clusterMode \/ argv.replicas \/ primary[ShardOf[n]] = n
        BY <2>1, <3>4, NodesCover DEF TypeInv
      <4>2. QED
        BY <1>2, <3>2, <3>3, <4>1 DEF OnCourse
    <3>5. \A n \in t : OnCourse(n, task'[n]) => OnCourse(n, task[n])'
      BY <1>1 DEF OnCourse
    <3>6. QED
      BY <1>1, <3>1, <3>4, <3>5 DEF ReadInv
  <2>2. QED
    BY <1>3, <1>5, <2>1, EndsDiscovery DEF TypeInv
<1>6. CASE WaitDone
  <2>1. UNCHANGED <<nodes, task>> /\ phase = "scan"
        /\ \A n \in nodes : task[n].pc \in {"done", "failed"}
    BY <1>6 DEF WaitDone
  <2>2. \A n \in nodes : OnCourse(n, task[n]) => OnCourse(n, task[n])'
    BY <1>1, <2>1 DEF OnCourse
  <2>3. Undisturbed' = Undisturbed
    BY <1>1, <1>6 DEF WaitDone, history, Undisturbed, Asked, Disturbed
  <2>4. QED
    BY <1>1, <2>1, <2>2, <2>3 DEF ReadInv
<1>7. QED
  BY <1>4, <1>5, <1>6 DEF Main

LEMMA ReadEnvironment == ASSUME TypeInv, TypeInv', ReadInv, Environment PROVE ReadInv'
<1> USE DiscoveryAssumption
<1>1. PICK n \in Servers : GoDown(n) \/ ComeBack(n) \/ Failover(n)
  BY DEF Environment
<1>2. UNCHANGED <<argv, clusterMode, phase, nodes>> /\ dropped \subseteq dropped'
  BY <1>1 DEF GoDown, ComeBack, Failover, deployment, history
<1>3. [Next]_vars
  BY DEF Next
<1>4. ASSUME NEW m \in nodes
      PROVE  /\ task'[m].pc = task[m].pc /\ task'[m].read = task[m].read
             /\ task'[m].left = task[m].left /\ task'[m].readonly = task[m].readonly
             /\ task'[m].up = task[m].up \/ m \in dropped'
  <2>1. CASE GoDown(n)
    <3> DEFINE c == [task[n] EXCEPT !.up = FALSE]
    <3>1. task \in [Servers -> Tasks] /\ task' = [task EXCEPT ![n] = c] /\ n \in dropped'
          /\ m \in Servers
      BY <2>1 DEF GoDown, TypeInv, TypeOK, Tasks
    <3>2. /\ c.pc = task[n].pc /\ c.read = task[n].read
          /\ c.left = task[n].left /\ c.readonly = task[n].readonly
      BY <3>1 DEF Tasks
    <3> HIDE DEF c
    <3>3. QED
      BY <3>1, <3>2
  <2>2. CASE ComeBack(n) \/ Failover(n)
    BY <2>2 DEF ComeBack, Failover
  <2>3. QED
    BY <1>1, <2>1, <2>2
<1>5. ASSUME NEW m \in nodes, ShardOf[m] \in Undisturbed', OnCourse(m, task[m])
      PROVE  OnCourse(m, task[m])'
  <2>1. m \in Servers /\ ShardOf[m] \in Shards
    BY DEF TypeInv, TypeOK
  <2>2. primary'[ShardOf[m]] = primary[ShardOf[m]]
    BY <1>3, <1>5, <2>1, UndisturbedBefore DEF TypeInv
  <2>3. QED
    BY <1>2, <1>4, <1>5, <2>2 DEF OnCourse
<1>6. QED
  BY <1>2, <1>3, <1>4, <1>5, StaysOnCourse DEF TypeInv

LEMMA ReadStep == TypeInv /\ TypeInv' /\ KnowledgeInv /\ ReadInv /\ [Next]_vars => ReadInv'
<1> SUFFICES ASSUME TypeInv, TypeInv', KnowledgeInv, ReadInv, [Next]_vars PROVE ReadInv'
  OBVIOUS
<1>1. CASE UNCHANGED vars
  <2>1. UNCHANGED <<phase, nodes, task>> /\ \A n \in nodes : OnCourse(n, task[n]) => OnCourse(n, task[n])'
    BY <1>1 DEF vars, deployment, history, OnCourse
  <2>2. QED
    BY <2>1, StaysOnCourse DEF TypeInv
<1>2. QED
  BY <1>1, ReadMain, ReadTask, ReadEnvironment DEF Next

LEMMA ReadAlways == Spec => []ReadInv
<1>1. Spec => []TypeInv
  BY TypeInit, TypeStep, PTL DEF Spec
<1>2. QED
  BY <1>1, KnowledgeAlways, ReadInit, ReadStep, PTL DEF Spec

\* A shard that was asked for is read to its last page by one of the nodes, if it
\* did not fail over, its server was there for the discovery and its task and no
\* connection that mattered was lost: whatever happened to the other shards.
THEOREM UndisturbedAreRead == Spec => []EveryShardRead
<1>1. TypeInv /\ ReadInv => EveryShardRead
  <2> SUFFICES ASSUME TypeInv, ReadInv, phase = "done", ~Impossible, NEW s \in Undisturbed
               PROVE  \E n \in nodes : ShardOf[n] = s /\ task[n].read = PagesPerScan
    BY DEF EveryShardRead, Impossible, Undisturbed
  <2>1. PICK n \in nodes : ShardOf[n] = s
    BY DEF ReadInv
  <2>2. OnCourse(n, task[n]) /\ task[n].pc \in {"done", "failed"}
    BY <2>1 DEF ReadInv
  <2>3. task[n].read \in 0 .. PagesPerScan
    BY DEF TypeInv, TypeOK
  <2>4. task[n].read = PagesPerScan
    BY <2>2, <2>3, DiscoveryAssumption DEF OnCourse
  <2>5. QED
    BY <2>1, <2>4
<1>2. Spec => []TypeInv
  BY TypeInit, TypeStep, PTL DEF Spec
<1>3. QED
  BY <1>1, <1>2, ReadAlways, PTL
=============================================================================
