----------------------------- MODULE Discovery -----------------------------
(***************************************************************************)
(* Which servers are scanned, and over which connections: main connects as *)
(* the arguments say, takes the servers from what its client knows of the  *)
(* deployment, and starts one task per server with a connection to that    *)
(* server alone, which it prepares once.  Meanwhile shards fail over,      *)
(* connections are lost and servers vanish.                                *)
(*                                                                         *)
(* A shard is a primary with its replicas.  In cluster mode the keyspace   *)
(* is divided among all shards; otherwise a deployment is one of them.  A  *)
(* scan is a number of pages, each with a command per key.  An operator    *)
(* whose name ends in _Fault is a plausible bug in the one that follows    *)
(* it; nothing uses it but the mutation runs.                              *)
(***************************************************************************)
EXTENDS Integers, FiniteSets, Functions

CONSTANTS Servers,
          Shards,
          ShardOf,        \* the shard each server belongs to, for good
          PagesPerScan,
          MaxDrops,       \* bounds the connections that are lost
          MaxFailovers    \* bounds the changes of primaries

ASSUME DiscoveryAssumption ==
  /\ ShardOf \in [Servers -> Shards]
  /\ PagesPerScan \in Nat \ {0} /\ MaxDrops \in Nat /\ MaxFailovers \in Nat

VARIABLES
  argv,          \* the arguments that matter here, after Argv::fix
  host,          \* --host and --port; with a sentinel, a server it watches
  clusterMode,   \* the servers run with cluster support
  primary,       \* of every shard, at this moment
  cache,         \* the primaries the first client has learnt of
  phase,         \* of main
  link,          \* with a sentinel, what the first client is connected to
  listed,        \* the replicas the loop of discover_servers has not come to
  inverted,      \* what it has made of the others: a replica per primary
  nodes,         \* the servers of the ClusterNodes
  task,          \* the state of the task of every server
  down,          \* the servers that do not answer
  \* history variables
  dropped,       \* the servers whose connection was lost
  refused,       \* the servers that were not there for their task, or for the discovery
  failedOver     \* the shards whose primary changed

deployment == <<argv, host, clusterMode>>
history    == <<dropped, refused, failedOver>>
inversion  == <<listed, inverted>>
vars       == <<deployment, primary, cache, phase, link, inversion, nodes, task, down, history>>

\* Argv::fix, of arguments that clap accepts.
Fix(a) == IF a.replicas THEN [a EXCEPT !.cluster = TRUE] ELSE a

Options  == [sentinel : BOOLEAN, cluster : BOOLEAN, replicas : BOOLEAN,
             reconnect : BOOLEAN, ignore : BOOLEAN]
Accepted == {a \in Options : ~(a.sentinel /\ a.cluster)}

\* init's ServerConfig
ServerConfig ==
  CASE argv.sentinel                  -> "sentinel"
    [] argv.cluster \/ argv.replicas  -> "clustered"
    [] OTHER                          -> "centralized"

NewTask == [pc       |-> "none",
            up       |-> FALSE,          \* its connection is there
            readonly |-> FALSE,          \* and has been sent READONLY
            left     |-> PagesPerScan,   \* the pages still to come
            read     |-> 0]              \* history: the pages that were served

Primaries == {f \in [Shards -> Servers] : \A s \in Shards : ShardOf[f[s]] = s}

Init == /\ argv \in {Fix(a) : a \in Accepted}
        /\ host \in Servers
        /\ clusterMode \in BOOLEAN
        /\ ServerConfig = "clustered" => clusterMode
        /\ ServerConfig = "sentinel" => ~clusterMode
        /\ primary \in Primaries /\ cache = primary
        /\ phase = "init"
        /\ link = {} /\ listed = {} /\ inverted = [p \in {} |-> p]
        /\ nodes = {}
        /\ task = [n \in Servers |-> NewTask]
        /\ down = {}
        /\ dropped = {} /\ refused = {} /\ failedOver = {}
-----------------------------------------------------------------------------
\* main

\* The server the first client talks to: a sentinel names the primary.
Entry == IF ServerConfig = "sentinel" THEN primary[ShardOf[host]] ELSE host

\* build and init, which learns from the cluster or the sentinel who is primary.
\* With fail_fast a server that is not there is an error, and main panics; in a
\* cluster perhaps also if it is another primary.
InitClient ==
  /\ phase = "init"
  /\ \/ /\ Entry \notin down
        /\ phase' = "discover" /\ cache' = primary
        /\ link' = IF ServerConfig = "sentinel" THEN {Entry} ELSE {}
     \/ /\ \/ Entry \in down
           \/ ServerConfig = "clustered" /\ Range(primary) \cap down # {}
        /\ phase' = "panicked" /\ UNCHANGED <<cache, link>>
  /\ UNCHANGED <<deployment, primary, inversion, nodes, task, down, history>>

\* With a reconnection policy the client goes back to the sentinel for the primary.
Relink ==
  /\ phase = "discover"
  /\ ServerConfig = "sentinel" /\ argv.reconnect
  /\ link = {} /\ Entry \notin down
  /\ link' = {Entry}
  /\ UNCHANGED <<deployment, primary, cache, phase, inversion, nodes, task, down, history>>

\* discover_servers: with --replicas of a cluster, one replica per primary.
ByReplicas == ServerConfig = "clustered" /\ argv.replicas

ListReplicas_Fault ==    \* of all servers
  /\ phase = "discover" /\ ByReplicas
  /\ phase' = "invert"
  /\ listed' = Servers
  /\ UNCHANGED <<deployment, primary, cache, link, inverted, nodes, task, down, history>>

\* The client's map of the replicas to their primaries.
ListReplicas ==
  /\ phase = "discover" /\ ByReplicas
  /\ phase' = "invert"
  /\ listed' = {n \in Servers : n # cache[ShardOf[n]]}
  /\ UNCHANGED <<deployment, primary, cache, link, inverted, nodes, task, down, history>>

Invert_Fault(n) ==    \* keyed by the replica, as in the map it comes from
  /\ phase = "invert" /\ n \in listed
  /\ listed' = listed \ {n}
  /\ inverted' = [p \in DOMAIN inverted \cup {n} |-> p]
  /\ UNCHANGED <<deployment, primary, cache, phase, link, nodes, task, down, history>>

\* One turn of the loop that inverts it, in the order of a HashMap: the replicas of
\* a primary overwrite each other.
Invert(n) ==
  /\ phase = "invert" /\ n \in listed
  /\ listed' = listed \ {n}
  /\ inverted' = [p \in DOMAIN inverted \cup {cache[ShardOf[n]]} |->
                    IF p = cache[ShardOf[n]] THEN n ELSE inverted[p]]
  /\ UNCHANGED <<deployment, primary, cache, phase, link, nodes, task, down, history>>

\* A ClusterNode for each of the servers, and a task per node.
Start(servers) ==
  /\ phase' = "scan"
  /\ nodes' = servers
  /\ task' = [n \in Servers |-> IF n \in servers THEN [NewTask EXCEPT !.pc = "connect"]
                                ELSE NewTask]

CollectReplicas ==
  /\ phase = "invert" /\ listed = {}
  /\ Start(Range(inverted))
  /\ UNCHANGED <<deployment, primary, cache, link, inversion, down, history>>

\* The servers otherwise; with a sentinel the live connections of the client.
Found == CASE ServerConfig = "clustered" -> Range(cache)
           [] ServerConfig = "sentinel"  -> link
           [] OTHER                      -> {host}

\* A client that has lost its connection finds nothing, or an error, and main
\* panics.
Discover ==
  /\ phase = "discover" /\ ~ByReplicas
  /\ \/ Start(Found)
     \/ Found = {} /\ phase' = "panicked" /\ UNCHANGED <<nodes, task>>
  /\ refused' = IF Found = {} THEN refused \cup {host} ELSE refused
  /\ UNCHANGED <<deployment, primary, cache, link, inversion, down, dropped, failedOver>>

\* wait_with_interrupts
WaitDone ==
  /\ phase = "scan"
  /\ \A n \in nodes : task[n].pc \in {"done", "failed"}
  /\ phase' = "done"
  /\ UNCHANGED <<deployment, primary, cache, link, inversion, nodes, task, down, history>>
-----------------------------------------------------------------------------
\* The task of server n

Running(n, pc) == phase = "scan" /\ task[n].pc = pc

Connect_Fault(n) ==    \* replicas are not asked to serve reads
  /\ Running(n, "connect")
  /\ n \notin down
  /\ task' = [task EXCEPT ![n].pc = "scan", ![n].up = TRUE]
  /\ UNCHANGED <<deployment, primary, cache, phase, link, inversion, nodes, down, history>>

\* build, init, check_readonly: an error of any ends the task, --ignore and
\* --reconnect or not.  A server without cluster support refuses READONLY.
Connect(n) ==
  /\ Running(n, "connect")
  /\ n \notin down
  /\ task' = IF argv.replicas /\ ~clusterMode THEN [task EXCEPT ![n].pc = "failed"]
             ELSE [task EXCEPT ![n].pc = "scan",
                               ![n].up = TRUE, ![n].readonly = argv.replicas]
  /\ UNCHANGED <<deployment, primary, cache, phase, link, inversion, nodes, down, history>>

ConnectFails(n) ==
  /\ Running(n, "connect")
  /\ n \in down
  /\ task' = [task EXCEPT ![n].pc = "failed"]
  /\ refused' = refused \cup {n}
  /\ UNCHANGED <<deployment, primary, cache, phase, link, inversion, nodes, down, dropped, failedOver>>

\* In cluster mode only the primary of a key executes a command on it; a replica
\* redirects the client, unless the connection has been sent READONLY.
Serves(n) == \/ ~clusterMode
             \/ primary[ShardOf[n]] = n
             \/ task[n].readonly

Turned_Fault(a) == [a EXCEPT !.left = @ - 1]    \* the last one is not noticed

\* A page is over, and with the last one the scan.
Turned(a) == [a EXCEPT !.left = @ - 1, !.pc = IF a.left = 1 THEN "done" ELSE @]

ReadPage(n) ==
  /\ Running(n, "scan") /\ task[n].up
  /\ Serves(n)
  /\ task' = [task EXCEPT ![n] = [Turned(task[n]) EXCEPT !.read = @ + 1]]
  /\ UNCHANGED <<deployment, primary, cache, phase, link, inversion, nodes, down, history>>

\* The pipeline of the page fails.
Redirected(n) ==
  /\ Running(n, "scan") /\ task[n].up
  /\ ~Serves(n)
  /\ task' = [task EXCEPT ![n] = IF argv.ignore THEN Turned(@) ELSE [@ EXCEPT !.pc = "failed"]]
  /\ UNCHANGED <<deployment, primary, cache, phase, link, inversion, nodes, down, history>>

GiveUp_Fault(n) ==    \* waits for a connection that nobody sets up again
  /\ Running(n, "scan") /\ ~task[n].up
  /\ ~argv.reconnect /\ argv.ignore
  /\ task' = [task EXCEPT ![n].pc = "done"]
  /\ UNCHANGED <<deployment, primary, cache, phase, link, inversion, nodes, down, history>>

\* Without a policy the commands on a lost connection fail, and so the SCAN.
GiveUp(n) ==
  /\ Running(n, "scan") /\ ~task[n].up
  /\ ~argv.reconnect
  /\ task' = [task EXCEPT ![n].pc = IF argv.ignore THEN "done" ELSE "failed"]
  /\ UNCHANGED <<deployment, primary, cache, phase, link, inversion, nodes, down, history>>

\* With one the client tries without limit and then repeats what it was doing;
\* nobody sends READONLY again.
Reconnect(n) ==
  /\ Running(n, "scan") /\ ~task[n].up
  /\ argv.reconnect
  /\ n \notin down
  /\ task' = [task EXCEPT ![n].up = TRUE, ![n].readonly = FALSE]
  /\ UNCHANGED <<deployment, primary, cache, phase, link, inversion, nodes, down, history>>

Task(n) == \/ Connect(n) \/ ConnectFails(n) \/ ReadPage(n) \/ Redirected(n)
           \/ GiveUp(n) \/ Reconnect(n)
-----------------------------------------------------------------------------
\* The environment

\* A server closes its connections or stops answering, for a while or for good.
GoDown(n) ==
  /\ Cardinality(dropped) < MaxDrops
  /\ n \notin down \cup dropped
  /\ down' = down \cup {n}
  /\ dropped' = dropped \cup {n}
  /\ link' = link \ {n}
  /\ task' = [task EXCEPT ![n].up = FALSE]
  /\ UNCHANGED <<deployment, primary, cache, phase, inversion, nodes, refused, failedOver>>

ComeBack(n) ==
  /\ n \in down
  /\ down' = down \ {n}
  /\ UNCHANGED <<deployment, primary, cache, phase, link, inversion, nodes, task, history>>

Failover(n) ==
  /\ Cardinality(failedOver) < MaxFailovers
  /\ n \notin down /\ primary[ShardOf[n]] # n
  /\ primary' = [primary EXCEPT ![ShardOf[n]] = n]
  /\ failedOver' = failedOver \cup {ShardOf[n]}
  /\ UNCHANGED <<deployment, cache, phase, link, inversion, nodes, task, down, dropped, refused>>

Main == \/ InitClient \/ Relink \/ Discover \/ ListReplicas
        \/ \E n \in Servers : Invert(n)
        \/ CollectReplicas \/ WaitDone
Environment == \E n \in Servers : GoDown(n) \/ ComeBack(n) \/ Failover(n)
Next == Main \/ (\E n \in Servers : Task(n)) \/ Environment

\* main and the tasks go on; nobody has to come back.
Spec == /\ Init /\ [][Next]_vars
        /\ WF_vars(Main) /\ \A n \in Servers : WF_vars(Task(n))
-----------------------------------------------------------------------------
\* The type invariant.
TypeOK ==
  /\ argv \in Options /\ (argv.replicas => argv.cluster)
  /\ host \in Servers /\ clusterMode \in BOOLEAN
  /\ primary \in Primaries /\ cache \in Primaries
  /\ phase \in {"init", "discover", "invert", "scan", "done", "panicked"}
  /\ link \subseteq Servers /\ listed \subseteq Servers
  /\ DOMAIN inverted \subseteq Servers /\ inverted \in [DOMAIN inverted -> Servers]
  /\ nodes \subseteq Servers
  /\ task \in [Servers -> [pc : {"none", "connect", "scan", "done", "failed"},
                           up : BOOLEAN, readonly : BOOLEAN,
                           left : 0 .. PagesPerScan, read : 0 .. PagesPerScan]]
  /\ down \subseteq Servers /\ dropped \subseteq Servers /\ refused \subseteq Servers
  /\ failedOver \subseteq Shards

\* utils.rs:173, "pick one replica per primary node": however many replicas a
\* primary has and in whatever order the loop comes to them, no two tasks scan the
\* keys of one shard, which would count them twice.
NoShardTwice == \A m, n \in nodes : m # n => ShardOf[m] # ShardOf[n]

\* argv.rs:36: "Whether to scan replicas rather than primary nodes."  A primary
\* is scanned then only if it has become one since.
PrimariesSpared ==
  ServerConfig = "clustered" /\ argv.replicas =>
    \A n \in nodes : primary[ShardOf[n]] = n => ShardOf[n] \in failedOver

\* The shards the arguments ask for; a server of a cluster that is addressed
\* without --cluster is read if it is a primary.
Asked == CASE ServerConfig = "clustered" /\ argv.replicas  ->
                {s \in Shards : \E n \in Servers : ShardOf[n] = s /\ n # primary[s]}
           [] ServerConfig = "clustered" /\ ~argv.replicas -> Shards
           [] ServerConfig = "sentinel"                    -> {ShardOf[host]}
           [] OTHER -> IF clusterMode /\ primary[ShardOf[host]] # host THEN {}
                       ELSE {ShardOf[host]}

\* The shards something happened to that costs pages: a failover, a server that
\* was not there for its task or for the discovery, a lost connection without
\* --reconnect, or with it if the task relied on READONLY.
Disturbed ==
  failedOver \cup {ShardOf[n] : n \in refused}
             \cup {ShardOf[n] : n \in IF argv.reconnect /\ ~argv.replicas THEN {} ELSE dropped}

\* Every other shard that was asked for is read to its last page, whatever
\* happened elsewhere.  Not so with --sentinel-service and --replicas, which clap
\* lets pass: every task fails on its READONLY.
EveryShardRead ==
  phase = "done" /\ ~(argv.sentinel /\ argv.replicas) =>
    \A s \in Asked \ Disturbed :
      \E n \in nodes : ShardOf[n] = s /\ task[n].read = PagesPerScan

\* A run comes to its end, with --reconnect unless a server it reads stays away
\* for good.
Ends == \/ <>(phase \in {"done", "panicked"})
        \/ argv.reconnect /\ <>[](\E n \in nodes \cap down : task[n].pc = "scan")
=============================================================================
