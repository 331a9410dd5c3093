# A verification project for redis-scanner

`redis-scanner` walks the keyspace of one Redis server, or of every node of a
cluster, with `SCAN`, sends one command per key of each page, and either reports
the best-ranked keys (`idle`, `ttl`, `memory`, `sum`) or changes the keys
(`touch`, `expire`). This directory holds TLA+ models of its core, the TLC
configurations that check them and the theorems proved about them.

Run a check with `tlc -config <run>.cfg <module>`; prove with `tlapm <module>.tla`.

## Inventory

| Component | State | Operations | Status |
|---|---|---|---|
| **queue** (`pqueue.rs`) | `index` (hash → entry) and `sorted` (weight → hashes) behind one mutex; order; capacity | `new`, `push_or_update`, `remove_sorted`, `deep_copy`, `into_vec` | modelled, proved about |
| **report commands** (`idle.rs`, `ttl.rs`, `memory.rs`, `sum.rs`) | `State`: the queue and the total, shared through `Arc`s; per-node counts | `run` spawns a task per node; `scan_node`'s closure filters a page, sends a pipeline, handles the replies; `take`, `print_*` | modelled, proved about |
| **touch**, **expire** (`touch.rs`, `expire.rs`) | the servers' keys, per-node counts, the shared `Counters` | the same tasks with their own closures: grouping by hash slot; dry run, one result per command | modelled, proved about |
| **scan loop, waiting** (`utils.rs:47-57`, `294-464`) | the iteration, the last error, local counts | `scan_server`, `should_skip_key_by_regexp`, `regexp_capture`, `wait_with_interrupts` | modelled; what a capturing expression yields is a constant |
| **discovery** (`utils.rs:162-264`, `lib.rs`) | the node list, a connection per task | `init`, `discover_servers`, `change_builder_server`, `check_readonly`, reconnection | modelled, proved about |
| **progress** (`progress.rs`) | shared `Counters`; bars with the time of their last update | increments, throttled updates, `finish`, the estimate and event helpers of a node | modelled and proved about, except the line of totals |
| **main** (`main.rs`) | – | dispatch, print, end of all tasks | the end is modelled |
| **arguments** (`argv.rs`) | the options, global flags | `fix`, `set_globals` | where an option shapes behaviour; the rest is declarative |
| **output**, **TLS** | – | tables/JSON/CSV, certificate files | not modelled: pure, or I/O |

**Interactions.** `main` connects, discovers the nodes and hands them to the
command's `run`, which spawns one task per node with a clone of `State`. A task
connects to its node alone, prepares the connection once, and spawns the helpers
that keep its progress bar up to date. Tasks interact through what the clones
share, the mutex of the queue and the atomic total, and through the `Counters` and
the one mutex of all bars. Other clients change the servers all the time. `run`
awaits all tasks or ctrl-c, whichever is first; ctrl-c does not stop the tasks.
`main` then prints: it reads the total, takes the queue by moving it out of its
`Arc`, or by copying it if a task still holds a clone, and drains it. The tasks
end, if they have not, when `main` returns.

**What is hard.** Two structures that must agree after every push, merge,
eviction and during the drain. A bounded queue over values that still grow. A
`SCAN` that repeats keys, keys that expire or change between the page and the
command, pipelines that fail after the server has executed part of them, with
`GETSET` having erased what it read. Errors of one node against the others', with
and without `--ignore`. A report made while tasks are still pushing. A topology
that is known from a cache and changes, connections that come back without what
they had been sent. Updates of a bar that are dropped by the clock, from several
tasks. The hazards, each at its line, are listed in `PROJECT.json`.

**What makes each component correct.** The queue: the structures agree, the
capacity is respected and used, nothing better than what is kept is given up, an
entry that stays is the merge of its pushes, the drain ends and is the ranking.
A command: every key that was there all the time, is wanted and was not hit by an
error is in the report or outranked; totals are exact when nothing was evicted;
rows are the page that `--limit` and `--offset` ask for, and every row, in any
report, is the reply to its own key; shares are parts of the
printed total; `--decr` counts each value once; a report always comes. `touch` and
`expire`: every wanted key is reached and no other, every key is counted
once, and the shared counters agree with the nodes' own.
Discovery: no shard is scanned twice, `--replicas` spares the primaries, every
shard that was asked for and not disturbed is read to its end, and the run ends.
Progress: dropped updates starve no bar, within the refresh delay nothing but an
estimate changes one, and only its length, how a scan
ended stays on its bar, and no helper outlives its node.

## Modules

| Module | What it is |
|---|---|
| `PQueueOps` | the branches of the queue's methods as operators on `[index, sorted]` |
| `TopN` | the abstract specification: a merged, bounded best-of set and its ordered report |
| `PrioQueue` | the life of a shared queue: concurrent pushes, the take, the drain; implements `TopN` |
| `Entries` | how each command merges entries, with the i64's wrap-around |
| `ScanServer` | what the scan loops share: the regular expressions, the pages a server can send, where the loop goes next |
| `Commands` | what distinguishes the four report commands: identity (key or group), merging, what is skipped, queue size, page |
| `Scan` | the composition: node tasks, servers, other clients, main, interrupts and failures over one queue and total |
| `Maintain` | `touch` and `expire`: node tasks, pipelines, results, the shared counters |
| `Discovery` | which servers are scanned over which connections, while shards fail over and servers vanish |
| `Progress` | the bars of the nodes, the tasks and helpers that update them, and the clock that drops updates |
| `MCPrioQueue`, `MCScan`, `MCMaintain`, `MCDiscovery`, `MCProgress` | the instances TLC checks |
| `PQueueOpsProofs` | lemmas about the operators of `PQueueOps` |
| `PrioQueueProofs` | the theorems about `PrioQueue`, its drain included; that it implements `TopN` |
| `ScanServerProofs` | lemmas about the regular expressions, and about sums over finite sets |
| `ScanProofs` | that a report of `idle` and `ttl` forgets no key |
| `ScanTotalsProofs` | the other theorems about `Scan`: types, totals, ranking, exact sums, the truth of every row |
| `MaintainProofs`, `DiscoveryProofs`, `ProgressProofs` | the theorems about these modules |

### From code to model

*Queue.* An entry is its hash and its weight; what a row prints besides is
determined by the hash. `BTreeMap<i64, BTreeSet<u64>>` is a function to sets,
and the ends of a `BTreeMap` are the best or worst weights by the order in use.
A method runs under the mutex from start to end, so a push is one step of
`PrioQueue`; `into_vec` is one step per bucket, because the pushes of other tasks
(to the queue it was copied from) go on meanwhile. `merged` and `lost` are
history variables.

*Scan.* A step of a task ends where the code awaits, or between two of its
accesses to what others see: the total is raised (`Tally`) and the entry pushed
(`Store`) in two steps. The closure's work on a page up to its pipeline is one
step (`FetchPage`: it touches nothing shared but the counters of the progress
display), the pipeline's execution and answer is another (`Replies`), or it fails
after any part of it was executed (`PipelineError`). The order of the replies is
left open, as is the order in which `SCAN` returns keys. `try_next` failing is
`ScanError`; an error before the scan, `--ignore` or not, is the failing branch of
`Connect`. `Filter` and `Reject` are empty or an expression: whether it compiles
and which keys it matches. `Compiled` drops those that do not compile, as the code
does; `Selected` says what the documentation promises. Capturing expressions
are the function from keys to groups. Values, hashes and widths are small integers.
A `TTL` of a missing key is -2, which `--skip-missing` does not skip: a key that
expires between page and command becomes a row, although the option's text
(`argv.rs:363`) promises to "skip keys that do not have a TTL". `RowsTellTheTruth`
says what the code does guarantee of every row, for keys that other clients change
or remove as well: it is the reply to its own key for a value in `had`, the history of what that
key has been, and for none that is skipped. So a -1 is never listed, and a -2 only of
a key that was gone. A pipeline whose replies are attributed to the wrong keys
breaks it.

*Maintain.* The tasks are those of `Scan`, with the counts in the foreground: the
shared `counters`, the closure's working copy (`page`) and the ones `scan_server`
takes over when the closure returns `Ok` (`count`). `expire`'s `try_all` gives a
result per command, and each iteration of the loop over them is a step
(`CountSuccess`, `CountError`). Whether `--ignore` and `--really` are given is
chosen in `Init`. A lost reply is an error of a command that was executed.

The environment follows the documented contract of `SCAN`: a key that is there
throughout an iteration is returned at least once, possibly more often. `TTL`
answers -2 for a missing key, the other commands nil.

*Discovery.* The deployment is a set of servers in shards, with the present
`primary` of each; `cache` is what the first client learnt of it. `Init` chooses among all arguments that clap
accepts, after `Argv::fix`, and among deployments they can be used with. `InitClient`
connects; `Discover` takes the servers that `Found` names, from the cache, from the
arguments, or with a sentinel from `link`, the live connections of the client: if that
one is lost (`GoDown`) and the policy has not brought it back (`Relink`), there is
nothing to scan or an error. `--replicas` takes the client's map of replicas
(`ListReplicas`), inverts it a replica per step in any order, as the loop over a
`HashMap` does, each overwriting the one its primary had before (`Invert`), and
collects what is left (`CollectReplicas`). Failovers come between any of these
steps. A task connects, with `READONLY`
under `--replicas`, and reads its pages; a server that is no longer, or not yet,
allowed to serve a key redirects, and the centralized client of the task reports
an error. `Failover`, `GoDown` and `ComeBack` may come at any point. Reconnecting
resumes the SCAN where it was but does not repeat `READONLY`.

*Progress.* `ServerBars` is two maps behind one mutex, and each of its methods a
part of the step of whoever calls it. Time is a `Tick` that may or may not come
between any two steps; instants are ages, cut off at the refresh delay, which is
all `should_update` compares. Each node has a task (`Connect` to `Abort`) and two
helpers, for estimates and for connection events, which go on until they are
aborted. Positions are numbers of pages; what a message says is one of six values.
`UpdateEstimate` sets the length of a bar whatever the time, as `progress.rs:270-276`
does, although the template shows the length (22-23) and `argv.rs:81` speaks of "a
minimum refresh delay between progress bar updates"; `OnlyEstimatesHurry` names that
exception.

## Runs

| Run | Question | Instance |
|---|---|---|
| `queue_first_wins` | the whole life of a queue of first-wins entries, `--sort asc`, and its refinement of `TopN` | 4 hashes, capacity 2, 5 pushes |
| `queue_sums` | `--sort desc`, entries whose weight moves and wraps, around evictions | 3 hashes, capacity 2, 6 pushes, 3-bit weights |
| `scan_totals` | `sum --decr` of groups across nodes: the total against the queue, `GETSET` under repeated keys, exact sums, ctrl-c | unbounded queue, every fault but failing pipelines |
| `scan_report` | `ttl` with an offset and a queue that overflows: what errors cost with and without `--ignore`, the page of the ranking, the truth of every row, and that a report comes | queue of 2, failing SCANs and pipelines |
| `maintain` | `touch`, `expire` and its dry run: reach, counts, with and without `--ignore` | all faults, both regular expressions |
| `discovery` | which shards are read, and how often, by a loop that inverts the replicas in any order, under every combination of arguments, failovers and lost connections | 4 servers in 2 shards, 1 failover, 2 servers that go down |
| `progress` | the throttle against finish, sleeps, events and estimates; the end of the helpers | 2 bars, a refresh delay of 2 ticks, sleeps of 1 and 2 |

*Bounds.* The queue runs have 3 or 4 hashes with a capacity of 2, so that every
push can insert, update, swap or refuse, and enough pushes to evict a hash, bring
it back and evict it again; 2 or 3 values, so that weights tie. `Scan` has two
nodes with 2 and 1 keys, `Maintain` two with 3 and 2 (two in one slot, one
rejected, one not selected): the smallest systems where tasks interleave, a page
can be partial, a group can span nodes and a queue of 2 overflows. Two pages per
iteration, and one write or removal by another client. `Discovery` has one shard
with two replicas and one without any, so that "one replica per primary" is a
choice and a primary can be left without a reader; `MaxDrops` = 2 lets one server
stay away while another comes back. In `Progress` one node has two pages and the
other one, and sleeps of one tick are not announced while those of two are, the
two sides of the test in `SaysSleeping`; events come any number of times, and so do
ticks. `MaxPages`, `MaxWrites`, `MaxRemovals`, `MaxPushes`, `PagesPerScan`,
`MaxDrops` and `MaxFailovers` are the only bounds on counters; `Bits` is the width of
an i64 and of a u64. `CHECK_DEADLOCK FALSE` everywhere: the program ends.

Five runs show where the code and what it says of itself part (`findings` in
`PROJECT.json`):

| Run | Finding |
|---|---|
| `queue_group_totals` | a group that was given up, refused or evicted, starts again from nothing when it comes back |
| `scan_percent` | after ctrl-c, a row that outweighs the printed total: a share above 100 |
| `scan_unread` | a failed pipeline of `GETSET`s erases values nobody read |
| `expire_qualifier` | with `--qualifier` the key is missing from the command |
| `expire_bad_filter` | a `--filter` that does not compile protects no key from `expire --really` |

Each has a passing counterpart that says when the property does hold:
`ExactUnlessLost`, `PartsOfWholeUnlessInterrupted`, `CountedOnce` without pipeline
failures, `EveryKeyReached` without a qualifier, `OnlyWanted` with expressions
that compile. `PartsOfWhole` asks for a total that is not 0: with 0 the code prints
0.00, which is not a share above 100.

Two more cases are modelled but have no run of their own. `idle` and `ttl` compute
their queue size as `limit + offset`: that is 0, no bound, for `--limit 0` without an
offset, and every key is printed; and it wraps around at the end of u64, which leaves
a queue too small for the page. `RowsAreThePage` is false in both: change
`MCScanReport.cfg` to `Limit = 0` and `Offset = 0`, or to `Bits = 2` (u64 then ends at
3), `Limit = 3`, `Offset = 2` and `Values = {0, 1}`.

`ExactTotals` also says what repeated keys do: it holds of `sum --decr`, where the
first `GETSET` leaves nothing to count, and is not claimed of `memory` and plain
`sum` when `SCAN` repeats a key, since their merge adds the second reply to the
first. `EveryShardRead` exempts `--sentinel-service` with `--replicas`, which clap
lets pass and which makes every task fail, and replicas whose connection was lost;
`EveryKeyCounted` exempts `touch` with failed pipelines or vanished keys. No property
covers these.

### Fairness

`PrioQueue` assumes it of the drain's own steps only: the loop of `into_vec`
waits for nobody. `Scan` assumes it of main's steps, which wait only in the
`select` of `wait_with_interrupts`; that is all `InterruptReports` needs.
`AlwaysReports` also needs every task to go on (`LiveSpec`): a server answers, or
the client gives up on it (a 10 s unresponsiveness limit, `utils.rs:242`) and
reports an error. With `--reconnect` the client retries for ever, and this
assumption is not justified; `Discovery` therefore keeps the two apart. There main
and the tasks go on when they can, but no server has to come back, and `Ends`
says that the run ends unless `--reconnect` waits for one that never does.
`Progress` assumes only that a task that has something left to do does it and that
the runtime ends what was aborted: `HelpersEnd` needs neither time nor servers.
Nothing is assumed of other clients, and nobody has to press ctrl-c. That an
iteration of `SCAN` ends is `MaxPages`.

## Proofs

| Theorem | States | For |
|---|---|---|
| `TypeCorrect` | `[]TypeOK` of `PrioQueue` | any finite set of hashes, weights, capacity, order, number of pushes, and any merge closed on the weights |
| `StructuresAgree` | `[]QueueLinked`: `index` and `sorted` are inverses, no bucket is empty | the same |
| `RoomAlwaysUsed` | `[]RoomIsUsed`: within capacity, and nothing lost before it is full | the same |
| `BestAlwaysKept` | `[]KeepsBest` | the same, if merging never makes an entry worse |
| `ExactWhenNeverLost` | `[]ExactUnlessLost` | the same |
| `QueueImplementsTopN` | `RefinesTopN`: every step of `PrioQueue` is one of `TopN` or a stutter | the same |
| `DrainIsRanking` | `LoopComputesIntoVec`: a step of the drain changes neither the entries of the report nor their order | the same |
| `ScanTypes` | `[]TypeOK` of `Scan` | any nodes, keys, values, arguments, pages, writes of other clients and faults |
| `NoKeyForgotten` | `[]NothingForgotten` | the same, for `idle` and `ttl` |
| `RowsAreTrue` | `[]RowsTellTheTruth` | the same |
| `RowsAreTheRanking` | `[]RowsAreThePage` | the same, if the expressions compile and `--limit` plus `--offset` is between 1 and the end of u64 |
| `TotalStaysAhead` | `[]TotalAhead` | the same, for `memory` and `sum` of values that are not negative |
| `RowsArePartsOfTotal` | `[]PartsOfWholeUnlessInterrupted` | the same |
| `TotalsAreExact` | `[]ExactTotals` | the same, for `memory` and `sum` of any values, if the expressions compile, the queue has room for every entry, all sums fit an i64, and no key is returned twice unless `--decr` is given |
| `CountersCountedOnce` | `[]CountedOnce` | the same, for `sum --decr` of values that are not negative, if no pipeline fails |
| `DiscoveryTypes`, `NoShardScannedTwice`, `PrimariesAlwaysSpared` | `[]TypeOK`, `[]NoShardTwice`, `[]PrimariesSpared` | any servers, shards, arguments, number of failovers and losses |
| `UndisturbedAreRead` | `[]EveryShardRead` | the same |
| `NothingUnwanted`, `NothingLeftOut` | `[]OnlyWanted` if the expressions compile, `[]EveryKeyReached` without a qualifier | any nodes, keys, slots, expressions, pages and faults |
| `MaintainTypes`, `MessagesAddUp`, `ScannedAreAccountedFor` | `[]TypeOK`, `[]TotalsAgree`, `[]EveryKeyCounted` | the same |
| `ProgressTypes`, `BarsAreNotStarved`, `OutcomesAreShown`, `UpdatesAreThrottled` | `[]TypeOK`, `[]BarsKeepUp`, `[]OutcomeStays`, `OnlyEstimatesHurry` | any nodes, delays, estimates, pages and events |

*PrioQueue.* `PQueueOpsProofs` shows what each structure operation does to the
relation "hash h is in the bucket of weight w", then (`PushOrUpdateIs`) that a
push to a well-formed queue yields a well-formed queue whose index changed in one
of three ways: the entry was merged, inserted, or competed with a worst one. That
a worst one exists is `FiniteExtremum`, an induction over cardinality done with the
library's finite-set theorems. `StructureInv` (types and linkage together) is
inductive: neither half is alone, since eviction reads `index` at a hash found in
`sorted`. The other invariants rest on it and on `PushLoses`, which says in terms of
the index what a push gives up. `RoomIsUsed` is inductive relative to it,
`KeepsBest` needs both (without room being used, an insertion could follow a
loss), and `ExactUnlessLost` needs `KeptWerePushed`.

*The refinement.* The mapping takes `q.index` for the abstract set, `taken.index`
for the snapshot and `out` for the report. `PushIsAdd` turns the three outcomes of
a push into the abstract add, grow and compete; the last needs `RoomIsUsed`, since
the abstract set competes only at exactly its capacity. `PopIsReport` needs the
linkage of what was taken: the best bucket holds the best entries of the index, all
of them and no others.

*The drain.* `IntoVec` is *the* list of the entries in the order of the report:
`ListExists` shows that every finite set of entries has one (a smallest set without
one would have a last entry, and the list of the others could be lengthened by it)
and `ListUnique` that it has only one (at the first difference of two lists, the
better of the two entries would have no place in the other). By `ListInTwoParts` the
best bucket in ascending order, followed by the list of the rest, is a list of the
whole; so taking the bucket leaves `Ranking` as it is. The linkage is needed again,
for the bucket to hold all entries of its weight.

*The assumption of `BestAlwaysKept`.* `MergeNeverWorsens` is a hypothesis of that
theorem, not of the module. It holds of `idle` and `ttl`, whose merge is the
identity on the old entry, in either order. For `memory` and `sum` it is true only of
positive values under `--sort desc` as long as sums do not overflow; with
`--sort asc` a kept group can grow worse than one that was refused, and nothing is
claimed then.

*Scan.* `ScanInv` says of every node's task what becomes of each wanted key of its
own that nobody else writes to: it is placed in the queue, was hit by an error, is
in the pipeline or among the replies that wait to be pushed, or `SCAN` still has to
return it; how far this is settled depends on the program counter of the task.
*Placed* means that the queue has the key, or is full of entries none of which is
worse. `PushKeepsPlaced` shows that no later push, of whatever task, changes that,
because an entry of `idle` or `ttl` never moves. An uninterrupted main waits for all
tasks, so at the report nothing is left but what is placed or excused, and by
`ListIsSurjective` the list of the rows has every entry of the queue. The facts about
the queue are those of `PQueueOpsProofs`, instantiated with the queue size and the
merge of the command.

*Ranking.* `RowsAreTheRanking` adds to `ScanInv` what it does not say: `RankInv`, that
an undisturbed queue has only keys that are wanted, each with its true value
(`OnlyKept`, of the pipelines and replies as well), and that a report is in order and
has no key twice (`Ranked`). Row `i` is then result `i + offset`; the results up to it
are an injection into the keys that are not worse, which bounds its rank from one
side, and by `ScanInv` every key that is better is among the results before it,
which bounds it from the other. The hypothesis on `--limit` and `--offset` is exact:
the two ways it can fail are the two cases above in which the property is false.

*Truth.* `RowsAreTrue` needs neither an undisturbed run nor an orderly one.
`TruthInv` says that every reply a task holds, every entry of the queue and every row
is true of a value in `had`, which only grows. An entry of `idle` or `ttl` keeps its
first weight, so what a push leaves was there before or is the reply that was pushed;
a write of another client adds to `had` and takes nothing away.

*Sums.* The totals are sums over sets that grow and shrink, of `MapThenSumSet`, a
fold. The library's induction theorems cannot be instantiated, but `SubsetInduction`
can: it quantifies over a *set* of good subsets, not over a predicate, and follows
from the existence of a minimal bad subset. With it `ScanServerProofs` shows that a
sum is defined (`AdditiveExists`) and how it changes with one of its terms
(`SumChanges`), with one more (`SumExtends`) and along an injection (`SumOfImage`).

*Totals.* `AheadInv` says that the total is at least the sum of the positive weights
in the queue and of the values that a task has added to the total but not pushed
yet. Wrapping and evicting only lose, on the side of the queue. When main has
stopped waiting and was not interrupted, all tasks are done, so that the total it
prints is still the total; the rows are an injective image of the queue. `CountInv`
says where each counter is: what the servers had is what they still have, plus the
total, plus the replies no task has handled. The value is at a single place although
two tasks and a `GETSET` handle it, and a repeated key brings a 0. A failing pipeline
breaks it (`scan_unread`), which is why the theorem excludes one.

*Exact totals.* `ExactInv` says of an undisturbed run that *there is* a set of keys
which have been counted, such that the queue's entries are the sums over it
(`IndexOf`), every task still brings the rest (`Brings`), and the servers hold what a
`GETSET` has not taken (`Left`). Tasks on different nodes add to the same group, so the
set is of all nodes; a push of `Store` adds one key to it. It is an existential
because no variable of the program or of the model says which keys were counted. At
the end every task brings nothing, and the set is all that was wanted (`AllKept`).
The hypotheses are those of the property: without room entries are evicted
(`queue_group_totals`), and a repeated key is added twice by `memory` and plain `sum`.
That the sums fit (`EverythingFits`) keeps the additions from wrapping.

*Assumptions on the constants.* Finitely many nodes and keys; keys and groups are
numbers, as hashes are, and different ones; replies fit an i64, and `Nil` is not one;
the values of `ttl` are at least -1, as a key that exists has them. `BitsAssumption`
also lists the three facts about powers of two that the proofs use, since the
provers know none; that the queue size is a number then follows (`QueueSizeIs`).

*Discovery.* `InversionInv` says of the loop that inverts the replicas that every
entry so far is of a primary in the cache and one of its own replicas, and that a
replica which has no entry for its primary yet is still listed; what is overwritten
is of the same primary. `LinkInv` says that the client of a sentinel has at most one
connection. From them follow `ReturnedAre`, that the servers returned are of
different shards and, if replicas are asked for, none of them a primary for the
client, and `NodesCover`, that no shard is left out. Then `nodes` never changes again,
and a failover changes `primary` but not the cache: the two agree but for the shards in
`failedOver`. `TypeOK` alone is not inductive: that the
pages left never fall below zero needs that a task which still scans has some.
`UndisturbedAreRead` rests on `OnCourse`: the task of an undisturbed shard has read all
the pages before those left, is connected unless its connection was lost for a
while, has been sent `READONLY` if it needs to, and without `--replicas` still talks to
the primary. That needs `UndisturbedBefore`, that what is undisturbed after a step was
so before it.

*Maintain.* `NothingLeftOut` rests on what a task still *owes*: every wanted key of
its node that is there is acted on, was hit by a fault, is in the pipeline, or has
not been seen while pages are still to come. `MaintainInv` ties that to the program
counter of the task; when it is done, `SCAN`'s contract leaves nothing owed.
`KeptAreSelected` of `ScanServerProofs` relates the expressions that the code
compiled to those that were given: the one direction holds always, the other if all
of them compile.
The counts have an invariant of their own, `CountsInv`. Of each task it says that its
message is never ahead of the working copy, equals it between two pages, and that
the working copy is balanced: scanned is success, skipped and errored, and the keys
that are in the pipeline or among its results. Of all tasks it says that a shared
counter is the sum of the working copies. Grouping by slot must not count a key
twice: the groups are disjoint (`SumOfSizes`).

*Progress.* The key is that `updated`, the program's own record of the last update,
always equals `shown`, the history of what was really shown: a dropped update must
not touch it, which is what `TryUpdateBarIs` says. From it follow both sides of the
throttle: an update is dropped only within the delay of one that was shown
(`BarsKeepUp`), and within the delay of one that was shown no other changes the
message or the position (`OnlyEstimatesHurry`): what is left is the length, which an
estimate sets without asking the clock. `OutcomeStays` needs besides that `finish` bypasses the
throttle and that the task makes no update after it.

*Only model-checked.* Liveness - `AlwaysReports`, `InterruptReports`, `Drains`, `Ends`,
`HelpersEnd` - is beyond the prover, as is `ENABLED`. Every invariant and every
action property of the passing runs is a theorem, some under the hypotheses in the
table; `ExactTotals` with groups across nodes and `RowsAreThePage` of a queue that
overflows are checked as well as proved. `NothingForgotten` is neither checked nor
proved of `memory` and `sum`, whose entries grow after others lost against them; what
those promise is in `ExactTotals` and `TotalAhead`.

## Not modelled

- Hash collisions of `int_hash`, and overflow of the usize total.
- The memory that `HashMap::with_capacity(max)` sets aside (`pqueue.rs:46`): for a size
  near the end of u64, which `memory` and `sum` also saturate to, it panics.
- Panics of tasks: a `JoinError` would make `try_join_all` return early.
- The migration of slots between shards during a scan.
- The line of totals, which copies the counters once a second, and
  `clear` and `remove_server`, which nothing calls.
- The refusal of `--replicas` by `expire` and the pause before it starts.
- Wording, layout and files of the output; TLS.

## What could follow

1. The page of the ranking for `memory` and `sum` too, when no key has a group or is
   returned twice: then nothing grows, and the argument of `RowsAreTheRanking` holds.
2. The drain of `Scan`'s report bucket by bucket, as in `PrioQueue`, while tasks push.
