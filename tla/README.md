# Verification of slancha-mesh

slancha-mesh lets a household or a team pool the machines that can serve language
models.  Nodes report to a registry or are discovered; a router sends each
OpenAI-compatible request to a node that has the specialist asked for; a tuning loop
trains new specialists while machines are idle.  This directory holds TLA+ models of
the parts of that program whose correctness depends on order, concurrency and
failure, and of its larger pure decisions; their model-checking runs; and proofs of
their main properties.  Paths below are relative to `src/`.

Contents: 1 inventory, 2 plan, 3 modules and code, 4 runs and bounds,
5 fairness, 6 proofs, 7 disagreements found, 8 limits.

## 1. Inventory

The core package is `mesh/`, the tuning add-on
`packages/slancha-mesh-tune/mesh/` (its paths are given from there).

| Component | State it keeps | Operations | Talks to | Modules |
|---|---|---|---|---|
| Circuit breaker, `runtime_health.py` | bounded table: per binding (specialist on node) state, failures in a row, opened at, last touched; counters | `is_routable`, `peek_routable`, `record_success`, `record_failure`, `record_client_error`, `record_punt` | every router handler, the cleanup of videos | `RuntimeHealth` |
| Router requests, `router_app.py` | none of its own: one coroutine per request, over the breaker and a snapshot | chat (plain and streamed, with fallback), automatic selection, single-attempt media | breaker, snapshot source, selector thread, nodes over HTTP | `RequestRouting` |
| Video-job owner map, `job_store.py` | a SQLite table: who owns which job, when it expires, who holds its delete claim | create, get, update_status, claim_delete, release, confirm, enqueue_cleanup, claim_cleanup, quarantine, expiry before every call | handlers and cleanup loops, of several processes | `VideoJobStore` |
| Video jobs in the router, `router_app.py` | handlers and one cleanup loop per process | create, status, content, delete; the loop | owner map, owner nodes | `VideoJobs` |
| Registry, `registry.py` over `event_store.py` | event log, pinned keys, known URLs, cards; durable log | record heartbeat / node left / quality, run_allocator, snapshot, compaction, boot replay | nodes, HTTP app, a store behind a contract | `MeshRegistry` |
| Registry HTTP app, `registry_app.py` | none | the endpoints | registry, GPU placement, selection | where their state is |
| Snapshot refresher, `router_app.py` `_RefreshingSnapshot` | the cached snapshot | `get` (cold start inline), `refresh_once`, loop | discovery; read by every request | `PullRouter` |
| Discovery, `discovery.py`, `tailnet.py` | pins of peers' keys | one pass over all peers | nodes' info servers | `PullRouter` |
| Usage spool, `usage.py` | a JSONL file, back-off | `emit`, `drain_once`, `run` | handlers, a usage receiver | `UsageSpool`, `UsageDelivery` |
| Serve daemon and backends, `serve.py`, `backends.py`, `node_server.py` | per backend: own process or adopted pid; heartbeat thread; last heartbeat | start, wait_ready, heartbeat, stop | registry, model server processes | `ServeNode` |
| GPU reservations and placement, `gpu/` | one file per reservation | reserve, release, wait, list with pruning; pick_best_node | processes, heartbeats | `GpuCoordination` |
| Allocator, `allocator.py` | none (the registry keeps what it is given) | three greedy strategies, secondaries, replicas, alternates | registry | `Allocator` |
| Selection, `select.py` over the route table | none | rank, fall through, filter, score, chain | registry snapshot | `MeshSelect` |
| Quality probe, `quality_probe.py`, `escalation.py` | none | a round over all bindings, posting scores | registry, nodes | `MeshSelect` |
| Tuning loop, `loop_runner.py`, `eval/gate.py`, `eval/spotcheck.py`, champion registry of `training.py` | queue file, breaker, decisions, drift window, champion and previous | enqueue, run_once, gate and act, freeze, promote, rollback | operator, training, evaluation | `TuningLoop`, `ChampionGate` |
| Idle training, `idle.py`, `training.py`, `replay_store.py` | idle state, preempt event, checkpoint files, bounded LRU and its dump | observe, mark, signal, finish; train; add, recent, dump, load | serving path | `TrainingNode`, `ReplayStore` |
| Configuration feedback, `feedback.py`, `eval/holdout.py`, `eval/seed_verify.py`, `eval/runner.py` | configuration pointers, holdout and manifest files | propose, evaluate twice, gate, promote, roll back | gate, endpoints | `ConfigChallenger` |
| Generator, `generator.py` | drift state of each cluster | one pass: cluster, advance, ignite, save | queue | `Ignition` |
| Curation, `curation.py` | none | exam, pool, bands | generator | `Curation` |
| Audit log, `audit.py` | chained JSONL rows, seq and hash in memory | record, tee, resume, verify | threads that decide | `AuditLog` |
| Identity, auth, schemas, CLI, installers, dashboards, scripts | none that outlives a call | | | none |

What is hard, component by component, and what would make it correct:

* **Breaker and requests.**  Requests are coroutines that share the breaker;
  each await lets the others run.  Outcomes arrive late and in any order, a
  binding may be evicted under a request that is about to report on it, and
  routability is looked at long before it is used.  Correct means: a circuit's
  state follows from what was recorded; a node that keeps failing is left alone
  for a cooldown and then tried by one request; fan-out is bounded; a media
  request is never sent twice; and every request ends.
* **Video jobs.**  The node accepts a job before the router remembers it;
  answers and writes fail separately; rows expire while being read, updated or
  deleted; several processes run cleanup over one table.  Correct means: no
  running job is lost except where it cannot be helped, one cleanup row per
  job, one deleter at a time, a visible row dies only of a confirmed delete, and
  cleanup gets to every owner that answers.
* **Registry.**  Appends, compaction, crashes and replays, with the allocator
  letting go of the lock in the middle.  Correct means: readers never notice
  compaction or a restart, and an identity once shown is never replaced.
* **Node, discovery and refresher.**  Backends die, are adopted or foreign;
  heartbeats are late; a pass takes as long as its silent peers; a slow cold
  start overwrites a newer snapshot; what one pass missed is carried over.
  Correct means: what is routed to was alive recently, one missed pass drops
  nothing, and a node that stays up is routed to.
* **Usage spool.**  Appends run between the posts of a drain; writes are cut
  short; a crash falls between post and rewrite; the file may be full.  Correct
  means: every accepted event is delivered, refused or damaged, in order,
  damage is bounded by the failures, and the spool empties.
* **GPU reservations.**  Every reader deletes what looks stale; a poll, a
  heartbeat and a reservation are unlocked steps of several processes.  Correct
  means: the memory of a node is exceeded only where somebody raced or ran
  without a reservation, and what the dead held comes back.
* **Allocator and selection.**  Greedy, in phases, with tie-breaks and missing
  numbers.  Correct means: what can be hosted or served is, and no limit is lost
  between phases.
* **Tuning loop.**  A queue file read before and rewritten after an experiment
  of hours; crashes between promotion and bookkeeping; rollbacks meanwhile.
  Correct means: nothing runs twice or is lost, and the champion has earned its
  place over the one before it.
* **Idle training.**  A preemption races the start of training; the store
  changes while it is dumped; a crash leaves half a checkpoint.  Correct means:
  a checkpoint's metadata says what it was trained on.
* **Feedback, ignition, curation, audit.**  A holdout replaced between two
  evaluations; a pass cut short; duplicated rows on both sides of an exam;
  appends that raise.  Correct means: gains are measured on one exam, clusters
  ignite once settled, training never sees the exam, and the audit chain
  continues.

`PROJECT.json` lists each hazard at its line with the properties that watch it.

## 2. Plan

Done, in this order, the most important behaviour first:

1. `RuntimeHealth`, `RequestRouting`: the breaker, and the requests that share
   it; `VideoJobStore`, `VideoJobs`: the owner map, and everyone who uses it;
   `MeshRegistry`: the event log and its durable twin.
2. `UsageDelivery`, an abstract at-least-once delivery, and `UsageSpool`, which
   implements it; `Membership`, an abstract registry without logs or crashes, and
   the proof that `MeshRegistry` implements it; `PublicJobs`, an abstract map of
   ids without claims or cleanup, and the proof that `VideoJobs` implements it.
3. `ServeNode` and `PullRouter`, a node of the pull topology composed with the
   router that discovers it.
4. `GpuCoordination`, `Allocator`, `MeshSelect`.
5. `ChampionGate`, `TuningLoop` and the rest of the tuning package: `AuditLog`,
   `ReplayStore`, `TrainingNode`, `ConfigChallenger`, `Ignition`, `Curation`.
6. Proofs: breaker and requests, registry, spool and its refinement, audit log,
   tuning loop, video jobs and their rows, pull router, GPU contract, training node
   with its replay store, configurations, ignition, selection, exams, allocator.

Next:

* a composition of `MeshRegistry` with `GpuCoordination` and `MeshSelect`, whose
  views of heartbeats are arbitrary now;
* two specialists in `PullRouter`, so that a node that changes what it serves is
  followed through the retention of its old binding.

## 3. Modules and code

`PROJECT.json` maps every definition to its lines.  In outline:

**`RuntimeHealth`** has no variables.  Each method of `RouterRuntimeHealth` holds
one lock from end to end, so it is one step, and since a full table may evict
any of several equally old bindings it is an operator from a table to the *set*
of tables it may leave: `StateFor`, `Routable` (`peek_routable`),
`AfterIsRoutable`, `AfterSuccess`, `AfterFailure`.  Latency and failure class are
shown to operators only and left out.

**`RequestRouting`** extends it with `bindings` (the table), `clock`, `counters`,
`request` (per request: where its handler stands, the chain it still has, the
node it is calling) and the history `seen`.  A step is what a handler does
between two awaits: `RouteChat` filters by peek, puts the selector's choice
first, cuts to `MaxFallbackAttempts` and enters the loop; `Proceed` runs the loop
to its next call, skipping what is refused.  `ReceiveChat`, `ReceiveAuto` then
`Selected`, `ReceiveMedia`, `ReceiveUnknown` are the arrivals, and a request is
refused before its first call where the code refuses it; `AttemptFails`,
`StreamOpensRetriable` then `StreamClosed`, `MediaFails`, `Answered`,
`StreamOpens`, `StreamEnds`, `StreamBreaks` are what nodes do; `Abandon` is a
handler that is cancelled, or a won stream that ends with nothing recorded.  All requests ask for one specialist, so a node names
its binding; the snapshot each reads is arbitrary.

**`VideoJobStore`** has the SQL statements as operators on a table: `Listed` and
`Merging` are the SELECTs of `_cleanup_expired`, which run before the write
transaction, and `Expire`, `Insert`, `Claim`, `Release`, `Confirm`, `Enqueue`,
`Quarantine`, `NextCleanup` the writes.  An expired row becomes its job's cleanup
row, or is merged into the one there is.  For the first row the last SELECT before
the write lock decides which (`Merging`, `Alone`), and when that answer is stale the
row is deleted all the same, or the unique key refuses the write (`Collides`).

**`VideoJobs`** adds the callers.  `Select` is the unlocked half of a store call
and `Persist`, `LoadVideoJob`, `UpdateStatus`, `Reload`, `ClaimDelete` the
committed half, so that expiry of two callers interleaves as in the code.  The
create path is `NodeAccepts` (or `NodeAnswerLost`), `Persist` or `PersistFails`,
`Compensated` or `CompensationFails`, `EnqueueCleanup` or `EnqueueFails`; a status
request is `AskRead`, `LoadVideoJob`, `StatusAnswered`, `UpdateStatus`, `Reload`, a
content request ends in `ReadEnds`; the delete path is `AskDelete`, `ClaimDelete`,
`StartDelete`, `NodeDeletes` or `DeleteFails`, `ConfirmDelete`, `ReleaseDelete`;
then the loop's `ClaimCleanup` and what follows.  `Crash` kills a process and its
handlers; the table survives.  The owner node is external: it starts jobs, ends
them when told, and may never answer about those in `HungJobs`.

**`PublicJobs`** is what a client can tell of all that: an id, once given out,
answers for one job until its date (`Publish`, `Pass`), goes early only after that
job has ended on its owner (`End`, `Withdraw`), and is never used for another
(`Withhold` is an id the router spends on a row of its own).  It has no claims,
leases, cleanup rows or handlers.  The refinement (`ClientView`) shows the rows that
`get` would return, with job and date, the ids below `nextRow` as used, and the jobs
that are gone.  A row written for a client is a `Publish`, a confirmation of a
handler a `Withdraw`, time that passes a `Pass`; expiry, merging, claims, cleanup,
quarantine, crashes and failing statements are stutters.  The status a row carries
is not followed.

**`MeshRegistry`** keeps a log as the set of its events with their positions.
`recorded` is history: every event the store ever took.  `Appended` is durable
first, then memory, then, for a heartbeat too many, compaction of both, which the
store may lack or fail.  `HeartbeatNotStored` is an append that raises: pin and
URL have changed by then.  `ReadHardware` and `RecordAllocation` are the two lock
regions of `run_allocator`.  `Restart` and `RestartAfterAppend` boot from the
durable log as `__init__` does.  A URL is only present or absent.

**`Membership`** is that registry as its readers are promised it: events come one
after the other and are kept, a node is shown by its latest heartbeat until it
leaves, is known from its first, and goes on showing the key it once showed; an
allocation is for known nodes.  It has no log, no compaction, no store and no
crash.  The refinement (`Complete`) computes its state from `_events` with the
operators that model `snapshot`, `run_allocator` and the boot, and counts the
events ever recorded.  A crash after the store's append is then an ordinary event, and
compaction, a raising append, `ReadHardware` and `Restart` are stutters.  URLs and
quality scores on cards are no part of it: a restart does lose them (section 7).

**`UsageDelivery`** says what is promised: an accepted event stays outstanding
until it is received, refused or damaged.  **`UsageSpool`** is the file: a line
holds the events whose text ran together in it and may be open, when a write was
cut short.  The drain shares the event loop with the requests, so `StartPass` runs
to the first post, and each answer (`Delivered`, `Poisoned`, `Transient`) to the
next one or to the rewrite, with appends (`Emit`, `EmitShort`, `EmitDropped`)
in between; `Restart` falls anywhere.  `Removed` finds the lines a rewrite drops by
their text, as the code does.  The refinement maps `outstanding` to the accepted
events that are neither received, refused nor damaged.

**`ServeNode`** is one backend of any kind with its daemon: a process of its own,
a foreign or an adopted one on its port, `is_alive` of each kind, the heartbeat's
two halves (`BeatReads` asks, `BeatPosts` shows), stop and crash.  **`PullRouter`**
extends it: two threads run passes (the loop and a cold start), `Retained` is
`_merge_retaining_recent`, and `Tick` lets time pass where nothing is due.  The
node-info app's `/models` is `Advertised`.

**`GpuCoordination`** follows workloads through `mesh-gpu reserve`, `wait` with and
without `--auto-reserve`, `cluster-reserve` and `POST /gpu/reserve`; `files` are the
reservation files, pruned by every reader, `view` what the registry heard last.
**`Allocator`** goes through `allocate_cluster` round by round: `run` is the phase of
the strategy (`Covering` a tier or all, second specialists, the rest) and the
suggestions so far, `CoverNext`, `FillSecondary`, `FillRest` a round of each loop,
`PhaseEnds` the end of one, `RunAllocator` and `RecordAllocation` the two lock regions
of the registry.  **`MeshSelect`** is
`select_mesh_route` and its helpers over a route table: a route is a binding of a
specialist on a node, and each tier filters a set of them before `Lists!Sorted`
puts it in order; `FetchRegistry`, `ProbeOne`
and `PostQualityObservation` are the steps of a probe round.

**`ChampionGate`** has `decide` and the drift governor as functions.
**`TuningLoop`** has `enqueue` as a read and a write of the whole queue file, a
tick of the runner as `Start...`, then `Fail`, `RunUnscored` or `Judge`, then
`Archive` or the steps of a promotion with a crash possible between any two.
`executed` and `overlapped` are history: how often an experiment ran, and whether
a write ever put back a queue that had changed since its read.  **`AuditLog`**: a
hash is the sequence of what it covers, `Tee` is outside the lock, and a write may
raise after all, half or none of a line.  **`ReplayStore`**, **`TrainingNode`**:
the store's operations (`ItemsAt` is what a key's place holds, in the order of
use), the detector's protocol, and the training thread from its
dump to the two files of a checkpoint.  **`ConfigChallenger`**: a cycle of
`feedback.py` with the holdout's files, which may be replaced or withdrawn in the
middle, and rows with failing calls.  **`Ignition`**: a pass of the generator that
may be cut short.  **`Curation`**: the exam and pool of a batch as one function,
`Curate`, whose parts are sets of places of the batch, put in order by the rank
of their difficulty (`RankByDifficulty`).  **`Lists`** has the one operator that
the sorts of the code share: `Sorted`, a set in the order of a total relation.

`MC*` modules give model values; `MCFleet`, `MCPullRouter` and `MCTuningLoop` also
put several modules side by side: an extra variable says which of them moves in
a behaviour, since what one hands the other is a parameter of the other.
`*Proofs` modules hold theorems.  A definition that begins with the comment
"Mutant:" is a plausible bug, used by no specification: each shows that a
property would notice it.

## 4. Runs and bounds

| Run | Instance | States | Shows |
|---|---|---|---|
| `routing` | 3 requests, 2 nodes, threshold 1, cooldown 1, table 2, fan-out 2, clock 2 | 2.1 M | circuits follow from outcomes, fan-out and single attempt, failing nodes left alone, handlers run down |
| `routing_live` | 2 requests, 2 nodes, table of **1**, threshold 2 | 38 k | the table keeps its bound under eviction; every request ends |
| `video_jobs` | 2 handlers, 1 loop, 1 upstream job, 3 rows, one of them another protocol's | 2.2 M | no job lost, one cleanup row, one deleter, visible rows survive; the map implements `PublicJobs` |
| `video_cleanup` | 1 handler, 1 loop, one hung and one good job | 161 k | the good job is cleaned up although the other hangs |
| `registry` | 2 nodes, 2 keys, 4 events ever, compaction from the 3rd | 1.2 M | the registry implements `Membership`: readers notice neither compaction nor crash; identities stay |
| `usage` | 4 events, a file with room for 3, batches of 2, 2 torn writes, 1 restart | 41 k | the spool implements at-least-once delivery, in order; a failure costs two events; it empties |
| `pull` | 1 backend of each kind, 1 router; beside it 3 nodes, 6 requests, 4 preferences | 510 k | what is routed to was alive recently, one miss drops nothing, a living node is routed to; selection keeps ceilings and sends nobody away without need |
| `fleet` | 2 nodes of memory 2, 3 workloads; beside it 5 kinds of node, 4 cards | 537 k | memory is exceeded only after a race or a run without a reservation, and comes back; the allocator spreads domains, fills, and does not overfill with secondaries |
| `tuning` | 2 experiments, 1 generator, 3 outcomes, threshold 2, 1 crash, 1 rollback; beside it the other tuning modules | 383 k | nothing runs twice, champions are earned, what is pending is run; the audit chain, checkpoints, exams, configurations and ignitions |
| `routing_penalty`, `video_starved`, `registry_urls` | smallest that suffice | | the disagreements of section 7 |

Bounds and why they are enough.  `MaxClock`: every property compares times no
further apart than one cooldown (or one lease), so two ticks hold an opening, a
cooled-down probe and what follows; the video clock saturates instead of stopping,
and claims and calls keep the time they have left, not a date.  Three requests are one that
reports late, one that probes and one that arrives in between.  A threshold of 1
opens circuits at once; threshold 2 is in `routing_live`, and the proofs cover all.
`MaxRows` 3 is a visible row, its duplicate and a foreign cleanup row: merging needs
two rows of one owner, and both in one batch of the expiry, so `Batch` is 2 there
and 1 where cleanup alone is at stake.  `MaxLog` 4 with `MaxEvents` 2 is a
compaction, another event, and a compaction of what was compacted.  Leases,
deadlines and time-to-live are the smallest that keep the order the code asserts
(`Deadline < Lease`).

Four usage events fill a file of three while one is refused; two torn writes in a
row damage a line that was damaged already.  `Horizon` 12 is more than any sum
`RoutedIsRecent` adds up; one failed heartbeat and one raising pass are one more
than none.  `Lease` 1 in the fleet lets a
reservation expire under a running workload; a memory of 2 with needs of 1 and 2
has every order of fitting and not fitting.  Two tuning experiments are one that is
queued while another runs, with a marginal gain, a decisive one and a stub among
the outcomes; a window of 2 pairs is the smallest whose correlation can freeze the
governor.  Curation runs over all sublists of eight rows, which hold near duplicates, a
synthetic twin and rows without an embedding, and over the eight with one of
them repeated.

Symmetry is declared only where no liveness is checked.  `CHECK_DEADLOCK FALSE`
stands where the workload of the model is finite and the system stops when it is
done: in the routing, usage and tuning runs.

## 5. Fairness

`RequestRouting!Fairness` is weak fairness of each handler's steps: the event
loop runs every coroutine that can run, and the HTTP client's connect, read and
write timeouts end each call and each silent stream.  Arrivals, time and
cancellations owe nothing.

`VideoJobs!CleanupFairness`: time passes; in the end processes stay up and the
database answers; the loop and accepted requests go on (weak fairness: they are
enabled until they run); the recorded owner is in the snapshot again and again
whenever a claim wants it, and an owner that answers confirms a call repeated
often enough (strong fairness, because a claim or a call may time out in
between).  Hung owners owe nothing, which is the point of `CleanupReachesOwner`.

`UsageSpool!Fairness`: the drain task goes on (weak), and a receiver that is asked
again and again accepts or refuses in the end (strong: a transient failure ends
each pass).  A receiver that answers one event with 5xx for ever holds up all
behind it; that is what the strong fairness excludes.

`PullRouter!Fairness`: time passes and both threads' passes end, as every fetch has
a timeout; a peer that answers is heard in some pass and not always in one that
raises (strong).  The conclusion is about a node that stays up in the end, so the
node owes nothing but its heartbeats.

`GpuCoordination!Fairness`: time passes and a waiter polls.  Workloads may run for
ever; `RoomComesBack` only speaks of when they have ended.

`TuningLoop!Fairness`: the loop ticks on, and an experiment that is executing
returns (weak); the node is idle again and again while a training waits (strong).
`PendingIsRun` excuses a paused or a broken loop, which nothing restarts.

## 6. Proofs

The proofs hold for all values of the constants under the assumptions the modules
name.  `BreakerAssumption`, `RoutingAssumption`: threshold, cooldown and size are
positive, as the constructor demands, and bindings finitely many.
`RegistryAssumption`: the absent key is no key.  `StoreAssumption` and
`VideoAssumption` of the video modules: leases are longer than deadlines, as the
code asserts.  `SpoolAssumption`, `AuditAssumption`, `LoopAssumption`,
`GateAssumption`: thresholds and sizes positive, rows well-formed.  `NodeAssumption`
(of `ServeNode` and of `TrainingNode`), `RouterAssumption`, `IgnitionAssumption`,
`StoreAssumption` of `ReplayStore`: periods and sizes positive, bounds naturals.
`GpuAssumption`: every job needs some memory and is no node.  `AllocatorAssumption`:
a card needs some memory, sizes are integers.  `ConfigAssumption`: a corpus that is
finite and not empty, scores that are naturals, edits that stay among the
configurations.  `SelectionAssumption`, `CurationAssumption`: reports, cards and
rows have the fields of their schemas, and rows of one batch with one key are the
same row.

Three kinds of argument recur.  A property about *time* becomes inductive with the
age of every copy on the way.  A property about *several callers* becomes inductive
with what each caller's list still says of the table when it is written.  A
property about *sorted data* is reduced to sets: `Lists!Sorted` counts how many
precede an element, so that what a head of a list is follows from the set.

**`RequestRoutingProofs`** begins with the breaker's operators alone.
`StateForEffect` says what a lookup does to a table, and from it: `StateForBounded`
(a table in its bound stays in it), `FailingNodeForgottenLast` (eviction takes a
binding that is not closed only if none is closed), and that each method keeps
every circuit justified.  Then it proves `TypeOK`, `CircuitsJustified`,
`TableBounded` and the action property `FailingNodeIsLeftAlone`.  The breaker's own
table cannot support the last one, since it speaks of calls and outcomes, so the
inductive invariant adds `SeenAgrees`: what the table holds of a node is what
was seen of it since it was last forgotten, through evictions and late answers.
With it, a call let through by `AfterIsRoutable` is one the history allows.
Every step of a handler is composed of a recorded outcome and a rest of the
loop; one lemma is proved for each (`FailureSound`, `SuccessSound`,
`CallSound`, `TouchSound`), and the actions follow from those.  For
`FanOutBounded`: what a request has called so far does not bound what it may still
call; the invariant adds that calls made and chain left are disjoint and together
no longer than the fan-out, and that a media request is in no state from which it
could call again.
`HandlersRunDown` is the half of `RequestsFinish` that needs no fairness: `StepsLeft`, a
measure of where a handler stands and of the chain it has left, falls with each of its
steps (`ProceedDown`: the loop takes a binding off for every call).  What stays with
TLC is that a handler that is not done can always go on.

**`MeshRegistryProofs`** proves `TypeOK`, which no run spends time on,
`NothingForgotten` and `IdentityPinned`, and that the registry implements `Membership`
(`ReadersSeeItAll`).  The inductive invariant relates both logs to `recorded`: each
is a subset of it, what is missing is a heartbeat superseded by one that is
present (`CurrentIn`), and recorded keys agree with the pins (`PinsFollow`).
Growing and compacting keep `CurrentIn` (`GrowCurrent`, `CompactCurrent`), and
any two logs current in the same history show the same (`CurrentView`), which is
the sense in which the class comment calls compaction "provably
snapshot/allocator-preserving".  `CurrentIn` also keeps an earliest keyed heartbeat
at hand, so that the first key the boot finds is the node's only key
(`BootPins`): compaction may have dropped the heartbeat that first showed it.
The refinement goes through the history.  All that a reader sees of the memory is a
function of `recorded` (`MemoryReads`), so a step that records nothing is a stutter
whatever it does to memory and store (`QuietStep`), and one that records an event
is what that event makes of the functions (`AfterBeat`, `AfterOther`), booted or
not.  Two guards of `Membership` are not the code's own: that the key agrees with
the history, where the code asks its pins, which a raising append may have set
(`AcceptedKey`); and that an allocation is for known nodes, where the code uses what
it read before it let go of the lock (`ReadsHold`, since knowledge only grows).

**`UsageSpoolProofs`** proves `TypeOK`, `InOrder`, `FaultCostsTwo`, and that every
step of the spool is a step of `UsageDelivery` or none (`DeliversAtLeastOnce`).  The
invariant says of the file that events come in the order of their appends
(`Sorted`) and that only its last line is open; of a pass, that its lines are
still in the file with nothing older beside them (`Window`) and that the lines
before the one being posted are dealt with (`Consumed`), which is what makes the
rewrite safe under appends; and of the damage, that what the next append can
spoil without a new failure is accounted for already (`CostOK` with `Slack`).

**`VideoJobsProofs`** proves every safety property of the owner map: `TypeOK`,
which no run spends time on, `DeleteIsExclusive`, `VisibleRowSurvives`,
`OneCleanupRowPerOwner` and `NoJobLost`, and that the map implements `PublicJobs`.
`DeleteIsExclusive` is not inductive: that two callers are not deleting through one
row does not say why a third could not claim it.  `VInv` adds `Leased` (whoever
deletes through a row that is still in the table has its claim on it, and the time
left of the lease exceeds the time left of the DELETE by at least
`Lease - Deadline`), `Kept` (row ids are not given out again, and no quarantined row
is claimed) and `Creators` (whoever creates a job knows which).  The steps that move
one caller go through one lemma, `OneCallerSteps`: a step that spares the claims of
the others (`Spares`) and leaves its caller entitled to what it does (`Entitled`)
keeps `VInv`; what remains for each action is that its statement spares them, which
`ExpireKeeps`, `InsertKeeps`, `ReplaceKeeps` and `EnqueueKeeps` say of the store's
operators.  `TickSteps` is where `Deadline < Lease` is used: time takes as much from
one as from the other, and does not pass while a DELETE that is over is still to be
acted upon.  `VisibleRowSurvives` is proved from a second invariant, `Seen`: whatever
rows a call has listed and not yet written were due when it listed them, and cannot
become younger (`Lists`); cleanup loops hold claims only on rows clients no longer
see (`LoopClaims`).  So a transaction on a stale list leaves visible rows alone
(`ExpireFollows`), and a confirmation that takes one away is a handler's
(`GiveUpSees`).

The third invariant, `RInv`, is about the rows of one job.  The lists of an expiry
are read before its write transaction, and in between other processes expire, merge
and confirm: why is the last row of a running job never among those merged away,
and why do two expiries never leave two cleanup rows?  Rows expire in one order,
`ORDER BY expires_at, public_id`.  Whoever has listed a row has listed the older ones
too (`Orders`); a row that was found alone is the oldest of its owner that is listed,
and nobody makes a cleanup row beside it before it is written unless that row is
found by the unique key (`Leads`, `Collides`); a row to be merged has a cleanup row
beside it, or its job is gone (`Joins`); and who deletes through a row deletes that
row's job and confirms only when it is gone (`Owes`).  What a statement may do to the
table is one relation, `Succeeds`, transitive enough that expiry followed by the
caller's own statement is covered by `SimilarSucceeds`; `Turn` says that a caller's
list survives every `Succeeds` of the others.

The refinement (`AlwaysAsPromised`) needs all three.  What clients see is a function
of the table and the time (`Answers`).  Claims, leases and cleanup rows are no part
of it (`ClaimsUnseen`, `EnqueueUnseen`, `QuarantineUnseen`), and an expiry, whatever
list it works from, neither takes a visible row away (`Shows`) nor leaves a row that
has no equal before it (`Heirs`), so it changes nothing (`SameAnswers`).  A row that a
confirmation takes was for the job its caller deletes, which is over by then (`Owes`):
that is the guard of `Withdraw`, of which the code has only the owner's word.

**`PullRouterProofs`** proves `TypeOK`, `RoutedIsRecent` and `MissedOnceKept`.  What is
in the snapshot is several copies away from the backend, each as old as its step
may take, so the invariant `RouterInv` bounds the age of each: of the heartbeat being
built (`BeatFresh`), of the one posted, with as many periods as heartbeats have
failed since (`PostedFresh`), of what each of the two threads has found
(`FoundFresh`, at most as old as what was posted and the pass itself), and of the
snapshot with what it retained over passes that raised or missed
(`SnapshotFresh`).  The bound of `RoutedIsRecent` is their sum; `OneMissDropsNothing`
needs that the retention lasts for a period and a pass, which the theorem states and
section 7 notes the default does not give when peers are silent.

**`FleetProofs`** has the GPU reservations and the allocator.  `WithinMemory`: a
node where every workload holds a reservation, and where nobody raced, never exceeds
its memory.  `GpuInv` says of every node that is not excused: what runs holds a
reservation (`Covered`), the reservations that hold fit (`Within`), whom a poll or a
heartbeat told that there is room finds it as long as nobody reserved since
(`RoomFor`), and a heartbeat that is still true of its node counts no less than what
is reserved (`Reported`).  Sums over sets of jobs are written as the cardinality of
a set of units, so that they add up by the library's theorems on finite sets.

Of the allocator it proves `AllocationComplete`, `DomainsSpread` and `SecondaryFits`.
`RunInv` holds between any two rounds: each suggestion is sound by itself (`AllSound`);
a domain counts as covered exactly if some node hosts it (`CoveredIs`), which is what
both the loops and the second specialists decide by; and a phase is over only when no
node that is left could cover what the phase wants (`Closed`).  So a node that could
still cover something got its primary while domains were being covered, where each
node takes a domain that nobody had (`Spread`).  A round takes the best of a set of
placements; that there is one needs scores to be numbers, and a finite set that is
ordered totally to have a first (`BestIs`, `FirstOf`).

**`TuningProofs`** has the tuning package.

* Loop: `TypeOK`, `QueuedOnce` and `ChampionEarned`.  No list, on disk, in the
  runner's memory or in a generator's, has an experiment twice (`NoTwins`); while
  writers have not overlapped, what was executed is in the queue and pending no more
  (`OnceOK`).  A rollback may come between the comparison and the promotion, so the
  candidate is compared with a champion that may be gone: `GateOK` keeps that
  whatever is champion meanwhile is the compared one or was beaten by it (`Passed`),
  and gains add up.
* Audit log: `ChainIntact`.  Without a fault every line is a row that goes on where
  the one before ends (`Linked`), the recorder stands at its tip (`Chained`), and what
  a thread is about to tee is in the log already (`Logged`), so that the order of the
  tees does not matter.
* Ignition: `IgnitedSettled`.  `DriftHolds`: after at most one pass over the current
  window, a cluster's streak counts windows through which it stayed close, as far back
  as the streak is long; `PassHolds`: a pass has advanced the clusters it visited, and
  only these, so that cutting it short loses streaks and invents none.
* Configurations: `ConfigEarned`.  `ConfigInv` ties each row to the configuration and
  the holdout it was measured on; `FailuresNeverHelp` says that calls that
  fail, which score nothing, do not raise the mean of a pass, by adding up scores
  (`SumIs`, `SumGrows`).  A challenger with failing calls that passes would therefore have
  passed without them; an incumbent with failing calls is what the property excuses.
* Training node: `CheckpointTruthful`.  `Mirrors` relates the store, and the last dump,
  to the history of captures: its entries are the last captures of their prompts in the
  order of capture, and what it misses is older than all it has, in a full store.
  `GivenIsDue` turns that into what a pass is given of one domain.  `ThreadHeld` and
  `ThreadTrue` follow detector, caller and thread: an event that is set is the pass's
  own once it is marked started, and is noticed at most one step late.

**`DecisionProofs`** is about the large pure decisions.  `SortedLists` and what follows
say that `Sorted` is a permutation in the order of a total relation.

* Selection: `ChainWithinCeilings` and `BestServes`, for any table and preferences.  The
  order of a tier is total (`TableOrders`), so the route taken is the first of those
  that pass every filter; `BetterIsWorthMore` and `BetterScores` say that a route at
  least as good in every respect that counts does not score less, through the
  rounding and the caps of `score_route`.  The caps have a consequence worth knowing:
  latency is told apart only between 0.2 and 2.9 seconds and reported quality up to 5
  points, so the property compares only routes that the score can tell apart
  (`ToldApart`).
* Exams: `ExamSound`, for any rows, any distance and any percentages.  `Exam` takes the
  head of the entrants by rank.  Which rows are entrants, and in which order, depends on
  the set of rows alone and not on their places in the batch (`FirstRows`, `Heads`,
  `SameHeads`), so a batch that is read in another order, with other repetitions, has
  the same exam; and the pool keeps away from it by key, prompt and near duplicate.

Attempts at these proofs corrected the models.  Merging of rows needs two of them in
one batch, which the runs did not have; the write that the unique key refuses
(`Collides`) was not there; the heartbeat's wait had no bound in the type invariant;
an empty holdout was a state of the configuration module; and `BestServes` was false
for a quality weight of nothing, where the score is a latency that its cap hides.

Every safety property that a passing run checks is proved.  Only model-checked is
what is promised under fairness: `RequestsFinish` (but for `HandlersRunDown`),
`CleanupReachesOwner`, `Drains`, `PendingIsRun`, `ReturnsToRouter`, `RoomComesBack`.
Liveness and ENABLED are out of the prover's reach.  So are recursive operators and
the community modules' folds and sorts, which are recursive underneath: the modules
that are proved about use sets, cardinalities, `Sorted` and, for the allocator's
loops, steps in their place.  Induction over finite sets is done through a minimal
counterexample (`WFMin` of the library), which needs no operator as a parameter.

## 7. Disagreements between code and documents

Each is a run that must find its property violated.

* `routing_penalty`: a 4xx answer records no outcome on the binding, so a probe
  that gets one leaves the circuit half-open for good; the design document says
  client errors do not penalize a node.
* `video_starved`: with as many hung rows as calls fit in a lease, younger rows
  of the cleanup queue are never reached; the ledger says "no queue starvation".
* `registry_urls`: the boot replay does not rebuild the known URLs, so after a
  restart a heartbeat without a URL leaves its node without one, although the URL
  is only "required on first heartbeat".

Noted while modelling, without a run:

* *Breaker.*  The late failure of an old request is taken for the running
  probe's, the circuit reopens, and a cooldown later a second probe joins
  (`mesh/runtime_health.py:121`), where the docstring of `is_routable` (:79) says
  only one.
* *Video jobs.*  A status whose row another client deleted meanwhile, or a local
  failure of the store, is recorded as a failure of the owner node.
* *Registry.*  A raising append leaves the pin and the URL it came with in memory,
  against the letter of `event_store.py`'s contract; quality scores on cards do
  not survive a restart; `run_allocator` ignores that a node has left.
* *Usage.*  A line that is not UTF-8 raises out of the drain at every pass
  (`mesh/usage.py:341`), where :372 says a corrupt line must not wedge the loop; the
  class comment's "corrupt-line -> stop-and-retry" (:251) is not what is done.
* *Pull mesh.*  With two silent peers a pass outlasts `refresh_s`, and one missed
  pass can drop a living binding; a cold start overwrites a newer snapshot; a
  backend whose start failed on a busy port is still advertised.
* *GPU.*  `wait --auto-reserve` looks and then reserves, unlocked; the docstring of
  `/gpu/reserve` says the registry tracks intents, and nothing is recorded;
  another user's live process counts as dead (`mesh/gpu/reservations.py:103`).
* *Selection.*  `allow_fallbacks=False` still answers with the cloud when nobody
  survives; without preferences the admin's ceilings are not applied.
* *Tuning.*  An enqueue during an experiment is overwritten by the runner's list,
  or its own stale write brings a finished experiment back (`QueuedOnce` excuses
  both); a crash leaves an experiment marked running for ever; the governor
  freezes only sampled and marginal accepts, where `docs/GATE-CONTRACT.md:68` says
  promotions.
* *Replay store.*  The documents say a repeated prompt keeps its slot
  (`replay_store.py:16`); the code moves it to the end (:129).
* *Idle training.*  A preemption signalled between the spawn and
  `mark_training_started` is cleared and lost; `CheckpointTruthful` counts the
  signals from the mark.
* *Audit.*  A torn last line keeps the recorder from being constructed.
* *Evaluation.*  The gate ignores failed calls, so an outage during the champion's
  evaluation promotes a worse challenger; it also compares rows of different
  holdouts.
* *Generator.*  "re-running on an unchanged window enqueues nothing new"
  (`generator.py:386`): a second run advances the streak and may ignite.
* *Curation.*  With synthetic rows and duplicates the exam can be smaller than the
  minimum it promises.

## 8. Limits

Not modelled, and why: text, wording, headers and schemas (no property is about
them); cryptography (a verdict); model inference, training and scoring (numeric,
external); CLI, installers, the doctor script and dashboards (one-shot I/O); corpus
building scripts (run once by hand, nothing shares their state).

Within modelled components: the breaker's clock is read in the step that uses it,
where the code reads it just before taking the lock; a node that streams for ever is
not modelled as such, since nothing in the router ends it; several specialists do
not interact except by sharing the table, which eviction among the nodes of one
stands for; an owner node is assumed never to give a new job the id of one it
deleted; in the registry, heartbeats' ages and ranked routes are left out (the
routes are in `MeshSelect`), and a store that raises is assumed not to have kept the
event; the spool's back-off is time only, and a line that is not UTF-8 is not among
its damaged lines; the pull router follows one binding, other peers being the time a
pass takes, and one cold start at a time, where several request threads may be in
one; `wait` reads the probe and then the reservations, which is one step here (the gap
to its own reservation is kept), and the score of a placement is left out, so that any
node that fits may be chosen; the reservations of other users are not seen; an audit
row that is written whole but for its newline is no case of its own beside one that is
written and one that is torn, since after a write that failed `ChainIntact` no longer
asks for a chain; the allocator's scores are
exact where the code rounds floating-point numbers, it hears of nothing new while it
runs, since it works on copies, and the order of alternates is left out; queue files
are written whole, as `os.replace` makes them, and two writers that share one
temporary file are not modelled; the idle detector's caller follows its docstring,
since nothing in the package calls it, but may signal in any state.
