# Verification of memplex

memplex is a memory service for coding agents. It keeps a graph of functions,
facts, preferences and observations in a local two-file store ("Lite") or in
PostgreSQL, serves it through a CLI, an HTTP API, an MCP server and host plugins,
and exchanges it between nodes. This directory holds TLA+ models of the parts whose
correctness depends on the order of things: what survives a crash of the Lite store
and what processes that share it do to each other, what the durable sync outbox may
forget, what nodes that exchange events end up with, what becomes of a background task,
what the threads of the dispatcher and of the connection pool do to each other, and
what a service that starts and stops says of itself. TLC checks each model on
small instances; TLAPS proves the safety of each for every value of the constants.
Where the code does not keep what it says, a run shows that instead (section 3).

Paths below are relative to `src/`; line numbers are those of this commit.

| Module | Models | Checked by | Proved |
|---|---|---|---|
| `LiteDurability` | commit, recovery, reload and freshness of the Lite pair | `lite_durability` | `LiteDurability_proofs` |
| `DurableRegister` | what that pair promises, as one register | refined by `LiteDurability` in `lite_durability` | `LiteDurability_proofs` |
| `LiteStore` | the mutators, batches and compaction of several processes on that pair | `lite_store`, `lite_store_batch` | `LiteStore_proofs` |
| `SyncOutbox` | the durable sync repository of one node | `sync_outbox`, `sync_outbox_push` | `SyncOutbox_proofs` |
| `SyncPeers` | several nodes exchanging events | `sync_peers` | `SyncPeers_proofs` |
| `SyncDispatcher` | the threads of one dispatcher | `sync_dispatcher`, `sync_dispatcher_live` | `SyncDispatcher_proofs` |
| `TaskQueue` | background workers of several processes on one task file | `task_queue` | `TaskQueue_proofs` |
| `ConnectionPool` | leases and the close of the PostgreSQL pool, under its owner | `connection_pool`, `connection_pool_close` | `ConnectionPool_proofs` |
| `ServiceLifecycle` | start, stop, readiness and the HTTP server's shutdown | `service_lifecycle` | `ServiceLifecycle_proofs` |

`LiteStore` stands on `LiteDurability`: a commit that is several file operations there is
one step here, with the three outcomes that module allows. `SyncPeers` over-approximates
the pushes of `SyncOutbox`, `SyncDispatcher` the rows. `ServiceLifecycle` composes what
the stops of `SyncDispatcher` and `TaskQueue` report (their two `DrainedIsTrue`), and
relies on `ConnectionPool` for a close that comes back (`EveryoneReturns`).

`MC*` modules name the model values of the runs, `.cfg` files instantiate them.
A definition whose comment begins with "Mutant" is a plausible bug of the code, kept
next to the definition it would replace; it is part of no specification. Each
property has one, and TLC finds the property violated when the mutant is swapped in.

## 1. Inventory

### Layers

```
 adapters      cli, http_api, mcp_server, agent_runtime, host plugins, installers
     |
 service.py    MemplexService: lifecycle, write and query pipelines
     |    \________________ worker.py (background tasks) ________ sync_dispatcher.py
     |                           |                                      |
 storage/lite   store.py - single_writer.py           lite/sync_repository.py (SyncRepository)
     |              \ durability.py / sqlite_v2 / search and vector index    |
 storage/postgres*  pool.py - migrations - postgres_sync - postgres_tasks ---'
```

A write goes from an adapter through `MemplexService` to a store. In the Lite store a
mutator runs on the single writer thread under an inter-process `flock`, reloads the
committed pair if a peer process has changed it, mutates resident state, captures sync
events in the same state, and commits both files. Background work (compilation,
consolidation, compaction) is queued in the worker's task store. The dispatcher's
scheduler leases captured events and posts them to peers; peers pull them as pages.

### Components, their state, and what makes them correct

**Lite pair durability** (`memplex/storage/lite/durability.py`, with the commit and
reload path of `store.py`). State: `memory.json`, `changelog.json`, a journal file, a
lock file, and per process a resident pair with a stat fingerprint and a poison flag.
Operations: load, recover, commit, refresh, reload. Hard: a crash or power loss
between any two of the renames, unlinks and directory fsyncs; several processes; an
I/O error at any stage, before or after the decision; a cached base. Correct when the
pair can always be loaded, a commit that returned is never lost, a value once served
is never taken back, a failed commit leaves nothing, and a resident pair used without
a reload is the one on disk.

**Lite store** (`store.py`). State: resident collections, name index, changelog, sync
state, committed-pair cache, deferred-commit depth. Operations: some forty mutators
and readers, `deferred_commit`, scoped and ACL facades. Hard: `deferred_commit` keeps
uncommitted state across lock releases (2564), a stale base is folded in by id (2620),
the freshness test is mtime and size (2852), a mutator may fail half way. Correct when
what one process committed survives what another does, a call is atomic, context
reads see committed rows only, and compaction rewrites the rows it was computed from.

**Single writer queue** (`single_writer.py`). State: queue, thread, closed flag.
Operations: submit, drain, close. Hard: a submit between the closed check and `close`'s
sentinel (84-132); creation of the queue by several threads (`store.py:258`). Correct
when each submitted job runs once, in order, and no submitter waits for ever.

**Durable sync repository** (`storage/lite/sync_repository.py`; the same contract in
`storage/postgres_sync.py` and `migrations/0005_reliable_sync.sql`). State: outbox,
targets, deliveries with leases, consumer cursors, inbound cursors, inbox, batch
receipts, entity versions, snapshots, retention floor. Operations: capture, register
and enable or disable a target, claim, ack, fail, dead-letter, replay, page, snapshot,
apply batch, apply page, compact. Hard: leases that expire while their batch is under
way, answers that are lost, pages re-read with old cursors, compaction against all of
them. Correct when "delivered" and every cursor imply that the peer has the events,
a live lease is exclusive, the quota holds, what compaction drops nobody needs, and an
event is retried until it is delivered or a dead letter.

**Sync exchange** (the receiving half of the repository, `sync_protocol.py`,
`sync_ingress.py`, the pull loop of `sync_dispatcher.py`). State: versions, inbox,
cursors at both ends. Hard: batches and pages in any order, repeated, regrouped,
relayed; concurrent writes and deletes; clocks of different machines; puller restarts.
Correct when nodes that know the same events agree, no event is skipped or applied
twice, and the graph keeps no dangling edge.

**Sync dispatcher** (`sync_dispatcher.py`). State: stop event, scheduler thread,
workers, bounded queue, slot counters, signed pull cursors. Operations: start, the
scheduler's pass, the worker's loop, dispatch_once, drain, stop, pull. Hard: claims and
sends run outside the condition that protects the counters; stop with a deadline; a
start that finds workers of an earlier one. Correct when slots neither leak nor
multiply, bounds hold, stop leaves nothing queued, "drained" is true, and work
progresses.

**Background worker and task store** (`worker.py`, `task_repository.py`,
`storage/postgres_tasks.py`). State: tasks with status, lease, retry count; in-process
queue of hints, the thread. Operations: admit, claim, complete, fail, replay, cancel;
start, stop, submit, fill, execute. Hard: lease expiry against late completion, capacity
under concurrent admits, a claim of an expired lease, which does not count as an attempt
(391-424), shutdown with a deadline. Correct when only the holder of a live lease
decides a task's outcome, every task comes to one, and "drained" is true.

**Connection pool** (`storage/pool.py`, `storage/postgres_resources.py`). State: lease
records, the borrowers' queue, waiting and checked-out counts, close and fault flags,
psycopg2's pool, the resources' state. Operations: reserve, verify, publish, release,
close; initialize and close the resources. Hard: seven driver calls along a lease, each
of which may fail and is retried by another path; the physical close, which whoever
finds the pool idle does; two conditions and callbacks between them. Correct when the
counts agree with the leases, the pool is closed once and under no lease, and every
thread comes back.

**Service lifecycle** (`service.py`, `operations.py`, the lifespan of
`adapters/http_api.py`). State: the one-way lifecycle, the stop's state under one
condition, the admission count, and the worker, dispatcher, sleep-time agent and
resources. Hard: several callers of stop; a lifecycle looked at and then moved; the
order in which parts stop; parts that fail or miss their deadline. Correct when ready
means running, a clean shutdown record is true, and every caller of stop comes back.

**Legacy sync** (`sync.py`): a store wrapper with a push queue, periodic pull and SSE.
**Peer mesh** (`peer_mesh.py`, `peer_mesh_transport.py`, `sync_crypto.py`): membership
and message protection. **PostgreSQL backend** (`storage/postgres*.py`, `pool.py`,
`migrations/`): the same contracts as transactions; connection budgets; migrations with
a ledger. **Working memory, context, temporal** (`working_memory.py`, `context.py`,
`temporal.py`): bounded session memory, rendered context cache, validity intervals.
**Consolidation, compaction, sleep time, improve** (`consolidation.py`, `compaction.py`,
`sleep_time.py`, `improve.py`): rewriting jobs over the store. **Install transaction**
(`adapters/install_transaction.py`, `host_lifecycle.py`): file edits with rollback.
**Backup** (`backup.py`, `postgres_backup.py`): archive and restore.
**Query, retrieval, processing, LLM, wiki, adapters, release tooling**: mostly
functions of their input, or I/O.

`PROJECT.json` lists every component with its status and the reason where it is not
modelled, and every hazard at the line where it bites.

## 2. What is modelled

### LiteDurability: one durable pair, many processes

A pair is abstracted to its history: the sequence of transaction ids that built it.
Its length is the generation, its last element `transaction_id`, and equal histories
stand for equal digests, so "generation mismatch" and "foreign journal" are
comparisons of histories.

| State | Code |
|---|---|
| `dir` | what `memory.json`, `changelog.json` and the journal contain for any process |
| `media` | the set of directory states a power loss may leave: a rename or unlink adds one, a directory fsync (`_fsync_dir`) leaves only the current one |
| `lock` | the `flock` of `writer_lock`, which the kernel drops when its holder dies |
| `pc`, `op`, `committing`, `target` | the position inside `commit_locked`, `_recover_locked` or `_load_authoritative_locked` of the lock's holder |
| `pair`, `fresh` | `_committed_pair`, and whether `_pair_fingerprint` still matches the files |
| `poisoned` | `LiteDurability._poisoned` |

Each rename, unlink and directory fsync is a step of its own. Files are written to a
temporary name and fsynced before the rename, so a rename is atomic; only the directory
entry is volatile. `CommitError` is an exception of `commit_locked` at any stage, with
the reload that `_commit_current_state` does before it escapes; `Escape` an error of a
load or recovery or a `BaseException`; `Crash` the death of one process; `PowerLoss` the
death of the machine. `OrderedMetadata` says whether the medium keeps a prefix of the
directory updates (a journalling file system) or any subset.

Left out: digests and their verification (corruption is not modelled), the legacy
fingerprint sentinel, the SQLite shadow, `deferred_commit` and the fold of a stale base
(in `LiteStore`), and fingerprints that match by coincidence
(`ReplaceFile` makes every fingerprint stale; mtime granularity is listed as a hazard).

`DurableRegister` says what the pair promises: a register with a settled value and
possibly one value beyond it that is visible and may still be lost. Commits append;
a crash may drop the unsettled one; nothing else ever goes back.

### LiteStore: several processes on one pair

A public mutator holds the process's lock and the `flock` from its reload to its commit,
so a call is one action; what interleaves are the calls of several processes, and of the
batches of one process. A row is the number of the call that wrote it, which is also
the name of the sync event captured for it: a row without its event, a row that was
reverted and an event that was dropped can all be told.

| State | Code |
|---|---|
| `disk`, `gen` | the committed pair (rows and captured events), its generation |
| `res`, `base` | what a process has resident; which generation its fingerprint and `_committed_pair` prove it to be, `None` when invalidated |
| `depth` | `_commit_defer_depth` |
| `snap` | the snapshot a compaction was computed from |
| `kept` | history: ids that were committed and that no call has deleted since |

| Action | Code |
|---|---|
| `Upsert`, `Amend`, `Delete` | the mutators that write rows (`persist_paragraphs` evicts others by its cap), that rewrite rows they find, that delete rows they find; each ends in `Mutates`: rows, then events (`_commit_sync_changes`), then `Commits` |
| `Commits` | `_commit_current_state`: success, or failure before or after the decision, with what is left resident |
| `Begin`, `End` | `deferred_commit`; the outermost end folds a stale base in (`_fold_missing_from_base`) and commits |
| `Snapshot`, `Compact` | `compaction_snapshot`, `apply_compaction` with `expected_generation` |
| `Read`, `ContextAnswer` | reads that reload; `read_context_nodes` |
| `Crash` | a process dies and opens the store again |

Left out: names, edges and the search indexes (functions of the rows), SQLite as write
authority, backup and restore, and writes of other threads of a process in a batch,
which are the same writes as its own.

### SyncOutbox: one node's sync repository

Every operation of `LiteSyncRepository` runs in `_mutation`: writer lock, reload,
change, commit or discard. An operation is therefore one action, and what interleaves
are operations of several dispatchers, pulling sessions and operators. What a
dispatcher holds between two operations is `held` (a claimed batch), what a puller
holds is `token` (its signed cursor); both outlive leases, expiry and compaction.

| Action | Code |
|---|---|
| `Append` | `_append_event`, for a local capture or an accepted foreign event |
| `RegisterTarget`, `SetTargetEnabled` | `sync_register_target`, `sync_set_target_enabled` |
| `Claim` | `sync_claim`, with its reset of expired leases |
| `PeerReceives`, `AckBatch`, `FailNext`, `AbandonBatch` | the post in `SyncDispatcher._send`; `sync_ack_batch`; `_fail`, which settles one row per mutation and stops at the first lost lease; the death of the holder |
| `LeaseExpires`, `BackoffElapses` | the clock; rows of one claim expire together |
| `ReplayDeadLetter` | `sync_replay_dead_letter` |
| `Page` | `sync_page`, with the settlement of rows its cursor confirms, and the reader's side of `pull`; the answer may be lost |
| `CreateSnapshot`, `SnapshotPage` | the snapshot requests, with cleanup of the expired |
| `DropToken` | a session restart, an expired cursor, `cursor_expired` |
| `Compact` | `sync_compact`; age, limit and expiry are choices |

Time is a choice: a live lease may run out whenever it likes, and compaction finds any
set of cursors and snapshots expired. `got` is history: what a remote has received.
`Compact` with an empty prefix is the early return of `sync_compact`; the expiry of inbound
cursors in `sync_compact` (1547) is left out, since they are no state of this module.
`Page` confirms the cursor a reader presents, which is one it was served before. The
legacy `GET /sync/changes` (`http_api.py:1543-1563`) confirms a page by itself, in the
request that serves it: it is a caller outside the model, and `DeliveredIsReceived` and
`CursorIsReceived` say nothing of consumers that use it.

### SyncPeers: nodes that exchange events

Here the content of events matters: versions, tombstones and edges. A push is any set
of a node's own events, in stream order, at any time and any number of times, which
covers every schedule of claims, retries and lost answers `SyncOutbox` allows (it
over-approximates it by ignoring leases). Streams are not compacted, so cursors do not
expire here. Edges are known by their source only. A pull is
`sync_page` at one node and `sync_apply_page` at the other, as in
`SyncDispatcher.pull`. `ApplyEvents` folds `_apply_events` over a batch: known to the
inbox, refused as a conflict, an exception that discards the whole mutation, or applied
and appended to the node's own stream, from which it is relayed.

| State | Code |
|---|---|
| `ver` | `entity_versions` with the resident rows: the last event of each entity, `None` before any |
| `log`, `inbox` | the outbox of a node, and the events of others it has handled |
| `cursor`, `inbound`, `token` | the consumer row at the serving node, the inbound cursor at the puller, the signed cursor in the puller's memory |
| `behind` | history: entities that were written with a clock at or behind the version they had |

| Action | Code |
|---|---|
| `Upsert`, `Delete` | a mutator and its `capture_node`, `capture_edge`: each event gets an id of its own (`uuid4`) and whatever the clock reads, ahead of, at or behind the version its entity has; a delete captures the incident edges first |
| `Push` | `sync_apply_batch` at the peer |
| `PullPage`, `PullKnownPage`, `PullFails` | a page that is applied, one that is behind the inbound cursor, one that is lost or refused |
| `Restart` | a puller loses its tokens |

No assumption is made on clocks. What the code does with a clock that is behind is
departure 1; `Converged` speaks of all other entities (`behind` is what it leaves out).

### SyncDispatcher: the threads

The scheduler, the workers and the caller of `start`, `drain` and `stop` are cut where
they take or release `_state_condition`, touch the queue, or call the repository. The
repository is reduced to what these threads see of `SyncOutbox`: a row per batch,
leased under an attempt number, settled only by the claim that holds it, and a lease
that may run out at any time. Idle workers are a count, since they are interchangeable.
Joins and `wait` have timeouts and are not steps. Exceptions are modelled where the code
has a path for them: a claim that raises (609), a worker that fails before it settles
(632), a deferral that raises, because the lease is lost or the repository fails, in the
scheduler (602-611), a worker (621-632) or the caller of stop (679-690), a caller that gets `SyncDeliveryBusy` or a
repository error (`CallRaises`).

Not in this module: `pull` (in `SyncPeers` and `SyncOutbox`), the rows inside a batch
(in `SyncOutbox`), the HTTP exchange.

### TaskQueue: workers on one task file

Every operation of `TaskStore` is one read-modify-write under the file's lock: one
action, which a failed write makes an exception with or without effect. A process's
queue of hints, its stop and its thread are cut at `_state_lock` and around the task
file's operations. Time is a choice: a task becomes due, a lease runs out.

| Action | Code |
|---|---|
| `Submit`, `SubmitReturns` | `submit`: admission, hint, and the return to the caller |
| `Fill`, `Pop`, `Claim` | `_fill_due_queue`, and the two halves of `_run_once`: a hint is taken, then whatever is due first is claimed |
| `Settles`, `LosesLease`, `CallsBack` | `_execute_claimed`: complete or fail under the lease, or find it lost |
| `ReplayFailed`, `Cancel` | `replay_failed`, `cancel_pending` |
| `Start`, `StopBegins`, `StopJoins`, `StopReports` | `start`, `stop` with its deadline |
| `Crash` | the death of a process; the next one finds the file (`_recover_pending_tasks`) |

### ConnectionPool: leases and the close

Each action is one critical section of the manager's or the resources' condition, or
one driver call between two of them. A borrower reserves (`_reserve_capacity`), gets and
verifies a connection, registers and publishes the lease, uses it, and returns it
(`release`, with the rollback, the return to the driver and the restoration of the
record if that fails). A closer closes the resources, which ask the pool to close; the
thread that finds it requested and idle does the physical close (`_finish_physical_close`)
and tells the resources. A driver call may fail once anywhere, which faults the pool and,
through `_on_pool_fault`, the resources. `asleep` are the threads on the manager's
condition; `notify_all` wakes them, and a thread that is not woken sleeps on.

`PutConn` and `Clear` are two steps, as in the code: `release` gives the connection to the
driver (`pool.py:1065`) and takes it out of the counts in a later critical section
(1072-1078). Between the two the driver may hand it to another borrower, whose lease the
sets then miss. `LeasesAccounted` says what the counts are in spite of this, and
`ClosedUnreserved` what holds of the physical close; `ClosedUnderNoLease`, which the code
claims, does not (departure 11, run `connection_pool_close`).

The pool has one size all along. `Pools` are the sizes a run considers, and `ClosersOf` the
closing threads it considers for each.

### ServiceLifecycle: start, stop and the HTTP server

The lifespan's shutdown runs on the event loop without an `await`, so from
`start_draining` to the end of `stop` no request begins or ends there and no readiness
probe runs: `LoopFree`. A handler in an executor goes on. Other threads may call `stop`;
the first caller does it, under `_lifecycle_condition` only for its first and last part,
and the others wait. The lifecycle has a lock of its own, so `begin_draining`,
`readiness_status` and the end of `stop` look at it in one step and move it in another;
a transition that is no longer allowed raises.

The parts are reduced to what their stop reports: `dispatcher.stop` to a drain that
finds nothing left or gives up, and a second look; `worker.stop` to a task that has ended
by the deadline or not; the sleep-time agent to a cycle that may outlive its join; the
close of the PostgreSQL resources to success or failure. Events are named after the
request that captured them; `Deliver` stands for whatever ends an event for a drain, a
dead letter as well as a delivery (`sync_dispatcher.py:529-540`), so `CleanIsTrue` says that
no event of a request is still to be sent, not that each has arrived. `Start` is the start
of a service just made, as every caller in the repository does it: the start of one that
was stopped (`service.py:2571-2593` starts the parts and is then refused at `mark_ready`) is
left out. The legacy sync's flush and the drain of the single writer
queue are part of the step from the dispatcher to the worker.

## 3. Runs

The runs finish in under three minutes each on two workers.

| Run | Instance | What it shows |
|---|---|---|
| `lite_durability` | 2 processes, 3 transactions | 153 thousand states: `CrashRecoverable`, `AckedSurvives`, `PublishedSurvives`, `RejectedStaysOut`, `FreshIsCurrent`, and that the pair implements `DurableRegister` |
| `lite_store` | 2 processes, 2 ids, 3 mutating calls, 2 batches nested or not, 1 failure or crash | 1.1 million states: `CreationsSurvive` (a committed row stays until a call deletes it, whatever batches and failed calls do), `ContextServesCommitted`, `CallsAreAtomic` |
| `lite_store_batch` | the same | expects a violation, see below |
| `sync_outbox` | 1 remote with 2 sessions, 2 events, quota 1, snapshots of 1 or 2 pages | 407 thousand states: `StateValidates` (with the quota), `DeliveredIsReceived`, `CursorIsReceived`, `CompactionLosesNothing` |
| `sync_outbox_push` | 1 target that also pulls, 2 leases, batches of 2, 2 attempts | 443 thousand states: `DeliveredIsFinal`, `LeaseIsRespected`, and `LocalEventsSettle` under fairness |
| `sync_peers` | 3 nodes around a hub, a function and its edge, 2 events at the hub and 1 elsewhere, 2 clock readings in any order, pages of 1 | 711 thousand states: `Converged`, `NoGap`, `NoDanglingEdges`, `AppliedOnce` |
| `sync_dispatcher` | 2 targets, 2 slots, 1 per target, 2 starts | 1.5 million states: `InFlightBounded` (with every slot accounted for), `NothingQueuedAfterStop`, `DrainedIsTrue` |
| `sync_dispatcher_live` | 2 targets, 1 slot | 142 thousand states: `BatchesSettle`, `StopEndsThreads` under fairness |
| `task_queue` | 2 processes, 1 task with a callback, 2 attempts; one process stops and starts again, the other is submitted to; 1 crash, 1 failed write | 658 thousand states: `OnlyHolderPublishes`, `DrainedIsTrue`, and `TasksSettle` under fairness |
| `connection_pool` | 2 borrowers; 1 connection with 2 closers, or 2 connections with 1; 1 failed driver call, 1 late request | 407 thousand states: `LeasesAccounted`, `ClosedUnreserved`, and `EveryoneReturns` under fairness |
| `connection_pool_close` | 2 borrowers of 2 connections, 1 closer, nothing fails | expects a violation, see below |
| `service_lifecycle` | 1 request, 2 threads that stop beside the lifespan, 1 failure | 392 thousand states: `ReportsAreTrue`, and `StopReturns` under fairness |

The `TypeOK` of `SyncOutbox`, `SyncPeers`, `SyncDispatcher`, `TaskQueue` and `ConnectionPool`
is checked in one of the module's runs; those of `LiteDurability`, `LiteStore` and
`ServiceLifecycle` are proved only, as a part of their inductive invariants.

**Bounds.** `MaxTx = 3` gives a committed base, a commit that is cut, and one derived
from the outcome, by either process; a fourth transaction repeats the third. In the
outbox two events separate "before" from "after" for every cursor, floor, bootstrap and
resume position; two sessions of one remote are the least that let one session's stale
cursor meet another's progress, and they are interchangeable (`SessionSymmetry`, used
only in this run without temporal properties); a quota of one makes every append and
registration meet it. The rows of different targets never interact except through
the quota and compaction, which is why the push run keeps one target and gives it two
holders, two attempts and two-row batches; its target pulls too, because a cursor is
the one thing that may settle a row under somebody's live lease. In the hub, three nodes
are the least in which an event is relayed to a third that may also get it otherwise:
node 1 gets the hub's stream by push and by pull. Two events at the hub are what a
function deleted with its edge takes; two clock readings give every relation between the
clock and a version: ahead, equal and behind. Two starts of the
dispatcher are the least that leave workers of an earlier pool behind; `PerTarget <
MaxInFlight` makes both bounds bite, and `MaxInFlight = 1` in the liveness run makes two
targets compete for a slot.

In the store, three calls are a committed row, a peer's change to it and a change in a
batch; two batches are one in each process, or one within the other; one failure or
crash meets each step of these. Two borrowers of one connection make one wait; two
closers make one find the other's close in progress. With two connections the borrowers
run side by side, and one may be lent what the other has just returned; there one closer
is enough, and two would make the instance too large for the liveness property. In the
task queue, the process that stops is started twice, so that a thread which missed its
deadline runs beside a new one; `Callers` leaves submission to the other process, which
shares the file. `MaxLate` bounds the leases that are
asked for once the pool is shut: each is refused, but is in the queue for a moment, and
an unbounded stream of them could keep the pool from ever being idle. In the lifecycle,
two stopping threads and the lifespan give a caller that stops and two that wait.

`CHECK_DEADLOCK FALSE` appears where the modelled bound on events, writes or starts
ends every behaviour in a quiescent state that the code would leave by more work. The
Lite pair never stops (a process can always crash and restart), so deadlock is checked.

**Fairness.** `SyncOutbox!FairSpec`: the dispatcher keeps claiming for each target
(`SyncDispatcher._run` loops over all targets), clocks move (leases run out, back-offs
elapse), and whoever holds a batch settles it or dies. Nothing is assumed of the peer:
it need not accept, or answer. `SyncDispatcher!FairSpec`: threads are scheduled, remote
calls return within `request_timeout`, leases run out, and a claim made for ever does
not raise each time (strong fairness of `ClaimReturns`, per target: the code logs the
exception and tries again). Without this last one the scheduler's pass, which ends at
the first target whose claim raises (609-611), would starve later targets; this is
listed as a hazard. Nobody is required to call `start`, `stop` or `drain`.
`TaskQueue!FairSpec`: the worker's thread and the clock move, and an execution that is
tried again and again ends within its lease once (strong fairness: a handler that
always overruns its lease is executed for ever, as each claim of an expired lease is
free). `ConnectionPool!FairSpec`: driver calls return and threads that are awake run.
`ServiceLifecycle!FairSpec`: a step of a stop that was called is taken, since each of its
waits has a deadline but for the close of the pool, which `EveryoneReturns` is about.
Requests need not end, and nobody need ask for a stop.

### Where the code departs from what it, its docs or its tests say

`lite_store_batch` checks `CapturedSurvives` and finds it violated. The comment at
`store.py:2684` says that a stale base is folded into a batch because "this commit would
silently drop the peer's writes". The fold takes rows. The sync state and the changelog
are the batch's own (2600-2618), so the events a peer captured while the batch was open
leave the outbox, and the peer's rows are never delivered. The run's behaviour has four
states: one process writes, and another, which has not reloaded since, begins and ends a
batch. With two real stores on one directory, a fact added during the other's batch is on disk
afterwards and its event is not.

`connection_pool_close` checks `ClosedUnderNoLease` and finds it violated: the second
disagreement, number 11 below. The docstring at `pool.py:774` says "Reserve the one physical
close once shutdown has become idle", and `tests/test_postgres_store.py:2356` is named
`test_close_waits_for_an_inflight_borrower_before_closeall`. With two connections the code
closes the driver's pool under a transaction that is running. `connection_pool` has the
same instance, with failures on top, and shows what is left: `LeasesAccounted`,
`ClosedUnreserved` and `EveryoneReturns`.

The models also show the following, which no run but that one checks:

1. `capture_node` stamps a change with the local clock whatever version the entity has
   (`sync_repository.py:362`): a node whose clock is behind replaces a version it applied
   with an older one, which its peers refuse (1421), and the memories differ for good,
   against `docs/open-source-benchmark-baseline.md:68`. `SyncPeers` has such
   clocks; `Converged` is about the entities that no node has written behind their version.
2. The pull cursor is in memory only. After a restart the server's row is a page behind;
   once the stream has grown the page it serves straddles the inbound cursor, and
   `sync_apply_page` refuses it (1513) every time, against
   `docs/capability-mechanisms.md:242`.
3. A function deleted on one node while another gives it an edge makes the tombstone
   raise at the other; the page is refused for ever.
4. `tests/test_lite_sync_repository.py:444` calls the delivery the retention pin.
   Compaction also waits for enabled targets without a row for the event (1570): its own
   origin, or a target that was disabled. Nothing is lost, but the outbox cannot shrink.
5. A recovery whose journal entry was never made durable replaces `memory.json` first
   (`durability.py:891`) and fsyncs the directory afterwards. A medium that may keep the
   second directory update and not the first is then left with two sides of different
   generations and no journal. The runs and proofs assume `OrderedMetadata`.
6. A read or a mutator in a batch, after a peer's commit, reloads the pair and discards
   what the batch had so far, where `store.py:2573` says "the consistent prefix of the batch
   survives". The fold reverts a peer's updates and brings back what a peer deleted. A
   mutator that fails in a batch leaves its row without its event, and the batch commits
   it. `generation` stands still in a batch, so a compaction snapshot taken in one passes
   the check of `apply_compaction`. `CallsAreAtomic` is stated of calls outside batches.
7. `submit` registers a task's callback after its admission (`worker.py:835-848`): a
   worker that is faster never calls it. A `start` after a `stop` that hit its deadline
   leaves two loop threads, of which a later stop joins the newer one: it may report drained
   while the older one works. `DrainedIsTrue` is about workers none of whose stops missed
   their deadline.
8. A physical close that fails reports the fault to the resources, whose
   `manager.close(wait=False)` then waits for the end of the close its own thread is in
   (`pool.py:789-812`, 820; `postgres_resources.py:275-297`): that thread never comes back.
   `EveryoneReturns` leaves this case out. A `release` of a reserved lease gives up its
   count before the connection goes back to the driver (`pool.py:1029`).
9. A lifecycle that another thread moves between a stop's look at it and its transition
   (`service.py:2229`, 2623, 2631) makes the transition raise with the stop's state at
   "stopping": every other caller of `stop` waits for ever. `StopReturns` leaves this case
   out. In the HTTP server it takes a second caller of `stop` or `begin_draining`.
10. `wait_for_zero` blocks the event loop on which the requests it waits for would end
    (`http_api.py:2130`): a request that is active when the lifespan's shutdown begins is
    never waited for with success. A `start` that fails leaves the parts it had started
    running, and `stop(drain_sync=False)` with a running dispatcher skips the stop of the
    worker.
11. `PostgresPoolManager.release` gives the connection to the driver (`pool.py:1065`) and
    discards its identity from `_checked_out` and `_business_leases` afterwards
    (1072-1078), in another critical section. With two connections, a borrower that has
    reserved meanwhile can be handed the same connection in between; its own entries are
    no-ops on the two sets, and the discard takes them out. Its lease is published and
    not counted: `close` then calls `closeall` while its transaction runs, and the pool
    lends one connection more than it accounts for. TLC finds this in
    `connection_pool_close`, in twenty states, and two threads with a `PostgresPoolManager`
    on a stub driver show it. The comment at
    1099 says that a lease "must remain visible to concurrent close(wait=True) callers
    until ThreadedConnectionPool.putconn has completed": the first lease does, the second
    does not.

## 4. Proofs

Each component has a module `<Component>_proofs` that EXTENDS it. They prove, for any
value of the constants that meets the modules' assumptions, every invariant and every
action property that a passing run checks, and the refinement of `DurableRegister`.

**Layout.** None of the properties is inductive by itself. Each module strengthens them
to one `IInv`, a conjunction of named parts, and proves `Init => IInv`, a lemma for each action that `IInv` survives it, and
`Spec => []IInv`. The safety properties follow from `IInv`, the action properties from
`IInv` and one lemma per action. Where most actions leave a part alone, one lemma says
what such a step may do, and the action lemmas show that theirs is one.

| Module | Theorem | Property | Beyond the constants' assumptions |
|---|---|---|---|
| `LiteDurability` | `DurabilityInvariant` | `IInv` | `OrderedMetadata`, in all |
| | `TypeCorrect` | `TypeOK` | |
| | `AlwaysRecoverable` | `CrashRecoverable` | |
| | `AckedNeverLost` | `AckedSurvives` | |
| | `PublishedNeverLost` | `PublishedSurvives` | |
| | `FreshNeverStale` | `FreshIsCurrent` | |
| | `RejectedNeverReturns` | `RejectedStaysOut` | |
| | `PairIsRegister` | `ImplementsRegister` | |
| `LiteStore` | `StoreInvariant` | `IInv` | |
| | `TypeCorrect` | `TypeOK` | |
| | `RowsSurvive` | `CreationsSurvive` | |
| | `ContextIsCommitted` | `ContextServesCommitted` | |
| | `CallsAtomic` | `CallsAreAtomic` | |
| `SyncOutbox` | `OutboxInvariant` | `IInv` | |
| | `TypeCorrect` | `TypeOK` | |
| | `StateIsValid` | `StateValidates` | |
| | `NoFalseDelivery` | `DeliveredIsReceived` | |
| | `NoListingSkips` | `CursorIsReceived` | |
| | `CompactionIsSafe` | `CompactionLosesNothing` | |
| | `DeliveryIsFinal` | `DeliveredIsFinal` | |
| | `LeasesAreRespected` | `LeaseIsRespected` | |
| `SyncPeers` | `PeersInvariant` | `IInv` | |
| | `TypeCorrect` | `TypeOK` | |
| | `NoEventSkipped` | `NoGap` | |
| | `NoEdgeDangles` | `NoDanglingEdges` | |
| | `NoEcho` | `AppliedOnce` | |
| | `NodesConverge` | `Converged` | |
| `SyncDispatcher` | `DispatcherInvariant` | `IInv` | |
| | `TypeCorrect` | `TypeOK` | |
| | `SlotsAreFlights` | `InFlightBounded` | |
| | `StopEmptiesQueue` | `NothingQueuedAfterStop` | |
| | `DrainedIsReal` | `DrainedIsTrue` | |
| `TaskQueue` | `QueueInvariant` | `IInv` | |
| | `TypeCorrect` | `TypeOK` | |
| | `DrainedLeavesNothing` | `DrainedIsTrue` | |
| | `LeaseHolderPublishes` | `OnlyHolderPublishes` | |
| `ConnectionPool` | `PoolInvariant` | `IInv` | |
| | `TypeCorrect` | `TypeOK` | |
| | `CountsAreLeases` | `LeasesAccounted` | |
| | `ClosesUnreserved` | `ClosedUnreserved` | |
| `ServiceLifecycle` | `LifecycleInvariant` | `IInv` | |
| | `TypeCorrect` | `TypeOK` | |
| | `StatusIsTrue` | `ReportsAreTrue` | |

`OrderedMetadata` is a fact of the file system that the code does not establish, and it is
needed: without it `CrashRecoverable` fails (departure 5). No other theorem has a
hypothesis beyond the assumptions on constants. The
named assumptions on constants say that sets of processes, remotes, edges, borrowers and
the like are finite where something is counted, and that limits are naturals.

### LiteDurability

`CrashRecoverable` says nothing of what the holder of the lock is about to write, and
`AckedSurvives` nothing of an instance that will skip the reload and write on top of its
resident pair. `IInv` adds

- `LockInv`: only the holder of the `flock` is at a stage;
- `NoJournalInv`: without a journal in the directory, every state the medium may hold
  leads to the pair in the directory;
- `StageInv(p)`: what `p` has done so far at each stage: between the journal's rename
  and its unlink the directory's journal carries `p`'s target, from the first
  replacement on `memory.json` is that target and no instance's fingerprint matches,
  from the second on `changelog.json` is too, and the medium holds nothing else by the
  time the journal is unlinked;
- `BaseKeeps`: everything acknowledged or served is in the resident pair of every
  instance that may skip the reload. This is the conjunct the argument turns on: such
  an instance never looks for a journal, so it can overwrite one left by a crashed
  peer, which is harmless only because nothing in that journal was answered for.

Two more invariants rest on it. `IdsInv`: identities of transactions are fresh, so what
was rejected is in no state of the medium and in no resident pair, and the transaction
of a commit that has no journal yet is known to nobody. `RegisterInv`: while the visible
transaction is undecided, every state of the medium recovers to its base or to one
transaction ahead of it, and a resident pair that may be used is the base. Only the
rename of the journal and the loss of power touch them; of every other step one lemma
shows that it inherits: a load returns what it returned, and each later state of the
medium recovers to what an earlier one did. In the refinement the register's `tip`
is what a load returns and `settled` the same without the undecided transaction: the
rename of the journal is a `Decide`, a loss of power keeps the tip, drops it or is a
`Decide`, an answer is an `Answer` out of what is settled, and a step that inherits settles
the tip (also a `Decide`) or stutters.

### LiteStore

`CleanIsDisk`: outside a batch, a process whose base is the current generation, and which
therefore skips the reload, holds exactly the committed pair. `FreshKeeps`: in a batch
too, what such a process holds has every row that must survive, because any commit of a
peer makes its base an old one, and the fold of an old base puts the peers' rows back.
`BasesAreOld` and `SnapIsOld`: nobody has seen a generation that is not there yet, and a
compaction snapshot of the current generation taken outside a batch is of the committed
rows. `CallsAreAtomic` follows from `CleanIsDisk` and the step.

### SyncOutbox

The argument is that whoever claims that a remote has an event holds evidence that the
remote received it. `HeldOK`: a batch that was received is in what its target has got.
`CursorsOK` and `TokensOK`: a remote has received all that its cursor row, and the
position a session resumes from, have passed, and both stay between the retention floor
and the end of the stream; `SnapshotsOK` says the latter of the positions snapshots will
resume at. `StreamOK`, `TargetsOK`, `RowsOK` and `QuotaOK` are the shape of the outbox, the
targets and the rows: a row is leased when it names a lease, exists only for retained
events and known targets, and the active rows are within the quota. What one step may
do to a row is stated once (`RowMay`; `RowsAdd` for an append), every action is shown to
do no more, and `CompactionLosesNothing` and `DeliveredIsFinal` read it off.
`LeaseIsRespected` needs three facts more: a claim resets and takes only rows whose lease has
run out; a batch that settles a row has its very lease, and is given up or shortened by
that step; and a row exists only beyond its target's bootstrap position, so that
compaction, which waits for every enabled target's delivery beyond that position, takes a
leased row from a disabled target only.

### SyncPeers

`Identified`: no two events of a node have one id. `StreamsOK`: a stream holds what its
node has written or handled, and what was handled was written by another node.
`VersionsOK`: a node's memory is the newest of the events it knows of each entity,
whatever order they came in, unless somebody wrote the entity with a clock behind its
version (`behind`): then that node's memory is older than what it knows. `CursorsOK`: every position from which a puller
may resume is at or behind its inbound cursor. Streams only grow at their end, so `NoGap`
survives repeated, lost and new requests. A page is applied by a function over the
positions of its events; what it does is proved by induction over positions, with the
set of good positions written out (`SetInduction`). Convergence is then short: versions
are totally ordered by time, origin and id, and the newest of the same events is the same.

### SyncDispatcher

`Apart`: a flight is in one hand at a time, in the queue, with a worker, with the stop
that took it out of the queue or with the scheduler that claimed it, because every claim
has an attempt number of its own. `SlotsOK`: the slots counted, in all and for each
target, are those flights and the scheduler's own reservation. `StopOK`: once a stop has
seen the queue empty it stays so, since a put after the stop event is deferred.
`SettledOK`: what the last look at the rows found settled stays so. `PoolOK`, `SchedOK`,
`CtlOK` and `RowsOK` are the types, with what holds at each point of the scheduler, of a
stop and of a drain, and that a row to be claimed has an attempt left.

### TaskQueue

`FileOK`: a row that may be claimed has an attempt left, so that a failure never counts
beyond the bound. `ThreadsOK`: a thread past its pick has a task. `HintsOK`: the hints are
within the capacity. `CallsOK`: a stop finds the worker started and leaves it not running.
`LastLives`: of the threads of a worker the later ones are dead, the earlier ones too
unless a stop missed its deadline, and the last one if the stop that joined it met its
deadline. `NothingLeased`: a worker that is drained has left no running row, since only a
live thread claims, and the count of running rows that made the stop say drained was
taken when its threads were dead. `DrainedIsTrue` reads the last two off; `OnlyHolderPublishes` is proved of each
step with the types alone.

### ConnectionPool

`RecordsOK` is the centre: the state of a lease's record, its connection and the state
before its return follow from the place of its thread, so that each of the counts is
compared with a set of places. `QueueOK`, `Counted` and `SetsOK` do so for the queue, the
number of reservations and the two sets of connections; `SetsOK` in one direction only: they
name connections of leases, but may miss one. `Distinct`: two leases hold one connection only
while one of them, which has returned it, is about to be cleared. It rests on `DriverOK`:
what the driver has handed out is in a lease that has yet to return it, unless a return
failed, and what is leased is out until it is returned; so a connection that is lent anew
was returned. `ClosedUnreserved` is a part of `IInv` itself: the physical close is taken when
the reservations are counted and are none, and after it none is granted.

### ServiceLifecycle

`StartIsFirst` and `OneStops`: the lifespan has started the service before anybody probes
or stops it, and one thread stops it. `Progress`: unless a part has failed, what that
thread has stopped can be read off its position in `stop`. `DrainsFirst` says that nothing
is stopped while the service is ready. `DrainStays`, `DeliveredStays` and `WorkerStays`: what
the lifespan's stop will report of a part stays true, because what could undo it was
stopped or drained before. `ReadyIsRunning` and `StoppedIsOver` tie the status to these, and
`ReportsAreTrue` reads the reports off.

### What is only model-checked

Liveness: `BatchesSettle`, `StopEndsThreads`, `TasksSettle`, `LocalEventsSettle`,
`EveryoneReturns` and `StopReturns`, because leads-to under fairness needs `ENABLED`,
which the proof system does not handle. `CapturedSurvives` and `ClosedUnderNoLease` are
violated. The `MC` modules'
symmetry sets and bounds are not used in the proofs.

## 5. What is not modelled, and why

- PostgreSQL: its operations are single database transactions; the sync rules that
  matter are the ones of `SyncOutbox` (`migrations/0005_reliable_sync.sql:396-492` has
  the same retention rule, `postgres_sync.py:1051` the same overlap error), but row
  locks and isolation levels are not modelled, so nothing is claimed of it.
- The legacy sync of `sync.py`, the peer mesh, authentication and message protection.
- Retrieval, processing, LLM providers, the wiki, product analytics, release and
  readiness tooling: functions of their input or I/O, better tested than model-checked.
- The single writer queue: it hands a mutation to one thread and waits for it, and a
  mutation is one action already. Its `close` could leave a submitter waiting
  (`single_writer.py:88`), but the service drains it and never closes it.
- Adapters, but for the HTTP server's lifespan and admission; installers: the install
  transaction is file edits with a journal of its own, in the plan below.
- Working memory, context and prefetch caches, temporal validity: bounded maps under one
  lock, or functions of the rows.
- Consolidation, improve and premise resolution as such: they compute rewrites; what
  their writes meet is in `LiteStore`. `consolidation.py:500-520` edits resident paragraphs
  in place, which a reload in the middle of its batch loses.
- The start of a stopped service (`service.py:2571-2593`), which no caller makes; the legacy
  `GET /sync/changes`, which confirms an event to itself (`http_api.py:1543-1563`): what
  `DeliveredIsReceived` and `CursorIsReceived` say, they say of the other routes; the expiry of
  `inbound_cursors` in a compaction (`sync_repository.py:1547`), on which no property depends.
- Corruption of files, clock arithmetic, digests and serialisation.

## 6. Plan

Done, in order: `LiteDurability` with `DurableRegister` and its proofs, `SyncOutbox`,
`SyncPeers`, `SyncDispatcher`, `TaskQueue`, `ConnectionPool`, `LiteStore`, `ServiceLifecycle`.

Every safety property that a passing run checks is a theorem. What is left:

1. The install transaction (`adapters/install_transaction.py`), with crashes between its
   edits: that a rerun after any crash ends with all of the edits or none.
2. The push queue of the legacy sync (`sync.py`).
3. That the pushes of `SyncPeers` cover what `SyncOutbox` lets a dispatcher send: a mapping
   of the rows of one target to the deliveries of one link.
