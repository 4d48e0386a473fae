# LogPose: models and proofs

LogPose is a vector database. Its storage engine (`crates/logpose-storage`, over `crates/logpose-wal` and
`crates/logpose-vfs`) gives each collection one writer task, a write-ahead log, memtables, immutable segments with
deletion vectors, a manifest and background jobs. Around it are a query layer, a cluster catalogue in etcd, a service
with gRPC and REST APIs, a client and a command line. This directory models those parts in TLA+, checks them with TLC
on small instances and proves what matters most of seven of them with TLAPS for all instances.

`PROJECT.json` lists the components, the runs, the source lines of every definition, the hazards and the theorems.

## Inventory

| Component | State | Operations | Hard behaviour | What makes it correct |
|---|---|---|---|---|
| WAL (`logpose-wal`) | files of frames, fence marker, writer's counters | `append_group`, `roll_back`, `fence`, `rotate`, `remove_checkpointed`; `open`, `next_frame`, `into_writer` | crashes and failed syncs at every call, stale page cache, wrap of the group counter | acknowledged groups survive, `NotApplied` ones never come back, no crash reads as corruption, every open can finish |
| File system (`logpose-vfs`) | page cache, device, directory entries | append, sync, set_len, rename, crash | a failed sync marks pages clean | (the environment of the others) |
| Commit pipeline (`writer/mod.rs`, `prepare.rs`, `handle.rs`) | request queue, private state, group in flight, published version, poison | submit, collect, prepare, start, publish, acknowledge, fail | preparing one group while another is written; drop, poison, shutdown in between | acknowledged implies visible implies durable; refused requests leave no trace; every request is answered |
| Engine (`engine.rs`) | map of slots, shutdown flag | create, drop, shutdown | drops against running writers, half-failed drops | a retired directory is not written |
| Rows (`state.rs`, `dv.rs`, `flush.rs`, `compaction.rs`, `apply.rs`) | memtables, segments, deletion vectors | put, delete, freeze, flush, compact, index | deletes that arrive while a job rewrites their rows | reads say what the log says |
| Manifest, recovery (`manifest.rs`, `recovery.rs`) | generations, CURRENT | publish, load, replay | failure or crash at each step of a publication | recovery from any moment rebuilds the log's meaning |
| GC (`gc.rs`, `version.rs`) | references, retire queue | hold, drop, drain | removal against readers and an undurable manifest | no reachable file is deleted |
| Primary-key index (`writer/pk_index.rs`) | addresses, forwarding | resolve, retire, rewrite | rewrite in slices between groups | a key resolves to its live row |
| Maintenance (`writer/jobs.rs`, `scheduler.rs`, `policy.rs`) | job table, waiters, backoff, permits, memory, queue | tick, plan, request, grant, run, fail, end, cancel | lost wake-ups, failing and panicking jobs, drops and stops in between | limits hold, reservations are returned, every caller is answered |
| Buffer cache (`cache/`) | entries, ring, flights, charged and pinned bytes | fetch, load, evict, decode, invalidate, trim | shared loads that fail, panic or are abandoned | charges are exact, nobody waits for a load nobody runs |
| Types, indexes, segment files (`logpose-types`, `logpose-index`, `segment_v2`) | columns, statistics, indexes, checksums | validate, encode, build, look up, scrub | equal answers by different roads; garbled regions | every index and encoding answers as the records do |
| Read path (`logpose-query`, `tokens.rs`) | pinned versions, tokens | get, count, filter, search, scroll, pin, resolve, expire, evict | scrolls over versions while data moves and tokens go | each record once; a pin belongs to a token |
| etcd catalogue (`logpose-storage-etcd`) | records, leases, revisions | fenced transactions, create, drop, alter, describe, promote, reconcile | steps cut short, lost round trips, leases that run out | a ready collection has data, a pending one resolves |
| Service (`logpose-service`, `logpose-core`) | coordination loop, cached leadership, gates | campaign, refresh, place, authorise, forward | decisions on stale leadership and ownership | as above, and answers are true |
| Errors, client, APIs (`logpose-client`, `logpose-api-grpc`, `logpose-api-rest`) | attempts, bulk stream | map, retry, redirect, stream, cancel | retry of an applied write, broken connections | an answer is true of the change it answers |
| Command line (`apps/logpose-cli`) | session screens, running action | keys, actions | quitting under an action, partial batches | reports say what landed |
| Configuration, telemetry, benchmarks | - | parsing, logs, metrics | - | not modelled |

The writer task talks to callers through a request channel and one-shot acknowledgements, to the engine through a
control channel, to an I/O pool that runs `WalWriter::append_group`, and to the engine-wide scheduler through grants.
The published version is an atomic pointer that readers load. The WAL's checkpoint comes from the manifest the jobs
publish. Nodes share nothing but etcd; no lock spans an etcd record and the engine's directory it describes.

## Modules

`DurableLog` <- `Wal` (refinement). `Rows` <- `Storage`. `Policy`, `Scheduler` <- `Jobs`. `Etcd`, `Access` <- `Cluster`.
`Values` <- `Schema` <- `ScalarIndex` <- `Columns` <- `Hnsw` <- `SegmentFile` <- `ReadView` <- `Filter` <- `Search` <-
`Scroll` <- `Query`. `Errors`, `Client`, `Grpc`, `Rest`, `Session`, `Access` <- `Serving`. An arrow is EXTENDS or
INSTANCE. Each component that runs has an `MC` module; proofs are in modules named `...Proofs` (`JobsProofs` begins
with the lemmas on `Policy` and `Scheduler` that it rests on), and `Folding` has the induction rule for folds that
`StorageProofs`, `JobsProofs`, `WalProofs` and `CacheProofs` instantiate.

### DurableLog: what a log promises

One proposal at a time is logged as a whole or not at all. `Reject` answers NotApplied, after which the operations
never enter the log; after `Stop` with a proposal pending, `Recover` decides. `WalProofs` proves both consequences
(below).

### Wal: the write-ahead log

A file is a sequence of cells, one per frame, kept twice: `mem`, what reads return, and `dev`, what the device holds.
`dirty` are the cells the next sync writes. A failed sync may write any of them and clears `dirty` (the fsync
behaviour `logpose-vfs/src/fault.rs` documents); `linked` says the directory entry is durable. A crash keeps any mix of
old cells, new cells and garbage beyond the agreed prefix.

| Code | Actions |
|---|---|
| `append_group` | `AppendGroup`, `SyncGroup`, `SyncGroupFails` |
| `roll_back`, `fence` | `RollBackTruncate`, `RollBackSync`, `RollBackSyncFails`, `Fence` |
| `rotate` | `Rotate`, `RotateSync`, `RotateEmpty`, `RotateLink` |
| `remove_checkpointed` | `RemoveCheckpointed` |
| `WalRecovery::open` | `Barrier`, `RepairTail` (with `scan_tail` as `TornTail`, `CommittedEnd`) |
| `next_frame`, `into_writer` | `IntoWriter`, `IntoWriterFails` |
| environment | `Crash`, `Kill`, `OperatorReboot`, `AdvanceCheckpoint` (manifest publish) |

`log`, `pending` and `rejected` are history variables: what callers were told. The refinement `Implements` maps them
to `DurableLog` by name. `up` of the abstract log is derived from `phase`.

`Kill` (the process dies, the host does not) leaves out two cases: a death between a failed sync and the rollback or
marker that deals with it, and a restart after an unfenced failure. In both the page cache shows frames the device
does not have and nothing on disk says so, and a reopen in the same boot would replay them: the same gap that run
`wal_barrier_eio` shows by another way. They are left out so that the passing runs say what holds outside that gap; for
the second, the code stops the process and asks for the device to be checked.

### Commit: the group-commit pipeline

A request is one operation on one row, so a state is the sequence of operations applied to it and a sequence number a
position in it. `private`, `durable` and `published` are the three states whose relation is the point of the pipeline;
`before` is the savepoint. Callers (`Check`, `Send`), the writer task, the I/O thread, a dropper and the engine's
shutdown interleave freely at the code's await points and at the channel and atomic operations.

| Code | Actions |
|---|---|
| `submit` | `Check`, `Send`, `SendClosed` |
| `handle_request`, `collect`, `resolve_filter_request` | `Refuse`, `ResolveFilter`, `Collect` |
| `Writer::prepare`, `prepare::prepare` | `Prepare`, `PrepareInvalid`, `PrepareFatal`, `PreparePanics` |
| `start` | `StartIo`, `StartRefused`, `NothingToStart` |
| the I/O job of `start` | `AppendGroup`, `AppendFails` |
| `complete`, `wal_failed` | `Publish`, `Acknowledge`, `WalFailed` |
| `expire_stalled_requests` | `ExpireStalled` |
| `drop_collection`, `quiesce`, `retire_collection_dir` | `MarkDropped`, `Quiesce`, `Retire`, `RenameFails`, `RenameUnsynced` |
| shutdown, `stop` | `Shutdown`, `Stop` |

Abstractions: a byte limit of a group is a shorter prefix; the commit delay is a later `Collect`; a request the writer
holds back is the head of the queue; channel capacity only delays `Send`; whether the memtables are full is an
arbitrary flag (`MemtablesChange`), since the jobs that empty them are in Storage and Jobs; a failed row fetch of a partial update is an invalid
request. An unfenced `Unknown` outcome ends the process through `on_fatal`; the model goes on, which only adds
behaviours. The log's own promise (a group whose outcome is unknown is logged as a whole or not) is what Wal shows.


### Rows and Storage: one collection on disk

A row is a key and the number of the operation that wrote it. `Rows` is one record: the active and frozen memtables, the
segments with their rows, the deletion vectors and the primary-key index with its forwarding of retired units.
`Meaning(log)` is the reference: what the committed operations say of every key. `Storage` adds the files, manifests,
jobs, the retire queue and recovery. Jobs begin and commit while the pipeline is drained, as in the code, so a prepared
group is either restored (`RestoreGroup`) or committed as a whole.

| Code | Actions |
|---|---|
| `prepare`, a failed group, a durable group | `Prepare`, `RestoreGroup`, `CommitGroup` |
| the sliced rewrite of the key index | `Rewrite` |
| freeze, and the begin and build of each job | `Freeze`, `BeginFlush`, `BeginCompaction`, `BeginIndex`, `Build`, `BuildFails` |
| `jobs.rs` commit of each job | `CommitFlush`, `CommitCompaction`, `CommitIndex`, `AbandonIndex`, `JobRefused` |
| `manifest.rs` publish | `PublishFails`, `Rename`, `PublishUnknown`, `Install`, `TruncateLog` |
| versions held by requests and tokens, `gc.rs` | `HoldVersion`, `DropVersion`, `GcDrain` |
| environment, `recovery.rs` | `Crash`, `Kill`, `RecoverManifest`, `RecoverCollection` |

### Policy, Scheduler and Jobs: maintenance

`Policy` is the planner (`Plan`, `PlanQuiet`, `PlanExplicit`) and `Scheduler` the shared queue (`Request`, `Release`,
`Cancel`, `Pump`), both as operators. `Jobs` is the writer's half on top: writes and freezes (`Write`, `FreezePending`),
the ticker (`Tick`), backoff, explicit calls (`ExplicitFlush`, `ExplicitCompact`), the life of a job (`Begin`,
`JobDone`, `JobFails`, `JobPanics`), and what cuts across it (`LogFails`, `MarkDropped`, `Quiesce`, `Quiet`, `DropEnds`,
`Stop`). Another collection's requests (`OtherAsks`, `OtherEnds`) compete for the same permits and memory.

### Cache: the buffer cache

A load, its bytes and the entry they become carry the name of the fetch that started them. A step of a thread is what
the code does under one lock (a shard's or the ring's); `FetchAsync`, `FetchBlocking`, `Poll`, `DropFetch`, `Release`,
`Decode`, `WarmUp`, `JobDropped`, `SetBudget` and `InvalidateFile` start or end such work, `ThreadStep` does it.

### Etcd, Access and Cluster: nodes over the catalogue

`Etcd` has the records, leases and fenced transactions as operators, `Access` the policy decision. In `Cluster` a step
is one etcd round trip or one engine call with the local work up to the next; a round trip may fail without effect or
take effect and lose its answer. Each node runs its coordination loop (`LoopStep`), a reconciliation pass (`PassStep`)
and requests (`OpStep`: create, drop, alter, describe, promote, database drop, policy change). Abstractions: one
collection name (names share only the database, the leases and the engine's map); the tick's `keep_alive`,
`list_membership` and `current_leader` are one step; when a reconciliation is due is nondeterministic; leases are named
by owner and use; `promote_shard_owner`, which only an operator's tool calls, is a request kind. `Fresh` stands for
etcd's revisions, lease ids and generated collection ids: a number that is not in use by a record or a memory of one.

### Values to Query: what a client reads

The chain from `Values` to `Scroll` defines validation, schema changes, sorted and inverted indexes, column encodings
with their statistics, the vector graph, the sections and checksums of a segment file, the views of a version, compiled
filters, searches under each strategy and scrolls. `Query` lets three feeds of writes be spread over memtables and
segments in every way and keeps `truth`, the records as clients wrote them. The properties ask every version 33
filters, 4 searches and 3 scrolls. Bounds that shape it: graphs and token actions only at the tails named in the
configuration, two tokens, one pin, one garbled region, one strategy for all segments of a search; unit ids are reused
once nothing refers to them.

### Errors, Client, Grpc, Rest, Session and Serving: a call and its answer

`Errors` has the class, hint and details of each error, the status it becomes and what the client reads back; `Client`
the retry and redirect decisions; `Grpc` and `Rest` what each handler converts and how it may refuse; `Session` the
screens of the interactive command line. `Serving` sends one call at a time through them while ownership, leadership,
etcd, memberships, disks and connections change. Bounds: two faults, two batches of a stream, flaws of a request found
only on its first try, the policy `bound`, nodes of the combined role, eight of fifteen workflows (the others are single
reads like one of these). Waits are computed, time is not modelled. A catalogue change is one transaction here; its
steps are in `Cluster`.

## Runs

| Run | Checks | Instance | States |
|---|---|---|---|
| `wal` | `NoFalseCorruption`, `AckedOnDevice`, `NotAppliedGone`, `NumbersContinue`, `FenceHolds`, refinement `Implements`, `RecoveryCompletes` | groups of one frame, two frames and a checkpoint frame first; 3 attempts, 3 faults, group counter modulo 3 | 468,187 |
| `commit` | `PublishedDurable`, `AckedVisible`, `RefusedNotLogged`, `GroupFitsLog`, `DrainedAgrees`, `PublishedExtends`, `QuiescedIsQuiet`, `EveryRequestAnswered` | a put, a delete, a filter delete, an invalid request; groups of two, two drops | 1,091,420 |
| `storage` | `ReadsMatchLog`, `CrashSafe`, `HeldFilesExist`, `KeyIndexResolves`, `CountersMatch`, `NamesFresh` | two symmetric keys, one flushed row, two more operations, two jobs at once, one pin, one fault | 942,087 |
| `maintenance` | `NoLostWakeup`, `PermitsAccounted`, `ReservationsExact`, `FlushAckCovers`, `CompactAckIndexed`, `EveryCallAnswered` | one flush call, one compaction call, two writes, another collection's job, one fault | 410,194 |
| `cache` | `NothingLeaks`, `EveryFetchEnds` | three fetches of two units, a budget of one unit and its decoded form, one pool thread, one failure | 1,484,619 |
| `cluster` | `ReadyHasData`, `SchemaForward`, `PendingResolves` | two nodes, two requests at a time, three events, one fault | 686,773 |
| `query` | `ReadsAgree`, `SearchAgrees`, `ScrollOnce`, `Scrubbed`, `PinsOwned` | three feeds of up to seven writes over four records | 178,533 |
| `serving` | `AnswersTrue`, `SessionSafe`, `CallsEnd` | two nodes, six callers, two faults, two batches | 1,599,611 |
| `wal_barrier_eio` | `AckedOnDevice`, violated | the barrier's sync may fail | |
| `commit_drop_retry` | `RenamedKeepsRefusing`, violated | the three valid requests, two drops | |
| `cluster_schema` | `SchemaIsOwn`, violated | a create or drop beside an alter | |
| `serving_bulk_unknown` | `FailedBatchNotApplied`, violated | as `serving`, one fault | |

The bounds. `wal`: three faults are one to damage the disk, one in the reaction to it (rollback, rotation, recovery)
and one more to stop that; three attempts give a group before, at and after the fault, and a counter modulo 3 wraps
within those. `commit`: two drops are one that fails and its retry; two requests in flight and one queued need three
requests, the fourth adds validation failures inside a group. `storage`: one row is flushed before the run starts, so
that two operations are enough for a delete of a row a compaction is rewriting; six unit ids and three generations let
two jobs commit after each other; one fault is enough because recovery is checked from every state (`CrashSafe`).
`maintenance`: the pool fits one merge and not another collection's beside it, so that jobs wait. `cache`: one thread
forces loads to queue, and the budget forces an eviction for every second unit. `cluster`: three events are a create,
what races with it and a fault; a failed open at restart costs no fault, and before a database exists only creates are
tried. `serving`: two faults are one that makes a call fail and one that changes the world under its retry.

Deadlock is checked in `serving`, where somebody can always call. Elsewhere a corrupt or fenced log, a stopped writer
or node and an idle system stop by design, and the bounds end the others.

### What the violated runs show

* `wal_barrier_eio`: an append that was never synced survives a process kill in the page cache. The next open's
  barrier fails, which marks those pages clean, and the error leaves no fence. The open after that passes its barrier
  and replays frames the device does not hold, though the barrier is there so that recovery "reasons only about bytes
  on disk".
* `commit_drop_retry`: after a drop whose rename was not synced, a retry fails its rename because the directory is
  already renamed, concludes that nothing changed, and reopens the handle over the `.dropped` directory.
* `cluster_schema`: `publish_collection_schema` finds the record by name and compares versions but no id. Delayed past a
  drop and a re-creation of the name, it overwrites the schema of the new collection.
* `serving_bulk_unknown`: when the log's failure leaves the outcome of a stream's batch open (`WalUnknown`), the batch
  may be in the log and come back at the next open, but `Progress::fail` reports it like any failed batch. The error's
  comment says that it is not committed (`error.rs:661-662`), and `api-overview.md:873-878` lets a client resume from
  it. `AnswersTrue` says of such an answer what does hold: the batches before the failed one are committed and those
  after it are not.

### Fairness

`Wal`: a system call that started returns (`Writing`), an open goes on (`Recovery`), and a host whose log is fenced or
whose process stopped is rebooted (`OperatorReboot`), which is what the marker's error asks for. Appends, rotations and
crashes need not happen.

`Commit`: a caller that checked the handle sends, and the writer task, the I/O pool and the dropping thread are
scheduled. The writer's ticker is part of the task, so a stall expires requests even when no flush ever succeeds. Nobody
has to drop, shut down or flush.

The others state weak fairness as `[]<>~Due \/ []<><<A>>_vars`, where `Due` says that the code's task has something to
do. `Jobs`: the ticker, a pending freeze, the begin of a granted job, the end of a running build (`JobDone`; a failure
uses up the bound), a quiesce, the end of a backoff, of a drop and of the other collection's jobs. `Cache`: threads run
until their work is done, and a pending future that is kept is polled. `Cluster`: loops, passes and requests go on, a
node is up again and again and then reconciles again and again, and the nodes keep renewing their leases again and
again. Without the last two a create could stay pending for good. `Serving`: the server or the caller takes a step
unless the call is at rest; nothing more is assumed of the network.


## Proofs

Every theorem holds for all values of the constants that satisfy the named assumptions; none of the invariants the runs
check is inductive as it stands. The strengthened invariants were themselves checked by TLC on the runs' instances
before they were proved.

| Module | Theorems | Assumptions |
|---|---|---|
| `CommitProofs` | `TypeOK`, `PublishedDurable`, `AckedVisible`, `GroupFitsLog`, `DrainedAgrees`, `RefusedNotLogged`, `PublishedExtends`, `QuiescedIsQuiet` | `KindAssumption`, `BoundsAssumption` |
| `WalProofs` | `NotAppliedGone`, `FenceHolds`, `NumbersContinue`; if `~BarrierFaults`, `AckedOnDevice` and the refinement `Implements`, hence `LogLosesNothing`: a refused operation is never logged and the log only extends | `ShapesAssumption`, `BoundsAssumption` |
| `ServingProofs` | `AnswersTrue`, `SessionSafe` | `CallersAssumption` |
| `ClusterProofs` | `ReadyHasData`, `SchemaForward` | `ClusterAssumption` |
| `StorageProofs` | `HeldFilesExist`, `NamesFresh` | `StorageAssumption` |
| `JobsProofs` | `NoLostWakeup`, `PermitsAccounted`, `ReservationsExact`, `FlushAckCovers`, `CompactAckIndexed` | `SchedulerAssumption`, `PolicyAssumption`, `JobsAssumption` |
| `CacheProofs` | `NothingLeaks` | `CacheAssumption` |
| `Folding` | none of its own: lemmas on folds, which the others instantiate | none |

**Commit.** `FlightInv`: the group in flight is what lies between the published version and its own version, and the log
ends just before it, just after it, or (outcome unknown) at either. `LogInv`: the published version is a prefix of the
log. `WriterInv`: while the collection accepts writes, the savepoint and the private state extend the version in flight
(or the published one) by exactly the prepared requests, and the counters say so. `DropInv`: a retiring drop has a
dropped handle and an empty pipeline. `AckInv`: acknowledged operations are in the published version.
`PublishedDurable` alone says nothing of the version a group in flight will publish, and that version is computed from a
private state that a refused start has to restore exactly. `RefusedNotLogged` rests on `PipeInv` and `LoggedInv`: a
request is in one place of the pipeline at most once, so an answer given at one place cannot be contradicted by another.

**Wal.** Five invariants, inductive in this order, each checked by TLC on the instance of run `wal`:

* `BaseInv`: types, which files a phase has and how far the active one is synced, and what the marker says of the phase.
  `FenceHolds` is part of it. A marker is seen by the boot that wrote it until `OperatorReboot`; only `IntoWriter` of a
  later boot removes it.
* `AppliedInv`: the operations of the open group are in the active file only, beyond `synced`; rejected operations and
  those nobody proposed yet (`Never`) are in no file, removed ones included, neither in the page cache nor on the device.
  `NotAppliedGone` follows. The device matters: after the truncation has been synced no cell of the group is left there,
  and without the sync a crash could bring it back.
* `NumbersInv`: an open log continues after `log`; the group in flight has `pending` as its operations and is numbered
  from `nextSeq`. At the end of recovery, `ResumeSeq` and the log rebuilt from `Replayed` have to agree: `ReplayIs` says
  that a replay without an error has, above the checkpoint, exactly one operation per number and no gap.
* `AckInv`: every logged operation above the checkpoint is `Kept`: it is in a durable file, at or before the end of a
  group up to which page cache and device agree and every cell is a frame, no later file starts at or below it, and no
  rollback or abandoned rotation reaches there (`InUse`). The end of a group is there because `RepairTail` cuts the file
  back to one, the agreement because a crash keeps exactly what both have (`Clean`), and the later files because
  `RemoveCheckpointed` takes a file by where its successor starts. `WriterInv` has what a writer trusts: the older files
  are on the device as they are read, what it appended and did not sync is dirty (so that the sync does write it), and
  no page cache that a process opens lies (`Honest`).

* `OpenInv`, for the refinement: no file has a data frame past `log`, except the active one, which may have the frames of
  the one group without an answer, each in its place after the last logged one (`Unanswered`), and where a writer
  appends next the device has nothing. `AppliedInv` is not enough: it says where the open group's frames may be, not
  that an incomplete or disordered part of them cannot be replayed.

`AckedStaysOnDevice` and `ImplementsPromise` assume that the barrier's sync does not fail: run `wal_barrier_eio` shows
`AckedOnDevice` violated when it does. The proofs see the disk through one lemma for each file operation (`SyncedIs`, `FailedSyncIs`, `SetLenIs`,
`AfterCrashIs`, ...): which cells it may hold afterwards (`NoMore`) and which it surely has (`Keeps`). Recovery reads files
through folds (`FlattenSeq`, and the model's `At`, the members of a sequence at given positions); the lemmas on those
are inductions over positions, done on a set of positions of the one sequence at hand, since the library's induction
rules take a predicate.

**DurableLog.** The lemmas `RejectedIsNeverLogged` and `LogOnlyExtends` say what follows for any log that keeps the
promise (`PromiseInv`); of the code they say something only through the refinement.
`ImplementsPromise` is the refinement: `log`, `pending` and `rejected` map by name, and `up` is that `phase` is one of a
process with the log open or answering. `AppendGroup` is `Propose`, the sync that succeeds is `Commit`, the rollback
that completes is `Reject`, a crash, a kill or the fence is `Stop`, and `IntoWriter` is `Recover`: there `OpenInv` and
`ReplayIs` make the replay end at `log`, or at `log \o pending` with the open group whole. Every other action is a stutter
(`QuietStep`). Hence `LogLosesNothing`: both consequences hold of `Wal`.

**Serving.** The invariant ties what the caller knows to what the store did. `LinkInv`: the attempt in progress, its
stage and the answer under way belong together. `StageInv` and `RecordInv`: how often a record write was applied at each
stage of an attempt, including those whose answer was lost. `StreamInv`: batches committed and batches counted in a bulk
stream. `CatalogInv`: what a catalogue change may have left behind when a redirect follows it. `SessionInv` is the same
for the interactive session and its worker.

**Cluster.** No lock spans etcd and an engine, so a collection's record and its data move in separate steps of several
nodes. Revisions, leases and collection ids are never issued twice (the `Fresh` lemmas), so a remembered revision
identifies what was read. `FenceInv`: a pending create is changed only by its own node, because a drop led by another
node had to find it ready under a leadership that changed hands before the put. `FailedInv`, `ResolveInv`, `DropInv` and
`ForwardInv`: a reconciliation pass acts on a collection only while no request of the same node can. `RevInv` and
`CreatedInv` tie records to their writers. `SchemaForward` needs `VerInv` only: a publication in progress carries a
version not below the one it read, and it is put under the revision it read.

**Storage.** `HeldInv`: what is held is on disk and not in the removal queue. By itself it says nothing of a file that
an install is about to put into the version: `JobInv` says that the files of the jobs are pairwise different, in nobody's
hands and not queued, that those of a built job are on disk, and that those of an unbuilt one are not. That rests on
`CounterInv`, by which `ids` is above every number in a file name, on disk, in the queue or in a job, and `StageInv`, by
which a publish runs alone, for a built job, under a generation of its own. After a crash the counters are computed from
the directory (`FreshIds`), so the proof needs that a finite directory has a largest number, and that replaying the log
into the recovered state changes no segment. The second is an induction over the log, which the provers cannot do by
an induction theorem over predicates: `Folding` has the step of a fold and the predicate as constants, proves the rule
`FoldRule` once, and `StorageProofs` instantiates it (`Replaying`) for `Replayed`.

**Jobs.** The writer's step is one operator after another over one record, so the invariant is a predicate of that
record: `Good(w)`, together with `Coming`, by which no request of another collection that is still to come has a job id
that is queued or holds a permit. `Good` is a conjunction:

* `Consistent` and `Pumped`: the scheduler's counters are the numbers and sums of its permits, a job has one request or
  one permit, the limits hold, no waiting request is larger than the pool, and whoever waits, waits for a permit that is
  out (a flush for a flush). The module's first part proves that `Request`, `Release`, `Cancel` and `Pump` keep both.
  `NoLostWakeup` is part of `Pumped` and rests on the counters: when the last permit comes back they are all zero, so a
  request that waits, being within the pool, is granted.
* `Matched`: a waiting request of this collection has a job, a running job its permit. Without it a cancellation could
  leave a permit nobody returns.
* `Reserves`: the jobs' inputs are pairwise disjoint, stored, and together what is reserved. It is kept because the
  plans of one call share no segment and take none that is reserved (`PlanIs`, `PlanExplicitIs`, over the policy's
  deletion and tier passes).
* `Table`, `Ordered`, `Stored`, `Scoped`: what the entries, the frozen memtables, the segments and an explicit
  compaction's scope have to look like for the above; by `Ordered` the first frozen memtable lies above the checkpoint.

`Keeps(x, y)` says that an operator keeps all this, `Same(x, y)` that it touches none of it; each action is then a
chain of those lemmas. The loops of the code (pumping, cancelling and releasing a set, asking for each plan) are folds,
and each is an instance of `Folding`. `JobsAssumption` adds that both modules read the same configured pool, and that
requests of other collections are within it: one above it is refused by `MaintenanceScheduler::request` and never
enters. It also says that a call is a flush or a compaction and that the budget's flush is no client's.

The acknowledgements, `FlushAckCovers` and `CompactAckIndexed`, compare an answer with the state in which its call was
made, so they need who waits for what in an invariant of its own, `AckInv`, inductive together with `Good`:

* `FlushesWait`: a flush call waits at most once, with one log position, and is no longer idle.
* `CompactsWait`: whatever is left of the segments a call found is in the scope of the explicit compaction, and no unit
  a running job will write is one of them. The second is why a later segment cannot take the place of one a call
  waited for. It is kept because units are fresh: a job that begins takes a number above every segment, every input and
  the scope, and the scope's upper end never falls (`Followed`), although the segment at that end may be gone.
* `NewUnits`: the units of running jobs are pairwise different, not stored, and above what the job merges. So the output
  that the scope takes in for its inputs is not below them.
* `OnlyCompact`: only a compaction reserves segments, so that once none is in the table nothing is reserved and
  `next_index_target` overlooks no segment.

`Tells(x, y)` says that an operator gives no answer "ok" but to a flush the checkpoint covers or to waiters of a scope
that is indexed (`Covered`); it composes, and each operator from which the end of a job is built has it. An action is
then its own first change (`Waits` still holds) followed by one `Tells` (`HeardStep`). The step that matters is
`ReachedIs`: no compaction in the table and no target left in the scope make the scope `Covered`. Jobs that others asked
for and that have the scope's segments reserved are exactly what `ScheduleCompactions` waits out first.

**Cache.** `NothingLeaks` relates the bytes counted per class, the rings, and who has taken an entry out of a ring. It is
not inductive: a thread between two locks carries an entry or a load in its own variables, and nothing in the property
says what those may be. `CacheInv` adds

* `LoadInv`: a load is registered only while nothing of its unit is resident, what it will become is `Unplaced` (in no
  ring, in nobody's hands, not resident), and a thread that completes a flight has unregistered it. So a finished load
  enters its ring for the first time, and a fetch never joins a load that has ended. The same is said of a fetch that
  has not looked up its unit yet, because its load will be registered under its name.
* `RingInv` and `ThreadInv`: the slots of a ring are of entries of its class, and what a thread has in hand fits the
  place it has reached.
* `UsedInv`: the counters are the totals of the resident entries' charges. A removal, an insertion or a decoding
  changes one summand (`TotalSplit`, `TotalNext`).

The hand of an eviction is a fold over at most two laps, and an invalidation filters every ring (`Retained`); that the
hand loses no slot but those of dead entries and of what it found (`Turned`), and that the filter keeps every slot of
what lives (`Swept`), are inductions over folds, by instances of `Folding`. Between the hand and `Check` the entry may be
pinned, invalidated or charged more by others; the proof needs of it only that it is in one thread's hands. `CacheAssumption` says that fetches,
threads and classes are finite sets, classes are numbered by priority, warm-up reads only asynchronously, and charges
are byte counts.

### Only model-checked, and why

* Liveness (`RecoveryCompletes`, `EveryRequestAnswered`, `CallsEnd`, `EveryFetchEnds`, `PendingResolves`,
  `EveryCallAnswered`): outside the prover's reach.
* `Wal`: `NoFalseCorruption`, which needs the group numbers of every frame of every file, whole and torn, after any
  sequence of crashes and repairs.
* `Storage`: `ReadsMatchLog`, `CrashSafe`, `KeyIndexResolves` and `CountersMatch` relate the rows of a state to the
  whole log through nested folds over rows, maps and deletion vectors.
* `Query`: the filters, the graph search and the planner are recursive operators, compared with reference definitions
  over bounded inputs.

## Observations

One more disagreement with a document: `architecture.md:49` says that an acknowledged write is visible to every later
read. `resolve_filter_request` resolves a filter delete against the private state and, when nothing matches there,
acknowledges it at once. If the row it would match is deleted by the group in flight, reads still see the row until that
group is published, or for good if its append fails. `tlc -config MCCommitFilter.cfg MCCommit` gives the trace, a
violation of `FilterAckVisible`; it is kept beside the listed runs. What holds, and run `commit` checks, is that a
filter delete that is logged is acknowledged after it is visible.

Behaviour met while modelling that no document of the repository contradicts, kept here for its readers:

* `NotOwner` may name the refusing node itself, so that a client's redirect comes straight back.
* `retry.rs:13-20` names three methods that may have been applied when an error carries a hint; alter and drop can be in
  that position too.
* A drop led by a node other than the one the collection is placed on leaves the placed node's local collection behind
  until a pass of that node, and that pass drops by name.
* A create's `ensure_shared_database` and its metadata put are not atomic with `delete_database`, and `put_policy` can
  follow `delete_database`.
* A local drop that failed leaves its slot as it was.

## Not modelled

The scalar indexes of the memtable, prefix and set filters and histograms; the inexactness of integers above 2^53 as
float64, metrics other than L2, more than one dimension, null vectors; the snapshot and barrier options of a read view;
text, layout and pickers of the command line, and its scripted mode; the opening of the engine and its memtable budget;
configuration, telemetry, byte codecs and benchmarks. They are conversion, presentation and I/O without protocol state,
or numeric detail on which no property depends; `PROJECT.json` lists each part.
