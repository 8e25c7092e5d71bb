# TLA+ verification of Neon's storage

Neon separates a Postgres *compute* from its storage. The compute's WAL is made
durable by a quorum of *safekeepers* (a Paxos-like consensus); *pageservers*
digest it into layer files, which they keep in object storage. A *control plane*
decides which pageserver a tenant is attached to. This project models the parts
of that system whose correctness depends on the order in which processes, tasks
and messages happen to run, checks the models with TLC and proves theorems about
them with TLAPS.

## 1. Inventory

State, operations and interactions of the parts, the behaviour that makes each
hard, and what it means for it to be correct. `PROJECT.json` lists all of them
under `components` with their status, and under `hazards` the lines where they
can go wrong.

| part | state | operations | interacts with | hard because |
|---|---|---|---|---|
| **walproposer** (`pgxn/neon/walproposer.c`) | per run: term, votes, term history, donor; per safekeeper: connection state, streaming position, last acknowledgement | greet, collect votes, get elected, announce itself, stream, take acknowledgements, reconnect | safekeepers (messages over libpq), donor safekeeper (START_REPLICATION) | two computes alive at once; connections break at any moment while the old one is still being processed; counters of greetings and votes are not per safekeeper |
| **safekeeper consensus** (`safekeeper/src/safekeeper.rs`, `receive_wal.rs`) | control file (term, term history, saved LSNs), in-memory commit_lsn, WAL | handle_greeting, handle_vote_request, handle_elected, handle_append_request, flush, record_safekeeper_info | walproposers, peers through the broker, WAL files | crashes between two writes; messages of a closed connection; a peer's stale info |
| **WAL storage** (`wal_storage.rs`), **control file** (`control_file.rs`) | segment files (complete, `.partial`), positions written and flushed; `safekeeper.control` | write_wal, flush_wal, truncate_wal, remove_up_to, open; persist | safekeeper, WAL removal, WAL backup | several file operations per logical one, each of which a crash can cut off |
| **timeline** (`timeline.rs`, `timelines_global_map.rs`), **walsender** (`send_wal.rs`) | shared state under a mutex, watch channels for commit_lsn and flush_lsn, registered receivers and senders | process_msg, record_safekeeper_info, remove_old_wal, delete; waiting for an LSN | all tasks of a timeline | values read under the lock and published after it |
| **peer recovery** (`recovery.rs`) | the chosen donor | vote in the donor's term, truncate, stream from the donor | a peer safekeeper, own safekeeper | acts on behalf of a leader that is gone, races with a new one |
| **WAL backup and removal** (`wal_backup.rs`, `remove_wal.rs`) | backup_lsn, who offloads | offload segments, elect the offloader from peers' infos, remove segments below the horizon | S3, broker, WAL storage | two offloaders, lost or stale infos |
| **storage_broker** | subscriptions only | publish, subscribe | safekeepers, pageservers | no delivery guarantee at all |
| **remote timeline client** (`pageserver/src/tenant/upload_queue.rs`, `remote_timeline_client.rs`) | queue, tasks in progress, latest_files, latest metadata | schedule uploads, index uploads and deletions, barriers, stop, delete the timeline | tasks, object storage, deletion queue | ordering of uploads against the index against deletions; stopping while tasks run |
| **deletion queue** (`pageserver/src/deletion_queue*`) | pending list, lists on disk, header, lists waiting for validation, pending LSN updates | push, flush, validate, execute, recover | control plane, object storage | stale generations, restarts between persisting, validating and executing |
| **layers and layer map** (`tenant/storage_layer`, `layer_map.rs`) | resident/evicted/wanted-evicted layers, LSM-like map | get page, evict, download, garbage collect, compact | object storage, readers | eviction against download against reads |
| **tenant manager** (`tenant/mgr.rs`), **timeline lifecycle** | slot per tenant shard, state of tenant and timelines | attach, detach, delete, shut down | control plane, all tasks | every operation may be retried or interrupted |
| **walreceiver** (`tenant/timeline/walreceiver`) | connection candidates | choose, reconnect, ingest | safekeepers, broker | switching between lagging safekeepers |
| **attachment service** (`control_plane/attachment_service`) | intent, observed, generations, persistence | reconcile, re_attach, validate, split shards | pageservers, database | reconciler running against new intents and restarts |
| **synchronisation primitives** (`libs/utils`: SeqWait, Gate, heavier_once_cell, completion) | permits, waiters | wait_for/advance, enter/close, get_or_init/take_and_deinit | tasks | wakeups and cancellation |
| proxy, compute_ctl, control_plane CLI, metrics, HTTP layers, walredo, postgres_ffi | mostly per request | | | I/O and glue; not planned |

What makes the storage correct, from the outside in:

1. *A committed transaction is never lost*: WAL a compute reported as committed is
   part of the WAL of every later leader and stays on a quorum of disks.
2. *Nobody reads WAL or pages that may still be undone*: commit_lsn of a
   safekeeper covers committed WAL only.
3. *The system recovers*: a compute with a quorum makes progress whatever happened
   before.
4. *Object storage is always consistent*: the index a pageserver would start from
   references only objects that exist, whichever pageserver crashed when.

## 2. Modules

| module | models | proofs |
|---|---|---|
| `TermHistory` | term histories: `up_to`, `get_epoch`, `find_highest_common_point`, the divergence point of `SendProposerElected` | lemmas in `WalHistoryProofs` |
| `WalConsensus` | walproposer and safekeeper, the connections between them, restarts, the broker | `WalConsensusProofs`, `WalHistoryProofs`, `WalCommitProofs` |
| `MCWalConsensus` | instances for TLC | |
| `UploadQueue` | the upload queue: what each `schedule_*` function does to it, what `launch_queued_tasks` takes off it | lemmas in `RemoteTimelineProofs` |
| `RemoteTimeline` | a pageserver's timeline and its copy in object storage: upload tasks, flush, compaction, images, GC, shutdown, deletion, restart (EXTENDS `UploadQueue`) | `RemoteTimelineProofs` |
| `AttachmentService` | how the control plane issues, persists and validates a tenant's generations | |
| `DeletionQueue` | several pageservers that hold one tenant, and the deletion queue of each (EXTENDS `AttachmentService`, implements `DurableTenant`) | `DeletionQueueProofs`, `DeletionSafetyProofs` |
| `DurableTenant` | abstract: what generations and deletion queues promise of a tenant | |
| `WalStorage` | segment files of one safekeeper, kills and power failures, offloading, removal (implements `DurableLog`) | `WalStorageProofs` |
| `MCWalStorage` | the layout of records for TLC | |
| `DurableLog` | abstract: a log of records that is appended to, flushed, cut by a new leader, and keeps what was flushed | |
| `LayerResidency` | download, eviction and reading of one layer over `heavier_once_cell` | `LayerResidencyProofs` |

### WalConsensus

*State.* Per safekeeper: `term`, `th`, `tlStart`, `pCommit` are the control file
(`acceptor_state.term`, `.term_history`, `timeline_start_lsn`, the saved
`commit_lsn`); `wal` is what `write_wal` has written and `flushed` the LSN up to
which it is fsynced; `commit` and `epochStartLsn` exist in memory only. Per
proposer (one *run* of a walproposer; a restarted compute is another element of
`Proposers`): `propTerm`, `nConnected`, `nVotes`, `propTh`, `donor`,
`availableLsn`, and per safekeeper `conn` (the `SafekeeperState`), `vote`,
`streamingAt`, `ackFlush` (`appendResponse.flushLsn`). Between them `net` holds
the requests of the current connection ("cur") and of the last closed one
("old"), `rep` the reply on its way back, `link` whether the safekeeper's end is
still open. `grants` is a history variable: every vote ever given.

*Actions.* One per handler: `HandleVoteRequest`, `HandleElected`,
`HandleAppendRequest`, `HandleFlush`, `PersistControlFile`, `SafekeeperRestart`,
`CrashInElected`, `PublishInfo`, `RecordSafekeeperInfo` on the safekeeper;
`Greet`, `RecvVoteResponse`, `WalProposerBroadcast`, `SendAppendRequest`,
`RecvAppendResponse`, `ShutdownConnection` on the walproposer. Early returns,
`bail!`s, failed assertions and `FATAL`s are disjuncts of their handler (`Bail`:
the safekeeper closes the connection; `Die`: the walproposer process exits).

*Abstractions.*

- A WAL record is the term it was generated under and is one LSN long. Consensus
  code never looks into WAL, and two leaders never share a term (which is
  proved), so records of equal term at equal LSN are equal records.
- A message is its type and what its receiver reads from it; the proposer's term
  and history do not change once messages that carry them are sent, so they are
  read from the proposer. (They are fixed by `nConnected >= QuorumSize`; that a
  vote is asked for only then is part of the proof.)
- Establishing a connection, the greeting and its answer are one step, `Greet`.
  The safekeeper only reads its term in it, and everything it does afterwards
  commutes with the arrival of the answer, which carries that older term.
- One reply slot per connection: a later AppendResponse overwrites one not yet
  read. Responses of one connection are cumulative and the walproposer keeps
  only the last (`RecvAppendResponses` reads all that are available).
- The channel "old" keeps the requests of the last closed connection only. A
  proposer with three live connections of its own to one safekeeper is not
  reached.
- Of WAL written but not flushed, any prefix may survive a crash; flushed WAL
  survives whole. `persist` of the control file is atomic (it renames a synced
  file). That a power failure may take what an earlier kill left unsynced, and the
  restart reported as flushed, is outside this module (`WalStorage`, run `wal_kill`).
- `peer_horizon_lsn`, `backup_lsn`, `remote_consistent_lsn` and feedback are left
  out: they decide what WAL is *removed*, which is part of `WalStorage`.
- Exits of a walproposer that other code decides (basebackup at the wrong LSN,
  sync-safekeepers done) are covered by a proposer that takes no further step.

*Bounds.* `MaxTerm`, `MaxLsn`, `MaxGreetings` (connections a proposer opens),
`MaxCrashes`, `MaxPublishes` end behaviours that would otherwise go on for ever;
that is why deadlock is not checked. `MaxInFlight` (messages under way when one
more is sent) and `MaxCandidates` (proposers between first greeting and election)
limit how much happens at once. With `MaxCandidates = 1` elections do not overlap
each other, but an election still overlaps streaming of all earlier leaders and
their delayed messages; the run about elections themselves uses 2. One record after
the start of the timeline (`MaxLsn` 2) is enough there for it to be committed, lost,
replaced or written again by each of three leaders; longer WAL is left to the theorems,
which hold for every bound.

*Initial states.* `Spec` starts from an empty timeline. The runs also start where a
first compute, `p1`, has led term 1 and its process was killed (`InitTakeover`): every
distribution of the flushed WAL over the safekeepers, told or not told of the
commit. All of these are states the program reaches in term 1, and starting there
leaves the bounds to what is interesting, the takeover.

*Symmetry.* Safekeepers are interchangeable (the first-of-equals choice of the
donor is an existential in the model), and so are proposers with equal bounds.
The liveness run uses none.

### UploadQueue and RemoteTimeline

`UploadQueue` has no variables: a queue is a record (`state`, `files` for
`latest_files`, `changes`, `meta`, `queued`, `shuttingDown`) and each function of
`RemoteTimelineClient` that works under the queue's lock is an operator from queue
to queue. `RemoteTimeline` EXTENDS it with the tasks that call them.

*State.* The client: `uq`, `tasks` (`inprogress_tasks`, and a task that has left it
to hand its LSN to the deletion queue), `shutdownReady` (the semaphore is closed),
`visible` (`visible_remote_consistent_lsn`), `deletedAt`, `cancelled`. Object storage:
`store` (layer files) and `index` (one per generation). The timeline: `lastLsn`,
`diskLsn`, `gcCutoff`, `layerMap`, the running `compaction` and the running GC
(`collecting`), and `dropping`, the layers out of the map whose last reference is
not gone. `tenant`, `deletion`, `waiter` are the positions of whoever called
`Tenant::shutdown`, `DeleteTimelineFlow::run`, `wait_completion`. History:
`advertised`, `deleteAcked`, `waitLsn`.

*Actions.* `TaskAttempt`, `TaskComplete`, `TaskPublishLsn`, `TaskCancelled` are the
parts of `perform_upload_task` between which others run. `FlushFrozenLayer`,
`CompactLevel0Phase1`/`FinishCompactL0`,
`CreateImageLayers`/`ScheduleImageUploads`/`ScheduleImageIndex`,
`GcAdvanceCutoff`/`GcTimeline` and `DropLayer` are the critical sections of the
timeline's tasks: they are cut where the code releases the lock of the layer map, and,
after the creation of images, where it releases the lock of the queue between the
upload of the image and the index. `ShutdownTimeline`, `ShutdownBegin`/`ShutdownDrained`, `DeleteStopTasks`,
`JoinTask`/`JoinDone` (of `task_mgr::shutdown_tasks`, for either caller), the
`DeletedFlag...` actions, `DeleteAllLayers`, `DeleteListed`, `DeletionFails` are
shutdown and deletion. `Restart`, `LoadTimeline` and `ResumeDeletion` bring the
timeline back, in the next generation.

*Abstractions.*

- A layer is its kind and its range of LSNs; keys are left out, every layer
  covers all of them. The one thing that needs keys is that a level 0 layer, which
  spans `Key::MIN..Key::MAX`, is never covered by images; `Garbage` says so.
- Page versions are an LSN: a version is readable when an image (or the empty
  beginning) and all deltas since are there (`Readable`).
- When compaction and image creation find enough to do is left open: they may run
  whenever they could. Image creation reads the pages and inserts the image in one
  step; its LSN (`repartition`) never goes back.
- The `schedule_*` calls of one step are appended and launched together: the code holds
  the queue's lock for them, or (flush, GC) the lock of the layer map, and the calls that
  refuse what is scheduled cannot come in between: a graceful shutdown ends ingestion
  and waits for the final flush first (`ShutdownBegin` asks for `diskLsn = lastLsn`), and
  a stopped queue uploads nothing more.
- A task that fails because the queue is stopped takes no step: what it would have
  done to the layer map is lost with the process, and a stopped queue uploads
  nothing more.
- A cancelled task may notice it before any attempt.
- Of the deletion queue only the effects are here (`ExecuteDeletion`, `ValidateLsn`): what
  it is given is deleted some time later, also
  in the next generation, or forgotten in a restart; its validation of an LSN comes
  some time later. The pageserver of the old generation does not go on
  running beside the new one. Both are what `DeletionQueue` is about.
- After a restart the timeline is what the index says. Local files that are not in
  the index are dismissed at load; the ones that are only save a download.
- Child branches (`retain_lsns`), shards' ancestors, PITR (how the cutoff is
  chosen) and leases are not modelled; any cutoff up to `diskLsn` may be chosen.

*Bounds.* `MaxLsn` (two or three records are what it takes for two level 0 layers
and an image between or above them), `MaxGen` (attachments), `MaxPending`
(operations outstanding when a task of the timeline schedules more; what is already
under way is never held up by it), and `Activities`, which leaves out of a run the
tasks it is not about. Deadlock is not checked: bounded ingestion comes to an end.

*Initial state.* A timeline that was created and whose empty index is uploaded.

### AttachmentService and DeletionQueue

*State.* The service: `row` (the tenant's row in the database: generation and
`generation_pageserver`), `generation` (the copy in memory that `validate`
compares with), `op` (the attach_hook or reconcile in progress), `requests`
(location_config calls on their way). Per pageserver, `ps` is what is lost in a
crash: the attached generation, the index part of the tenant, the pending list of
the ListWriter, the channel to the Validator, the pending LSN update, and where in
`flush` the Validator is; `disk` is the deletion directory, lists and header.
Object storage is `objects` and one `index` per generation.

*Actions.* Of the service `AttachHook`/`AttachHookReply`,
`Reconcile`/`process_result`, re_attach and its reply, `RestartService`: each pair
is cut where the code awaits the database or the pageserver. Of a pageserver
`upsert_location`, `DetachTenant`, `UploadIndex` (with the push of what the new
index no longer names), `FlushList`; the Validator's `ValidatorFlush`,
`ValidateAnswer`, `ApplyLsn`, `SaveList`, `SaveHeader`; `Execute` and
`cleanup_lists` of the Deleter's part; `Crash`, `ReAttach`, `ReAttachReply`
(recovery). A failed write of a list or of the header is a disjunct of the step
that writes.

*Abstractions.* One tenant with one timeline. An upload writes one layer, which is
added to the index or replaces all of it; a layer's key is its generation and LSN,
so that two holders of one generation number would collide, as in the code. The
layer and the index that names it are uploaded in one step (their order is what
`RemoteTimeline` is about). Lists are queued in the order of their sequence numbers,
which are never used twice, so that a queue is a set and `LastOf` its last element.
The files of executed lists are removed one by one in any order. The Deleter's batches are one step per call of
`Execute`. While a Validator is between two writes of its local disk nobody else
moves (`Quiet`), except that it may crash: nobody else reads that disk.

*Two specifications.* `Spec` is the pageservers with the attachment service as it is.
In `TruthfulSpec` the service says yes to a generation only when no pageserver has
loaded a later one or uploaded an index in it (`ValidateIsTruthful`): what the RFC
asks of the control plane, and all that the pageservers' side needs of it. A later
generation may already be issued and under way, and may be loaded while the answer
travels. Nothing else is assumed of reconciler, hooks, restarts and stale holders. The
attachment service does not keep this promise, as `reconciler_validate` shows for
`Spec`; see the disagreements below.

*Refinement.* `ImplementsDurableTenant` maps the index of `DurableTenant` to
`Current`: what the holder of the newest generation has, or, when nobody holds it,
what the next one to attach would find. Stale holders may upload, delete and show
LSNs as they like: all of it must look like a step of the one tenant, or like
nothing.

*Bounds.* `MaxGeneration` (3: a tenant can move there and back), `MaxUploads`,
`MaxCrashes`, `MaxFailures`. A crash adds a generation of its own, on top of the
three.

### WalStorage

*State.* `dir` (per segment: no file, `.partial`, complete), `data` (the bytes as
read through the page cache), `disk` (the bytes a power failure leaves), `mem`
(`write_lsn`, `write_record_lsn`, `flush_record_lsn`, the open file,
`is_truncated_after_restart`), `op` (the call in progress under the timeline's
lock), commit and backup LSN in memory and in the `control` file, `s3`,
`offloaded` and `removing` for the two tasks that work without the lock. History:
`log`, and `risked`, the cells that were in the page cache only when the process was
killed.

*Actions.* `WriteWal`, `WriteInSegment`, `CompleteSegment` are write_wal and
write_exact; `FlushWal`; `BeginTruncate`, `TruncateRemoves`, `TruncateZeroes`,
`TruncateSyncs` and `Adopt` (the new leader's history) are handle_elected with
truncate_wal, one file operation each; `AdvanceCommit`, `PersistControl`;
`BackupSegment`/`set_wal_backup_lsn`; `RemoveOldWal`/`RemoveUpTo`; `Kill` and
`PowerFailure`, each with the `Restart` that follows, in which `find_end_of_wal` reads
what is left and PhysicalStorage::new reports it as flushed, without a sync.

*Abstractions.* WAL is cells; a cell holds the term of the leader that wrote it.
A segment has `SegSize` cells, the WAL begins at `StartLsn`, which is not in segment
0 (initdb starts in segment 1), and `Ends` is the sequence of the LSNs at which
records end.
Records begin and end at the same LSNs whoever writes them, which is the worst case
for find_end_of_wal: a record of a later leader can be followed by an intact one of
an earlier leader. A record is valid when its cells are all of one term (the
checksum). Sync and rename of a completed segment are one step, creation of a
segment is durable, and directory operations reach the disk in the order in which
they are made. A kill leaves the page cache as it is, unsynced; a power failure loses any
part of the unsynced cells, also of those that were unsynced in an earlier kill. The safekeeper's
WAL begins at the start of the timeline. Pageservers and peers hold the removal
horizon back by any amount.

Offloading is enabled. With `wal_backup_enabled = false` (`timeline.rs:304`) the horizon is
that of the pageservers and peers alone: WAL that all of them have consumed is removed
from the only place where the model looks for it. That case is not modelled.

*Refinement.* `DurableLog` has a log of records, how much of it is flushed, and how
much a truncation under way is to keep, and which records are *exposed*: reported as
flushed and not on stable storage. Only a kill exposes records. It loses none, but for
what a truncation was about to cut. A power failure leaves a prefix of the log that
contains what was flushed, or what the truncation keeps, unless the record behind it
was exposed. `log` in `WalStorage` is a history variable: what was written and
cut, and after a power failure what find_end_of_wal found; that this is a prefix of what
was there is what the refinement shows.

*Bounds.* Segments of three cells, four records (`RecordLayout`), one of which spans two
segments and one of which is an XLOG_SWITCH; three leaders, two kills or power failures
(the second after a leader has written over what the first one left, or after what it
left was committed), writes of up to three cells.

### LayerResidency

*State.* `sems` (every semaphore the cell has had; the last is its current one, on
the others tasks may still wait), `value` (nothing, resident, wanted evicted, with
the version of its download), `wanted_evicted`, `wanted_deleted`, `file`; per call
its position (`reader`, `evictor`), the `download` task it has spawned, the
`DownloadedLayer`s whose `dropping` is under way, queued eviction `jobs` and the
one `evicting`.

*Actions.* A step goes from one await, lock or system call to the next:
get_or_maybe_download is `GetOrInit`, `Acquire`/`AcquireClosed`, `NeedsDownload`,
`Received`, `Set`, `DropReference`; the spawned download is `DownloadEnds`,
`DownloadSends`; evict_and_wait is `Subscribe`, `Downgrade`, `DropDowngraded`,
`Recv`; dropping the last reference is `OnDownloadedLayerDrop`, the blocking task it
queues `EvictBegins`, `EvictRemoves`, `EvictEnds`; `DeleteOnDrop`.

*Abstractions.* Strong references are `Holders`; the status channel holds one
message and a receiver that misses one has "lagged". `Cancel` stands for a dropped
future, a failed stat and a timeline that shuts down alike. The relaxed atomics are
read and written around a mutex or an Arc that orders them, so that they are
sequentially consistent here. Dropping the `LayerInner` itself, and a timeline
that is gone when the eviction runs, are not modelled.

*Bounds.* Two calls of each kind: enough for a download that outlives its call, an
eviction that runs late against the next download, and a waiter on a replaced
semaphore. (An instance with three readers passes as well, in four minutes.)

### Fairness

`WalProposerPoll` is called in a loop for as long as the process lives and
`WalAcceptor::run` for as long as its connection does, so `Fairness` assumes that
a message that can be processed is, and that one that can be sent is. Nothing is
assumed of failures, crashes, timers, persistence or the broker, and nothing of
connections: that a quorum stays connected is a premise of the property.

In `RemoteTimeline`, upload tasks are spawned on the runtime and retry without
limit (`backoff`, `perform_upload_task`'s loop), so `FairSpec` assumes that some task that can
take a step does (`TaskSucceeds`: object storage answers in the end), and that shutdown and deletion go on once begun and
not waiting (`FlowContinues`). Nothing makes a pageserver ingest, compact, collect
garbage, shut down, delete or restart.

In `LayerResidency` the runtime polls every task that can go on, and the threads for
blocking work run what is queued: weak fairness of each call's own steps and of the
evictions. That a download ends, well or not, and that a reader drops its guard is
part of it. Nobody has to call.

`DeletionQueue` and `WalStorage` are about safety only and assume no fairness.

## 3. Runs

| run | instance | checks |
|---|---|---|
| `computes` | from empty safekeepers, and from every takeover of a first compute that is gone: 2 competing computes, interleaved elections, terms up to 3, one safekeeper crash anywhere, inside `handle_elected` too; from scratch also one arbitrarily late peer info | `TypeOK`, `ElectionSafety`, `CommitLsnIsLocal`, `CommitLsnIsCommitted`, `LeaderCompleteness`, `DivergencePoint`, `TermBeginsOnce`, `CommittedOnQuorum`, `WalMatchesHistory` |
| `live` | fair takeover, one safekeeper ahead of the others; 3 connections, 4 messages under way, requests of closed connections | `CommittedOnQuorum`, `CommitNeverRegresses`, `ConnectedQuorumCommits` |
| `uploads` | fair; 2 records, L0 compaction, images, a waiter, graceful and immediate shutdown | `TypeOK`, `IndexNamesExist`, `VisibleIsDurable`, `WaitedForIsUploaded`, `DrainedIsUploaded`, `ShutdownReturns`, `WaiterReturns` |
| `garbage` | 3 records, L0 compaction, images, GC; deletions are executed by the tasks themselves | `IndexNamesExist`, `MapIsReadable` |
| `delete_timeline` | deletion against uploads, compaction and images; failing steps, lost replies, repeated requests, a restart anywhere; a tenant without generations | `IndexNamesExist`, `IndexIsReadable`, `VisibleIsDurable` |
| `generations` | a truthful `validate`; 2 pageservers, 3 generations and one per crash, 2 uploads, 1 crash, 1 failed write | `TypeOK`, `DeletionsAreSafe`, `PrevalidatedListsAreSafe`, `SequencesAreFresh`, `ImplementsDurableTenant` |
| `wal_files` | 3 leaders, 4 records over 3 segments, 2 kills or power failures anywhere, offloading, removal | `TypeOK`, `CommittedIsRetained`, `WritesArePartial`, `ImplementsDurableLog` |
| `layers` | fair; 2 accesses, 2 evictions, failing and cancelled downloads | `TypeOK`, `ResidentHasFile`, `OneAtATime`, `AssertionsHold`, `AccessReturns`, `EvictionReturns` |
| `gc_image_race` | as `garbage`, about the index instead of the map | `IndexIsReadable`, which the code violates |
| `delete_generations` | deletion of a timeline, a restart before or during it, generations | `DeletedStaysDeleted`, which the code violates |
| `wal_kill` | as `wal_files`, without the exception for a power failure after a kill | `CommittedIsDurable`, which the code violates |
| `reconciler_validate` | the service as it is; 2 pageservers, a tenant reconciled away from one that is deemed offline and is not | `DeletionsAreSafe`, which the code violates |

What the consensus runs show: however elections, reconnections, restarts and delayed requests
of dead connections interleave within the bounds, one term has one leader, no
committed record is lost, replaced or removed from a quorum, histories and WAL of
a safekeeper stay in agreement, streaming starts exactly at the divergence point,
and a connected quorum gets all WAL committed.

The exception of `ConnectedQuorumCommits` (`CutBehindStream`) is a window that lets a delayed ProposerElected of an old
connection cut WAL that the new one has just streamed, when it is unflushed or
below the start of the term. The safekeeper then refuses the next append ("gap")
and the connection is restarted, but only when there *is* a next append with WAL.

What the runs of `RemoteTimeline` show: whatever uploads, flushes, compactions and
restarts interleave, the index a pageserver would start from names only layers
that exist and are not about to be deleted, answers every read between its cutoff
and its disk_consistent_lsn, and covers the LSN below which safekeepers were told
they may drop WAL; whoever waits for the queue gets what it waited for. The exception of
`DrainedIsUploaded` is an image that is uploaded when shutdown() closes the queue before
its index is scheduled: the image is in `latest_files` and in no index. The next start
does not know of it; an image made again at that LSN overwrites it, or has the key of
another generation.

What the other three show: a stale holder of a tenant, whatever it still has in its
queues and on its disk, deletes nothing the tenant needs and shows no LSN the tenant
does not cover, as long as the control plane says yes only to a generation after which
none was loaded; the files of a safekeeper behave as the log `WalConsensus` takes them
for, wherever a kill or a power failure cuts a write, a truncation, an upload or a removal,
except for a power failure that strikes what an earlier kill left unsynced; a layer
that somebody reads has its file, and calls end.

### Disagreements between the code and what it says

Four are runs:

- `gc_image_race`: `create_image_layers` puts an image into the layer map and
  releases the lock; `compact` schedules the upload later. GC in between unlinks
  the level 1 layers the image makes superfluous and uploads an index with neither.
  `MapIsReadable` holds all the while, so nobody notices before a crash. The code's
  own precaution, syncing the image to disk before it is in the map, predates that
  the index in object storage is what decides at startup.
- `reconciler_validate`: the reconciler persists the next generation and attaches
  the destination; the copy in memory that `validate` answers from follows only when
  the call and the notification of the compute have ended. In between the old holder,
  if it is alive after all, is told that its generation is the latest.
- `wal_kill`: "flush_lsn returns LSN of last durably stored WAL record"
  (`wal_storage.rs:321`), but PhysicalStorage::new reports what it finds as flushed
  without a sync (the TODO at `wal_storage.rs:155`). After a kill, WAL that is in the page
  cache only gets committed, and a power failure may lose it. truncate_wal, with which
  the next leader begins, syncs only the segment that it cuts: a segment filled and not
  yet synced when the process was killed stays unsynced.
- `delete_generations`: `delete_all` means to remove the current index last, as it
  carries the deleted flag (`remote_timeline_client.rs:1126`), but it is put into one
  request with the indices of earlier generations. When it goes first and the pageserver
  is lost, the timeline is back. (Without generations there is one index only.)

Others were seen while modelling and have no run of their own:

- `attach_hook` assigns to memory the generation that the database gave it. Overtaken
  by a re_attach, it takes the copy in memory back, with the same effect as
  `reconciler_validate`.
- The LSN of a loaded index is visible at once and unvalidated
  (`upload_queue.rs:217`, shown by `timeline.rs:940`): the index may be one a
  stale holder wrote, superseded by one that is behind it. `ImplementsDurableTenant`
  is about LSNs that validation made visible.
- `handle_elected` asserts that "we must never attempt to truncate committed data".
  What should prevent it compares the message's term with `get_epoch()`, the term of
  the last *record*. When an old connection of the same walproposer delivers only WAL
  from before the start of its term (recovered from a donor), the epoch is still the
  previous one; if commit_lsn has by then advanced over that WAL through the broker,
  the assertion fails. The task panics and the walproposer reconnects: nothing is
  lost.
- The semaphore `RemoteTimelineClient::shutdown` waits for is closed by
  `launch_queued_tasks` when it reaches the shutdown operation; `stop()`, called by
  a concurrent deletion of the timeline, drops that operation and leaves the
  semaphore open.
- `shutdown_tasks` takes a task's join handle before waiting for it, so the second of
  two concurrent callers passes the task over as if it had ended. Deletion then
  writes the deleted flag while an upload of the index is still in progress.
- An XLOG_SWITCH extends to the end of its segment, and its LSN counts as written and
  flushed before the padding is (`wal_storage.rs:366`, against "`write_lsn` >=
  `write_record_lsn` >= `flush_record_lsn`", `:70`). A leader that reconnects
  at this point is refused by truncate_wal ("called on non-written WAL") until the
  safekeeper restarts; after the restart the segment keeps the name `.partial` and is
  not offloaded.
- A truncate_wal that fails midway leaves the LSNs in memory ahead of files that are
  zeroed or gone.
- `evict_and_wait` of a layer that is marked for deletion does not return until it is
  cancelled: the drop of such a layer (`layer.rs:1056`) evicts nothing and tells
  nobody, while the caller keeps the layer alive. `EvictionReturns` leaves deleted
  layers out.

## 4. Proofs

TLAPS proves the theorems below for every value of the constants that satisfies the
stated assumptions. Each rests on one inductive invariant, given as a conjunction of
named parts; the preservation lemmas go action by action.

### WalConsensus

For every finite set of safekeepers, every set of proposers and all values of the
bounds (`SafekeepersAssumption`, `BoundsAssumption`); every safety property the runs
check is a theorem. The modules build on each other in this order.

- `WalConsensusProofs!TypeCorrect` (`TypeOK`). Types alone are not
  inductive: `Truncated`, `RecordAt` and `PropEpochStartLsn` apply sequences at
  positions that must exist. `TypeInv` adds what makes them exist. A safekeeper
  has flushed no more than it has written and knows a history, beginning at the
  start of the timeline, exactly when it knows that start (`SafekeeperInv`); a
  proposer with a quorum of votes has a history that ends in its own term
  (`ProposerInv`); votes, connection states and ProposerElected messages on their
  way agree with that (`ConnInv`, `NetInv`).
- `WalConsensusProofs!OneLeaderPerTerm` (`ElectionSafety`). `ElectionInv`
  says that a vote is given in a term the voter does not fall behind and, per
  term, to one proposer (`GrantInv`); that a proposer counts only votes given to it
  and each safekeeper once (`CountInv`: the idle safekeepers are the voters, which
  is why `DetermineEpochStartLsn` recounts them, `n_votes` may count twice); that
  votes are asked for only in a fixed term (`RequestInv`); that a leader has a quorum
  of voters (`VotersInv`). Two quorums meet (`QuorumsMeet`), and their common member
  voted for both.
- `WalHistoryProofs`: `EveryTermBeginsOnce` (`TermBeginsOnce`), `HistoryOfWal`
  (`WalMatchesHistory`) and `StreamingStartsAtDivergence` (`DivergencePoint`).
  `HistoryInv` says that every history anywhere is put together from histories of
  leaders, each prefix being that of the leader of its last term (`LeaderInv`,
  `WalInv`); that messages under way carry WAL of their leader and keep none but
  that (`MsgInv`), appends never without the ProposerElected of their connection
  (`OrderInv`); that what a vote or a donor said of its WAL holds for as long as it
  has the term of the vote (`SnapInv`, `DonorInv`); and that whoever acknowledged WAL
  to a leader had adopted its history (`AckJoined`). The divergence point follows
  from lemmas about `TermHistory`: two such histories agree exactly up to the point
  `find_highest_common_point` computes.
- `WalCommitProofs`: `CommitWithinWal` (`CommitLsnIsLocal`), `CommitGoesForward`
  (`CommitNeverRegresses`, an action property), `OnlyCommittedIsServed`
  (`CommitLsnIsCommitted`), `LaterLeadersHaveCommitted` (`LeaderCompleteness`) and
  `QuorumKeepsCommitted` (`CommittedOnQuorum`). `Effects` and `Traffic` first
  summarise, once for all actions, what a step can do to a safekeeper (keep what is
  flushed, or be cut by a ProposerElected) and to messages, votes and
  acknowledgements. `AckInv` then says that what was acknowledged since the start of
  the term is not cut in that term; `CommitMsgInv` and `InfoInv` bound the commit_lsn
  that appends and peers' infos carry. The two main theorems need more than one
  term: `KeptInv` says of each safekeeper, each vote it gave, each ProposerElected
  on its way to it and each leader it voted for, that they have what the safekeeper
  acknowledged to an earlier leader, *unless* some leader in between has lost it
  (`Lost`). Stated this way it is inductive without assuming its conclusion. If
  a leader had lost committed WAL, take the one of the least term (`LeastNat`): the
  quorum that voted for it meets the quorum that acknowledged, and no leader before it
  lost anything, so it lost nothing either (`NothingLost`).

### LayerResidency

For all sets of calls that satisfy `CallsAssumption` (finitely many
readers, no name used twice):
`LayerTypeCorrect` (`TypeOK`), `ResidentLayerHasFile` (`ResidentHasFile`),
`OneTaskOnTheFile` (`OneAtATime`), `CellAssertionsHold` (`AssertionsHold`). The
invariant `IInv`: the permit of the cell's current semaphore has one owner, a call,
its download task, which may outlive it, or an eviction (`OwnerInv`, `DownloadInv`);
replaced semaphores are closed with their permit returned (`SemInv`); a version that
is being dropped or evicted has no holder, and the attempt under way has a version of
its own (`ReferenceInv`, `VersionInv`), so that an eviction that runs late finds
either its own version or leaves the layer alone; the file is there from the end of
a download until the cell is emptied (`FileInv`).

### DeletionQueue

For any finite set of pageservers, any number of moves, uploads, crashes and failed
writes (`ServiceAssumption`, `QueueAssumption`); every property the run checks is a
theorem, the refinement included.

- `DeletionQueueProofs`: `QueueTypeCorrect` (`TypeOK`) and `NextSequenceIsFresh`
  (`SequencesAreFresh`), whatever the service does. `TypeInv` adds to the types what
  bounds them: a re-attach issues a generation beyond `MaxGeneration`, but there is
  one for each crash (`CountInv`, over the number of pageservers that are down); an
  index covers no more LSNs than there were uploads (`LsnInv`); a pageserver that is
  up has used only numbers below the next one, and what waits in the channel is above
  what the Validator has (`SequenceInv`).
- `DeletionSafetyProofs`: `NoLayerIsLost` (`DeletionsAreSafe`),
  `RecoveryExecutesSafely` (`PrevalidatedListsAreSafe`) and `TenantIsDurable`
  (`ImplementsDurableTenant`), all three for `TruthfulSpec`, without assumptions on the
  constants. They say that the pageservers' side of the protocol is right: deletion
  lists, recovery, stale holders and visible LSNs are safe if `validate` is
  truthful. They do not say it of the attachment service in the repository, whose
  `validate` is not (`reconciler_validate`). The invariant `IInv` was checked with TLC on
  the instance of `generations` before it was proved.
  - A generation is on its way to one pageserver, or has been, and is never issued
    again (`IssueInv`); the key of a layer is of a generation in use (`KeyInv`), so a
    new layer is never one that a list names.
  - Objects are *dead* when, from some index on, no index and no holder that is as new
    names them (`Dead`). That is stable: an index is loaded, never an older one than
    that, and an upload names a new layer and layers its holder had. A list is *owned*
    when no other pageserver came between the index that dropped its objects and the
    list's generation (`Owned`). An owned list that is of the validated generation is
    dead (`ListInv`), and this is what a re-attached pageserver relies on when it takes
    over the lists of the generation before its own (`TakeOver`).
  - What the Validator has marked valid, what it will mark valid with the answer it
    has, and what the disk says was validated is dead (`DeadInv`), whichever writes of
    lists and headers failed.
  - An LSN is *covered* when from some index on every index and holder reaches it;
    updates of a generation that may still be validated are covered, and so is
    `visible` (`CoverInv`). The newest index, and every holder as new, has its layers
    in object storage (`StoreInv`).
  - `Current` is the newest index or what such a holder has (`CurrentIsNewest`), from
    which the properties follow. For the refinement: `Execute` is `Delete`, `ApplyLsn`
    is `Expose` or no change, everything else is `Publish`.

### WalStorage

For every segment size, every layout of records and every number of leaders, kills,
power failures and cells per write (`LayoutAssumption`, `BoundsAssumption`); every property the run
checks is a theorem of `WalStorageProofs`, the refinement included:
`StorageTypeCorrect` (`TypeOK`), `CommittedStaysReadable` (`CommittedIsRetained`),
`WritesOpenPartialFiles` (`WritesArePartial`) and `StorageIsDurable`
(`ImplementsDurableLog`). The invariant `IInv` was checked with TLC on the instance of
`wal_files` before it was proved.

- Which call is in progress in which state of memory, and what it has done so far, is
  `PhaseInv`; what the three LSNs and commit_lsn, the backup LSN and the horizon of a
  removal are to each other is `LsnInv` and `OffloadInv`.
- `LogInv` says that `log` is the records written in full, `RecordInv` that each of
  those that a restart finds can be read, and `SafeInv` that what is flushed, and what a
  truncation keeps, is on disk as well, except for cells that were unsynced in a kill
  (`risked`). A committed one of these may be `Gone`.
- A cell is written once between two truncations: of the two values that a power failure
  may leave in it, one is zero (`CellInv`). `Stored` is the other one. So a record that
  is intact afterwards was intact before.
- `EndInv` says that the record after the log is not intact, and that once the WAL is
  truncated nothing at all is beyond its end. Together with `SafeInv` this is
  what makes a power failure harmless: find_end_of_wal finds everything that is safe and
  nothing that was not in the log (`FoundInLog`), although records of an earlier
  leader may lie behind it. After a kill, until the next truncation, the log may have more
  records than were found: a truncation that the kill cut short had zeroed them in the
  page cache, and a power failure can bring them back.
- `UnsyncedInv`, with its own induction on top of `IInv`, says that what was written since
  the last truncation is unsynced in the open file only. So a flush syncs all
  that it reports, and only a kill exposes records.
- `FileInv` says which files there are and which have their final name: the file that
  a write opens is `.partial` or absent. `S3Inv` says that what lies below the backup
  LSN is in object storage with the terms of the log, which is why RemoveOldWal may
  unlink it.
- `DurableLog` counts records, `WalStorage` has LSNs. `RecordsBeforeIs`, `RecordsInIs`
  and `RecordsPerCell` relate the two. In the refinement a write is `Grow` or no
  change (or `Settle`), `FlushWal` is `Flush`, `BeginTruncate` is `BeginTruncate`, or no change when
  there is nothing to cut, `TruncateSyncs` is `FinishTruncate`, and `Kill` and
  `PowerFailure` are what they are called.

### RemoteTimeline

For all bounds, with and without generation numbers, and whoever acts
(`BoundsAssumption`): `RemoteTimelineProofs!TimelineTypeCorrect` (`TypeOK`). Under one
more hypothesis, `DeletionIsAlone`: `IndexedLayersExist` (`IndexNamesExist`),
`AdvertisedIsDurable` (`VisibleIsDurable`), `WaitIsForDurability`
(`WaitedForIsUploaded`) and `DrainLosesNothing` (`DrainedIsUploaded`).

`DeletionIsAlone` restricts only instances in which the timeline is deleted: the
deletion meets no shutdown of the tenant, and there is one index (no generations, or
one attachment). The code guarantees neither; section 3 says what happens otherwise
(`shutdown_tasks`, `delete_generations`), and nothing is claimed of the deletion itself.
Instances without a deletion, with any shutdowns, failures, restarts and generations,
are covered as they are, and so is every instance of the passing runs.

- The invariant `IInv` was checked with TLC before it was proved, on the instances of
  the runs or smaller ones, and, as far as TLC came in five minutes, on instances with
  two generations (GC with images; shutdown with failures).
- `QueueInv` is about what is in progress, in any order, followed by what is queued, in
  order. Every index that is queued finds each of its layers present when its turn
  comes (`UploadedFirst`), every deletion finds its layers absent from the newest index
  (`UnlinkedFirst`), no upload is of a layer that a deletion before it would still hit
  (`NotDoomed`), LSNs of the indices do not go down (`LsnOrder`), what `wait_completion`
  waits for is an index before its barrier (`Waits`), and the last index is the desired
  one, or lacks only what `changes` says is to come (`Desired`, `Stands`). In the middle of a `schedule_*` function only `Desired` is
  suspended (`Scheduling`).
- `launch_queued_tasks` takes a prefix of the queue: barriers first, and after them
  one index alone, or deletions, followed by uploads of layers (`TakesIs`). `Moved`
  relates the queue and the tasks before and after, and the `Moved...` lemmas carry each
  part of `QueueInv` across; the `Leaves...` lemmas do so for a task that ends, the
  `Like...` lemmas for one that has an effect on object storage.
- `RunInv` is what remains when the queue is stopped: an index is uploaded beside
  uploads of layers only, its layers are in object storage, a layer that is being deleted is not
  in the newest index. So a task that is left behind by `stop()` does no harm.
- A key may be used twice. `Fresh` says that a name about to be used again is of no
  object that is spent (dropped, in the deletion queue, or in a deletion that is
  pending): level 0 layers are above `disk_consistent_lsn`, a level 1 layer ends where
  a level 0 layer does, and images are newer than all others. After a
  restart without generations this does not hold, and it is the barrier that
  `load_layer_map` schedules that makes such an upload wait (`Doomed`,
  `BarrierSaves`). With generations the key is a new one (`GenInv`).
- `MapInv` and `CompactionInv` relate the layer map to the desired index: they differ by
  the images that are not scheduled yet, the layers a compaction has taken are still in
  the map when it ends, and GC takes neither of them (`GarbageIs`).
- `DrainInv` says that once shutdown may go on no task is left and the index is the
  desired one, but for an image between its two `schedule_*` calls; `DeleteInv` that a deletion that has flagged the index has no task beside
  it.

### Only model-checked

- Liveness (`ConnectedQuorumCommits`, `ShutdownReturns`, `WaiterReturns`,
  `AccessReturns`, `EvictionReturns`): fairness is outside this prover's reach.
- `MapIsReadable` and `IndexIsReadable` of `RemoteTimeline`. The second is false when GC
  meets the creation of images (`gc_image_race`); what both need, that the layers
  of a set cover a range of LSNs without a gap, is not part of the invariant.

## 5. Plan

Order: first what loses data.

1. *(done)* `TermHistory`, `WalConsensus`; all safety properties proved.
2. *(done)* `UploadQueue` and `RemoteTimeline`; all safety properties proved but those
   about readability. Left: downloads of layers as part of the timeline.
3. *(done)* `AttachmentService` and `DeletionQueue`: several pageservers,
   re-attach, validation, crash and recovery, refining `DurableTenant`; all
   properties proved.
4. *(done)* `WalStorage`: segment files, truncation, crashes, offloading and
   removal on one safekeeper, refining `DurableLog`, which is what `WalConsensus`
   assumes of `wal`/`flushed`; all properties proved.
5. *(done)* `LayerResidency`: the once cell, download, eviction; safety proved.
6. `PeerRecovery`: a safekeeper that truncates its own WAL for a leader that is gone;
   the election of the offloader among safekeepers.
7. The rest of the reconciler, tenant slots, walreceiver's connection manager;
   `SeqWait` and `Gate` with the tasks that use them.
8. Proofs: `MapIsReadable`, with an invariant about the gaps between layers.

Not modelled, and not planned: Postgres itself, WAL decoding and page
reconstruction, walredo, proxy, compute_ctl, HTTP and CLI layers, metrics,
serialisation (`control_file_upgrade`), authentication. They are most of the
repository's lines (I/O, formats, request handling, tools), which is why the modules
cover a small share of them; what is modelled is where the order of steps decides.
