--------------------------- MODULE RemoteTimeline ---------------------------
(***************************************************************************)
(* One timeline of a pageserver and its copy in object storage: the        *)
(* RemoteTimelineClient with its upload tasks, the tasks of the timeline   *)
(* that schedule work with it (flush of in-memory layers, compaction,      *)
(* garbage collection, layers that are dropped), shutdown of the tenant,   *)
(* deletion of the timeline, and restarts of the pageserver.               *)
(*                                                                         *)
(* A layer is its kind and the LSNs it holds changes of; key ranges are    *)
(* not modelled, every layer covers all keys.  The deletion queue is       *)
(* external here: what is handed to it is deleted at some later time, or   *)
(* forgotten in a restart.                                                 *)
(***************************************************************************)
EXTENDS UploadQueue, FiniteSets

CONSTANTS
    Legacy,       \* the tenant has no generation numbers
    MaxLsn,       \* bound: WAL that is ingested
    MaxGen,       \* bound: attachments of the tenant, one generation each
    MaxPending,   \* bound: operations outstanding when more are scheduled
    Activities    \* who acts: subset of the strings used below

ASSUME BoundsAssumption ==
    /\ Legacy \in BOOLEAN
    /\ MaxLsn \in Nat
    /\ MaxGen \in Nat \ {0}
    /\ MaxPending \in Nat \ {0}
    /\ Activities \subseteq {"compaction", "images", "gc", "waiter",
                             "tenant", "deletion", "failures"}

VARIABLES
    \* RemoteTimelineClient: the queue, the tasks that run (in the order
    \* they were launched), and whether the semaphore that shutdown() waits
    \* on is closed.
    uq, tasks, shutdownReady,
    \* visible_remote_consistent_lsn, deleted_at of a stopped
    \* queue, and whether the upload tasks are cancelled.
    visible, deletedAt, cancelled,
    \* Object storage: layer files, and the index of each generation.
    store, index,
    \* Deletion queue: layers to delete, and the LSN to be validated.
    deletions, pendingLsn,
    \* The timeline: last_record_lsn, disk_consistent_lsn,
    \* latest_gc_cutoff_lsn, the layer map, the running compaction, the
    \* running garbage collection (the set of its cutoff), and layers that
    \* are not in the map any more but not dropped yet.
    lastLsn, diskLsn, gcCutoff, layerMap, compaction, collecting, dropping,
    \* Whoever called wait_completion, Tenant::shutdown, DeleteTimelineFlow.
    waiter, tenant, deletion,
    \* The generation of the current attachment.
    gen,
    \* History: the highest LSN made visible to safekeepers, whether the
    \* deletion was reported as done, what the waiter waits for.
    advertised, deleteAcked, waitLsn

queueVars == <<uq, tasks, shutdownReady, waiter>>
lsnVars == <<visible, pendingLsn, advertised>>
storageVars == <<store, index, deletions>>
timelineVars == <<lastLsn, diskLsn, gcCutoff, layerMap, compaction, collecting, dropping>>
flowVars == <<tenant, deletion, deletedAt, cancelled, deleteAcked>>
vars == <<queueVars, lsnVars, storageVars, timelineVars, flowVars, gen, waitLsn>>

-----------------------------------------------------------------------------
(***************************************************************************)
(* Layers and the index.                                                   *)
(***************************************************************************)

Kinds == {"L0", "L1", "image"}
Lsns == 0..MaxLsn
Gens == 0..MaxGen

\* Mutant: the LSN range is not made inclusive.
LayerNameExclusiveEnd(kind, lo, hi) == [kind |-> kind, lo |-> lo, hi |-> hi + 1]

\* LayerFileName.  The LSN range of the code is lo..hi + 1, the end excluded.
LayerName(kind, lo, hi) == [kind |-> kind, lo |-> lo, hi |-> hi]
LayerNames == [kind : Kinds, lo : Lsns, hi : Lsns]
Objects == [name : LayerNames, gen : Gens]

\* The generation in the key of what is uploaded now.
KeyGen == IF Legacy THEN 0 ELSE gen

Object(name) == [name |-> name, gen |-> KeyGen]
Image(n) == LayerName("image", n, n)
EndLsn(o) == o.name.hi + 1

\* Mutant: the end of a layer is compared as if it were included.
IsInFutureInclusive(o, lsn) == EndLsn(o) > lsn

\* A layer with changes above disk_consistent_lsn.
IsInFuture(o, lsn) == o.name.hi > lsn

\* IndexPart.
IndexPart(files, meta, deleted) == [files |-> files, meta |-> meta, deleted |-> deleted]
NoIndex == IndexPart({}, Meta(0, 0), TRUE)

\* The index a pageserver would start from: download_index_part takes the
\* one of the highest generation.
HasIndex == DOMAIN index # {}
LatestGen == CHOOSE g \in DOMAIN index : \A h \in DOMAIN index : h <= g
LatestIndex == IF HasIndex THEN index[LatestGen] ELSE NoIndex

\* The page versions at LSN n can be read from a set of layers: there is an
\* image at or below n, or the very beginning, and all changes since.
Readable(objs, n) ==
    \E base \in 0..n :
        /\ base = 0 \/ \E o \in objs : o.name = Image(base)
        /\ \A k \in (base + 1)..n :
              \E o \in objs : o.name.kind # "image" /\ k \in o.name.lo..o.name.hi

-----------------------------------------------------------------------------
(***************************************************************************)
(* The client.                                                             *)
(***************************************************************************)

\* UploadTask: "run" while it tries, "done" when the remote operation
\* succeeded, "publish" when it is off the queue's list and only has to
\* hand its LSN to the deletion queue.  joiner has taken its join handle.
Task(op) == [op |-> op, phase |-> "run", joiner |-> "none"]
TaskIds == 1..Len(tasks)
Without(ts, i) == SubSeq(ts, 1, i - 1) \o SubSeq(ts, i + 1, Len(ts))
KindsInProgress(ts) ==
    {ts[i].op.type : i \in {j \in 1..Len(ts) : ts[j].phase # "publish"}}

\* launch_queued_tasks, and the end of the critical section that led to q
\* and to the tasks ts.  A barrier that is reached wakes its waiter.
LaunchQueuedTasks(q, ts) ==
    LET running == KindsInProgress(ts)
        n == LaunchCount(q.queued, running)
        launched == SubSeq(q.queued, BarriersAmong(q.queued, n) + 1, n)
    IN /\ uq' = [q EXCEPT !.queued = SubSeq(@, n + 1, Len(@))]
       /\ tasks' = ts \o [i \in 1..Len(launched) |-> Task(launched[i])]
       /\ shutdownReady' = (shutdownReady \/ ReachesShutdown(q.queued, running))
       /\ waiter' = IF \E i \in 1..n : q.queued[i].waited THEN "done" ELSE waiter

\* A schedule_* function: fails unless initialized_mut() succeeds.
Schedule(q) ==
    /\ Usable(uq)
    /\ LaunchQueuedTasks(q, tasks)

\* A call of wait_completion has not returned.
Waiting == \E i \in DOMAIN uq.queued : uq.queued[i].waited

\* stop(), by a caller that leaves the tasks ts.  Dropping the queued
\* operations wakes wait_completion with an error; it does not touch the
\* semaphore that shutdown() may be waiting on.
StopQueue(ts) ==
    /\ uq' = Stopped(uq)
    /\ tasks' = ts
    /\ waiter' = IF Waiting THEN "aborted" ELSE waiter
    /\ UNCHANGED shutdownReady

\* perform_upload_task: one attempt at the remote operation.  The reply may
\* be lost after the operation took effect; the task then tries again.
TaskAttempt(i, replied) ==
    /\ tasks[i].phase = "run"
    /\ replied \/ "failures" \in Activities
    /\ LET op == tasks[i].op
       IN \/ /\ op.type = "layer"
             /\ store' = store \cup op.objs
             /\ UNCHANGED <<index, deletions>>
          \/ /\ op.type = "index"
             /\ index' = [g \in DOMAIN index \cup {KeyGen} |->
                             IF g = KeyGen THEN IndexPart(op.objs, op.meta, FALSE)
                             ELSE index[g]]
             /\ UNCHANGED <<store, deletions>>
          \/ /\ op.type = "delete" /\ Legacy
             /\ store' = store \ op.objs
             /\ UNCHANGED <<index, deletions>>
          \/ /\ op.type = "delete" /\ ~Legacy
             /\ deletions' = deletions \cup op.objs
             /\ UNCHANGED <<store, index>>
    /\ tasks' = IF replied THEN [tasks EXCEPT ![i].phase = "done"] ELSE tasks
    /\ UNCHANGED <<uq, shutdownReady, waiter, lsnVars, timelineVars, flowVars, gen, waitLsn>>

\* Mutant: the LSN that the timeline has ingested, which is not uploaded yet.
PublishedLsnIngested(i) == lastLsn

\* The LSN that a finished upload of the index makes durable.
PublishedLsn(i) == tasks[i].op.meta.lsn

\* perform_upload_task: the task is done.  It leaves the list of tasks in
\* progress and launches what waited for it; a task that uploaded the index
\* goes on with the LSN once it has released the lock.
TaskComplete(i) ==
    /\ tasks[i].phase = "done"
    /\ \/ /\ uq.state = "Stopped"
          /\ tasks' = Without(tasks, i)
          /\ UNCHANGED <<uq, shutdownReady, waiter, lsnVars>>
       \/ /\ uq.state = "Initialized"
          /\ tasks[i].op.type # "index"
          /\ LaunchQueuedTasks(uq, Without(tasks, i))
          /\ UNCHANGED lsnVars
       \/ /\ uq.state = "Initialized"
          /\ tasks[i].op.type = "index" /\ ~Legacy
          /\ LaunchQueuedTasks(uq, [tasks EXCEPT ![i].phase = "publish"])
          /\ UNCHANGED lsnVars
       \/ /\ uq.state = "Initialized"
          /\ tasks[i].op.type = "index" /\ Legacy
          /\ visible' = PublishedLsn(i)
          /\ advertised' = IF visible' > advertised THEN visible' ELSE advertised
          /\ LaunchQueuedTasks(uq, Without(tasks, i))
          /\ UNCHANGED pendingLsn
    /\ UNCHANGED <<storageVars, timelineVars, flowVars, gen, waitLsn>>

\* update_remote_consistent_lsn of the deletion queue: the last one counts.
TaskPublishLsn(i) ==
    /\ tasks[i].phase = "publish"
    /\ pendingLsn' = {PublishedLsn(i)}
    /\ tasks' = Without(tasks, i)
    /\ UNCHANGED <<uq, shutdownReady, waiter, visible, advertised,
                   storageVars, timelineVars, flowVars, gen, waitLsn>>

\* perform_upload_task: a cancelled task notices between two attempts and
\* stops the queue.
TaskCancelled(i) ==
    /\ tasks[i].phase = "run"
    /\ cancelled
    /\ StopQueue(Without(tasks, i))
    /\ UNCHANGED <<lsnVars, storageVars, timelineVars, flowVars, gen, waitLsn>>

\* The Validator of the deletion queue has validated the generation, some
\* time later, and makes the LSN visible.
ValidateLsn ==
    /\ pendingLsn # {}
    /\ \E lsn \in pendingLsn :
          /\ visible' = lsn
          /\ advertised' = IF lsn > advertised THEN lsn ELSE advertised
    /\ pendingLsn' = {}
    /\ UNCHANGED <<queueVars, storageVars, timelineVars, flowVars, gen, waitLsn>>

\* The Deleter of the deletion queue executes a deletion.
ExecuteDeletion ==
    /\ \E o \in deletions :
          /\ deletions' = deletions \ {o}
          /\ store' = store \ {o}
    /\ UNCHANGED <<queueVars, lsnVars, index, timelineVars, flowVars, gen, waitLsn>>

\* wait_completion.
WaitCompletion ==
    /\ "waiter" \in Activities
    /\ waiter = "none" /\ ~Waiting
    /\ Schedule(ScheduleBarrier0(uq, TRUE))
    /\ waitLsn' = uq.meta.lsn
    /\ UNCHANGED <<lsnVars, storageVars, timelineVars, flowVars, gen>>

-----------------------------------------------------------------------------
(***************************************************************************)
(* The timeline's own tasks.                                               *)
(***************************************************************************)

\* Bound on how far the uploads lag behind.
NotBusy == Len(uq.queued) + Len(tasks) < MaxPending

\* The walreceiver commits a record that it has decoded.
Ingest ==
    /\ uq.state = "Initialized" /\ tenant = "up"
    /\ lastLsn < MaxLsn
    /\ lastLsn' = lastLsn + 1
    /\ UNCHANGED <<queueVars, lsnVars, storageVars, diskLsn, gcCutoff, layerMap,
                   compaction, collecting, dropping, flowVars, gen, waitLsn>>

\* flush_frozen_layer, of the in-memory layer frozen at lsn, under the lock
\* of the layer map; schedule_uploads.
FlushFrozenLayer(lsn) ==
    /\ diskLsn < lsn /\ NotBusy
    /\ LET o == Object(LayerName("L0", diskLsn + 1, lsn))
       IN /\ layerMap' = layerMap \cup {o}
          /\ Schedule(ScheduleIndexUploadForMetadataUpdate(
                          ScheduleLayerFileUpload0(uq, o), Meta(lsn, gcCutoff)))
    /\ diskLsn' = lsn
    /\ UNCHANGED <<lsnVars, storageVars, lastLsn, gcCutoff, compaction, collecting,
                   dropping, flowVars, gen, waitLsn>>

NoCompaction == [step |-> "none", layers |-> {}]

\* compact_level0_phase1: the level 0 layers that continue each other from
\* the oldest on.
CompactLevel0Phase1 ==
    /\ "compaction" \in Activities
    /\ Usable(uq) /\ NotBusy
    /\ compaction.step = "none"
    /\ LET l0 == {o \in layerMap : o.name.kind = "L0"}
           first == CHOOSE o \in l0 : \A p \in l0 : o.name.lo <= p.name.lo
           chain == {o \in l0 : \A k \in first.name.lo..o.name.hi :
                                   \E p \in l0 : k \in p.name.lo..p.name.hi}
       IN /\ l0 # {}
          /\ compaction' = [step |-> "L0", layers |-> chain]
    /\ UNCHANGED <<queueVars, lsnVars, storageVars, lastLsn, diskLsn, gcCutoff,
                   layerMap, collecting, dropping, flowVars, gen, waitLsn>>

\* compact_level0, after phase 1: replaces them by one level 1 layer, under
\* the lock of the layer map.
FinishCompactL0 ==
    /\ compaction.step = "L0"
    /\ LET from == compaction.layers
           lo == CHOOSE n \in {o.name.lo : o \in from} : \A o \in from : n <= o.name.lo
           hi == CHOOSE n \in {o.name.hi : o \in from} : \A o \in from : n >= o.name.hi
           to == Object(LayerName("L1", lo, hi))
           duplicate == \E o \in layerMap : o.name = to.name
       IN /\ Schedule(ScheduleCompactionUpdate(uq, from, to))
          /\ layerMap' = (layerMap \ from) \cup (IF duplicate THEN {} ELSE {to})
          /\ dropping' = dropping \cup from
    /\ compaction' = NoCompaction
    /\ UNCHANGED <<lsnVars, storageVars, lastLsn, diskLsn, gcCutoff, collecting, flowVars,
                   gen, waitLsn>>

\* create_image_layers, at the LSN of the last repartitioning, which never
\* goes back: reads the pages at that LSN, from in-memory layers too.  The
\* image is in the layer map before its upload is scheduled.
CreateImageLayers(n) ==
    /\ "images" \in Activities
    /\ Usable(uq) /\ NotBusy
    /\ compaction.step = "none"
    /\ Readable(layerMap \cup {Object(LayerName("L0", diskLsn + 1, lastLsn))}, n)
    /\ \A o \in layerMap : o.name.kind = "image" => o.name.hi < n
    /\ layerMap' = layerMap \cup {Object(Image(n))}
    /\ compaction' = [step |-> "images", layers |-> {Object(Image(n))}]
    /\ UNCHANGED <<queueVars, lsnVars, storageVars, lastLsn, diskLsn, gcCutoff,
                   collecting, dropping, flowVars, gen, waitLsn>>

\* compact, after create_image_layers and without the lock of the layer map:
\* schedules the upload of the image ...
ScheduleImageUploads ==
    /\ compaction.step = "images" /\ NotBusy
    /\ \E o \in compaction.layers : Schedule(ScheduleLayerFileUpload0(uq, o))
    /\ compaction' = [step |-> "uploaded", layers |-> {}]
    /\ UNCHANGED <<lsnVars, storageVars, lastLsn, diskLsn, gcCutoff, layerMap,
                   collecting, dropping, flowVars, gen, waitLsn>>

\* ... and takes the lock of the queue again for the index.  When the client
\* was shut down in between, the index upload is refused and the image stays
\* in latest_files.
ScheduleImageIndex ==
    /\ compaction.step = "uploaded"
    /\ Schedule(ScheduleIndexUploadForFileChanges(uq))
    /\ compaction' = NoCompaction
    /\ UNCHANGED <<lsnVars, storageVars, lastLsn, diskLsn, gcCutoff, layerMap,
                   collecting, dropping, flowVars, gen, waitLsn>>

\* Mutant: any newer image will do.
GarbageAnyImage(cutoff) ==
    {o \in layerMap :
        /\ o.name.kind # "L0"
        /\ EndLsn(o) <= cutoff
        /\ \E n \in EndLsn(o)..lastLsn : \E p \in layerMap : p.name = Image(n)}

\* Layers that garbage collection up to cutoff may remove: an image newer
\* than the layer and older than the cutoff makes it superfluous.  A level 0
\* layer spans all of the key space, which images never do.
Garbage(cutoff) ==
    {o \in layerMap :
        /\ o.name.kind # "L0"
        /\ EndLsn(o) <= cutoff
        /\ \E n \in EndLsn(o)..(cutoff - 1) : \E p \in layerMap : p.name = Image(n)}

\* gc_timeline: the new cutoff is in force before the lock of the layer map
\* is taken.
GcAdvanceCutoff(cutoff) ==
    /\ "gc" \in Activities
    /\ Usable(uq) /\ NotBusy
    /\ collecting = {}
    /\ gcCutoff < cutoff /\ cutoff <= diskLsn
    /\ gcCutoff' = cutoff /\ collecting' = {cutoff}
    /\ UNCHANGED <<queueVars, lsnVars, storageVars, lastLsn, diskLsn, layerMap, compaction,
                   dropping, flowVars, gen, waitLsn>>

\* gc_timeline, under the lock of the layer map: the index with the new
\* cutoff goes first, then the one without the layers.
GcTimeline(cutoff) ==
    /\ \/ /\ Garbage(cutoff) = {}
          /\ UNCHANGED <<queueVars, layerMap, dropping>>
       \/ /\ Garbage(cutoff) # {}
          /\ LET q == ScheduleIndexUploadForMetadataUpdate(uq, Meta(diskLsn, gcCutoff))
             IN Schedule(ScheduleUnlinking0(q, Garbage(cutoff)))
          /\ layerMap' = layerMap \ Garbage(cutoff)
          /\ dropping' = dropping \cup Garbage(cutoff)
    /\ collecting' = {}
    /\ UNCHANGED <<lsnVars, storageVars, lastLsn, diskLsn, gcCutoff, compaction, flowVars,
                   gen, waitLsn>>

\* LayerInner::drop: the last reference to a removed layer is gone.  Upload
\* operations and a running compaction hold references.
DropLayer(o) ==
    /\ o \in dropping
    /\ o \notin compaction.layers
    /\ \A i \in DOMAIN uq.queued : uq.queued[i].type = "layer" => o \notin uq.queued[i].objs
    /\ \A i \in TaskIds : tasks[i].op.type = "layer" => o \notin tasks[i].op.objs
    /\ dropping' = dropping \ {o}
    /\ Schedule(ScheduleDeletionOfUnlinked0(uq, {o}))
    /\ UNCHANGED <<lsnVars, storageVars, lastLsn, diskLsn, gcCutoff, layerMap,
                   compaction, collecting, flowVars, gen, waitLsn>>

-----------------------------------------------------------------------------
(***************************************************************************)
(* Shutdown of the tenant, and deletion of the timeline.                   *)
(***************************************************************************)

\* Tenant::shutdown without flushing; the rest of Timeline::shutdown follows
\* in JoinTask.
ShutdownTimeline ==
    /\ "tenant" \in Activities
    /\ tenant = "up" /\ uq.state # "Uninitialized"
    /\ StopQueue(tasks)
    /\ tenant' = "joining" /\ cancelled' = TRUE
    /\ UNCHANGED <<lsnVars, storageVars, timelineVars, deletion, deletedAt,
                   deleteAcked, gen, waitLsn>>

\* flush_and_shutdown: ingestion has stopped and the final freeze_and_flush
\* succeeded.  RemoteTimelineClient::shutdown queues the shutdown operation,
\* and waits for the semaphore to be closed.
ShutdownBegin ==
    /\ "tenant" \in Activities
    /\ tenant = "up" /\ uq.state = "Initialized"
    /\ diskLsn = lastLsn
    /\ \/ /\ ~uq.shuttingDown
          /\ LaunchQueuedTasks(ScheduleShutdown(uq), tasks)
       \/ /\ uq.shuttingDown
          /\ UNCHANGED queueVars
    /\ tenant' = "draining"
    /\ UNCHANGED <<lsnVars, storageVars, timelineVars, deletion, deletedAt, cancelled,
                   deleteAcked, gen, waitLsn>>

\* ... then stops the queue, and Timeline::shutdown follows.
ShutdownDrained ==
    /\ tenant = "draining" /\ shutdownReady
    /\ StopQueue(tasks)
    /\ tenant' = "joining" /\ cancelled' = TRUE
    /\ UNCHANGED <<lsnVars, storageVars, timelineVars, deletion, deletedAt,
                   deleteAcked, gen, waitLsn>>

\* DeleteTimelineFlow::run, stop_tasks: stops the queue and has
\* task_mgr::shutdown_tasks cancel the tasks and wait for them.
DeleteStopTasks ==
    /\ "deletion" \in Activities
    /\ deletion = "no" /\ uq.state # "Uninitialized"
    /\ StopQueue(tasks)
    /\ deletion' = "joining" /\ cancelled' = TRUE
    /\ UNCHANGED <<lsnVars, storageVars, timelineVars, tenant, deletedAt,
                   deleteAcked, gen, waitLsn>>

\* task_mgr::shutdown_tasks, called by the tenant's shutdown and by the
\* deletion: takes the join handle of one task after the other and waits
\* for that task; a task whose handle is gone is passed over.
Joining(caller) ==
    \/ caller = "tenant" /\ tenant = "joining"
    \/ caller = "deletion" /\ deletion = "joining"
Awaits(caller) == \E i \in TaskIds : tasks[i].joiner = caller

JoinTask(caller) ==
    /\ Joining(caller) /\ ~Awaits(caller)
    /\ \E i \in TaskIds :
          /\ tasks[i].joiner = "none"
          /\ tasks' = [tasks EXCEPT ![i].joiner = caller]
    /\ UNCHANGED <<uq, shutdownReady, waiter, lsnVars, storageVars, timelineVars,
                   flowVars, gen, waitLsn>>

NothingToJoin(caller) ==
    ~Awaits(caller) /\ \A i \in TaskIds : tasks[i].joiner # "none"

JoinDone(caller) ==
    /\ Joining(caller)
    /\ NothingToJoin(caller)
    /\ tenant' = IF caller = "tenant" THEN "down" ELSE tenant
    /\ deletion' = IF caller = "deletion" THEN "joined" ELSE deletion
    /\ UNCHANGED <<queueVars, lsnVars, storageVars, timelineVars, deletedAt, cancelled,
                   deleteAcked, gen, waitLsn>>

\* persist_index_part_with_deleted_flag, up to the upload.
DeletedFlagBegin ==
    /\ deletion = "joined"
    /\ deletedAt = "NotRunning"
    /\ deletedAt' = "InProgress" /\ deletion' = "flagging"
    /\ UNCHANGED <<queueVars, lsnVars, storageVars, timelineVars, tenant, cancelled,
                   deleteAcked, gen, waitLsn>>

\* ... a deletion that is repeated finds the flag set.
DeletedFlagAlready ==
    /\ deletion = "joined"
    /\ deletedAt = "Successful"
    /\ deletion' = "flagged"
    /\ UNCHANGED <<queueVars, lsnVars, storageVars, timelineVars, tenant, deletedAt,
                   cancelled, deleteAcked, gen, waitLsn>>

\* ... the upload; when it fails the progress is undone and the request
\* fails, although the flag may have been written.
DeletedFlagUpload(replied) ==
    /\ deletion = "flagging"
    /\ replied \/ "failures" \in Activities
    /\ index' = [g \in DOMAIN index \cup {KeyGen} |->
                    IF g = KeyGen THEN IndexPart(uq.files, uq.meta, TRUE) ELSE index[g]]
    /\ deletedAt' = IF replied THEN "Successful" ELSE "NotRunning"
    /\ deletion' = IF replied THEN "flagged" ELSE "no"
    /\ deleteAcked' = (deleteAcked \/ replied)
    /\ UNCHANGED <<queueVars, lsnVars, store, deletions, timelineVars, tenant, cancelled,
                   gen, waitLsn>>

\* delete_all: the layers of the index.
DeleteAllLayers ==
    /\ deletion = "flagged" /\ deletedAt = "Successful"
    /\ store' = store \ uq.files
    /\ uq' = [uq EXCEPT !.files = {}]
    /\ deletion' = "listed"
    /\ UNCHANGED <<tasks, shutdownReady, waiter, lsnVars, index, deletions, timelineVars,
                   tenant, deletedAt, cancelled, deleteAcked, gen, waitLsn>>

\* delete_all: everything that is still there, and the latest index.  The
\* deleter sends them in one request, which deletes the objects in any
\* order and is repeated until it succeeds.
DeleteListed ==
    /\ deletion = "listed"
    /\ \/ /\ store # {}
          /\ store' = {}
          /\ UNCHANGED index
       \/ /\ \E g \in DOMAIN index :
                index' = [h \in DOMAIN index \ {g} |-> index[h]]
          /\ UNCHANGED store
    /\ deletion' = IF store' = {} /\ DOMAIN index' = {} THEN "gone" ELSE deletion
    /\ UNCHANGED <<queueVars, lsnVars, deletions, timelineVars, tenant, deletedAt,
                   cancelled, deleteAcked, gen, waitLsn>>

\* A step of DeleteTimelineFlow::background fails; the request may be
\* repeated, and starts over.
DeletionFails ==
    /\ "failures" \in Activities
    /\ deletion \in {"flagged", "listed"}
    /\ deletion' = "no"
    /\ UNCHANGED <<queueVars, lsnVars, storageVars, timelineVars, tenant, deletedAt,
                   cancelled, deleteAcked, gen, waitLsn>>

-----------------------------------------------------------------------------
(***************************************************************************)
(* Restart of the pageserver, or attachment to another one.                *)
(***************************************************************************)

\* Deletions survive if the deletion queue has persisted them.
Restart ==
    /\ gen < MaxGen
    /\ gen' = gen + 1
    /\ uq' = Uninitialized /\ tasks' = << >> /\ shutdownReady' = FALSE
    /\ waiter' = "none" /\ waitLsn' = 0
    /\ pendingLsn' = {} /\ UNCHANGED <<visible, advertised>>
    /\ deletions' \in SUBSET deletions /\ UNCHANGED <<store, index>>
    /\ lastLsn' = 0 /\ diskLsn' = 0 /\ gcCutoff' = 0
    /\ layerMap' = {} /\ compaction' = NoCompaction /\ collecting' = {} /\ dropping' = {}
    /\ tenant' = "up" /\ deletion' = "no" /\ deletedAt' = "NotRunning"
    /\ cancelled' = FALSE /\ UNCHANGED deleteAcked

\* Mutant: later uploads are not ordered after the deletions.
LoadedQueueNoBarrier(part, future) ==
    ScheduleIndexUploadForFileChanges(
        ScheduleLayerFileDeletion(Initialized(part.files, part.meta), future))

\* The queue when the layer map is loaded: layers from the future of the
\* index are unlinked and deleted, before anything else is done.
LoadedQueue(part, future) ==
    ScheduleBarrier0(
        ScheduleIndexUploadForFileChanges(
            ScheduleLayerFileDeletion(Initialized(part.files, part.meta), future)),
        FALSE)

\* The timeline is loaded from the index: load_layer_map.
LoadTimeline ==
    /\ uq.state = "Uninitialized" /\ HasIndex /\ ~LatestIndex.deleted
    /\ LET part == LatestIndex
           future == {o \in part.files : IsInFuture(o, part.meta.lsn)}
       IN /\ LaunchQueuedTasks(LoadedQueue(part, future), << >>)
          /\ visible' = part.meta.lsn
          /\ advertised' = IF visible' > advertised THEN visible' ELSE advertised
          /\ lastLsn' = part.meta.lsn /\ diskLsn' = part.meta.lsn
          /\ gcCutoff' = part.meta.cutoff
          /\ layerMap' = part.files \ future
    /\ UNCHANGED <<pendingLsn, storageVars, compaction, collecting, dropping, flowVars,
                   gen, waitLsn>>

\* init_upload_queue_stopped_to_continue_deletion; resume_deletion.
ResumeDeletion ==
    /\ uq.state = "Uninitialized" /\ HasIndex /\ LatestIndex.deleted
    /\ uq' = Stopped(Initialized(LatestIndex.files, LatestIndex.meta))
    /\ deletedAt' = "Successful" /\ deletion' = "flagged"
    /\ UNCHANGED <<tasks, shutdownReady, waiter, lsnVars, storageVars, timelineVars,
                   tenant, cancelled, deleteAcked, gen, waitLsn>>

-----------------------------------------------------------------------------

\* A timeline that was created earlier, without layers yet.
Init ==
    /\ gen = 1
    /\ uq = Initialized({}, Meta(0, 0)) /\ tasks = << >> /\ shutdownReady = FALSE
    /\ waiter = "none" /\ waitLsn = 0
    /\ visible = 0 /\ pendingLsn = {} /\ advertised = 0
    /\ store = {} /\ deletions = {}
    /\ index = [g \in {KeyGen} |-> IndexPart({}, Meta(0, 0), FALSE)]
    /\ lastLsn = 0 /\ diskLsn = 0 /\ gcCutoff = 0
    /\ layerMap = {} /\ compaction = NoCompaction /\ collecting = {} /\ dropping = {}
    /\ tenant = "up" /\ deletion = "no" /\ deletedAt = "NotRunning"
    /\ cancelled = FALSE /\ deleteAcked = FALSE

TaskStep ==
    \E i \in TaskIds :
        \/ \E replied \in BOOLEAN : TaskAttempt(i, replied)
        \/ TaskComplete(i)
        \/ TaskPublishLsn(i)
        \/ TaskCancelled(i)

TimelineStep ==
    \/ Ingest
    \/ \E lsn \in 1..lastLsn : FlushFrozenLayer(lsn) \/ CreateImageLayers(lsn)
    \/ CompactLevel0Phase1
    \/ FinishCompactL0
    \/ ScheduleImageUploads
    \/ ScheduleImageIndex
    \/ \E cutoff \in 1..diskLsn : GcAdvanceCutoff(cutoff)
    \/ \E cutoff \in collecting : GcTimeline(cutoff)
    \/ \E o \in dropping : DropLayer(o)
    \/ WaitCompletion

ShutdownStep ==
    \/ ShutdownTimeline
    \/ ShutdownBegin
    \/ ShutdownDrained
    \/ DeleteStopTasks
    \/ \E caller \in {"tenant", "deletion"} : JoinTask(caller) \/ JoinDone(caller)
    \/ DeletedFlagBegin
    \/ DeletedFlagAlready
    \/ \E replied \in BOOLEAN : DeletedFlagUpload(replied)
    \/ DeleteAllLayers
    \/ DeleteListed
    \/ DeletionFails

Next ==
    \/ TaskStep
    \/ ValidateLsn
    \/ ExecuteDeletion
    \/ TimelineStep
    \/ ShutdownStep
    \/ Restart
    \/ LoadTimeline
    \/ ResumeDeletion

Spec == Init /\ [][Next]_vars

\* Tasks of the pageserver run and object storage answers in the end; nobody
\* has to ingest, compact, collect garbage, shut down or delete.
TaskSucceeds ==
    \E i \in TaskIds :
        TaskAttempt(i, TRUE) \/ TaskComplete(i) \/ TaskPublishLsn(i)
FlowContinues ==
    \/ ShutdownDrained
    \/ \E caller \in {"tenant", "deletion"} : JoinTask(caller) \/ JoinDone(caller)
    \/ DeletedFlagBegin \/ DeletedFlagAlready \/ DeletedFlagUpload(TRUE)
    \/ DeleteAllLayers \/ DeleteListed

FairSpec == Spec /\ WF_vars(TaskSucceeds) /\ WF_vars(FlowContinues)

-----------------------------------------------------------------------------
(***************************************************************************)
(* Properties.                                                             *)
(***************************************************************************)

\* Well typed: what the queue, the tasks and object storage hold.
TypeOK ==
    /\ uq.state \in {"Uninitialized", "Initialized", "Stopped"}
    /\ uq.files \subseteq Objects
    /\ uq.changes \in BOOLEAN /\ uq.shuttingDown \in BOOLEAN
    /\ uq.meta \in [lsn : Lsns, cutoff : Lsns]
    /\ \A i \in DOMAIN uq.queued : uq.queued[i].objs \subseteq Objects
    /\ \A i \in TaskIds : /\ tasks[i].op.objs \subseteq Objects
                          /\ tasks[i].phase \in {"run", "done", "publish"}
                          /\ tasks[i].joiner \in {"none", "tenant", "deletion"}
    /\ store \subseteq Objects /\ deletions \subseteq Objects
    /\ DOMAIN index \subseteq Gens
    /\ \A g \in DOMAIN index : /\ index[g].files \subseteq Objects
                               /\ index[g].meta \in [lsn : Lsns, cutoff : Lsns]
    /\ {visible, advertised, lastLsn, diskLsn, gcCutoff, waitLsn} \subseteq Lsns
    /\ pendingLsn \subseteq Lsns
    /\ layerMap \subseteq Objects /\ dropping \subseteq Objects
    /\ collecting \subseteq Lsns
    /\ compaction.step \in {"none", "L0", "images", "uploaded"}
    /\ waiter \in {"none", "done", "aborted"}
    /\ tenant \in {"up", "draining", "joining", "down"}
    /\ deletion \in {"no", "joining", "joined", "flagging", "flagged", "listed", "gone"}
    /\ deletedAt \in {"NotRunning", "InProgress", "Successful"}

\* The index a pageserver would start from names only layers that exist and
\* that nobody is about to delete, whatever runs concurrently, fails or
\* restarts: launch_queued_tasks keeps uploads before the index and the
\* index before deletions.
IndexNamesExist ==
    ~LatestIndex.deleted => LatestIndex.files \subseteq store \ deletions

\* From that index every page version between its GC cutoff and its
\* disk_consistent_lsn can be read: a layer leaves the index only together
\* with the arrival of what replaces it, or after the cutoff has passed it.
IndexIsReadable ==
    ~LatestIndex.deleted =>
        \A n \in LatestIndex.meta.cutoff..LatestIndex.meta.lsn :
            Readable(LatestIndex.files, n)

\* Every page version that may be asked for can be read from the layer map
\* and the WAL not flushed yet, although compaction, image creation and
\* garbage collection replace its layers concurrently.
MapIsReadable ==
    uq.state = "Initialized" =>
        \A n \in gcCutoff..diskLsn : Readable(layerMap, n)

\* Safekeepers drop WAL below the LSN that was made visible to them, so the
\* index must cover it from then on, through every restart
\* (visible_remote_consistent_lsn: "this value is never ahead").
VisibleIsDurable ==
    ~LatestIndex.deleted => advertised <= LatestIndex.meta.lsn

\* When wait_completion returns Ok, the index with the metadata that was
\* scheduled before the call is in object storage.
WaitedForIsUploaded ==
    waiter = "done" /\ ~LatestIndex.deleted => waitLsn <= LatestIndex.meta.lsn

\* When shutdown() of the client may return, all that was scheduled has been
\* uploaded: the index has the last metadata and the files of the desired
\* state, but for an image whose index upload came too late.
DrainedIsUploaded ==
    shutdownReady /\ ~LatestIndex.deleted =>
        /\ LatestIndex.meta = uq.meta
        /\ \/ LatestIndex.files = uq.files
           \/ /\ compaction.step = "uploaded"
              /\ \E o \in uq.files : /\ o.name.kind = "image"
                                     /\ LatestIndex.files = uq.files \ {o}

\* Once the deletion of the timeline was acknowledged it cannot come back:
\* delete_all says "We will delete the current index_part object last", so
\* the index with the deleted flag is the newest as long as there is one.
DeletedStaysDeleted ==
    deleteAcked => LatestIndex.deleted

\* RemoteTimelineClient::shutdown returns.
ShutdownReturns ==
    (tenant = "draining") ~> (tenant # "draining")

\* wait_completion returns, with or without success.
WaiterReturns ==
    Waiting ~> ~Waiting
=============================================================================
