----------------------------- MODULE UploadQueue -----------------------------
(***************************************************************************)
(* The upload queue of a timeline (pageserver/src/tenant/upload_queue.rs)  *)
(* and what the schedule_* functions of RemoteTimelineClient do to it      *)
(* while they hold its lock.  Everything here is a function of the queue:  *)
(* RemoteTimeline composes these into the actions of the tasks that call   *)
(* them.                                                                   *)
(*                                                                         *)
(* An object is a layer's name and the generation it was uploaded in, both *)
(* of which are part of its key in object storage.  latest_files maps a    *)
(* name to its metadata; here it is a set of objects, one for each name.   *)
(***************************************************************************)
EXTENDS Integers, Sequences

\* TimelineMetadata: disk_consistent_lsn and latest_gc_cutoff_lsn.
Meta(lsn, cutoff) == [lsn |-> lsn, cutoff |-> cutoff]

\* UploadOp.  waited tells the barrier of wait_completion, whose caller
\* holds the receiver, from that of schedule_barrier.
Op(type, objs, meta, waited) ==
    [type |-> type, objs |-> objs, meta |-> meta, waited |-> waited]

LayerOp(o) == Op("layer", {o}, Meta(0, 0), FALSE)
IndexOp(files, meta) == Op("index", files, meta, FALSE)
DeleteOp(objs) == Op("delete", objs, Meta(0, 0), FALSE)
BarrierOp(waited) == Op("barrier", {}, Meta(0, 0), waited)
ShutdownOp == Op("shutdown", {}, Meta(0, 0), FALSE)

\* UploadQueue: state tells Uninitialized, Initialized and Stopped apart;
\* changes is latest_files_changes_since_metadata_upload_scheduled > 0.
Uninitialized ==
    [state |-> "Uninitialized", files |-> {}, changes |-> FALSE,
     meta |-> Meta(0, 0), queued |-> << >>, shuttingDown |-> FALSE]

\* Mutant: the metadata of the index is not taken over.
InitializedWithoutMeta(files, meta) ==
    [Uninitialized EXCEPT !.state = "Initialized", !.files = files]

\* initialize_with_current_remote_index_part.
Initialized(files, meta) ==
    [Uninitialized EXCEPT !.state = "Initialized", !.files = files, !.meta = meta]

\* initialized_mut() returns Ok.
Usable(q) == q.state = "Initialized" /\ ~q.shuttingDown

(***************************************************************************)
(* Scheduling.  None of these launches what it has queued.                 *)
(***************************************************************************)
ScheduleIndexUpload(q) ==
    [q EXCEPT !.queued = Append(@, IndexOp(q.files, q.meta)), !.changes = FALSE]

ScheduleIndexUploadForMetadataUpdate(q, meta) ==
    ScheduleIndexUpload([q EXCEPT !.meta = meta])

ScheduleIndexUploadForFileChanges(q) ==
    IF q.changes THEN ScheduleIndexUpload(q) ELSE q

ScheduleLayerFileUpload0(q, o) ==
    [q EXCEPT !.files = {f \in @ : f.name # o.name} \cup {o},
              !.changes = TRUE,
              !.queued = Append(@, LayerOp(o))]

\* What latest_files knows of the given layers: the value that
\* schedule_unlinking_of_layers_from_index_part0 returns.
Unlinked(q, objs) == {f \in q.files : \E o \in objs : o.name = f.name}

ScheduleUnlinking0(q, objs) ==
    ScheduleIndexUploadForFileChanges(
        [q EXCEPT !.files = @ \ Unlinked(q, objs),
                  !.changes = @ \/ Unlinked(q, objs) # {}])

ScheduleDeletionOfUnlinked0(q, objs) ==
    IF objs = {} THEN q ELSE [q EXCEPT !.queued = Append(@, DeleteOp(objs))]

ScheduleLayerFileDeletion(q, objs) ==
    ScheduleDeletionOfUnlinked0(ScheduleUnlinking0(q, objs), Unlinked(q, objs))

ScheduleCompactionUpdate(q, compactedFrom, compactedTo) ==
    ScheduleUnlinking0(ScheduleLayerFileUpload0(q, compactedTo), compactedFrom)

ScheduleBarrier0(q, waited) == [q EXCEPT !.queued = Append(@, BarrierOp(waited))]

ScheduleShutdown(q) ==
    [q EXCEPT !.shuttingDown = TRUE, !.queued = Append(@, ShutdownOp)]

\* Mutant: queued operations are not dropped.
StoppedWithQueue(q) ==
    [q EXCEPT !.state = "Stopped", !.changes = FALSE, !.shuttingDown = FALSE]

\* stop(): what remains is upload_queue_for_deletion.
Stopped(q) ==
    IF q.state = "Stopped" THEN q
    ELSE [q EXCEPT !.state = "Stopped", !.changes = FALSE, !.queued = << >>,
                   !.shuttingDown = FALSE]

(***************************************************************************)
(* launch_queued_tasks.  inProgress is the set of the kinds of tasks in    *)
(* progress.                                                               *)
(***************************************************************************)

\* The kinds of the operations that are in progress once the first n queued
\* ones are launched.  A barrier is over as soon as it is reached.
KindsAfter(queued, inProgress, n) ==
    inProgress \cup ({queued[i].type : i \in 1..n} \ {"barrier"})

\* Mutants: one kind of operation does not wait for those before it.
CanRunNowIndexAtOnce(queued, inProgress, i) ==
    LET before == KindsAfter(queued, inProgress, i - 1)
    IN CASE queued[i].type \in {"layer", "index"} -> TRUE
         [] queued[i].type = "delete" -> before \subseteq {"delete"}
         [] OTHER -> before = {}

CanRunNowDeleteAtOnce(queued, inProgress, i) ==
    LET before == KindsAfter(queued, inProgress, i - 1)
    IN CASE queued[i].type \in {"layer", "delete"} -> TRUE
         [] OTHER -> before = {}

CanRunNowBarrierAtOnce(queued, inProgress, i) ==
    LET before == KindsAfter(queued, inProgress, i - 1)
    IN CASE queued[i].type \in {"layer", "barrier"} -> TRUE
         [] queued[i].type = "delete" -> before \subseteq {"delete"}
         [] OTHER -> before = {}

\* can_run_now for the operation at position i, when all before it run.
CanRunNow(queued, inProgress, i) ==
    LET before == KindsAfter(queued, inProgress, i - 1)
    IN CASE queued[i].type = "layer" -> TRUE
         [] queued[i].type = "delete" -> before \subseteq {"delete"}
         [] OTHER -> before = {}

\* The shutdown operation is never taken off the queue.
Launches(queued, inProgress, i) ==
    CanRunNow(queued, inProgress, i) /\ queued[i].type # "shutdown"

\* How many operations the loop takes off the queue.
LaunchCount(queued, inProgress) ==
    CHOOSE n \in 0..Len(queued) :
        /\ \A i \in 1..n : Launches(queued, inProgress, i)
        /\ n < Len(queued) => ~Launches(queued, inProgress, n + 1)

\* How many of the first n are barriers.  They come first: a barrier waits
\* for all before it, and is over as soon as it is reached.
BarriersAmong(queued, n) ==
    CHOOSE b \in 0..n :
        /\ \A i \in 1..b : queued[i].type = "barrier"
        /\ b < n => queued[b + 1].type # "barrier"

\* Mutants: the loop does not wait for what is in progress; it looks for an
\* empty queue.
ReachesShutdownAtOnce(queued, inProgress) ==
    LET n == LaunchCount(queued, inProgress)
    IN n < Len(queued) /\ queued[n + 1].type = "shutdown"

ReachesShutdownWhenEmpty(queued, inProgress) ==
    LaunchCount(queued, inProgress) = Len(queued) /\ \E i \in DOMAIN queued : queued[i].type = "shutdown"

\* The loop has reached the shutdown operation: it closes shutdown_ready.
ReachesShutdown(queued, inProgress) ==
    LET n == LaunchCount(queued, inProgress)
    IN /\ n < Len(queued)
       /\ queued[n + 1].type = "shutdown"
       /\ CanRunNow(queued, inProgress, n + 1)
=============================================================================
