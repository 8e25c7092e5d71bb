---------------------------- MODULE LayerResidency ----------------------------
(***************************************************************************)
(* One layer of the pageserver, its file on the local disk, and the tasks  *)
(* that read, download and evict it at the same time: LayerInner in        *)
(* tenant/storage_layer/layer.rs over OnceCell in heavier_once_cell.rs.    *)
(*                                                                         *)
(* The cell holds the layer's residence.  It is initialized by whoever     *)
(* gets the only permit of its semaphore.  De-initialization puts a new    *)
(* semaphore in place; tasks may still wait on an older one.  A step is    *)
(* what a task does from one await, lock or system call to the next.       *)
(***************************************************************************)
EXTENDS Integers, Sequences, FiniteSets

CONSTANTS
    Readers,          \* calls of get_or_maybe_download
    Evictors          \* calls of evict_and_wait

ASSUME CallsAssumption ==
    /\ IsFiniteSet(Readers)
    /\ Readers \cap Evictors = {}
    /\ "cell" \notin Readers \cup Evictors

VARIABLES
    sems,             \* the semaphores so far; the last one is the cell's
    value,            \* the cell: nothing, resident, or wanted evicted
    version,          \* of the last download attempt
    wanted_evicted, wanted_deleted,
    file,             \* is the layer file there
    reader,           \* where a call is, its semaphore and its version
    download,         \* the download task a call has spawned
    evictor,          \* where a call is, and what its receiver holds
    dropping,         \* DownloadedLayers, by version, whose drop is under way
    jobs,             \* queued evictions, by version
    evicting          \* evictions that have the permit

vars == <<sems, value, version, wanted_evicted, wanted_deleted, file, reader, download,
          evictor, dropping, jobs, evicting>>

Nothing == [is |-> "nothing", version |-> 0]
Resident(v) == [is |-> "resident", version |-> v]
WantedEvicted(v) == [is |-> "wanted", version |-> v]

NoReader(at) == [at |-> at, sem |-> 0, version |-> 0]
NoEvictor(at) == [at |-> at, inbox |-> "empty", version |-> 0]

(* Layer::for_resident and Layer::for_evicted.                             *)
Init ==
    \E there \in BOOLEAN :
        /\ sems = <<[permits |-> 1, closed |-> there]>>
        /\ value = IF there THEN Resident(0) ELSE Nothing
        /\ file = there
        /\ version = 0
        /\ wanted_evicted = FALSE
        /\ wanted_deleted = FALSE
        /\ reader = [r \in Readers |-> NoReader("call")]
        /\ download = [r \in Readers |-> "none"]
        /\ evictor = [e \in Evictors |-> NoEvictor("call")]
        /\ dropping = {}
        /\ jobs = {}
        /\ evicting = {}

-----------------------------------------------------------------------------
(* OnceCell, semaphores, references and the status channel.                *)

Current == Len(sems)

(* Mutant: the permit is not taken along.                                  *)
DeinitWithPermit == Append(sems, [permits |-> 1, closed |-> FALSE])

(* Guard::take_and_deinit: a new semaphore whose permit the caller has.    *)
take_and_deinit == Append(sems, [permits |-> 0, closed |-> FALSE])

(* Mutant: the permit is lost.                                             *)
Leaked(n) == sems

(* Drop of an InitPermit.                                                  *)
Returned(n) == [sems EXCEPT ![n].permits = @ + 1]

(* Who has an Arc<DownloadedLayer> of this version.                        *)
Holders(v) ==
    {r \in Readers : reader[r].at = "read" /\ reader[r].version = v}
        \cup {e \in Evictors : evictor[e].at = "drop" /\ evictor[e].version = v}
        \cup {c \in {"cell"} : value = Resident(v)}

(* The status channel holds one message; a receiver that misses one lags.  *)
Sent(status) ==
    [e \in Evictors |->
        IF evictor[e].at \in {"subscribed", "drop", "wait"}
        THEN [evictor[e] EXCEPT !.inbox = IF @ = "empty" THEN status ELSE "lagged"]
        ELSE evictor[e]]

(* Dropping the last reference starts the drop of the DownloadedLayer.     *)
DroppedBy(holder, v) == IF Holders(v) = {holder} THEN dropping \cup {v} ELSE dropping

Moved(r, at) == [reader EXCEPT ![r].at = at]

Finished(r) == [reader EXCEPT ![r] = NoReader("done")]

-----------------------------------------------------------------------------
(* get_or_maybe_download.                                                  *)

(* The beginning of an attempt to initialize, with the permit of           *)
(* semaphore n: it bumps the version and fails the evictions that wait.    *)
BeginInit(r, n) ==
    /\ version' = version + 1
    /\ evictor' = Sent("Downloaded")
    /\ reader' = [reader EXCEPT ![r] = [at |-> "stat", sem |-> n, version |-> version + 1]]

(* Mutant: whoever waits for the eviction is not told.                     *)
UpgradedSilently ==
    /\ value' = Resident(value.version)
    /\ wanted_evicted' = FALSE
    /\ evictor' = evictor

(* "upgraded back": an access wins over an eviction that was asked for.    *)
UpgradedBack ==
    /\ value' = Resident(value.version)
    /\ wanted_evicted' = FALSE
    /\ evictor' = Sent("Downloaded")

(* With the guard of an initialized cell.                                  *)
GetAndUpgrade(r) ==
    /\ IF value.is = "resident" \/ Holders(value.version) # {}
       THEN /\ reader' = [reader EXCEPT ![r].at = "read", ![r].version = value.version]
            /\ IF value.is = "wanted" THEN UpgradedBack
               ELSE UNCHANGED <<value, wanted_evicted, evictor>>
            /\ UNCHANGED <<sems, version>>
       ELSE /\ value' = Nothing
            /\ sems' = take_and_deinit
            /\ BeginInit(r, Current + 1)
            /\ UNCHANGED wanted_evicted
    /\ UNCHANGED <<wanted_deleted, file, download, dropping, jobs, evicting>>

GetOrInit(r) ==
    /\ reader[r].at \in {"call", "again"}
    /\ IF value # Nothing THEN GetAndUpgrade(r)
       ELSE /\ reader' = [reader EXCEPT ![r].at = "wait", ![r].sem = Current]
            /\ UNCHANGED <<sems, value, version, wanted_evicted, wanted_deleted, file,
                           download, evictor, dropping, jobs, evicting>>

Acquire(r) ==
    LET n == reader[r].sem
    IN  /\ reader[r].at = "wait"
        /\ ~sems[n].closed
        /\ sems[n].permits > 0
        /\ sems' = [sems EXCEPT ![n].permits = @ - 1]
        /\ BeginInit(r, n)
        /\ UNCHANGED <<value, wanted_evicted, wanted_deleted, file, download, dropping, jobs,
                       evicting>>

(* Mutant: a closed semaphore is taken to be the cell's.                   *)
NeverReplaced(r) == FALSE

(* Arc::ptr_eq: "there was a take_and_deinit in between".                  *)
Replaced(r) == reader[r].sem # Current

(* acquire fails on a closed semaphore.                                    *)
AcquireClosed(r) ==
    /\ reader[r].at = "wait"
    /\ sems[reader[r].sem].closed
    /\ IF Replaced(r)
       THEN /\ reader' = Moved(r, "again")
            /\ UNCHANGED <<sems, value, version, wanted_evicted, wanted_deleted, file,
                           download, evictor, dropping, jobs, evicting>>
       ELSE value # Nothing /\ GetAndUpgrade(r)

(* needs_download, and what follows: the file is there, or a task is       *)
(* spawned to download it, or that is not allowed.                         *)
NeedsDownload(r) ==
    /\ reader[r].at = "stat"
    /\ \/ /\ file
          /\ reader' = Moved(r, "set")
          /\ UNCHANGED <<sems, wanted_evicted, download>>
       \/ /\ ~file
          /\ wanted_evicted' = FALSE
          /\ reader' = Moved(r, "rx")
          /\ download' = [download EXCEPT ![r] = "running"]
          /\ UNCHANGED sems
       \/ /\ ~file
          /\ wanted_evicted' = FALSE
          /\ reader' = Finished(r)
          /\ sems' = Returned(reader[r].sem)
          /\ UNCHANGED download
    /\ UNCHANGED <<value, version, wanted_deleted, file, evictor, dropping, jobs, evicting>>

(* The download task has the permit, whether or not its caller waits.    *)
DownloadEnds(r) ==
    /\ download[r] = "running"
    /\ \E result \in {"ok", "failed"} :
          /\ download' = [download EXCEPT ![r] = result]
          /\ file' = (file \/ result = "ok")
    /\ UNCHANGED <<sems, value, version, wanted_evicted, wanted_deleted, reader, evictor,
                   dropping, jobs, evicting>>

(* ... and sends it, with the result, to the caller, or returns it.        *)
DownloadSends(r) ==
    /\ download[r] \in {"ok", "failed"}
    /\ IF reader[r].at = "rx"
       THEN /\ download' = [download EXCEPT ![r] = IF @ = "ok" THEN "sent" ELSE "error"]
            /\ UNCHANGED sems
       ELSE /\ download' = [download EXCEPT ![r] = "none"]
            /\ sems' = Returned(reader[r].sem)
    /\ UNCHANGED <<value, version, wanted_evicted, wanted_deleted, file, reader, evictor,
                   dropping, jobs, evicting>>

Received(r) ==
    /\ reader[r].at = "rx"
    /\ \/ download[r] = "sent" /\ file /\ reader' = Moved(r, "set") /\ UNCHANGED sems
       \/ /\ download[r] = "error"
          /\ reader' = Finished(r)
          /\ sems' = Returned(reader[r].sem)
    /\ download' = [download EXCEPT ![r] = "none"]
    /\ UNCHANGED <<value, version, wanted_evicted, wanted_deleted, file, evictor, dropping,
                   jobs, evicting>>

(* OnceCell::set0: the cell's semaphore is closed, then the permit         *)
(* returned; the caller gets its reference under the same lock.            *)
Set(r) ==
    /\ reader[r].at = "set"
    /\ value = Nothing
    /\ value' = Resident(reader[r].version)
    /\ sems' = [Returned(reader[r].sem) EXCEPT ![Current].closed = TRUE]
    /\ reader' = Moved(r, "read")
    /\ UNCHANGED <<version, wanted_evicted, wanted_deleted, file, download, evictor, dropping,
                   jobs, evicting>>

(* Mutant: the caller's permit goes with the caller, although the download *)
(* task has it.                                                            *)
PermitIsReaders(r) == TRUE

(* What a cancelled future owns is the permit until the download task has  *)
(* it, and again once it is in the channel.                                *)
OwnsPermit(r) ==
    \/ reader[r].at = "stat"
    \/ reader[r].at = "rx" /\ download[r] \in {"sent", "error"}

(* The future is dropped at one of its awaits.                             *)
Cancel(r) ==
    /\ reader[r].at \in {"wait", "stat", "rx"}
    /\ reader' = IF download[r] \in {"running", "ok", "failed"} THEN Moved(r, "done")
                 ELSE Finished(r)
    /\ sems' = IF reader[r].at # "wait" /\ OwnsPermit(r) THEN Returned(reader[r].sem) ELSE sems
    /\ download' = [download EXCEPT ![r] = IF @ \in {"sent", "error"} THEN "none" ELSE @]
    /\ UNCHANGED <<value, version, wanted_evicted, wanted_deleted, file, evictor, dropping,
                   jobs, evicting>>

(* The read is over.                                                       *)
DropReference(r) ==
    /\ reader[r].at = "read"
    /\ reader' = Finished(r)
    /\ dropping' = DroppedBy(r, reader[r].version)
    /\ UNCHANGED <<sems, value, version, wanted_evicted, wanted_deleted, file, download,
                   evictor, jobs, evicting>>

-----------------------------------------------------------------------------
(* Eviction.                                                               *)

Subscribe(e) ==
    /\ evictor[e].at = "call"
    /\ evictor' = [evictor EXCEPT ![e].at = "subscribed"]
    /\ UNCHANGED <<sems, value, version, wanted_evicted, wanted_deleted, file, reader,
                   download, dropping, jobs, evicting>>

(* evict_and_wait asks for eviction, under the lock; the reference that a  *)
(* resident cell had is dropped after it.                                  *)
Downgrade(e) ==
    /\ evictor[e].at = "subscribed"
    /\ IF value = Nothing
       THEN /\ evictor' = [evictor EXCEPT ![e] = NoEvictor("done")]
            /\ UNCHANGED <<value, wanted_evicted>>
       ELSE /\ wanted_evicted' = TRUE
            /\ value' = WantedEvicted(value.version)
            /\ evictor' = IF value.is = "resident"
                          THEN [evictor EXCEPT ![e].at = "drop", ![e].version = value.version]
                          ELSE [evictor EXCEPT ![e].at = "wait"]
    /\ UNCHANGED <<sems, version, wanted_deleted, file, reader, download, dropping, jobs,
                   evicting>>

DropDowngraded(e) ==
    /\ evictor[e].at = "drop"
    /\ evictor' = [evictor EXCEPT ![e].at = "wait", ![e].version = 0]
    /\ dropping' = DroppedBy(e, evictor[e].version)
    /\ UNCHANGED <<sems, value, version, wanted_evicted, wanted_deleted, file, reader,
                   download, jobs, evicting>>

(* What was received is Ok, Err(Downloaded) or, of a receiver that lags,   *)
(* one of the two after another look at the cell.                          *)
Recv(e) ==
    /\ evictor[e].at = "wait"
    /\ evictor[e].inbox # "empty"
    /\ evictor' = [evictor EXCEPT ![e] = NoEvictor("done")]
    /\ UNCHANGED <<sems, value, version, wanted_evicted, wanted_deleted, file, reader,
                   download, dropping, jobs, evicting>>

(* on_downloaded_layer_drop queues the eviction.                           *)
OnDownloadedLayerDrop(v) ==
    /\ v \in dropping
    /\ dropping' = dropping \ {v}
    /\ jobs' = IF ~wanted_deleted /\ wanted_evicted THEN jobs \cup {v} ELSE jobs
    /\ UNCHANGED <<sems, value, version, wanted_evicted, wanted_deleted, file, reader,
                   download, evictor, evicting>>

(* Mutant: any version that is wanted evicted will do.                     *)
EvictsAny(v) == value.is = "wanted"

EvictsVersion(v) == value = WantedEvicted(v)

(* evict_blocking takes the cell's value, and the permit.                  *)
EvictBegins(v) ==
    /\ v \in jobs
    /\ jobs' = jobs \ {v}
    /\ IF EvictsVersion(v)
       THEN /\ value' = Nothing
            /\ sems' = take_and_deinit
            /\ evicting' = evicting \cup {[sem |-> Current + 1, removed |-> FALSE]}
       ELSE UNCHANGED <<value, sems, evicting>>
    /\ UNCHANGED <<version, wanted_evicted, wanted_deleted, file, reader, download, evictor,
                   dropping>>

(* The file is removed, or that fails.                                     *)
EvictRemoves(j) ==
    /\ ~j.removed
    /\ evicting' = (evicting \ {j}) \cup {[j EXCEPT !.removed = TRUE]}
    /\ file' \in {FALSE, file}
    /\ UNCHANGED <<sems, value, version, wanted_evicted, wanted_deleted, reader, download,
                   evictor, dropping, jobs>>

EvictEnds(j) ==
    /\ j.removed
    /\ evicting' = evicting \ {j}
    /\ evictor' = Sent("Evicted")
    /\ sems' = Returned(j.sem)
    /\ UNCHANGED <<value, version, wanted_evicted, wanted_deleted, file, reader, download,
                   dropping, jobs>>

DeleteOnDrop ==
    /\ ~wanted_deleted
    /\ wanted_deleted' = TRUE
    /\ UNCHANGED <<sems, value, version, wanted_evicted, file, reader, download, evictor,
                   dropping, jobs, evicting>>

-----------------------------------------------------------------------------
ReaderStep(r) ==
    \/ Acquire(r) \/ AcquireClosed(r) \/ NeedsDownload(r)
    \/ reader[r].at = "again" /\ GetOrInit(r)
    \/ DownloadEnds(r) \/ DownloadSends(r) \/ Received(r) \/ Set(r) \/ DropReference(r)

EvictorStep(e) == Downgrade(e) \/ DropDowngraded(e) \/ Recv(e)

Versions == 0 .. Cardinality(Readers)

JobStep ==
    \/ \E v \in Versions : OnDownloadedLayerDrop(v) \/ EvictBegins(v)
    \/ \E j \in evicting : EvictRemoves(j) \/ EvictEnds(j)

Next ==
    \/ \E r \in Readers : GetOrInit(r) \/ ReaderStep(r) \/ Cancel(r)
    \/ \E e \in Evictors : Subscribe(e) \/ EvictorStep(e)
    \/ JobStep
    \/ DeleteOnDrop

Spec == Init /\ [][Next]_vars

(* Tasks that can run are run, by the runtime and its threads; downloads   *)
(* and reads end.  Nobody has to call.                                     *)
Fairness ==
    /\ \A r \in Readers : WF_vars(ReaderStep(r))
    /\ \A e \in Evictors : WF_vars(EvictorStep(e))
    /\ WF_vars(JobStep)

FairSpec == Spec /\ Fairness

-----------------------------------------------------------------------------
(* Properties.                                                             *)

Semaphore == [permits : 0 .. 1, closed : BOOLEAN]

ReaderState(n) ==
    [at : {"call", "again", "wait", "stat", "rx", "set", "read", "done"},
     sem : 0 .. n, version : Versions]

EvictorState ==
    [at : {"call", "subscribed", "drop", "wait", "done"},
     inbox : {"empty", "Evicted", "Downloaded", "lagged"}, version : Versions]

TypeOK ==
    /\ sems \in Seq(Semaphore)
    /\ value \in [is : {"nothing", "resident", "wanted"}, version : Versions]
    /\ version \in Versions
    /\ wanted_evicted \in BOOLEAN /\ wanted_deleted \in BOOLEAN /\ file \in BOOLEAN
    /\ reader \in [Readers -> ReaderState(Current)]
    /\ download \in [Readers -> {"none", "running", "ok", "failed", "sent", "error"}]
    /\ evictor \in [Evictors -> EvictorState]
    /\ dropping \subseteq Versions /\ jobs \subseteq Versions
    /\ evicting \subseteq [sem : 1 .. Current, removed : BOOLEAN]

(* "Existence of `DownloadedLayer` means that we have the file locally":   *)
(* no eviction, however late it runs, removes the file from under a reader *)
(* of this or of a later download.                                         *)
ResidentHasFile ==
    /\ value.is = "resident" => file
    /\ \A r \in Readers : reader[r].at \in {"read", "set"} => file

(* "at most one is executed at the time": two downloads, or a download and *)
(* an eviction, never work on the file together, although a download       *)
(* outlives the call that started it.                                      *)
OneAtATime ==
    Cardinality({r \in Readers : download[r] \in {"running", "ok", "failed"}})
        + Cardinality(evicting) <= 1

(* The assertions of the cell and of its users: "permit is of wrong        *)
(* origin", "we won permit, must not be initialized", "semaphore got       *)
(* closed, must be initialized", and that a download leaves a file.        *)
AssertionsHold ==
    \A r \in Readers :
        /\ reader[r].at = "set" => value = Nothing /\ sems[Current].permits = 0
        /\ reader[r].at = "wait" /\ sems[reader[r].sem].closed /\ ~Replaced(r)
               => value # Nothing
        /\ reader[r].at = "rx" /\ download[r] = "sent" => file

(* Every access gets the layer or an error, whatever was cancelled before  *)
(* it: no permit is lost and no wakeup missed.                             *)
AccessReturns ==
    \A r \in Readers : reader[r].at # "call" ~> reader[r].at = "done"

(* Every evict_and_wait learns how it ended, unless the layer is deleted   *)
(* meanwhile.                                                              *)
EvictionReturns ==
    \A e \in Evictors :
        evictor[e].at = "wait" ~> (evictor[e].at = "done" \/ wanted_deleted)

=============================================================================
