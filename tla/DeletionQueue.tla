---------------------------- MODULE DeletionQueue ----------------------------
(***************************************************************************)
(* Pageservers that hold one tenant, one after another or several at once, *)
(* each in the generation the attachment service issued to it, and the     *)
(* deletion queue of each: ListWriter, Validator and Deleter, the lists    *)
(* and the header they keep on local disk, and recovery of these after a   *)
(* restart (pageserver/src/deletion_queue).                                *)
(*                                                                         *)
(* The tenant has one timeline.  Every upload writes one layer, which is   *)
(* added to those of the index or replaces them all; the key of a layer is *)
(* the generation that wrote it with the LSN it reaches.                   *)
(***************************************************************************)
EXTENDS AttachmentService, TLC

CONSTANTS
    MaxUploads,       \* bound on the uploads of all pageservers together
    MaxCrashes,       \* bound on crashes of pageservers
    MaxFailures       \* bound on failed writes of lists and headers

ASSUME QueueAssumption ==
    MaxUploads \in Nat /\ MaxCrashes \in Nat /\ MaxFailures \in Nat

VARIABLES
    index,            \* per generation, the index_part in object storage
    objects,          \* the layers in object storage
    visible,          \* the highest remote_consistent_lsn a validation has
                      \* made visible to safekeepers
    ps,               \* per pageserver, what it keeps in memory
    disk,             \* per pageserver, the deletion directory
    uploads, crashes, failures

storageVars == <<index, objects, visible>>
bounds == <<uploads, crashes, failures>>
vars == <<serviceVars, storageVars, ps, disk, bounds>>

Generations == 1 .. MaxGeneration + MaxCrashes
Object == Generations \X (0 .. MaxUploads)
IndexPart == [layers : SUBSET Object, lsn : 0 .. MaxUploads]
NoIndex == [layers |-> {}, lsn |-> 0]

FirstIndex == [layers |-> {<<1, 0>>}, lsn |-> 0]

(* A DeletionList: only the entry of this tenant.  Lists are queued in the *)
(* order of their sequence numbers, so that a queue of them is a set.      *)
DeletionList(s, g, objs) ==
    [sequence |-> s, generation |-> g, objects |-> objs, validated |-> FALSE]

LastOf(lists) == CHOOSE l \in lists : \A k \in lists : k.sequence <= l.sequence

NoUpdate == [generation |-> 0, lsn |-> 0]

(* Validator: between two calls of flush it only keeps list_write_failed.  *)
IdleValidator(failed) ==
    [at |-> "idle", pending |-> {}, validated |-> {}, asked |-> 0,
     update |-> NoUpdate, valid |-> FALSE, writeFailed |-> failed]

Down ==
    [state |-> "down", generation |-> 0, part |-> NoIndex,
     pending |-> DeletionList(1, 0, {}), channel |-> {},
     lsnTable |-> NoUpdate, validator |-> IdleValidator(FALSE)]

Init ==
    /\ ServiceInit
    /\ index = [g \in Generations |-> IF g = 1 THEN FirstIndex ELSE NoIndex]
    /\ objects = FirstIndex.layers
    /\ visible = 0
    /\ ps = [p \in Pageservers |->
                IF p = row.node
                THEN [Down EXCEPT !.state = "up", !.generation = 1, !.part = FirstIndex]
                ELSE [Down EXCEPT !.state = "up"]]
    /\ disk = [p \in Pageservers |-> [lists |-> {}, header |-> 0]]
    /\ uploads = 0
    /\ crashes = 0
    /\ failures = 0

Up(p) == ps[p].state = "up"
Holds(p) == Up(p) /\ ps[p].generation # 0

-----------------------------------------------------------------------------
(* Loading and uploading.                                                  *)

(* download_index_part: the index of the highest generation that is not    *)
(* above the tenant's own.                                                 *)
download_index_part(g) ==
    index[Max({h \in Generations : h <= g /\ index[h] # NoIndex})]

(* A tenant object starts in generation g from the index it finds.         *)
Attached(slot, g) ==
    [slot EXCEPT !.generation = g, !.part = download_index_part(g)]

(* upsert_location on a request of the control plane: an attachment in a   *)
(* higher generation replaces the present one, one in a lower generation   *)
(* is refused.                                                             *)
upsert_location(p) ==
    \E r \in requests :
        /\ r.node = p
        /\ Up(p)
        /\ requests' = requests \ {r}
        /\ IF r.generation > ps[p].generation
           THEN ps' = [ps EXCEPT ![p] = Attached(@, r.generation)]
           ELSE UNCHANGED ps
        /\ UNCHANGED <<row, generation, op, index, objects, visible, disk, bounds>>

(* A request to a pageserver that is down fails.                           *)
RequestFails(p) ==
    \E r \in requests :
        /\ r.node = p
        /\ ~Up(p)
        /\ requests' = requests \ {r}
        /\ UNCHANGED <<row, generation, op, storageVars, ps, disk, bounds>>

(* The reconciler detaches a pageserver that is not to hold the tenant any *)
(* more.                                                                   *)
DetachTenant(p) ==
    /\ Holds(p)
    /\ row.node # p
    /\ ps' = [ps EXCEPT ![p].generation = 0, ![p].part = NoIndex]
    /\ UNCHANGED <<serviceVars, storageVars, disk, bounds>>

-----------------------------------------------------------------------------
(* ListWriter.                                                             *)

(* The pending list is saved and sent to the Validator; the next one has   *)
(* the next sequence number.                                               *)
Flushed(slot) ==
    [slot EXCEPT !.channel = @ \cup {slot.pending},
                 !.pending = DeletionList(slot.pending.sequence + 1, 0, {})]

(* DeletionList::push: a list holds one generation of a tenant.            *)
Accepts(list, g) == list.objects = {} \/ list.generation = g

Pushed(slot, objs) ==
    [slot EXCEPT !.pending.generation = slot.generation,
                 !.pending.objects = @ \cup objs]

(* A push of another generation makes the writer flush first; when that    *)
(* fails the push is dropped and the objects leak.                         *)
push_layers(p, slot, objs) ==
    \/ /\ Accepts(slot.pending, slot.generation)
       /\ ps' = [ps EXCEPT ![p] = Pushed(slot, objs)]
       /\ UNCHANGED <<disk, failures>>
    \/ /\ ~Accepts(slot.pending, slot.generation)
       /\ ps' = [ps EXCEPT ![p] = Pushed(Flushed(slot), objs)]
       /\ disk' = [disk EXCEPT ![p].lists = @ \cup {slot.pending}]
       /\ UNCHANGED failures
    \/ /\ ~Accepts(slot.pending, slot.generation)
       /\ failures < MaxFailures
       /\ failures' = failures + 1
       /\ ps' = [ps EXCEPT ![p] = slot]
       /\ UNCHANGED disk

(* A layer and then the index that names it are uploaded, with or without  *)
(* the layers that were there.  The new remote_consistent_lsn goes to the  *)
(* table of updates that wait for validation, the layers no longer named   *)
(* go to the list writer.                                                  *)
UploadIndex(p) ==
    LET g == ps[p].generation
        old == ps[p].part
        layer == <<g, old.lsn + 1>>
    IN  /\ Holds(p)
        /\ uploads < MaxUploads
        /\ uploads' = uploads + 1
        /\ objects' = objects \cup {layer}
        /\ \E kept \in {{}, old.layers} :
            LET part == [layers |-> kept \cup {layer}, lsn |-> old.lsn + 1]
                slot == [ps[p] EXCEPT !.part = part,
                                      !.lsnTable = [generation |-> g, lsn |-> part.lsn]]
            IN  /\ index' = [index EXCEPT ![g] = part]
                /\ IF kept = {}
                   THEN push_layers(p, slot, old.layers)
                   ELSE ps' = [ps EXCEPT ![p] = slot] /\ UNCHANGED <<disk, failures>>
        /\ UNCHANGED <<serviceVars, visible, crashes>>

(* ListWriter::flush, at its deadline or on request.                       *)
FlushList(p) ==
    /\ Up(p)
    /\ ps[p].pending.objects # {}
    /\ disk' = [disk EXCEPT ![p].lists = @ \cup {ps[p].pending}]
    /\ ps' = [ps EXCEPT ![p] = Flushed(@)]
    /\ UNCHANGED <<serviceVars, storageVars, bounds>>

-----------------------------------------------------------------------------
(* Validator::flush.                                                       *)

(* The generation to ask for: that of the last list, or a higher one of    *)
(* the LSN update.                                                         *)
TenantGeneration(lists, update) ==
    Max({update.generation, IF lists = {} THEN 0 ELSE LastOf(lists).generation})

(* The lists that have arrived are received, pre-validated ones for        *)
(* execution, the others for validation; the LSN table is taken.  The      *)
(* control plane is asked only if there is something to ask for.           *)
ValidatorFlush(p) ==
    LET slot == ps[p]
        pending == {l \in slot.channel : ~l.validated}
        validated == {l \in slot.channel : l.validated}
        asked == TenantGeneration(pending, slot.lsnTable)
    IN  /\ Up(p)
        /\ slot.validator.at = "idle"
        /\ asked # 0 \/ validated # {}
        /\ ps' = [ps EXCEPT
                    ![p].channel = {},
                    ![p].lsnTable = NoUpdate,
                    ![p].validator =
                        [@ EXCEPT !.at = IF asked # 0 THEN "asked" ELSE "execute",
                                  !.pending = pending, !.validated = validated,
                                  !.asked = asked, !.update = slot.lsnTable]]
        /\ UNCHANGED <<serviceVars, storageVars, disk, bounds>>

(* The control plane answers from its memory.                              *)
ValidateAnswer(p) ==
    /\ ps[p].validator.at = "asked"
    /\ ps' = [ps EXCEPT ![p].validator.at = "answered",
                        ![p].validator.valid = validate(ps[p].validator.asked)]
    /\ UNCHANGED <<serviceVars, storageVars, disk, bounds>>

(* Mutant: the answer is not looked at.                                    *)
LsnAlways(v) == v.update.generation = v.asked

(* Only an update of the generation that was asked for becomes visible.    *)
LsnValid(v) == v.valid /\ v.update.generation = v.asked

(* The answer is applied to the LSN update.                                *)
ApplyLsn(p) ==
    LET v == ps[p].validator
    IN  /\ v.at = "answered"
        /\ IF LsnValid(v)
           THEN visible' = Max({visible, v.update.lsn})
           ELSE UNCHANGED visible
        /\ ps' = [ps EXCEPT ![p].validator.at = "saving"]
        /\ UNCHANGED <<serviceVars, index, objects, disk, bounds>>

(* A list is valid if its generation is the one the answer is about.       *)
ListValid(l, v) == v.valid /\ l.generation = v.asked

KeptList(l, v) ==
    [l EXCEPT !.validated = TRUE, !.objects = IF ListValid(l, v) THEN @ ELSE {}]

(* ... and to the lists, one after the other.  One of another generation   *)
(* than the one validated loses its contents and is saved again; a failure *)
(* to save it is remembered.                                               *)
SaveList(p) ==
    LET v == ps[p].validator
    IN  \E l \in v.pending :
        /\ v.at = "saving"
        /\ ~l.validated
        /\ \A k \in v.pending : k.sequence < l.sequence => k.validated
        /\ \/ /\ ListValid(l, v)
              /\ UNCHANGED <<disk, failures>>
              /\ ps' = [ps EXCEPT ![p].validator.pending = (@ \ {l}) \cup {KeptList(l, v)}]
           \/ /\ ~ListValid(l, v)
              /\ disk' = [disk EXCEPT ![p].lists = {d \in @ : d.sequence # l.sequence}
                                                      \cup {KeptList(l, v)}]
              /\ UNCHANGED failures
              /\ ps' = [ps EXCEPT ![p].validator.pending = (@ \ {l}) \cup {KeptList(l, v)}]
           \/ /\ ~ListValid(l, v)
              /\ failures < MaxFailures
              /\ failures' = failures + 1
              /\ ps' = [ps EXCEPT ![p].validator.pending = (@ \ {l}) \cup {KeptList(l, v)},
                                  ![p].validator.writeFailed = TRUE]
              /\ UNCHANGED disk
        /\ UNCHANGED <<serviceVars, storageVars, uploads, crashes>>

Validated(v) ==
    LET lists == v.validated \cup v.pending
    IN  IF lists = {} THEN IdleValidator(v.writeFailed)
        ELSE [IdleValidator(v.writeFailed) EXCEPT !.at = "execute", !.validated = lists]

(* Mutant: the failed rewrite of a list does not hold the header back.     *)
HeaderAlways(v) == v.pending # {}

(* The header records how far validation has come, unless the rewrite of a *)
(* list has ever failed.                                                   *)
HeaderAllowed(v) == v.pending # {} /\ ~v.writeFailed

(* A failure to write it is ignored.                                       *)
SaveHeader(p) ==
    LET v == ps[p].validator
    IN  /\ v.at = "saving"
        /\ \A l \in v.pending : l.validated
        /\ \/ /\ HeaderAllowed(v)
              /\ disk' = [disk EXCEPT ![p].header = LastOf(v.pending).sequence]
              /\ UNCHANGED failures
           \/ /\ ~HeaderAllowed(v)
              /\ UNCHANGED <<disk, failures>>
           \/ /\ HeaderAllowed(v)
              /\ failures < MaxFailures
              /\ failures' = failures + 1
              /\ UNCHANGED disk
        /\ ps' = [ps EXCEPT ![p].validator = Validated(@)]
        /\ UNCHANGED <<serviceVars, storageVars, uploads, crashes>>

(* The Deleter executes the validated lists, however late, and answers     *)
(* when every object in them is gone.                                      *)
Execute(p) ==
    LET lists == ps[p].validator.validated
    IN  /\ ps[p].validator.at = "execute"
        /\ objects' = objects \ UNION {l.objects : l \in lists}
        /\ ps' = [ps EXCEPT ![p].validator.at = "cleanup"]
        /\ UNCHANGED <<serviceVars, index, visible, disk, bounds>>

(* Their files are removed one by one, in whatever order.                  *)
cleanup_lists(p) ==
    LET v == ps[p].validator
    IN  \E l \in v.validated :
        /\ v.at = "cleanup"
        /\ disk' = [disk EXCEPT ![p].lists = {d \in @ : d.sequence # l.sequence}]
        /\ ps' = [ps EXCEPT ![p].validator =
                     IF v.validated = {l} THEN IdleValidator(v.writeFailed)
                     ELSE [v EXCEPT !.validated = @ \ {l}]]
        /\ UNCHANGED <<serviceVars, storageVars, bounds>>

-----------------------------------------------------------------------------
(* Crash and recovery.                                                     *)

Crash(p) ==
    /\ ps[p].state # "down"
    /\ crashes < MaxCrashes
    /\ crashes' = crashes + 1
    /\ ps' = [ps EXCEPT ![p] = Down]
    /\ UNCHANGED <<serviceVars, storageVars, disk, uploads, failures>>

(* On startup the pageserver asks which tenants it holds: the service      *)
(* issues a new generation for each of them.                               *)
ReAttach(p) ==
    /\ ps[p].state = "down"
    /\ re_attach(p)
    /\ ps' = [ps EXCEPT ![p].state = "starting",
                        ![p].generation = IF row.node = p THEN row'.generation ELSE 0]
    /\ UNCHANGED <<storageVars, disk, bounds>>

(* Mutant: lists of any generation are taken over.                         *)
TakenOverList(l, header, g) ==
    IF l.sequence <= header THEN [l EXCEPT !.validated = TRUE]
    ELSE [l EXCEPT !.generation = IF g # 0 THEN g ELSE @]

(* recover: a list up to the header's sequence was validated; another one  *)
(* of the generation just before the one now attached is taken over.       *)
RecoveredList(l, header, g) ==
    IF l.sequence <= header THEN [l EXCEPT !.validated = TRUE]
    ELSE [l EXCEPT !.generation = IF @ = g - 1 THEN g ELSE @]

(* Mutants: the lists found on disk are not looked at; numbers begin at 0. *)
SequenceAfterHeader(d) == d.header + 1
SequenceFromHeader(d) == d.header

(* After everything validated and everything found.                        *)
NextSequence(d) == Max({d.header + 1} \cup {l.sequence + 1 : l \in d.lists})

Recovered(d, g) ==
    [Down EXCEPT
        !.state = "up",
        !.pending = DeletionList(NextSequence(d), 0, {}),
        !.channel = {RecoveredList(l, d.header, g) : l \in d.lists}]

ReAttachReply(p) ==
    LET g == ps[p].generation
    IN  /\ ps[p].state = "starting"
        /\ re_attach_reply(g)
        /\ ps' = [ps EXCEPT ![p] = IF g = 0 THEN Recovered(disk[p], 0)
                                   ELSE Attached(Recovered(disk[p], g), g)]
        /\ UNCHANGED <<index, objects, visible, disk, bounds>>

-----------------------------------------------------------------------------
StartAttach ==
    /\ \E n \in Pageservers : AttachHook(n) \/ Reconcile(n)
    /\ UNCHANGED <<storageVars, ps, disk, bounds>>

FinishAttach ==
    /\ AttachHookReply \/ process_result \/ RestartService
    /\ UNCHANGED <<storageVars, ps, disk, bounds>>

(* What the Validator does between two writes to its local disk touches    *)
(* nothing another component reads: nobody else moves meanwhile, but the   *)
(* pageserver may crash.                                                   *)
LocalStep(p) == SaveList(p) \/ SaveHeader(p) \/ cleanup_lists(p)

Quiet == \A p \in Pageservers : ps[p].validator.at \notin {"saving", "cleanup"}

RemoteStep(p) == ValidatorFlush(p) \/ ValidateAnswer(p) \/ ApplyLsn(p) \/ Execute(p)

Restart(p) == ReAttach(p) \/ ReAttachReply(p)

Next ==
    \/ \E p \in Pageservers : LocalStep(p) \/ Crash(p)
    \/ /\ Quiet
       /\ \/ StartAttach
          \/ FinishAttach
          \/ \E p \in Pageservers :
                \/ upsert_location(p) \/ RequestFails(p) \/ DetachTenant(p)
                \/ UploadIndex(p) \/ FlushList(p) \/ RemoteStep(p) \/ Restart(p)

Spec == Init /\ [][Next]_vars

(* What a pageserver must be able to rely on before it deletes: "no        *)
(* attachment with a higher generation has a reference to the              *)
(* to-be-DELETEd key" (docs/rfcs/025-generation-numbers.md).  `validate`   *)
(* says yes to a generation only if no pageserver holds a later one or has *)
(* uploaded an index in it; a later one may be issued and on its way, and  *)
(* may be loaded before the answer is acted upon.                          *)
Loaded(g) ==
    index[g] # NoIndex \/ \E p \in Pageservers : Up(p) /\ ps[p].generation = g

ValidateIsTruthful ==
    \A p \in Pageservers :
        LET v == ps[p].validator
        IN  v.at = "asked" /\ ps'[p].validator.at = "answered" /\ ps'[p].validator.valid =>
                \A g \in Generations : g > v.asked => ~Loaded(g)

(* The system with a service that answers so.                              *)
TruthfulSpec == Init /\ [][Next /\ ValidateIsTruthful]_vars

-----------------------------------------------------------------------------
(* Properties.                                                             *)

(* Pageservers are interchangeable.                                        *)
Symmetry == Permutations(Pageservers)

List == [sequence : Nat \ {0}, generation : 0 .. MaxGeneration + MaxCrashes,
         objects : SUBSET Object, validated : BOOLEAN]

TypeOK ==
    /\ row.generation \in Generations /\ row.node \in Pageservers
    /\ generation \in Generations
    /\ index \in [Generations -> IndexPart \cup {NoIndex}]
    /\ objects \subseteq Object
    /\ visible \in 0 .. MaxUploads
    /\ \A p \in Pageservers :
        /\ ps[p].state \in {"down", "starting", "up"}
        /\ ps[p].generation \in Generations \cup {0}
        /\ ps[p].pending \in List
        /\ \A l \in ps[p].channel \cup disk[p].lists : l \in List
        /\ disk[p].header \in Nat

(* The index the tenant is served from: what the holder of the newest      *)
(* generation has, or what the next one to attach would find.              *)
Current ==
    IF \E p \in Pageservers : Holds(p) /\ ps[p].generation = row.generation
    THEN ps[CHOOSE p \in Pageservers : Holds(p) /\ ps[p].generation = row.generation].part
    ELSE download_index_part(row.generation)

Durable == INSTANCE DurableTenant WITH
    Objects <- Object,
    index <- Current

(* However pageservers, their deletion queues and the service interleave,  *)
(* crash and restart, the tenant behaves as DurableTenant says: every step *)
(* uploads, deletes what the tenant's index does not name, or shows an LSN *)
(* that this index covers, and none takes the index back behind that LSN.  *)
(* Only LSNs that validation made visible count.                           *)
ImplementsDurableTenant == Durable!Spec

(* Every layer that the tenant's index names is in object storage: no      *)
(* holder, stale or not, ever deletes one.                                 *)
DeletionsAreSafe == Current.layers \subseteq objects

(* A list on disk that a restarted pageserver would execute without asking *)
(* the control plane (its own mark, or the header's sequence) names only   *)
(* layers that nobody who could still attach will need.                    *)
PrevalidatedListsAreSafe ==
    \A p \in Pageservers : \A l \in disk[p].lists :
        (l.validated \/ l.sequence <= disk[p].header) => Current.layers \cap l.objects = {}

(* Sequence numbers are not reused while a list of theirs is on disk or on *)
(* its way: the writer would overwrite a list that was never executed, or  *)
(* pass an unvalidated one off as covered by the header.                   *)
SequencesAreFresh ==
    \A p \in Pageservers : Up(p) =>
        /\ disk[p].header < ps[p].pending.sequence
        /\ \A l \in disk[p].lists : l.sequence < ps[p].pending.sequence

=============================================================================
