------------------------------ MODULE WalStorage ------------------------------
(***************************************************************************)
(* PhysicalStorage of one safekeeper (safekeeper/src/wal_storage.rs): WAL  *)
(* in segment files, of which the last is named .partial; writing across   *)
(* segments, flushing, truncating, and finding the end of WAL after the    *)
(* process was killed, or the power failed, at any point of these.  With   *)
(* it the two that take segments away from under it: offloading to S3,     *)
(* which is enabled, and the removal of old WAL.                           *)
(*                                                                         *)
(* WAL is cells, SegSize of them to a segment.  A cell holds the term of   *)
(* the leader that wrote it, or 0.  Records begin and end at the same LSNs *)
(* whoever writes them; one that ends in SwitchEnds is an XLOG_SWITCH,     *)
(* which is one cell and extends up to the end of its segment.             *)
(***************************************************************************)
EXTENDS Integers, Sequences, FiniteSetsExt

CONSTANTS
    SegSize,
    StartLsn,         \* timeline_start_lsn
    Ends,             \* where records end, in order
    SwitchEnds,       \* ... those of XLOG_SWITCH
    MaxTerm,          \* bound on leaders, that is on truncations
    MaxCrashes,       \* bound on kills and power failures
    MaxWrite          \* bound on the cells of one write

(* The WAL of a Postgres cluster begins in segment 1, never in segment 0.  *)
ASSUME LayoutAssumption ==
    /\ SegSize \in Nat \ {0} /\ StartLsn \in Nat /\ StartLsn >= SegSize
    /\ Ends \in Seq(Nat) /\ Len(Ends) > 0 /\ Ends[1] > StartLsn
    /\ \A i, j \in DOMAIN Ends : i < j => Ends[i] < Ends[j]
    /\ \A i \in DOMAIN Ends : Ends[i] \in SwitchEnds => Ends[i] % SegSize = 0

ASSUME BoundsAssumption == MaxTerm \in Nat /\ MaxCrashes \in Nat /\ MaxWrite \in Nat

VARIABLES
    dir,              \* per segment, the file there is: none, partial, full
    data,             \* cells, as a reader of the files sees them
    disk,             \* cells, as they are on stable storage
    mem,              \* PhysicalStorage
    op,               \* the call in progress, under the timeline's lock
    term,             \* the leader that streams
    commit, backup,   \* commit_lsn and backup_lsn in memory
    control,          \* ... and in the control file
    s3,               \* cells of offloaded segments
    offloaded,        \* the segment uploaded and not yet in backup_lsn, or 0
    removing,         \* remove_old_wal in progress up to this segment, or 0
    log,              \* history: the terms of the records written so far
    risked,           \* history: cells that were not synced in a kill
    crashes

vars == <<dir, data, disk, mem, op, term, commit, backup, control, s3, offloaded, removing,
          log, risked, crashes>>

RecordEnds == {Ends[i] : i \in DOMAIN Ends}
EndLsn == Ends[Len(Ends)]
Cells == StartLsn .. EndLsn - 1

segment_number(l) == l \div SegSize
Segments == segment_number(StartLsn) .. segment_number(EndLsn)
CellsOf(n) == {c \in Cells : segment_number(c) = n}

EndOf(i) == IF i = 0 THEN StartLsn ELSE Ends[i]
DataEnd(i) == IF Ends[i] \in SwitchEnds THEN EndOf(i - 1) + 1 ELSE Ends[i]
CellsOfRecord(i) == EndOf(i - 1) .. DataEnd(i) - 1

(* How many records end at or before an LSN, and how many are there with   *)
(* all of their bytes.                                                     *)
RecordsBefore(l) == Cardinality({i \in DOMAIN Ends : Ends[i] <= l})
RecordsIn(l) == Cardinality({i \in DOMAIN Ends : DataEnd(i) <= l})

-----------------------------------------------------------------------------
Idle == [at |-> "idle", until |-> 0]

(* PhysicalStorage::new with the end of WAL it found.                      *)
Opened(lsn) ==
    [write_lsn |-> lsn, write_record_lsn |-> lsn, flush_record_lsn |-> lsn,
     file |-> FALSE, truncated |-> FALSE, streaming |-> FALSE]

Init ==
    /\ dir = [n \in Segments |-> "none"]
    /\ data = [c \in Cells |-> 0]
    /\ disk = data
    /\ mem = Opened(0)
    /\ op = Idle
    /\ term = 0
    /\ commit = 0
    /\ backup = 0
    /\ control = [commit |-> 0, backup |-> 0]
    /\ s3 = data
    /\ offloaded = 0
    /\ removing = 0
    /\ log = << >>
    /\ risked = {}
    /\ crashes = 0

failures == <<risked, crashes>>
offload == <<s3, offloaded, removing>>
retention == <<commit, backup, control, offload>>

(* What of a segment's file reaches stable storage with fdatasync.         *)
Synced(n) == [c \in Cells |-> IF c \in CellsOf(n) THEN data[c] ELSE disk[c]]

(* open_or_create: a new file is filled with zeros and renamed into place  *)
(* durably.                                                                *)
Created(n, cells) == [c \in Cells |-> IF dir[n] = "none" /\ c \in CellsOf(n) THEN 0 ELSE cells[c]]

-----------------------------------------------------------------------------
(* write_wal.                                                              *)

(* write_wal of the leader's next cells; record boundaries are of no       *)
(* concern to the sender.                                                  *)
WriteWal(n) ==
    /\ op = Idle
    /\ mem.streaming
    /\ mem.write_lsn + n <= EndLsn
    /\ op' = [at |-> "write", until |-> mem.write_lsn + n]
    /\ UNCHANGED <<dir, data, disk, mem, term, retention, log, failures>>

(* The decoder finds the records that are now there in full.               *)
Written(m, lsn) ==
    /\ mem' = [m EXCEPT !.write_lsn = lsn,
                        !.write_record_lsn = Max({@, EndOf(RecordsIn(lsn))})]
    /\ op' = Idle

SegmentEnd(n) == (n + 1) * SegSize

(* write_in_segment: the file that is open, or the .partial one, or a new  *)
(* one is written.                                                         *)
WriteInSegment ==
    LET n == segment_number(mem.write_lsn)
        stop == Min({op.until, SegmentEnd(n)})
    IN  /\ op.at = "write"
        /\ mem.file \/ dir[n] # "full"
        /\ dir' = [dir EXCEPT ![n] = "partial"]
        /\ data' = [c \in Cells |-> IF c \in mem.write_lsn .. stop - 1 THEN term
                                    ELSE Created(n, data)[c]]
        /\ disk' = Created(n, disk)
        /\ log' = log \o [i \in 1 .. RecordsIn(stop) - Len(log) |-> term]
        /\ IF stop = SegmentEnd(n)
           THEN op' = [op EXCEPT !.at = "complete"] /\ UNCHANGED mem
           ELSE Written([mem EXCEPT !.file = TRUE], stop)
        /\ UNCHANGED <<term, retention, failures>>

(* ... and, at its end, synced, closed and renamed.                        *)
CompleteSegment ==
    LET n == segment_number(mem.write_lsn)
    IN  /\ op.at = "complete"
        /\ disk' = Synced(n)
        /\ dir' = [dir EXCEPT ![n] = "full"]
        /\ IF op.until > SegmentEnd(n)
           THEN /\ mem' = [mem EXCEPT !.write_lsn = SegmentEnd(n), !.file = FALSE]
                /\ op' = [op EXCEPT !.at = "write"]
           ELSE Written([mem EXCEPT !.file = FALSE], SegmentEnd(n))
        /\ UNCHANGED <<data, term, retention, log, failures>>

(* Mutant: the position of the file, in the middle of a record maybe.      *)
FlushPosition == mem.write_lsn

FlushLsn == mem.write_record_lsn

FlushWal ==
    /\ op = Idle
    /\ mem.flush_record_lsn # mem.write_record_lsn
    /\ IF mem.file
       THEN disk' = Synced(segment_number(mem.write_lsn))
       ELSE mem.write_lsn % SegSize = 0 /\ UNCHANGED disk
    /\ mem' = [mem EXCEPT !.flush_record_lsn = FlushLsn]
    /\ UNCHANGED <<dir, data, op, term, retention, log, failures>>

-----------------------------------------------------------------------------
(* truncate_wal, called by handle_elected.                                 *)

(* Mutant: what a restart has left behind is not thought of.               *)
NothingToCut(lsn) == lsn = mem.write_lsn /\ lsn = mem.flush_record_lsn

(* The quick exit: nothing is to be done if nothing is there beyond lsn.   *)
NothingToTruncate(lsn) ==
    mem.truncated /\ lsn = mem.write_lsn /\ lsn = mem.flush_record_lsn

(* A leader makes the safekeeper keep its WAL up to some record at or      *)
(* above what is committed.  Non-written WAL is refused.                   *)
BeginTruncate(lsn) ==
    /\ op = Idle
    /\ term < MaxTerm
    /\ lsn \in RecordEnds \cup {StartLsn}
    /\ commit <= lsn
    /\ IF mem.write_lsn = 0 THEN lsn = StartLsn
       ELSE lsn <= mem.flush_record_lsn /\ lsn <= mem.write_lsn
    /\ term' = term + 1
    /\ IF NothingToTruncate(lsn)
       THEN /\ op' = [at |-> "adopt", until |-> lsn]
            /\ mem' = [mem EXCEPT !.streaming = FALSE]
            /\ UNCHANGED disk
       ELSE /\ op' = [at |-> "remove", until |-> lsn]
            /\ mem' = [mem EXCEPT !.file = FALSE, !.streaming = FALSE]
            /\ disk' = IF mem.file THEN Synced(segment_number(mem.write_lsn)) ELSE disk
    /\ UNCHANGED <<dir, data, retention, log, failures>>

(* All later segments are removed, in the order of the directory.          *)
TruncateRemoves(n) ==
    /\ op.at = "remove"
    /\ n > segment_number(op.until)
    /\ dir[n] # "none"
    /\ dir' = [dir EXCEPT ![n] = "none"]
    /\ UNCHANGED <<data, disk, mem, op, term, retention, log, failures>>

(* The rest of the segment is overwritten with zeros.                      *)
TruncateZeroes ==
    LET n == segment_number(op.until)
    IN  /\ op.at = "remove"
        /\ \A m \in Segments : m > n => dir[m] = "none"
        /\ dir' = [dir EXCEPT ![n] = IF @ = "none" THEN "partial" ELSE @]
        /\ data' = [c \in Cells |-> IF c \in CellsOf(n) /\ c >= op.until THEN 0
                                    ELSE Created(n, data)[c]]
        /\ disk' = Created(n, disk)
        /\ op' = [op EXCEPT !.at = "zeroed"]
        /\ UNCHANGED <<mem, term, retention, log, failures>>

(* Mutant: the segment keeps the name of a complete one.                   *)
NameKept(n) == dir

(* "Make segment partial once again".                                      *)
MadePartial(n) == [dir EXCEPT ![n] = "partial"]

TruncateSyncs ==
    LET n == segment_number(op.until)
    IN  /\ op.at = "zeroed"
        /\ disk' = Synced(n)
        /\ dir' = MadePartial(n)
        /\ mem' = [Opened(op.until) EXCEPT !.truncated = TRUE]
        /\ log' = SubSeq(log, 1, RecordsBefore(op.until))
        /\ op' = [op EXCEPT !.at = "adopt"]
        /\ UNCHANGED <<data, term, retention, failures>>

(* handle_elected persists the new history, and with it the LSNs; they are *)
(* initialised here for the first time.                                    *)
Adopt ==
    /\ op.at = "adopt"
    /\ commit' = Max({commit, StartLsn})
    /\ backup' = Max({backup, StartLsn})
    /\ control' = [commit |-> commit', backup |-> backup']
    /\ mem' = [mem EXCEPT !.streaming = TRUE]
    /\ op' = Idle
    /\ UNCHANGED <<dir, data, disk, term, offload, log, failures>>

-----------------------------------------------------------------------------
(* Commit, offloading, removal.                                            *)

(* update_commit_lsn, which saves the control file at once when the start  *)
(* of the leader's term is reached.                                        *)
AdvanceCommit(lsn) ==
    /\ op = Idle
    /\ mem.streaming
    /\ commit < lsn /\ lsn <= mem.flush_record_lsn
    /\ commit' = lsn
    /\ control' \in {control, [commit |-> lsn, backup |-> backup]}
    /\ UNCHANGED <<dir, data, disk, mem, op, term, backup, offload, log, failures>>

PersistControl ==
    /\ op = Idle
    /\ control # [commit |-> commit, backup |-> backup]
    /\ control' = [commit |-> commit, backup |-> backup]
    /\ UNCHANGED <<dir, data, disk, mem, op, term, commit, backup, offload, log, failures>>

(* backup_lsn_range: the segments below commit_lsn are uploaded in order,  *)
(* without the lock, from the files that have the name of complete ones.   *)
BackupSegment ==
    LET n == segment_number(backup)
    IN  /\ offloaded = 0
        /\ backup # 0
        /\ n < segment_number(commit)
        /\ dir[n] = "full"
        /\ s3' = [c \in Cells |-> IF c \in CellsOf(n) THEN data[c] ELSE s3[c]]
        /\ offloaded' = n
        /\ UNCHANGED <<dir, data, disk, mem, op, term, commit, backup, control, removing,
                       log, failures>>

set_wal_backup_lsn ==
    /\ op = Idle
    /\ offloaded # 0
    /\ backup' = Max({backup, SegmentEnd(offloaded)})
    /\ offloaded' = 0
    /\ UNCHANGED <<dir, data, disk, mem, op, term, commit, control, s3, removing, log,
                   failures>>

(* Mutant: the segment of the horizon goes too.                            *)
HorizonIncluded == segment_number(control.backup)

(* get_horizon_segno - 1, from the control file, with wal_backup_enabled;  *)
(* pageservers and peers may hold the horizon further back.                *)
LastToRemove == segment_number(control.backup) - 1

RemoveOldWal(n) ==
    /\ op = Idle
    /\ removing = 0
    /\ n <= LastToRemove
    /\ \E m \in Segments : m <= n /\ dir[m] # "none"
    /\ removing' = n
    /\ UNCHANGED <<dir, data, disk, mem, op, term, commit, backup, control, s3, offloaded,
                   log, failures>>

(* The files are removed without the lock.                                 *)
RemoveUpTo(n) ==
    /\ n <= removing
    /\ dir[n] # "none"
    /\ dir' = [dir EXCEPT ![n] = "none"]
    /\ removing' = IF \E m \in Segments : m <= removing /\ m # n /\ dir[m] # "none"
                   THEN removing ELSE 0
    /\ UNCHANGED <<data, disk, mem, op, term, commit, backup, control, s3, offloaded, log,
                   failures>>

-----------------------------------------------------------------------------
(* find_end_of_wal: from a known boundary on, as long as there are whole   *)
(* records; a record that mixes two leaders' cells fails its checksum.     *)
Intact(cells, i) ==
    \E t \in 1 .. MaxTerm : \A c \in CellsOfRecord(i) :
        cells[c] = t /\ dir[segment_number(c)] # "none"

find_end_of_wal(cells, lsn) ==
    LET first == RecordsBefore(lsn)
    IN  Max({i \in first .. Len(Ends) : \A j \in first + 1 .. i : Intact(cells, j)})

(* The restart from the cells that are left.  PhysicalStorage::new reports *)
(* what it found as flushed, and syncs nothing.                            *)
Restart(cells) ==
    /\ crashes < MaxCrashes
    /\ crashes' = crashes + 1
    /\ mem' = IF control.commit = 0 THEN Opened(0)
              ELSE Opened(EndOf(find_end_of_wal(cells, control.commit)))
    /\ op' = Idle
    /\ removing' = 0
    /\ offloaded' = 0
    /\ commit' = control.commit
    /\ backup' = control.backup
    /\ UNCHANGED <<dir, term, control, s3>>

(* The process is killed: the page cache stays.                            *)
Kill ==
    /\ Restart(data)
    /\ risked' = risked \cup {c \in Cells : data[c] # disk[c]}
    /\ UNCHANGED <<data, disk, log>>

(* The power fails: any part of what was not synced is lost.               *)
PowerFailure ==
    \E lost \in SUBSET {c \in Cells : data[c] # disk[c]} :
        LET left == [c \in Cells |-> IF c \in lost THEN disk[c] ELSE data[c]]
            kept == RecordsBefore(control.commit)
            found == find_end_of_wal(left, control.commit)
        IN  /\ Restart(left)
            /\ data' = left
            /\ disk' = left
            /\ log' = IF control.commit = 0 THEN << >>
                      ELSE SubSeq(log, 1, kept)
                             \o [j \in 1 .. found - kept |-> left[EndOf(kept + j - 1)]]
            /\ UNCHANGED risked

Next ==
    \/ \E n \in 1 .. MaxWrite : WriteWal(n)
    \/ WriteInSegment
    \/ CompleteSegment
    \/ FlushWal
    \/ \E lsn \in RecordEnds \cup {StartLsn} : BeginTruncate(lsn)
    \/ \E n \in Segments : TruncateRemoves(n)
    \/ TruncateZeroes
    \/ TruncateSyncs
    \/ Adopt
    \/ \E lsn \in RecordEnds : AdvanceCommit(lsn)
    \/ PersistControl
    \/ BackupSegment \/ set_wal_backup_lsn
    \/ \E n \in Segments : RemoveOldWal(n) \/ RemoveUpTo(n)
    \/ Kill
    \/ PowerFailure

Spec == Init /\ [][Next]_vars

-----------------------------------------------------------------------------
(* Properties.                                                             *)

Lsn == 0 .. EndLsn

TypeOK ==
    /\ dir \in [Segments -> {"none", "partial", "full"}]
    /\ data \in [Cells -> 0 .. MaxTerm] /\ disk \in [Cells -> 0 .. MaxTerm]
    /\ s3 \in [Cells -> 0 .. MaxTerm]
    /\ mem.write_lsn \in Lsn
    /\ {mem.write_record_lsn, mem.flush_record_lsn} \subseteq {0, StartLsn} \cup RecordEnds
    /\ op.at \in {"idle", "write", "complete", "remove", "zeroed", "adopt"}
    /\ op.until \in Lsn
    /\ commit \in Lsn /\ backup \in Lsn
    /\ control \in [commit : Lsn, backup : Lsn]
    /\ {removing, offloaded} \subseteq {0} \cup Segments
    /\ log \in Seq(1 .. MaxTerm) /\ Len(log) <= Len(Ends)

(* How many records a restart finds at least, if the process is killed.    *)
Kept ==
    IF op.at \in {"remove", "zeroed"} THEN RecordsBefore(op.until)
    ELSE IF mem.truncated THEN Len(log)
    ELSE RecordsBefore(mem.flush_record_lsn)

(* The storage is the log that consensus relies on.  Flushed records are   *)
(* lost to the truncation under way, or to a power failure that strikes    *)
(* what an earlier kill had left in the page cache and the restart         *)
(* reported as flushed; and no restart, whatever part of the unsynced      *)
(* cells is lost and between whichever two steps it comes, finds a record  *)
(* that was not in the log.                                                *)
Durable == INSTANCE DurableLog WITH
    Terms <- 1 .. MaxTerm,
    MaxAppend <- MaxWrite,
    flushed <- RecordsBefore(mem.flush_record_lsn),
    keep <- Kept,
    exposed <- {i \in 1 .. RecordsBefore(mem.flush_record_lsn) :
                   i <= Kept /\ \E c \in CellsOfRecord(i) : disk[c] # log[i]}

ImplementsDurableLog == Durable!Spec

(* Every committed record can be read: from the local file, or from S3     *)
(* with the contents that were committed.  The exception is a cell that    *)
(* was only in the page cache when the process was killed and is not on    *)
(* stable storage now: a power failure may have taken it.                  *)
CommittedIsRetained ==
    \A i \in 1 .. RecordsBefore(commit) : \A c \in CellsOfRecord(i) :
        \/ dir[segment_number(c)] # "none" /\ data[c] = log[i]
        \/ s3[c] = log[i]
        \/ c \in risked /\ disk[c] # log[i]

(* "flush_lsn returns LSN of last durably stored WAL record": what is      *)
(* committed, which is never beyond flush_lsn, is on stable storage, here  *)
(* or in S3.                                                               *)
CommittedIsDurable ==
    \A i \in 1 .. RecordsBefore(commit) : \A c \in CellsOfRecord(i) :
        disk[c] = log[i] \/ s3[c] = log[i]

(* "unexpected write into non-partial segment file": when the next write   *)
(* has to open a file, that file does not have the name of a complete one. *)
WritesArePartial ==
    (op.at = "write" /\ ~mem.file) => dir[segment_number(mem.write_lsn)] # "full"

=============================================================================
