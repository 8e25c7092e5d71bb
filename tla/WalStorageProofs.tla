-------------------------- MODULE WalStorageProofs --------------------------
(***************************************************************************)
(* WalStorage for every segment size, layout of records, number of leaders *)
(* and of kills and power failures: its types, what is committed can be    *)
(* read but for what a kill left unsynced, writes open .partial files      *)
(* only, and it implements DurableLog.                                     *)
(***************************************************************************)
EXTENDS WalStorage, FiniteSetTheorems, SequenceTheorems, TLAPS

(***************************************************************************)
(* The inductive invariant.                                                *)
(***************************************************************************)

\* PhysicalStorage and the call in progress.
MemType ==
    /\ mem \in [write_lsn : Lsn, write_record_lsn : {0, StartLsn} \cup RecordEnds,
                flush_record_lsn : {0, StartLsn} \cup RecordEnds,
                file : BOOLEAN, truncated : BOOLEAN, streaming : BOOLEAN]
    /\ op \in [at : {"idle", "write", "complete", "remove", "zeroed", "adopt"}, until : Lsn]
    /\ op.at = "idle" => op = Idle
    /\ term \in 0 .. MaxTerm
    /\ crashes \in Nat

\* truncate_wal is under way.
Truncating == op.at \in {"remove", "zeroed"}

\* A truncation since the last restart has cleared all beyond the end.
Ready == mem.truncated /\ ~Truncating

\* Where the cells end that are written.
WriteEnd == IF op.at = "complete" THEN SegmentEnd(segment_number(mem.write_lsn))
            ELSE mem.write_lsn

\* Which step of a call may be reached in which state of the storage, and
\* how the LSNs are ordered then.
PhaseInv ==
    /\ op.at \in {"write", "complete"} => mem.streaming
    /\ mem.streaming => /\ mem.truncated /\ op.at \in {"idle", "write", "complete"}
                        /\ control.commit >= StartLsn
    /\ op.at = "adopt" => mem.truncated
    /\ mem.file => Ready
    /\ mem.write_lsn = 0 => /\ ~mem.truncated
                            /\ mem.flush_record_lsn = 0 /\ mem.write_record_lsn = 0
    /\ Ready => mem.write_lsn >= StartLsn /\ term >= 1
    /\ mem.write_lsn # 0 => /\ mem.write_lsn >= StartLsn
                            /\ mem.flush_record_lsn >= StartLsn
    /\ mem.flush_record_lsn <= mem.write_record_lsn
    /\ op.at # "idle" => term >= 1
    /\ op.at = "write" => mem.write_lsn < op.until
    /\ op.at \in {"write", "complete"} => op.until <= mem.write_lsn + MaxWrite
    /\ op.at = "complete" => SegmentEnd(segment_number(mem.write_lsn)) <= op.until
    /\ Truncating => op.until \in {StartLsn} \cup RecordEnds
    /\ Truncating => IF mem.write_lsn = 0 THEN op.until = StartLsn
                     ELSE op.until <= mem.flush_record_lsn

\* The log has the records that are written in full, and after a restart,
\* until the WAL is truncated, maybe more than the restart found.
LogInv ==
    /\ log \in Seq(1 .. MaxTerm) /\ Len(log) <= Len(Ends)
    /\ mem.write_record_lsn <= EndOf(Len(log))
    /\ mem.truncated => Len(log) = RecordsIn(WriteEnd)
    /\ ~mem.truncated => /\ mem.write_record_lsn = mem.write_lsn
                         /\ mem.flush_record_lsn = mem.write_lsn
    /\ op.at \notin {"write", "complete"} /\ mem.truncated
          => mem.write_record_lsn = EndOf(Len(log))

\* commit_lsn and backup_lsn, in memory and in the control file.
LsnInv ==
    /\ commit \in {0, StartLsn} \cup RecordEnds /\ backup \in Lsn
    /\ control.commit \in {0, StartLsn} \cup RecordEnds
    /\ control \in [commit : Lsn, backup : Lsn]
    /\ control.commit <= commit /\ control.backup <= backup
    /\ backup <= commit /\ control.backup <= control.commit
    /\ control.commit = 0 => commit = 0 /\ log = << >>
    /\ IF Truncating THEN commit <= op.until ELSE commit <= mem.flush_record_lsn
    /\ Ready => backup <= mem.write_lsn
    /\ (backup = 0) = (commit = 0)
    /\ control.commit # 0 => control.backup >= StartLsn

\* What offloading and removal are about to do.
OffloadInv ==
    /\ removing \in {0} \cup Segments /\ offloaded \in {0} \cup Segments
    /\ offloaded # 0 => /\ offloaded = segment_number(backup) /\ backup # 0
                        /\ offloaded < segment_number(commit)
                        /\ Ready => SegmentEnd(offloaded) <= mem.write_lsn
    /\ removing # 0 => removing < segment_number(control.backup)

\* Cells are written once: of the two values that a cell may have after a
\* power failure one is zero.  Stored is the other one.
Stored == [c \in Cells |-> IF data[c] = 0 THEN disk[c] ELSE data[c]]

CellInv ==
    /\ data \in [Cells -> 0 .. MaxTerm] /\ disk \in [Cells -> 0 .. MaxTerm]
    /\ s3 \in [Cells -> 0 .. MaxTerm] /\ risked \subseteq Cells
    /\ \A c \in Cells : disk[c] \in {0, Stored[c]}
    /\ \A c \in Cells : data[c] # disk[c] =>
          \/ c \in risked
          \/ /\ mem.file \/ op.at = "complete"
             /\ segment_number(c) = segment_number(mem.write_lsn) /\ ~Truncating
          \/ /\ op.at = "zeroed" /\ op.until <= c
             /\ segment_number(c) = segment_number(op.until)

\* A committed cell that a kill left in the page cache and a power failure
\* has taken.
Gone(c) == c \in risked /\ data[c] = 0 /\ disk[c] = 0

\* The cells of the log, and those of the record that is begun.
RecordInv ==
    /\ \A i \in 1 .. Len(log) : \A c \in CellsOfRecord(i) : Stored[c] \in {0, log[i]}
    /\ \A i \in 1 .. Kept : \A c \in CellsOfRecord(i) :
          data[c] = log[i] \/ (i <= RecordsBefore(control.commit) /\ Gone(c))
    /\ Ready => \A c \in Cells : EndOf(Len(log)) <= c /\ c < WriteEnd
                   => data[c] = term /\ dir[segment_number(c)] # "none"

\* How many records are flushed and not to be cut, and that they are synced
\* but for those of a kill.
Safe == RecordsBefore(IF Truncating THEN op.until ELSE mem.flush_record_lsn)

SafeInv == \A i \in 1 .. Safe : \A c \in CellsOfRecord(i) : data[c] = disk[c] \/ c \in risked

\* Files of the log that are not offloaded are there.
FileInv ==
    /\ dir \in [Segments -> {"none", "partial", "full"}]
    /\ \A i \in 1 .. Kept : \A c \in CellsOfRecord(i) :
          segment_number(control.backup) <= segment_number(c)
          => dir[segment_number(c)] # "none"

\* The record after the log is not there, and nothing at all is when the
\* rest has been cleared.
EndInv ==
    /\ Len(log) < Len(Ends) => ~Intact(Stored, Len(log) + 1)
    /\ op.at = "zeroed" => \A n \in Segments : n > segment_number(op.until) => dir[n] = "none"
    /\ op.at = "zeroed" => dir[segment_number(op.until)] # "none"
    /\ op.at = "zeroed" => \A c \in CellsOf(segment_number(op.until)) : c >= op.until => data[c] = 0
    /\ Ready =>
        /\ \A n \in Segments : n > segment_number(mem.write_lsn) => dir[n] = "none"
        /\ dir[segment_number(mem.write_lsn)] # "full"
        /\ dir[segment_number(mem.write_lsn)] = "none" =>
              \A c \in Cells : c < mem.write_lsn => segment_number(c) < segment_number(mem.write_lsn)
        /\ \A c \in Cells : c >= WriteEnd /\ dir[segment_number(c)] # "none"
              => data[c] = 0 /\ disk[c] = 0

\* What is below backup_lsn, and what is uploaded, is in S3.
S3Inv ==
    \A i \in 1 .. Len(log) : \A c \in CellsOfRecord(i) :
        \/ segment_number(c) < segment_number(backup)
        \/ offloaded # 0 /\ segment_number(c) = offloaded
        => s3[c] = log[i] \/ Gone(c)

\* What is written since the last truncation and not flushed is unsynced in
\* the file that is open only.
UnsyncedInv ==
    Ready => \A c \in Cells :
        mem.flush_record_lsn <= c /\ c < WriteEnd /\ data[c] # disk[c]
        => /\ mem.file \/ op.at = "complete"
           /\ segment_number(c) = segment_number(mem.write_lsn)

IInv ==
    /\ MemType /\ PhaseInv /\ LogInv /\ LsnInv /\ OffloadInv
    /\ CellInv /\ RecordInv /\ SafeInv /\ FileInv /\ EndInv /\ S3Inv

-----------------------------------------------------------------------------
(***************************************************************************)
(* Segments.  segment_number is used through these facts only.             *)
(***************************************************************************)

\* Division: the quotient and the remainder.
LEMMA DivMod ==
  ASSUME NEW l \in Nat
  PROVE  /\ segment_number(l) \in Nat
         /\ segment_number(l) * SegSize <= l
         /\ l < segment_number(l) * SegSize + SegSize
<1>1. SegSize \in Nat /\ SegSize > 0
  BY LayoutAssumption
<1>2. /\ l \div SegSize \in Int
      /\ l = SegSize * (l \div SegSize) + (l % SegSize) /\ l % SegSize \in 0 .. SegSize - 1
  BY <1>1
<1>. QED  BY <1>1, <1>2 DEF segment_number

\* Where a segment ends.
LEMMA SegmentEndIs ==
  ASSUME NEW n \in Nat
  PROVE  /\ SegmentEnd(n) \in Nat /\ SegmentEnd(n) > 0
         /\ segment_number(SegmentEnd(n)) = n + 1
         /\ \A l \in Nat : (l < SegmentEnd(n)) <=> (segment_number(l) <= n)
<1>1. SegSize \in Nat /\ SegSize > 0
  BY LayoutAssumption
<1>2. SegmentEnd(n) \in Nat /\ SegmentEnd(n) = n * SegSize + SegSize /\ SegmentEnd(n) > 0
  BY <1>1 DEF SegmentEnd
<1>3. ASSUME NEW l \in Nat PROVE (l < SegmentEnd(n)) <=> (segment_number(l) <= n)
  <2>1. PICK q \in Nat : q = segment_number(l)
    BY DivMod
  <2>2. q * SegSize <= l /\ l < q * SegSize + SegSize
    BY <2>1, DivMod
  <2>3. q <= n => q * SegSize <= n * SegSize
    BY <1>1
  <2>4. q >= n + 1 => q * SegSize >= n * SegSize + SegSize
    <3>1. q >= n + 1 => q * SegSize >= (n + 1) * SegSize
      BY <1>1
    <3>. QED  BY <3>1, <1>1
  <2>5. q * SegSize \in Nat /\ n * SegSize \in Nat
    BY <1>1
  <2>. QED  BY <1>1, <1>2, <2>1, <2>2, <2>3, <2>4, <2>5
<1>4. segment_number(SegmentEnd(n)) = n + 1
  <2>1. PICK q \in Nat : q = segment_number(SegmentEnd(n))
    BY <1>2, DivMod
  <2>2. q * SegSize <= n * SegSize + SegSize /\ n * SegSize + SegSize < q * SegSize + SegSize
    BY <1>2, <2>1, DivMod
  <2>3. q <= n => q * SegSize <= n * SegSize
    BY <1>1
  <2>4. q >= n + 2 => q * SegSize >= n * SegSize + SegSize + SegSize
    <3>1. q >= n + 2 => q * SegSize >= (n + 2) * SegSize
      BY <1>1
    <3>. QED  BY <3>1, <1>1
  <2>5. q * SegSize \in Nat /\ n * SegSize \in Nat
    BY <1>1
  <2>. QED  BY <1>1, <2>1, <2>2, <2>3, <2>4, <2>5
<1>. QED  BY <1>2, <1>3, <1>4

\* Segments are in the order of their LSNs.
LEMMA SegmentMono ==
  ASSUME NEW a \in Nat, NEW b \in Nat, a <= b
  PROVE  segment_number(a) <= segment_number(b)
<1>1. segment_number(a) \in Nat /\ segment_number(b) \in Nat
  BY DivMod
<1>2. b < SegmentEnd(segment_number(b)) /\ SegmentEnd(segment_number(b)) \in Nat
  BY <1>1, SegmentEndIs
<1>. QED  BY <1>1, <1>2, SegmentEndIs

-----------------------------------------------------------------------------
(***************************************************************************)
(* Records.                                                                *)
(***************************************************************************)
RecordIds == 1 .. Len(Ends)

LEMMA EndsIs ==
  /\ Len(Ends) \in Nat /\ Len(Ends) > 0 /\ DOMAIN Ends = RecordIds
  /\ StartLsn \in Nat /\ StartLsn > 0 /\ EndLsn \in Nat /\ EndLsn > StartLsn
  /\ EndOf(0) = StartLsn /\ EndOf(Len(Ends)) = EndLsn
  /\ \A i \in RecordIds : EndOf(i) = Ends[i] /\ Ends[i] \in RecordEnds
<1>1. Len(Ends) \in Nat /\ Len(Ends) > 0 /\ DOMAIN Ends = RecordIds
  BY LayoutAssumption DEF RecordIds
<1>2. \A i \in RecordIds : Ends[i] \in Nat /\ Ends[1] <= Ends[i]
  BY <1>1, LayoutAssumption DEF RecordIds
<1>3. StartLsn \in Nat /\ StartLsn > 0
  BY LayoutAssumption
<1>. QED  BY <1>1, <1>2, <1>3, LayoutAssumption DEF EndOf, EndLsn, RecordIds, RecordEnds

LEMMA EndOfOrder ==
  /\ \A i \in 0 .. Len(Ends) : /\ EndOf(i) \in Nat /\ EndOf(i) \in Lsn
                               /\ EndOf(i) \in {StartLsn} \cup RecordEnds
                               /\ StartLsn <= EndOf(i) /\ EndOf(i) <= EndLsn
  /\ \A i, j \in 0 .. Len(Ends) : i < j => EndOf(i) < EndOf(j)
  /\ \A i, j \in 0 .. Len(Ends) : i <= j <=> EndOf(i) <= EndOf(j)
<1>0. \A i \in RecordIds : Ends[i] \in Nat /\ Ends[1] <= Ends[i] /\ Ends[i] > StartLsn
  BY EndsIs, LayoutAssumption DEF RecordIds
<1>1. \A i \in 0 .. Len(Ends) : EndOf(i) = IF i = 0 THEN StartLsn ELSE Ends[i]
  BY DEF EndOf
<1>2. \A i, j \in 0 .. Len(Ends) : i < j => EndOf(i) < EndOf(j)
  <2>1. \A i, j \in RecordIds : i < j => Ends[i] < Ends[j]
    BY EndsIs, LayoutAssumption
  <2>. QED  BY <1>0, <1>1, <2>1, EndsIs DEF RecordIds
<1>3. \A i \in 0 .. Len(Ends) : EndOf(i) \in Nat /\ EndOf(i) \in {StartLsn} \cup RecordEnds
  BY <1>0, <1>1, EndsIs DEF RecordIds
<1>4. \A i, j \in 0 .. Len(Ends) : i <= j <=> EndOf(i) <= EndOf(j)
  <2>. TAKE i, j \in 0 .. Len(Ends)
  <2>1. i < j \/ i = j \/ j < i
    BY EndsIs
  <2>. QED  BY <2>1, <1>2, <1>3, EndsIs
<1>5. \A i \in 0 .. Len(Ends) : StartLsn <= EndOf(i) /\ EndOf(i) <= EndLsn
  <2>. TAKE i \in 0 .. Len(Ends)
  <2>1. 0 <= i /\ i <= Len(Ends) /\ 0 \in 0 .. Len(Ends) /\ Len(Ends) \in 0 .. Len(Ends)
    BY EndsIs
  <2>. QED  BY <2>1, <1>4, EndsIs
<1>. QED  BY <1>2, <1>3, <1>4, <1>5, EndsIs DEF Lsn

\* A record has a cell at its beginning, and none beyond its end.
LEMMA DataEndIs ==
  ASSUME NEW i \in RecordIds
  PROVE  /\ DataEnd(i) \in Nat /\ EndOf(i - 1) \in Nat /\ EndOf(i) \in Nat
         /\ EndOf(i - 1) < DataEnd(i) /\ DataEnd(i) <= EndOf(i) /\ EndOf(i) <= EndLsn
         /\ StartLsn <= EndOf(i - 1)
<1>1. i \in 0 .. Len(Ends) /\ i - 1 \in 0 .. Len(Ends) /\ i - 1 < i
  BY EndsIs DEF RecordIds
<1>2. EndOf(i - 1) < EndOf(i) /\ EndOf(i - 1) \in Nat /\ EndOf(i) \in Nat /\ EndOf(i) <= EndLsn
      /\ StartLsn <= EndOf(i - 1)
  BY <1>1, EndOfOrder
<1>3. EndOf(i) = Ends[i]
  BY EndsIs
<1>. QED  BY <1>2, <1>3 DEF DataEnd

LEMMA DataEndOrder ==
  \A i, j \in RecordIds : i < j => DataEnd(i) < DataEnd(j) /\ EndOf(i) < DataEnd(j)
<1>. TAKE i, j \in RecordIds
<1>. HAVE i < j
<1>1. i \in 0 .. Len(Ends) /\ j - 1 \in 0 .. Len(Ends) /\ i <= j - 1
  BY EndsIs DEF RecordIds
<1>2. EndOf(i) <= EndOf(j - 1)
  BY <1>1, EndOfOrder
<1>. QED  BY <1>2, DataEndIs

LEMMA CellOfRecord ==
  ASSUME NEW i \in RecordIds, NEW c \in CellsOfRecord(i)
  PROVE  /\ c \in Cells /\ c \in Nat /\ EndOf(i - 1) <= c /\ c < DataEnd(i) /\ c < EndOf(i)
         /\ segment_number(c) \in Segments /\ segment_number(c) \in Nat
<1>1. c \in Nat /\ EndOf(i - 1) <= c /\ c < DataEnd(i) /\ c < EndOf(i)
  BY DataEndIs DEF CellsOfRecord
<1>2. c \in Cells /\ StartLsn <= c /\ c <= EndLsn
  BY <1>1, DataEndIs, EndsIs DEF Cells
<1>3. segment_number(c) \in Segments /\ segment_number(c) \in Nat
  BY <1>1, <1>2, DivMod, SegmentMono, EndsIs DEF Segments
<1>. QED  BY <1>1, <1>2, <1>3

\* The first and the last cell of a record.
LEMMA EndCellsOfRecord ==
  ASSUME NEW i \in RecordIds
  PROVE  /\ EndOf(i - 1) \in CellsOfRecord(i) /\ DataEnd(i) - 1 \in CellsOfRecord(i)
         /\ \A c \in Nat : EndOf(i - 1) <= c /\ c < DataEnd(i) => c \in CellsOfRecord(i)
BY DataEndIs DEF CellsOfRecord

-----------------------------------------------------------------------------
(***************************************************************************)
(* Counting records.                                                       *)
(***************************************************************************)

\* A set of records that has with a record all those before it is counted
\* by its last one.
LEMMA DownClosed ==
  ASSUME NEW a \in Nat, NEW b \in Nat, NEW S \in SUBSET (a + 1 .. b),
         \A j \in S : \A i \in a + 1 .. j : i \in S
  PROVE  /\ Cardinality(S) \in Nat /\ IsFiniteSet(S)
         /\ S = a + 1 .. a + Cardinality(S)
         /\ a <= b => a + Cardinality(S) <= b
<1>1. IsFiniteSet(a + 1 .. b)
  BY FS_Interval
<1>2. IsFiniteSet(S) /\ Cardinality(S) \in Nat
  BY <1>1, FS_Subset, FS_CardinalityType
<1>3. ASSUME NEW j \in S PROVE j <= a + Cardinality(S)
  <2>1. j \in Nat /\ a + 1 <= j
    OBVIOUS
  <2>2. a + 1 .. j \subseteq S
    OBVIOUS
  <2>3. Cardinality(a + 1 .. j) = j - a
    <3>1. a + 1 <= j /\ a + 1 \in Int /\ j \in Int
      BY <2>1
    <3>2. Cardinality(a + 1 .. j) = IF a + 1 > j THEN 0 ELSE j - (a + 1) + 1
      BY <3>1, FS_Interval
    <3>. QED  BY <3>1, <3>2
  <2>4. Cardinality(a + 1 .. j) <= Cardinality(S)
    BY <1>2, <2>2, FS_Subset
  <2>. QED  BY <1>2, <2>1, <2>3, <2>4
<1>4. S \subseteq a + 1 .. a + Cardinality(S)
  BY <1>2, <1>3
<1>5. IsFiniteSet(a + 1 .. a + Cardinality(S)) /\ Cardinality(a + 1 .. a + Cardinality(S)) = Cardinality(S)
  <2>1. PICK k \in Nat : k = Cardinality(S)
    BY <1>2
  <2>2. a + 1 \in Int /\ a + k \in Int
    BY <2>1
  <2>3. IsFiniteSet(a + 1 .. a + k)
        /\ Cardinality(a + 1 .. a + k) = IF a + 1 > a + k THEN 0 ELSE a + k - (a + 1) + 1
    BY <2>2, FS_Interval
  <2>. QED  BY <2>1, <2>3
<1>6. S = a + 1 .. a + Cardinality(S)
  BY <1>4, <1>5, FS_Subset
<1>7. a <= b => a + Cardinality(S) <= b
  BY <1>2, <1>6
<1>. QED  BY <1>2, <1>6, <1>7

\* How many records end at or before an LSN.
LEMMA RecordsBeforeIs ==
  ASSUME NEW l \in Nat
  PROVE  /\ RecordsBefore(l) \in 0 .. Len(Ends) /\ RecordsBefore(l) \in Nat
         /\ \A i \in RecordIds : EndOf(i) <= l <=> i <= RecordsBefore(l)
<1>. DEFINE S == {i \in DOMAIN Ends : Ends[i] <= l}
<1>1. S \in SUBSET (0 + 1 .. Len(Ends)) /\ 0 <= Len(Ends)
  BY EndsIs DEF RecordIds
<1>2. ASSUME NEW j \in S, NEW i \in 0 + 1 .. j PROVE i \in S
  <2>1. i \in RecordIds /\ j \in RecordIds /\ i <= j /\ i \in 0 .. Len(Ends) /\ j \in 0 .. Len(Ends)
    BY EndsIs DEF RecordIds
  <2>2. EndOf(i) <= EndOf(j) /\ EndOf(i) = Ends[i] /\ EndOf(j) = Ends[j]
        /\ EndOf(i) \in Nat /\ EndOf(j) \in Nat
    BY <2>1, EndOfOrder, EndsIs
  <2>. QED  BY <2>1, <2>2, EndsIs
<1>. HIDE DEF S
<1>3. /\ Cardinality(S) \in Nat /\ S = 0 + 1 .. 0 + Cardinality(S)
      /\ 0 + Cardinality(S) <= Len(Ends)
  BY <1>1, <1>2, DownClosed, EndsIs
<1>4. RecordsBefore(l) = Cardinality(S)
  BY DEF RecordsBefore, S
<1>5. \A i \in RecordIds : EndOf(i) <= l <=> i \in S
  BY EndsIs DEF S
<1>. QED  BY <1>3, <1>4, <1>5, EndsIs DEF RecordIds

\* How many records have all of their cells before an LSN.
LEMMA RecordsInIs ==
  ASSUME NEW l \in Nat
  PROVE  /\ RecordsIn(l) \in 0 .. Len(Ends) /\ RecordsIn(l) \in Nat
         /\ \A i \in RecordIds : DataEnd(i) <= l <=> i <= RecordsIn(l)
<1>. DEFINE S == {i \in DOMAIN Ends : DataEnd(i) <= l}
<1>1. S \in SUBSET (0 + 1 .. Len(Ends)) /\ 0 <= Len(Ends)
  BY EndsIs DEF RecordIds
<1>2. ASSUME NEW j \in S, NEW i \in 0 + 1 .. j PROVE i \in S
  <2>1. i \in RecordIds /\ j \in RecordIds /\ (i < j \/ i = j)
    BY EndsIs DEF RecordIds
  <2>2. DataEnd(i) <= DataEnd(j) /\ DataEnd(i) \in Nat /\ DataEnd(j) \in Nat
    BY <2>1, DataEndOrder, DataEndIs
  <2>. QED  BY <2>1, <2>2, EndsIs
<1>. HIDE DEF S
<1>3. /\ Cardinality(S) \in Nat /\ S = 0 + 1 .. 0 + Cardinality(S)
      /\ 0 + Cardinality(S) <= Len(Ends)
  BY <1>1, <1>2, DownClosed, EndsIs
<1>4. RecordsIn(l) = Cardinality(S)
  BY DEF RecordsIn, S
<1>5. \A i \in RecordIds : DataEnd(i) <= l <=> i \in S
  BY EndsIs DEF S
<1>. QED  BY <1>3, <1>4, <1>5, EndsIs DEF RecordIds

LEMMA RecordIdsAround ==
  \A k \in 0 .. Len(Ends) :
      (k + 1 \in RecordIds \/ k = Len(Ends)) /\ (k \in RecordIds \/ k = 0)
<1>1. Len(Ends) \in Nat
  BY EndsIs
<1>. QED  BY <1>1 DEF RecordIds

\* At the end of a record both counts are its number.
LEMMA CountsAtEnd ==
  ASSUME NEW k \in 0 .. Len(Ends)
  PROVE  EndOf(k) \in Nat /\ RecordsBefore(EndOf(k)) = k /\ RecordsIn(EndOf(k)) = k
<1>1. EndOf(k) \in Nat
  BY EndOfOrder
<1>2. RecordsBefore(EndOf(k)) = k
  <2>1. PICK r \in 0 .. Len(Ends) :
           r = RecordsBefore(EndOf(k)) /\ \A i \in RecordIds : EndOf(i) <= EndOf(k) <=> i <= r
    BY <1>1, RecordsBeforeIs
  <2>2. \A i \in RecordIds : i <= k <=> i <= r
    BY <2>1, EndOfOrder, EndsIs DEF RecordIds
  <2>3. (r + 1 \in RecordIds \/ r = Len(Ends)) /\ (r \in RecordIds \/ r = 0)
    BY RecordIdsAround
  <2>4. (k + 1 \in RecordIds \/ k = Len(Ends)) /\ (k \in RecordIds \/ k = 0)
    BY RecordIdsAround
  <2>. QED  BY <2>1, <2>2, <2>3, <2>4, EndsIs
<1>3. RecordsIn(EndOf(k)) = k
  <2>1. PICK r \in 0 .. Len(Ends) :
           r = RecordsIn(EndOf(k)) /\ \A i \in RecordIds : DataEnd(i) <= EndOf(k) <=> i <= r
    BY <1>1, RecordsInIs
  <2>2. ASSUME NEW i \in RecordIds PROVE i <= k <=> DataEnd(i) <= EndOf(k)
    <3>1. CASE i <= k
      <4>1. EndOf(i) <= EndOf(k)
        BY <3>1, EndOfOrder, EndsIs DEF RecordIds
      <4>. QED  BY <3>1, <4>1, <1>1, DataEndIs
    <3>2. CASE k < i
      <4>1. EndOf(k) < DataEnd(i)
        <5>1. CASE k = 0
          BY <5>1, DataEndIs, EndsIs
        <5>2. CASE k # 0
          BY <5>2, <3>2, DataEndOrder, EndsIs DEF RecordIds
        <5>. QED  BY <5>1, <5>2
      <4>. QED  BY <3>2, <4>1, <1>1, DataEndIs DEF RecordIds
    <3>. QED  BY <3>1, <3>2, EndsIs DEF RecordIds
  <2>3. (r + 1 \in RecordIds \/ r = Len(Ends)) /\ (r \in RecordIds \/ r = 0)
    BY RecordIdsAround
  <2>4. (k + 1 \in RecordIds \/ k = Len(Ends)) /\ (k \in RecordIds \/ k = 0)
    BY RecordIdsAround
  <2>. QED  BY <2>1, <2>2, <2>3, <2>4, EndsIs
<1>. QED  BY <1>1, <1>2, <1>3

\* The LSNs of the storage: zero, or where records end.
LEMMA BoundaryIs ==
  ASSUME NEW l \in {StartLsn} \cup RecordEnds
  PROVE  /\ l \in Nat /\ l \in Lsn /\ StartLsn <= l /\ l <= EndLsn
         /\ RecordsBefore(l) \in 0 .. Len(Ends) /\ l = EndOf(RecordsBefore(l))
         /\ RecordsIn(l) = RecordsBefore(l)
         /\ segment_number(l) \in Segments
<1>1. PICK k \in 0 .. Len(Ends) : l = EndOf(k)
  <2>1. CASE l = StartLsn
    BY <2>1, EndsIs
  <2>2. CASE l \in RecordEnds
    BY <2>2, EndsIs DEF RecordEnds, RecordIds
  <2>. QED  BY <2>1, <2>2
<1>2. l \in Nat /\ l \in Lsn /\ StartLsn <= l /\ l <= EndLsn
  BY <1>1, EndOfOrder
<1>3. segment_number(l) \in Segments
  BY <1>2, SegmentMono, DivMod, EndsIs DEF Segments
<1>. QED  BY <1>1, <1>2, <1>3, CountsAtEnd

LEMMA CountsAtZero ==
  RecordsBefore(0) = 0 /\ RecordsIn(0) = 0
<1>1. RecordsBefore(0) = 0
  <2>1. RecordsBefore(0) \in Nat /\ (RecordsBefore(0) # 0 => RecordsBefore(0) \in RecordIds)
    BY RecordsBeforeIs DEF RecordIds
  <2>2. RecordsBefore(0) # 0 => EndOf(RecordsBefore(0)) <= 0
    BY <2>1, RecordsBeforeIs
  <2>. QED  BY <2>1, <2>2, DataEndIs
<1>2. RecordsIn(0) = 0
  <2>1. RecordsIn(0) \in Nat /\ (RecordsIn(0) # 0 => RecordsIn(0) \in RecordIds)
    BY RecordsInIs DEF RecordIds
  <2>2. RecordsIn(0) # 0 => DataEnd(RecordsIn(0)) <= 0
    BY <2>1, RecordsInIs
  <2>. QED  BY <2>1, <2>2, DataEndIs
<1>. QED  BY <1>1, <1>2

LEMMA CountsMono ==
  ASSUME NEW a \in Nat, NEW b \in Nat, a <= b
  PROVE  /\ RecordsBefore(a) <= RecordsBefore(b) /\ RecordsIn(a) <= RecordsIn(b)
<1>1. RecordsBefore(a) <= RecordsBefore(b)
  <2>1. RecordsBefore(a) = 0 \/ RecordsBefore(a) \in RecordIds
    BY RecordsBeforeIs, EndsIs DEF RecordIds
  <2>2. CASE RecordsBefore(a) \in RecordIds
    <3>1. EndOf(RecordsBefore(a)) <= a /\ EndOf(RecordsBefore(a)) \in Nat
      BY <2>2, RecordsBeforeIs, DataEndIs
    <3>. QED  BY <2>2, <3>1, RecordsBeforeIs
  <2>. QED  BY <2>1, <2>2, RecordsBeforeIs
<1>2. RecordsIn(a) <= RecordsIn(b)
  <2>1. RecordsIn(a) = 0 \/ RecordsIn(a) \in RecordIds
    BY RecordsInIs, EndsIs DEF RecordIds
  <2>2. CASE RecordsIn(a) \in RecordIds
    <3>1. DataEnd(RecordsIn(a)) <= a /\ DataEnd(RecordsIn(a)) \in Nat
      BY <2>2, RecordsInIs, DataEndIs
    <3>. QED  BY <2>2, <3>1, RecordsInIs
  <2>. QED  BY <2>1, <2>2, RecordsInIs
<1>. QED  BY <1>1, <1>2

\* A write completes at most as many records as it has cells.
LEMMA RecordsPerCell ==
  ASSUME NEW a \in Nat, NEW b \in Nat, a <= b
  PROVE  RecordsIn(b) - RecordsIn(a) <= b - a
<1>. DEFINE S == RecordsIn(a) + 1 .. RecordsIn(b)
            T == a + 1 .. b
            F == [i \in S |-> DataEnd(i)]
<1>1. RecordsIn(a) \in 0 .. Len(Ends) /\ RecordsIn(b) \in 0 .. Len(Ends)
      /\ RecordsIn(a) <= RecordsIn(b)
  BY RecordsInIs, CountsMono
<1>2. S \subseteq RecordIds
  BY <1>1, EndsIs DEF RecordIds
<1>3. \A i \in S : DataEnd(i) \in T
  <2>. TAKE i \in S
  <2>1. i \in RecordIds /\ ~(i <= RecordsIn(a)) /\ i <= RecordsIn(b)
    BY <1>1, <1>2
  <2>2. DataEnd(i) \in Nat /\ ~(DataEnd(i) <= a) /\ DataEnd(i) <= b
    BY <2>1, RecordsInIs, DataEndIs
  <2>. QED  BY <2>2
<1>4. \A i, j \in S : DataEnd(i) = DataEnd(j) => i = j
  <2>. TAKE i, j \in S
  <2>1. i \in RecordIds /\ j \in RecordIds /\ i \in Nat /\ j \in Nat
        /\ DataEnd(i) \in Nat /\ DataEnd(j) \in Nat
    BY <1>2, DataEndIs, EndsIs DEF RecordIds
  <2>. QED  BY <2>1, DataEndOrder
<1>5. IsFiniteSet(T) /\ Cardinality(T) = b - a
  <2>1. a + 1 \in Int /\ b \in Int
    OBVIOUS
  <2>2. IsFiniteSet(T) /\ Cardinality(T) = IF a + 1 > b THEN 0 ELSE b - (a + 1) + 1
    BY <2>1, FS_Interval
  <2>. QED  BY <2>2
<1>6. IsFiniteSet(S) /\ Cardinality(S) = RecordsIn(b) - RecordsIn(a)
  <2>0. PICK x \in Nat, y \in Nat : x = RecordsIn(a) /\ y = RecordsIn(b) /\ x <= y
    BY <1>1, EndsIs
  <2>1. x + 1 \in Int /\ y \in Int
    BY <2>0
  <2>2. IsFiniteSet(x + 1 .. y) /\ Cardinality(x + 1 .. y) = IF x + 1 > y THEN 0 ELSE y - (x + 1) + 1
    BY <2>1, FS_Interval
  <2>. QED  BY <2>0, <2>2
<1>7. F \in Injection(S, T)
  BY <1>3, <1>4 DEF Injection, IsInjective
<1>8. Cardinality(S) <= Cardinality(T)
  BY <1>5, <1>7, FS_Injection
<1>. QED  BY <1>5, <1>6, <1>8

LEMMA MaxOfTwo ==
  ASSUME NEW a \in Nat, NEW b \in Nat
  PROVE  Max({a, b}) = IF a <= b THEN b ELSE a
<1>1. \E x \in {a, b} : \A y \in {a, b} : x >= y
  OBVIOUS
<1>2. Max({a, b}) \in {a, b} /\ \A y \in {a, b} : Max({a, b}) >= y
  BY <1>1, Zenon DEF Max
<1>. QED  BY <1>2

LEMMA MinOfTwo ==
  ASSUME NEW a \in Nat, NEW b \in Nat
  PROVE  Min({a, b}) = IF a <= b THEN a ELSE b
<1>1. \E x \in {a, b} : \A y \in {a, b} : x =< y
  OBVIOUS
<1>2. Min({a, b}) \in {a, b} /\ \A y \in {a, b} : Min({a, b}) =< y
  BY <1>1, Zenon DEF Min
<1>. QED  BY <1>2

\* find_end_of_wal stops at the first record that is not intact.
LEMMA FoundIs ==
  ASSUME NEW cells, NEW lsn \in Nat
  PROVE  /\ find_end_of_wal(cells, lsn) \in RecordsBefore(lsn) .. Len(Ends)
         /\ \A j \in RecordsBefore(lsn) + 1 .. find_end_of_wal(cells, lsn) : Intact(cells, j)
         /\ find_end_of_wal(cells, lsn) < Len(Ends)
               => ~Intact(cells, find_end_of_wal(cells, lsn) + 1)
<1>1. PICK first \in Nat : first = RecordsBefore(lsn) /\ first <= Len(Ends)
  BY RecordsBeforeIs, EndsIs
<1>2. PICK len \in Nat : len = Len(Ends)
  BY EndsIs
<1>. DEFINE S == {i \in first .. len : \A j \in first + 1 .. i : Intact(cells, j)}
            T == {i \in first + 1 .. len : \A j \in first + 1 .. i : Intact(cells, j)}
<1>3. T \in SUBSET (first + 1 .. len)
  OBVIOUS
<1>4. \A j \in T : \A i \in first + 1 .. j : i \in T
  OBVIOUS
<1>. HIDE DEF T
<1>5. /\ Cardinality(T) \in Nat /\ T = first + 1 .. first + Cardinality(T)
      /\ first + Cardinality(T) <= len
  BY <1>1, <1>2, <1>3, <1>4, DownClosed
<1>6. PICK k \in Nat : k = first + Cardinality(T)
  BY <1>5
<1>7. k \in S
  BY <1>2, <1>5, <1>6 DEF T
<1>8. \A i \in S : i <= k
  <2>1. \A i \in S : i = first \/ i \in T
    BY <1>2 DEF T
  <2>2. \A i \in T : i <= k
    BY <1>5, <1>6
  <2>. QED  BY <2>1, <2>2, <1>5, <1>6
<1>. HIDE DEF S
<1>9. Max(S) = k
  <2>0. \A i \in S : i \in Nat
    BY <1>1, <1>2 DEF S
  <2>1. \E x \in S : \A y \in S : x >= y
    BY <1>7, <1>8, <2>0
  <2>2. Max(S) \in S /\ \A y \in S : Max(S) >= y
    BY <2>1, Zenon DEF Max
  <2>3. Max(S) \in Nat /\ Max(S) >= k /\ Max(S) <= k
    BY <2>0, <2>2, <1>7, <1>8, Zenon
  <2>. QED  BY <2>3
<1>10. find_end_of_wal(cells, lsn) = k
  <2>1. find_end_of_wal(cells, lsn) = Max(S)
    BY <1>1, <1>2 DEF find_end_of_wal, S
  <2>. QED  BY <2>1, <1>9
<1>11. k \in first .. len /\ \A j \in first + 1 .. k : Intact(cells, j)
  BY <1>7 DEF S
<1>12. k < len => ~Intact(cells, k + 1)
  <2>. HAVE k < len
  <2>1. SUFFICES ASSUME Intact(cells, k + 1) PROVE FALSE
    OBVIOUS
  <2>2. \A j \in first + 1 .. k + 1 : j \in first + 1 .. k \/ j = k + 1
    BY <1>1
  <2>3. k + 1 \in S
    <3>1. k + 1 \in first .. len
      BY <1>1, <1>2, <1>11
    <3>2. \A j \in first + 1 .. k + 1 : Intact(cells, j)
      BY <2>1, <2>2, <1>11
    <3>. QED  BY <3>1, <3>2 DEF S
  <2>. QED  BY <2>3, <1>8
<1>. QED  BY <1>1, <1>2, <1>10, <1>11, <1>12

-----------------------------------------------------------------------------
(***************************************************************************)
(* What the invariant says of a state, in the form the proofs below use.   *)
(***************************************************************************)
LEMMA MemFacts ==
  ASSUME MemType
  PROVE  /\ mem.write_lsn \in Nat /\ mem.write_lsn \in Lsn
         /\ mem.write_record_lsn \in {0, StartLsn} \cup RecordEnds
         /\ mem.flush_record_lsn \in {0, StartLsn} \cup RecordEnds
         /\ mem.write_record_lsn \in Nat /\ mem.flush_record_lsn \in Nat
         /\ mem.file \in BOOLEAN /\ mem.truncated \in BOOLEAN /\ mem.streaming \in BOOLEAN
         /\ op.until \in Nat /\ op.until \in Lsn
         /\ op.at \in {"idle", "write", "complete", "remove", "zeroed", "adopt"}
         /\ segment_number(mem.write_lsn) \in Nat /\ segment_number(op.until) \in Nat
         /\ WriteEnd \in Nat
         /\ term \in Nat
<1>1. \A l \in Lsn : l \in Nat
  BY EndsIs DEF Lsn
<1>2. \A l \in {0, StartLsn} \cup RecordEnds : l \in Nat
  BY BoundaryIs
<1>3. /\ mem.write_lsn \in Nat /\ op.until \in Nat /\ mem.write_record_lsn \in Nat
      /\ mem.flush_record_lsn \in Nat
  BY <1>1, <1>2 DEF MemType
<1>4. segment_number(mem.write_lsn) \in Nat /\ segment_number(op.until) \in Nat
  BY <1>3, DivMod
<1>5. SegmentEnd(segment_number(mem.write_lsn)) \in Nat
  BY <1>4, SegmentEndIs
<1>. QED  BY <1>1, <1>3, <1>4, <1>5, BoundsAssumption DEF MemType, WriteEnd

LEMMA LogFacts ==
  ASSUME IInv
  PROVE  /\ Len(log) \in Nat /\ Len(log) \in 0 .. Len(Ends) /\ log \in Seq(1 .. MaxTerm)
         /\ 1 .. Len(log) \subseteq RecordIds
         /\ EndOf(Len(log)) \in Nat /\ EndOf(Len(log)) >= StartLsn
         /\ \A i \in 1 .. Len(log) : /\ DataEnd(i) \in Nat /\ (mem.truncated => DataEnd(i) <= WriteEnd)
                                     /\ EndOf(i) \in Nat /\ EndOf(i) <= EndOf(Len(log))
                                     /\ log[i] \in 1 .. MaxTerm
         /\ Len(log) < Len(Ends) => /\ Len(log) + 1 \in RecordIds
                                    /\ mem.truncated => WriteEnd < DataEnd(Len(log) + 1)
<1>1. WriteEnd \in Nat
  BY MemFacts DEF IInv
<1>2. Len(log) \in 0 .. Len(Ends) /\ Len(log) \in Nat /\ log \in Seq(1 .. MaxTerm)
      /\ (mem.truncated => Len(log) = RecordsIn(WriteEnd))
  <2>1. log \in Seq(1 .. MaxTerm) /\ Len(log) <= Len(Ends)
        /\ (mem.truncated => Len(log) = RecordsIn(WriteEnd))
    BY DEF IInv, LogInv
  <2>2. Len(log) \in Nat
    BY <2>1, LenProperties
  <2>. QED  BY <2>1, <2>2, EndsIs
<1>3. 1 .. Len(log) \subseteq RecordIds
  BY <1>2, EndsIs DEF RecordIds
<1>4. EndOf(Len(log)) \in Nat /\ EndOf(Len(log)) >= StartLsn
  BY <1>2, EndOfOrder
<1>5. ASSUME NEW i \in 1 .. Len(log)
      PROVE  /\ DataEnd(i) \in Nat /\ (mem.truncated => DataEnd(i) <= WriteEnd)
             /\ EndOf(i) \in Nat /\ EndOf(i) <= EndOf(Len(log)) /\ log[i] \in 1 .. MaxTerm
  <2>1. i \in RecordIds /\ i \in 0 .. Len(Ends) /\ i <= Len(log)
    BY <1>2, <1>3, EndsIs
  <2>2. mem.truncated => DataEnd(i) <= WriteEnd
    BY <2>1, <1>1, <1>2, RecordsInIs
  <2>3. log[i] \in 1 .. MaxTerm
    BY <1>2, ElementOfSeq
  <2>4. EndOf(i) <= EndOf(Len(log))
    BY <2>1, <1>2, EndOfOrder
  <2>. QED  BY <2>1, <2>2, <2>3, <2>4, DataEndIs
<1>6. Len(log) < Len(Ends) => /\ Len(log) + 1 \in RecordIds
                              /\ mem.truncated => WriteEnd < DataEnd(Len(log) + 1)
  <2>. HAVE Len(log) < Len(Ends)
  <2>1. Len(log) + 1 \in RecordIds /\ ~(Len(log) + 1 <= Len(log))
    BY <1>2, EndsIs DEF RecordIds
  <2>2. mem.truncated => ~(DataEnd(Len(log) + 1) <= WriteEnd)
    BY <2>1, <1>1, <1>2, RecordsInIs
  <2>. QED  BY <2>1, <2>2, <1>1, DataEndIs
<1>. QED  BY <1>2, <1>3, <1>4, <1>5, <1>6

\* The records that a kill leaves, and those that are flushed, are in the log.
LEMMA KeptFacts ==
  ASSUME IInv
  PROVE  /\ Kept \in 0 .. Len(log) /\ Kept \in Nat /\ 1 .. Kept \subseteq RecordIds
         /\ Safe \in Nat /\ Safe <= Kept
         /\ RecordsBefore(mem.flush_record_lsn) \in 0 .. Len(log)
         /\ RecordsBefore(commit) \in Nat /\ RecordsBefore(commit) <= Kept
         /\ RecordsBefore(control.commit) \in Nat
         /\ RecordsBefore(control.commit) <= RecordsBefore(commit)
<1>1. /\ commit \in Nat /\ mem.flush_record_lsn \in Nat /\ mem.write_record_lsn \in Nat
      /\ op.until \in Nat /\ EndOf(Len(log)) \in Nat /\ mem.truncated \in BOOLEAN
      /\ Len(log) \in 0 .. Len(Ends) /\ Len(log) \in Nat /\ control.commit \in Nat
  <2>1. commit \in {0, StartLsn} \cup RecordEnds /\ control.commit \in {0, StartLsn} \cup RecordEnds
    BY DEF IInv, LsnInv
  <2>2. \A l \in {0, StartLsn} \cup RecordEnds : l \in Nat
    BY BoundaryIs
  <2>. QED  BY <2>1, <2>2, MemFacts, LogFacts DEF IInv
<1>2. RecordsBefore(EndOf(Len(log))) = Len(log)
  BY <1>1, CountsAtEnd
<1>3. /\ RecordsBefore(mem.flush_record_lsn) <= Len(log)
      /\ RecordsBefore(mem.flush_record_lsn) \in Nat /\ RecordsBefore(op.until) \in Nat
      /\ RecordsBefore(commit) \in Nat /\ RecordsBefore(control.commit) \in Nat
  <2>1. mem.flush_record_lsn <= EndOf(Len(log))
    BY <1>1 DEF IInv, PhaseInv, LogInv
  <2>2. RecordsBefore(mem.flush_record_lsn) <= RecordsBefore(EndOf(Len(log)))
    BY <1>1, <2>1, CountsMono
  <2>. QED  BY <1>1, <1>2, <2>2, RecordsBeforeIs
<1>4. ASSUME Truncating PROVE RecordsBefore(op.until) <= Len(log)
  <2>1. CASE mem.write_lsn = 0
    <3>1. op.until = EndOf(0) /\ 0 \in 0 .. Len(Ends)
      BY <1>4, <2>1, EndsIs DEF IInv, PhaseInv
    <3>2. RecordsBefore(op.until) = 0
      BY <3>1, CountsAtEnd
    <3>. QED  BY <3>2, <1>1
  <2>2. CASE mem.write_lsn # 0
    <3>1. op.until <= mem.flush_record_lsn
      BY <1>4, <2>2 DEF IInv, PhaseInv
    <3>2. RecordsBefore(op.until) <= RecordsBefore(mem.flush_record_lsn)
      BY <1>1, <3>1, CountsMono
    <3>. QED  BY <1>1, <1>3, <3>2
  <2>. QED  BY <2>1, <2>2
<1>5. RecordsBefore(control.commit) <= RecordsBefore(commit)
  <2>1. control.commit <= commit
    BY DEF IInv, LsnInv
  <2>. QED  BY <1>1, <2>1, CountsMono
<1>6. RecordsBefore(commit) <= RecordsBefore(IF Truncating THEN op.until ELSE mem.flush_record_lsn)
  <2>1. commit <= IF Truncating THEN op.until ELSE mem.flush_record_lsn
    BY DEF IInv, LsnInv
  <2>2. (IF Truncating THEN op.until ELSE mem.flush_record_lsn) \in Nat
    BY <1>1
  <2>. QED  BY <1>1, <2>1, <2>2, CountsMono
<1>7. Kept \in Nat /\ Kept <= Len(log) /\ Safe \in Nat /\ Safe <= Kept /\ RecordsBefore(commit) <= Safe
  <2>1. CASE Truncating
    BY <1>1, <1>3, <1>4, <1>6, <2>1 DEF Kept, Safe, Truncating
  <2>2. CASE ~Truncating
    BY <1>1, <1>3, <1>6, <2>2 DEF Kept, Safe, Truncating
  <2>. QED  BY <2>1, <2>2
<1>8. 1 .. Kept \subseteq RecordIds
  BY <1>1, <1>7, LogFacts
<1>. QED  BY <1>1, <1>3, <1>5, <1>7, <1>8

\* The values of a cell.
LEMMA CellFacts ==
  ASSUME CellInv, NEW c \in Cells
  PROVE  /\ data[c] \in 0 .. MaxTerm /\ disk[c] \in 0 .. MaxTerm /\ Stored[c] \in 0 .. MaxTerm
         /\ Stored[c] = IF data[c] = 0 THEN disk[c] ELSE data[c]
         /\ data[c] \in {0, Stored[c]} /\ disk[c] \in {0, Stored[c]}
BY DEF CellInv, Stored

\* commit_lsn and backup_lsn.
LEMMA LsnFacts ==
  ASSUME LsnInv
  PROVE  /\ commit \in Nat /\ backup \in Nat /\ control.commit \in Nat /\ control.backup \in Nat
         /\ commit \in Lsn /\ backup \in Lsn
         /\ segment_number(commit) \in Nat /\ segment_number(backup) \in Nat
         /\ segment_number(control.commit) \in Nat /\ segment_number(control.backup) \in Nat
         /\ segment_number(control.backup) <= segment_number(backup)
         /\ segment_number(control.backup) <= segment_number(control.commit)
         /\ segment_number(backup) <= segment_number(commit)
<1>1. \A l \in Lsn : l \in Nat
  BY EndsIs DEF Lsn
<1>2. \A l \in {0, StartLsn} \cup RecordEnds : l \in Nat /\ l \in Lsn
  BY BoundaryIs, EndsIs DEF Lsn
<1>3. /\ commit \in Nat /\ backup \in Nat /\ control.commit \in Nat /\ control.backup \in Nat
      /\ control.backup <= backup /\ control.backup <= control.commit /\ backup <= commit
      /\ commit \in Lsn /\ backup \in Lsn
  BY <1>1, <1>2 DEF LsnInv
<1>. QED  BY <1>3, DivMod, SegmentMono

LEMMA CellSegment ==
  \A c \in Cells : c \in Nat /\ segment_number(c) \in Segments /\ segment_number(c) \in Nat
<1>. TAKE c \in Cells
<1>1. c \in Nat /\ StartLsn <= c /\ c <= EndLsn
  BY EndsIs DEF Cells
<1>. QED  BY <1>1, SegmentMono, DivMod, EndsIs DEF Segments

LEMMA WriteSegment ==
  ASSUME MemType, PhaseInv, Ready
  PROVE  segment_number(mem.write_lsn) \in Segments
<1>1. mem.write_lsn \in Nat /\ StartLsn <= mem.write_lsn /\ mem.write_lsn <= EndLsn
  BY MemFacts, EndsIs DEF PhaseInv, Lsn
<1>2. /\ segment_number(StartLsn) <= segment_number(mem.write_lsn)
      /\ segment_number(mem.write_lsn) <= segment_number(EndLsn)
  BY <1>1, SegmentMono, EndsIs
<1>3. /\ segment_number(StartLsn) \in Nat /\ segment_number(mem.write_lsn) \in Nat
      /\ segment_number(EndLsn) \in Nat
  BY <1>1, DivMod, EndsIs
<1>. QED  BY <1>2, <1>3 DEF Segments

LEMMA OffloadFacts ==
  ASSUME OffloadInv
  PROVE  removing \in Nat /\ offloaded \in Nat
<1>1. Segments \subseteq Nat
  BY DivMod, EndsIs DEF Segments
<1>. QED  BY <1>1 DEF OffloadInv

-----------------------------------------------------------------------------
(***************************************************************************)
(* Init.                                                                   *)
(***************************************************************************)
LEMMA InitIInv ==
  ASSUME Init
  PROVE  IInv
<1>. USE EndsIs DEF Init, Opened, Idle
<1>1. MemType
  BY BoundsAssumption DEF MemType, Lsn
<1>2. PhaseInv
  BY DEF PhaseInv, Ready, Truncating
<1>3. LogInv
  <2>1. WriteEnd = 0 /\ EndOf(0) >= 0 /\ Len(log) = 0 /\ log \in Seq(1 .. MaxTerm)
    BY DEF WriteEnd, EndOf
  <2>. QED  BY <2>1, CountsAtZero DEF LogInv
<1>4. LsnInv
  BY DEF LsnInv, Lsn, Ready, Truncating
<1>5. OffloadInv
  BY DEF OffloadInv
<1>6. CellInv
  BY BoundsAssumption DEF CellInv, Stored
<1>0. Kept = 0 /\ Safe = 0
  BY CountsAtZero DEF Kept, Safe, Truncating
<1>7. RecordInv /\ FileInv /\ S3Inv
  BY <1>0 DEF RecordInv, FileInv, S3Inv, Ready
<1>8. SafeInv
  BY <1>0 DEF SafeInv
<1>9. EndInv
  <2>1. ~Intact(Stored, 1)
    <3>1. 1 \in RecordIds
      BY DEF RecordIds
    <3>2. EndOf(0) \in CellsOfRecord(1)
      BY <3>1, EndCellsOfRecord
    <3>3. \A c \in CellsOfRecord(1) : Stored[c] = 0
      BY <3>1, CellOfRecord DEF Stored
    <3>. QED  BY <3>2, <3>3 DEF Intact
  <2>. QED  BY <2>1 DEF EndInv, Ready
<1>. QED  BY <1>1, <1>2, <1>3, <1>4, <1>5, <1>6, <1>7, <1>8, <1>9 DEF IInv

-----------------------------------------------------------------------------
(***************************************************************************)
(* Commit, offloading and removal, which leave PhysicalStorage alone.      *)
(***************************************************************************)
StorageUnchanged == UNCHANGED <<data, disk, mem, op, term, log, risked, crashes>>

\* The parts of the invariant that are about PhysicalStorage alone.
LEMMA StorageKept ==
  ASSUME IInv, StorageUnchanged
  PROVE  MemType' /\ LogInv' /\ SafeInv' /\ Kept' = Kept
<1>. USE DEF StorageUnchanged
<1>1. MemType'
  BY DEF IInv, MemType
<1>2. LogInv'
  BY DEF IInv, LogInv, WriteEnd
<1>3. SafeInv'
  BY DEF IInv, SafeInv, Safe, Truncating
<1>4. Kept' = Kept
  BY DEF Kept
<1>. QED  BY <1>1, <1>2, <1>3, <1>4

LEMMA FilesKept ==
  ASSUME IInv, StorageUnchanged, UNCHANGED dir, control'.commit \in Nat,
         control.commit <= control'.commit
  PROVE  RecordInv' /\ EndInv'
<1>. USE DEF StorageUnchanged
<1>1. RecordInv'
  <2>1. Kept' = Kept
    BY StorageKept
  <2>2. RecordsBefore(control.commit) <= RecordsBefore(control'.commit)
        /\ RecordsBefore(control.commit) \in Nat /\ RecordsBefore(control'.commit) \in Nat
    BY CountsMono, RecordsBeforeIs, LsnFacts DEF IInv
  <2>3. ASSUME NEW i \in 1 .. Kept, NEW c \in CellsOfRecord(i)
        PROVE  data[c] = log[i] \/ (i <= RecordsBefore(control'.commit) /\ Gone(c))
    <3>1. data[c] = log[i] \/ (i <= RecordsBefore(control.commit) /\ Gone(c))
      BY DEF IInv, RecordInv
    <3>2. i \in Nat
      BY KeptFacts
    <3>. QED  BY <3>1, <3>2, <2>2
  <2>4. \A i \in 1 .. Len(log) : \A c \in CellsOfRecord(i) : Stored'[c] \in {0, log[i]}
    BY DEF IInv, RecordInv, Stored
  <2>5. Ready' => \A c \in Cells : EndOf(Len(log)) <= c /\ c < WriteEnd'
                   => data[c] = term /\ dir[segment_number(c)] # "none"
    BY DEF IInv, RecordInv, Ready, Truncating, WriteEnd
  <2>. QED  BY <2>1, <2>3, <2>4, <2>5 DEF RecordInv, Gone
<1>2. EndInv'
  BY DEF IInv, EndInv, Stored, Ready, Truncating, WriteEnd, Intact
<1>. QED  BY <1>1, <1>2

LEMMA CellsKept ==
  ASSUME IInv, StorageUnchanged, UNCHANGED s3
  PROVE  CellInv'
BY DEF IInv, CellInv, Stored, Truncating, StorageUnchanged

\* The control file, and backup_lsn, only go forward.
LEMMA FilesNeeded ==
  ASSUME IInv, StorageUnchanged, UNCHANGED dir, control'.backup \in Nat,
         control.backup <= control'.backup
  PROVE  FileInv'
<1>1. segment_number(control.backup) <= segment_number(control'.backup)
      /\ segment_number(control.backup) \in Nat /\ segment_number(control'.backup) \in Nat
  BY LsnFacts, SegmentMono, DivMod DEF IInv
<1>2. ASSUME NEW i \in 1 .. Kept, NEW c \in CellsOfRecord(i),
             segment_number(control'.backup) <= segment_number(c)
      PROVE  dir[segment_number(c)] # "none"
  <2>1. segment_number(c) \in Nat
    BY KeptFacts, CellOfRecord
  <2>2. segment_number(control.backup) <= segment_number(c)
    BY <1>1, <1>2, <2>1
  <2>. QED  BY <1>2, <2>2 DEF IInv, FileInv
<1>3. Kept' = Kept
  BY StorageKept
<1>. QED  BY <1>2, <1>3 DEF IInv, FileInv

LEMMA AdvanceCommitIInv ==
  ASSUME IInv, NEW lsn \in RecordEnds, AdvanceCommit(lsn)
  PROVE  IInv'
<1>. USE DEF AdvanceCommit, offload, failures, Idle
<1>1. StorageUnchanged /\ UNCHANGED <<dir, s3, backup, offloaded, removing>>
  BY DEF StorageUnchanged
<1>2. lsn \in Nat /\ lsn \in Lsn /\ commit \in Nat /\ backup \in Nat
      /\ control.commit \in Nat /\ control.backup \in Nat
      /\ backup \in Lsn /\ commit < lsn /\ lsn <= mem.flush_record_lsn
  BY BoundaryIs, LsnFacts, LsnFacts DEF IInv
<1>5. /\ control'.backup \in Nat /\ control.backup <= control'.backup
      /\ control'.commit \in Nat /\ control.commit <= control'.commit
  BY <1>2 DEF IInv, LsnInv
<1>3. MemType' /\ LogInv' /\ SafeInv' /\ RecordInv' /\ EndInv' /\ CellInv'
  BY <1>1, <1>5, StorageKept, FilesKept, CellsKept
<1>4. LsnInv'
  <2>1. op.at = "idle" /\ mem.streaming
    OBVIOUS
  <2>2. control.commit >= StartLsn /\ StartLsn \in Nat /\ StartLsn > 0
    BY <2>1, EndsIs DEF IInv, PhaseInv
  <2>3. ~Truncating /\ ~Truncating'
    BY <1>1 DEF Truncating, StorageUnchanged
  <2>4. CASE control' = control
    BY <1>1, <1>2, <2>2, <2>3, <2>4 DEF IInv, LsnInv, Ready, Truncating, StorageUnchanged
  <2>5. CASE control' = [commit |-> lsn, backup |-> backup]
    BY <1>1, <1>2, <2>2, <2>3, <2>5 DEF IInv, LsnInv, Ready, Truncating, StorageUnchanged
  <2>. QED  BY <2>4, <2>5
<1>6. FileInv'
  BY <1>1, <1>5, FilesNeeded
<1>7. PhaseInv'
  BY <1>1, <1>2, <1>5, EndsIs DEF IInv, PhaseInv, Ready, Truncating, StorageUnchanged, LsnInv
<1>8. OffloadInv'
  <2>1. segment_number(commit) <= segment_number(lsn) /\ segment_number(commit) \in Nat
        /\ segment_number(lsn) \in Nat
    BY <1>2, SegmentMono, DivMod
  <2>2. segment_number(control.backup) <= segment_number(control'.backup)
        /\ segment_number(control.backup) \in Nat /\ segment_number(control'.backup) \in Nat
    BY <1>2, <1>5, SegmentMono, DivMod
  <2>3. removing \in Nat /\ offloaded \in Nat
    BY OffloadFacts DEF IInv
  <2>. QED  BY <1>1, <2>1, <2>2, <2>3 DEF IInv, OffloadInv, Ready, Truncating, StorageUnchanged
<1>9. S3Inv'
  BY <1>1 DEF IInv, S3Inv, Gone, StorageUnchanged
<1>. QED  BY <1>3, <1>4, <1>6, <1>7, <1>8, <1>9 DEF IInv

LEMMA PersistControlIInv ==
  ASSUME IInv, PersistControl
  PROVE  IInv'
<1>. USE DEF PersistControl, offload, failures, Idle
<1>1. StorageUnchanged /\ UNCHANGED <<dir, s3, commit, backup, offloaded, removing>>
      /\ control' = [commit |-> commit, backup |-> backup]
  BY DEF StorageUnchanged
<1>2. commit \in Nat /\ backup \in Nat /\ control.commit \in Nat /\ control.backup \in Nat
      /\ backup \in Lsn /\ commit \in Lsn
  BY LsnFacts DEF IInv
<1>5. /\ control'.backup \in Nat /\ control.backup <= control'.backup
      /\ control'.commit \in Nat /\ control.commit <= control'.commit
  BY <1>1, <1>2 DEF IInv, LsnInv
<1>3. MemType' /\ LogInv' /\ SafeInv' /\ RecordInv' /\ EndInv' /\ CellInv'
  BY <1>1, <1>5, StorageKept, FilesKept, CellsKept
<1>4. LsnInv'
  <2>1. commit # 0 => backup >= StartLsn
    <3>1. commit # 0 => control.commit # 0
      BY DEF IInv, LsnInv
    <3>. QED  BY <3>1, <1>2, EndsIs DEF IInv, LsnInv
  <2>. QED
  BY <1>1, <1>2, <2>1 DEF IInv, LsnInv, Ready, Truncating, StorageUnchanged
<1>6. FileInv'
  BY <1>1, <1>5, FilesNeeded
<1>7. PhaseInv'
  BY <1>1, <1>2, <1>5, EndsIs DEF IInv, PhaseInv, Ready, Truncating, StorageUnchanged, LsnInv
<1>8. OffloadInv'
  <2>2. segment_number(control.backup) <= segment_number(control'.backup)
        /\ segment_number(control.backup) \in Nat /\ segment_number(control'.backup) \in Nat
    BY <1>2, <1>5, SegmentMono, DivMod
  <2>3. removing \in Nat /\ offloaded \in Nat
    BY OffloadFacts DEF IInv
  <2>. QED  BY <1>1, <2>2, <2>3 DEF IInv, OffloadInv, Ready, Truncating, StorageUnchanged
<1>9. S3Inv'
  BY <1>1 DEF IInv, S3Inv, Gone, StorageUnchanged
<1>. QED  BY <1>3, <1>4, <1>6, <1>7, <1>8, <1>9 DEF IInv

\* Segments are numbered from 1.
LEMMA SegmentsFromOne ==
  ASSUME NEW n \in Segments
  PROVE  n \in Nat /\ n >= 1
<1>1. segment_number(StartLsn) \in Nat /\ segment_number(EndLsn) \in Nat
  BY DivMod, EndsIs
<1>2. segment_number(StartLsn) >= 1
  <2>1. SegmentEnd(0) = SegSize
    BY LayoutAssumption DEF SegmentEnd
  <2>2. ~(StartLsn < SegmentEnd(0))
    BY <2>1, LayoutAssumption
  <2>3. StartLsn \in Nat /\ 0 \in Nat
    BY EndsIs
  <2>4. ~(segment_number(StartLsn) <= 0)
    BY <2>2, <2>3, SegmentEndIs
  <2>. QED  BY <1>1, <2>4
<1>. QED  BY <1>1, <1>2 DEF Segments

\* backup_lsn is not set before the timeline is.
LEMMA BackupIsSet ==
  ASSUME LsnInv, backup # 0
  PROVE  backup >= StartLsn /\ segment_number(backup) \in Segments
<1>1. backup >= StartLsn
  <2>1. commit # 0 /\ control.commit # 0
    BY DEF LsnInv
  <2>. QED  BY <2>1, LsnFacts, EndsIs DEF LsnInv
<1>2. backup <= EndLsn
  BY DEF LsnInv, Lsn
<1>3. segment_number(StartLsn) <= segment_number(backup)
      /\ segment_number(backup) <= segment_number(EndLsn)
  BY <1>1, <1>2, LsnFacts, SegmentMono, EndsIs
<1>. QED  BY <1>1, <1>3, LsnFacts, DivMod, EndsIs DEF Segments

\* What is committed is in the log, and is kept by a truncation.
LEMMA CommitInLog ==
  ASSUME IInv
  PROVE  /\ ~Truncating => commit <= EndOf(Len(log))
         /\ Truncating => commit <= op.until
<1>1. commit \in Nat /\ mem.flush_record_lsn \in Nat /\ mem.write_record_lsn \in Nat
      /\ EndOf(Len(log)) \in Nat
  BY LsnFacts, MemFacts, LogFacts DEF IInv
<1>. QED  BY <1>1 DEF IInv, LsnInv, PhaseInv, LogInv

\* What is committed can be read, if a power failure has not taken it.
LEMMA CommittedCells ==
  ASSUME IInv, NEW i \in 1 .. Len(log), NEW c \in CellsOfRecord(i), c < commit
  PROVE  i \in 1 .. Kept /\ (data[c] = log[i] \/ Gone(c))
<1>0. i \in RecordIds /\ i \in Nat
  BY LogFacts
<1>1. i \in RecordIds /\ i \in Nat /\ c \in Nat /\ EndOf(i - 1) <= c
  BY <1>0, CellOfRecord
<1>2. commit \in {StartLsn} \cup RecordEnds
  BY <1>1, LsnFacts DEF IInv, LsnInv
<1>3. PICK k \in 0 .. Len(Ends) : k = RecordsBefore(commit) /\ commit = EndOf(k) /\ k <= Kept
  BY <1>2, BoundaryIs, KeptFacts
<1>4. i <= k
  <2>1. i - 1 \in 0 .. Len(Ends) /\ i - 1 \in Nat /\ k \in Nat
    BY <1>1, EndsIs DEF RecordIds
  <2>2. EndOf(i - 1) < EndOf(k) /\ EndOf(i - 1) \in Nat /\ EndOf(k) \in Nat
    BY <1>1, <1>3, <2>1, EndOfOrder
  <2>3. ~(k <= i - 1)
    BY <2>1, <2>2, EndOfOrder
  <2>. QED  BY <1>1, <2>1, <2>3
<1>5. i \in 1 .. Kept
  BY <1>1, <1>3, <1>4, KeptFacts
<1>. QED  BY <1>5 DEF IInv, RecordInv

LEMMA BackupSegmentIInv ==
  ASSUME IInv, BackupSegment
  PROVE  IInv'
<1>. USE DEF BackupSegment, failures
<1>1. StorageUnchanged /\ UNCHANGED <<dir, commit, backup, control, removing>>
  BY DEF StorageUnchanged
<1>2. PICK n \in Segments : n = segment_number(backup)
  BY BackupIsSet DEF IInv
<1>3. /\ n \in Nat /\ n < segment_number(commit) /\ dir[n] = "full" /\ offloaded' = n
      /\ s3' = [c \in Cells |-> IF c \in CellsOf(n) THEN data[c] ELSE s3[c]]
      /\ backup # 0 /\ offloaded = 0
  BY <1>2, SegmentsFromOne
<1>0. control'.commit \in Nat /\ control.commit <= control'.commit
  BY <1>1, LsnFacts DEF IInv
<1>4. MemType' /\ LogInv' /\ SafeInv' /\ RecordInv' /\ EndInv' /\ Kept' = Kept
  BY <1>0, <1>1, StorageKept, FilesKept
<1>5. CellInv'
  BY <1>1, <1>3 DEF IInv, CellInv, Stored, Truncating, StorageUnchanged
<1>6. LsnInv' /\ PhaseInv'
  BY <1>1 DEF IInv, LsnInv, PhaseInv, Ready, Truncating, StorageUnchanged
<1>7. FileInv'
  BY <1>1, StorageKept DEF IInv, FileInv
<1>8. OffloadInv'
  <2>1. ASSUME Ready PROVE SegmentEnd(n) <= mem.write_lsn
    <3>1. mem.write_lsn \in Nat /\ segment_number(mem.write_lsn) \in Nat
      BY MemFacts DEF IInv
    <3>2. ~(n > segment_number(mem.write_lsn)) /\ n # segment_number(mem.write_lsn)
      BY <1>3, <2>1 DEF IInv, EndInv
    <3>3. ~(segment_number(mem.write_lsn) <= n)
      BY <1>3, <3>1, <3>2
    <3>4. ~(mem.write_lsn < SegmentEnd(n)) /\ SegmentEnd(n) \in Nat
      BY <1>3, <3>1, <3>3, SegmentEndIs
    <3>. QED  BY <3>1, <3>4
  <2>. QED  BY <1>1, <1>2, <1>3, <2>1 DEF IInv, OffloadInv, Ready, Truncating, StorageUnchanged
<1>9. S3Inv'
  <2>1. SUFFICES ASSUME NEW i \in 1 .. Len(log), NEW c \in CellsOfRecord(i),
                        segment_number(c) < n \/ segment_number(c) = n
                 PROVE  s3'[c] = log[i] \/ Gone(c)
    BY <1>1, <1>2, <1>3 DEF S3Inv, Gone, StorageUnchanged
  <2>2. c \in Cells /\ c \in Nat /\ segment_number(c) \in Nat
    BY LogFacts, CellOfRecord
  <2>3. CASE segment_number(c) = n
    <3>1. c < commit
      <4>1. commit \in Nat /\ segment_number(commit) \in Nat
        BY LsnFacts DEF IInv
      <4>2. commit <= c => segment_number(commit) <= segment_number(c)
        BY <2>2, <4>1, SegmentMono
      <4>. QED  BY <1>3, <2>2, <2>3, <4>1, <4>2
    <3>2. data[c] = log[i] \/ Gone(c)
      BY <3>1, CommittedCells
    <3>. QED  BY <1>3, <2>2, <2>3, <3>2 DEF CellsOf
  <2>4. CASE segment_number(c) < n
    <3>1. s3[c] = log[i] \/ Gone(c)
      BY <1>2, <2>4 DEF IInv, S3Inv
    <3>2. c \notin CellsOf(n)
      BY <1>3, <2>2, <2>4 DEF CellsOf
    <3>. QED  BY <1>3, <2>2, <3>1, <3>2
  <2>. QED  BY <2>1, <2>3, <2>4
<1>. QED  BY <1>4, <1>5, <1>6, <1>7, <1>8, <1>9 DEF IInv

LEMMA SetWalBackupLsnIInv ==
  ASSUME IInv, set_wal_backup_lsn
  PROVE  IInv'
<1>. USE DEF set_wal_backup_lsn, failures
<1>1. StorageUnchanged /\ UNCHANGED <<dir, s3, commit, control, removing>> /\ offloaded' = 0
  BY DEF StorageUnchanged
<1>2. PICK n \in Nat : /\ n = offloaded /\ n = segment_number(backup)
                       /\ n < segment_number(commit)
                       /\ Ready => SegmentEnd(n) <= mem.write_lsn
                       /\ backup # 0
  BY OffloadFacts DEF IInv, OffloadInv
<1>3. /\ SegmentEnd(n) \in Nat /\ SegmentEnd(n) > backup /\ SegmentEnd(n) <= commit
      /\ backup \in Nat /\ commit \in Nat /\ segment_number(SegmentEnd(n)) = n + 1
  <2>1. backup \in Nat /\ commit \in Nat /\ segment_number(commit) \in Nat
    BY LsnFacts DEF IInv
  <2>2. backup < SegmentEnd(n) /\ ~(commit < SegmentEnd(n)) /\ SegmentEnd(n) \in Nat
    BY <1>2, <2>1, SegmentEndIs
  <2>3. segment_number(SegmentEnd(n)) = n + 1
    BY SegmentEndIs
  <2>. QED  BY <2>1, <2>2, <2>3
<1>4. backup' = SegmentEnd(n)
  BY <1>2, <1>3, MaxOfTwo
<1>0. control'.commit \in Nat /\ control.commit <= control'.commit
  BY <1>1, LsnFacts DEF IInv
<1>5. MemType' /\ LogInv' /\ SafeInv' /\ RecordInv' /\ EndInv' /\ CellInv' /\ Kept' = Kept
  BY <1>0, <1>1, StorageKept, FilesKept, CellsKept
<1>6. LsnInv'
  <2>1. SegmentEnd(n) \in Lsn
    <3>1. commit \in Lsn
      BY LsnFacts DEF IInv
    <3>. QED  BY <1>3, <3>1, EndsIs DEF Lsn
  <2>2. backup # 0 /\ commit # 0 /\ SegmentEnd(n) # 0
    BY <1>2, <1>3
  <2>3. control.backup \in Nat /\ control.backup <= SegmentEnd(n)
    BY <1>3, LsnFacts DEF IInv, LsnInv
  <2>. QED  BY <1>1, <1>2, <1>3, <1>4, <2>1, <2>2, <2>3
            DEF IInv, LsnInv, Ready, Truncating, StorageUnchanged
<1>7. PhaseInv'
  BY <1>1 DEF IInv, PhaseInv, Ready, Truncating, StorageUnchanged
<1>8. FileInv'
  BY <1>1, StorageKept DEF IInv, FileInv
<1>9. OffloadInv'
  BY <1>1 DEF IInv, OffloadInv
<1>10. S3Inv'
  <2>1. SUFFICES ASSUME NEW i \in 1 .. Len(log), NEW c \in CellsOfRecord(i),
                        segment_number(c) < n + 1
                 PROVE  s3[c] = log[i] \/ Gone(c)
    BY <1>1, <1>3, <1>4 DEF S3Inv, Gone, StorageUnchanged
  <2>2. segment_number(c) \in Nat
    BY LogFacts, CellOfRecord
  <2>3. segment_number(c) < n \/ segment_number(c) = n
    BY <2>1, <2>2
  <2>. QED  BY <1>2, <2>3 DEF IInv, S3Inv
<1>. QED  BY <1>5, <1>6, <1>7, <1>8, <1>9, <1>10 DEF IInv

LEMMA RemoveOldWalIInv ==
  ASSUME IInv, NEW n \in Segments, RemoveOldWal(n)
  PROVE  IInv'
<1>. USE DEF RemoveOldWal, failures
<1>1. /\ StorageUnchanged /\ UNCHANGED <<dir, s3, commit, backup, control, offloaded>>
      /\ removing' = n
  BY DEF StorageUnchanged
<1>0. control'.commit \in Nat /\ control.commit <= control'.commit
  BY <1>1, LsnFacts DEF IInv
<1>2. MemType' /\ LogInv' /\ SafeInv' /\ RecordInv' /\ EndInv' /\ CellInv' /\ Kept' = Kept
  BY <1>0, <1>1, StorageKept, FilesKept, CellsKept
<1>3. LsnInv' /\ PhaseInv'
  BY <1>1 DEF IInv, LsnInv, PhaseInv, Ready, Truncating, StorageUnchanged
<1>4. FileInv'
  BY <1>1, StorageKept DEF IInv, FileInv
<1>5. n < segment_number(control.backup)
  BY SegmentsFromOne, LsnFacts DEF IInv, LastToRemove
<1>6. OffloadInv'
  BY <1>1, <1>5 DEF IInv, OffloadInv, Ready, Truncating, StorageUnchanged
<1>7. S3Inv'
  BY <1>1 DEF IInv, S3Inv, Gone, StorageUnchanged
<1>. QED  BY <1>2, <1>3, <1>4, <1>6, <1>7 DEF IInv

\* A cell of the record that is begun is not in a segment that is removed.

\* Where cells and files have only been cleared, no record has appeared.
LEMMA StoredCleared ==
  ASSUME IInv, log' = log, \A c \in Cells : Stored'[c] \in {0, Stored[c]},
         \A c \in Cells : Stored'[c] # 0 /\ dir'[segment_number(c)] # "none"
                             => dir[segment_number(c)] # "none"
  PROVE  /\ \A i \in 1 .. Len(log) : \A c \in CellsOfRecord(i) : Stored'[c] \in {0, log[i]}
         /\ Len(log') < Len(Ends) => ~Intact(Stored, Len(log) + 1)'
<1>1. ASSUME NEW i \in 1 .. Len(log), NEW c \in CellsOfRecord(i)
      PROVE  Stored'[c] \in {0, log[i]}
  <2>1. i \in RecordIds
    BY LogFacts
  <2>2. c \in Cells
    BY <2>1, CellOfRecord
  <2>3. Stored[c] \in {0, log[i]}
    BY DEF IInv, RecordInv
  <2>. QED  BY <2>2, <2>3
<1>2. ASSUME Len(log) < Len(Ends) PROVE ~Intact(Stored, Len(log) + 1)'
  <2>1. ~Intact(Stored, Len(log) + 1) /\ Len(log) + 1 \in RecordIds
    BY <1>2, LogFacts DEF IInv, EndInv
  <2>2. \A c \in CellsOfRecord(Len(log) + 1) : c \in Cells /\ segment_number(c) \in Segments
    BY <2>1, CellOfRecord
  <2>3. \A t \in 1 .. MaxTerm : t # 0
    OBVIOUS
  <2>. QED  BY <2>1, <2>2, <2>3 DEF Intact
<1>. QED  BY <1>1, <1>2

LEMMA RemoveUpToIInv ==
  ASSUME IInv, NEW n \in Segments, RemoveUpTo(n)
  PROVE  IInv'
<1>. USE DEF RemoveUpTo, failures
<1>1. /\ StorageUnchanged /\ UNCHANGED <<s3, commit, backup, control, offloaded>>
      /\ dir' = [dir EXCEPT ![n] = "none"]
      /\ removing' \in {0, removing}
  BY DEF StorageUnchanged
<1>2. n \in Nat /\ n < segment_number(control.backup)
  <2>1. n \in Nat /\ n >= 1 /\ removing \in Nat /\ segment_number(control.backup) \in Nat
    BY SegmentsFromOne, OffloadFacts, LsnFacts DEF IInv
  <2>. QED  BY <2>1 DEF IInv, OffloadInv
<1>3. dir \in [Segments -> {"none", "partial", "full"}]
  BY DEF IInv, FileInv
<1>4. dir' \in [Segments -> {"none", "partial", "full"}]
  BY <1>1, <1>3
<1>5. \A m \in Segments : /\ m # n => dir'[m] = dir[m]
                          /\ dir'[m] # "none" => dir[m] # "none" /\ dir'[m] = dir[m]
  BY <1>1, <1>3
<1>6. \A l \in Nat : control.backup <= l => segment_number(l) # n
  <2>. TAKE l \in Nat
  <2>. HAVE control.backup <= l
  <2>1. segment_number(control.backup) <= segment_number(l) /\ segment_number(l) \in Nat
        /\ segment_number(control.backup) \in Nat
    BY LsnFacts, SegmentMono, DivMod DEF IInv
  <2>. QED  BY <1>2, <2>1
<1>7. MemType' /\ LogInv' /\ SafeInv' /\ CellInv' /\ Kept' = Kept
  BY <1>1, StorageKept, CellsKept
<1>8. LsnInv' /\ PhaseInv'
  BY <1>1 DEF IInv, LsnInv, PhaseInv, Ready, Truncating, StorageUnchanged
<1>9. OffloadInv'
  BY <1>1 DEF IInv, OffloadInv, Ready, Truncating, StorageUnchanged
<1>10. S3Inv'
  BY <1>1 DEF IInv, S3Inv, Gone, StorageUnchanged
<1>11. FileInv'
  <2>1. SUFFICES ASSUME NEW i \in 1 .. Kept, NEW c \in CellsOfRecord(i),
                        segment_number(control.backup) <= segment_number(c)
                 PROVE  dir'[segment_number(c)] # "none"
    BY <1>1, <1>4, <1>7 DEF FileInv
  <2>2. segment_number(c) \in Segments /\ segment_number(c) \in Nat
        /\ segment_number(control.backup) \in Nat
    BY KeptFacts, CellOfRecord, LsnFacts DEF IInv
  <2>3. segment_number(c) # n
    BY <1>2, <2>1, <2>2
  <2>4. dir[segment_number(c)] # "none"
    BY <2>1 DEF IInv, FileInv
  <2>. QED  BY <1>5, <2>2, <2>3, <2>4
<1>12. RecordInv'
  <2>1. /\ \A i \in 1 .. Len(log) : \A c \in CellsOfRecord(i) : Stored[c] \in {0, log[i]}
        /\ \A i \in 1 .. Kept : \A c \in CellsOfRecord(i) :
              data[c] = log[i] \/ (i <= RecordsBefore(control.commit) /\ Gone(c))
    BY DEF IInv, RecordInv
  <2>2. ASSUME Ready, NEW c \in Cells, EndOf(Len(log)) <= c, c < WriteEnd
        PROVE  data[c] = term /\ dir'[segment_number(c)] # "none"
    <3>1. data[c] = term /\ dir[segment_number(c)] # "none"
      BY <2>2 DEF IInv, RecordInv
    <3>2. c \in Nat /\ segment_number(c) \in Segments
      BY CellSegment
    <3>3. control.backup <= c
      <4>1. commit <= EndOf(Len(log)) /\ EndOf(Len(log)) \in Nat
        BY <2>2, CommitInLog, LogFacts DEF Ready
      <4>. QED  BY <2>2, <3>2, <4>1, LsnFacts DEF IInv, LsnInv
    <3>. QED  BY <1>5, <1>6, <3>1, <3>2, <3>3
  <2>. QED  BY <1>1, <1>7, <2>1, <2>2
            DEF RecordInv, Stored, Gone, Ready, Truncating, WriteEnd, StorageUnchanged
<1>13. EndInv'
  <2>1. ASSUME Len(log) < Len(Ends) PROVE ~Intact(Stored, Len(log) + 1)'
    <3>1. ~Intact(Stored, Len(log) + 1) /\ Len(log) + 1 \in RecordIds
      BY <2>1, LogFacts DEF IInv, EndInv
    <3>2. \A c \in CellsOfRecord(Len(log) + 1) : segment_number(c) \in Segments
      BY <3>1, CellOfRecord
    <3>3. Stored' = Stored /\ log' = log
      BY <1>1 DEF Stored, StorageUnchanged
    <3>. QED  BY <1>5, <3>1, <3>2, <3>3 DEF Intact
  <2>2. ASSUME op.at = "zeroed"
        PROVE  /\ \A m \in Segments : m > segment_number(op.until) => dir'[m] = "none"
               /\ dir'[segment_number(op.until)] # "none"
               /\ \A c \in CellsOf(segment_number(op.until)) : c >= op.until => data[c] = 0
    <3>1. control.backup <= op.until /\ op.until \in Nat
      BY <2>2, CommitInLog, LsnFacts, MemFacts DEF IInv, LsnInv, Truncating
    <3>2. segment_number(op.until) \in Segments
      BY <2>2, BoundaryIs DEF IInv, PhaseInv, Truncating
    <3>3. segment_number(op.until) # n
      BY <1>6, <3>1
    <3>. QED  BY <1>5, <2>2, <3>2, <3>3 DEF IInv, EndInv
  <2>3. ASSUME Ready
        PROVE  /\ \A m \in Segments : m > segment_number(mem.write_lsn) => dir'[m] = "none"
               /\ dir'[segment_number(mem.write_lsn)] = dir[segment_number(mem.write_lsn)]
               /\ \A c \in Cells : c >= WriteEnd /\ dir'[segment_number(c)] # "none"
                     => data[c] = 0 /\ disk[c] = 0
    <3>1. control.backup <= mem.write_lsn /\ mem.write_lsn \in Nat
      BY <2>3, LsnFacts, MemFacts DEF IInv, LsnInv
    <3>2. segment_number(mem.write_lsn) \in Segments
      BY <2>3, WriteSegment DEF IInv
    <3>3. segment_number(mem.write_lsn) # n
      BY <1>6, <3>1
    <3>4. \A m \in Segments : m > segment_number(mem.write_lsn) => dir'[m] = "none"
      BY <1>5, <2>3 DEF IInv, EndInv
    <3>5. \A c \in Cells : c >= WriteEnd /\ dir'[segment_number(c)] # "none"
                     => data[c] = 0 /\ disk[c] = 0
      BY <1>5, <2>3, CellSegment DEF IInv, EndInv
    <3>. QED  BY <1>5, <3>2, <3>3, <3>4, <3>5
  <2>. QED  BY <1>1, <2>1, <2>2, <2>3
            DEF IInv, EndInv, Stored, Ready, Truncating, WriteEnd, StorageUnchanged
<1>. QED  BY <1>7, <1>8, <1>9, <1>10, <1>11, <1>12, <1>13 DEF IInv

-----------------------------------------------------------------------------
(***************************************************************************)
(* Writing, up to the files: the call begins, and flush_wal.               *)
(***************************************************************************)

\* Unless a file is open or a truncation has not synced yet, all is on disk
\* but for what a kill has left.
LEMMA NothingUnsynced ==
  ASSUME CellInv, op.at \notin {"complete", "zeroed"}, ~mem.file \/ Truncating, NEW c \in Cells
  PROVE  data[c] = disk[c] \/ c \in risked
BY DEF CellInv

LEMMA WriteWalIInv ==
  ASSUME IInv, NEW n \in 1 .. MaxWrite, WriteWal(n)
  PROVE  IInv'
<1>. USE DEF WriteWal, failures
<1>1. /\ UNCHANGED <<dir, data, disk, mem, term, log, risked, crashes>>
      /\ UNCHANGED <<commit, backup, control, s3, offloaded, removing>>
      /\ op = Idle /\ op' = [at |-> "write", until |-> mem.write_lsn + n]
      /\ mem.streaming /\ mem.write_lsn + n <= EndLsn /\ n \in Nat /\ n >= 1 /\ n <= MaxWrite
  BY BoundsAssumption DEF retention, offload
<1>2. op.at = "idle" /\ op'.at = "write" /\ op'.until = mem.write_lsn + n
  BY <1>1 DEF Idle
<1>3. /\ Truncating' = Truncating /\ Ready' = Ready /\ WriteEnd' = WriteEnd /\ Stored' = Stored
      /\ ~Truncating /\ Kept' = Kept
  BY <1>1, <1>2 DEF Truncating, Ready, WriteEnd, Stored, Kept
<1>4. mem.write_lsn \in Nat /\ mem.write_lsn + n \in Lsn
  BY <1>1, MemFacts, EndsIs DEF IInv, Lsn
<1>5. MemType'
  BY <1>1, <1>2, <1>4 DEF IInv, MemType
<1>6. PhaseInv'
  <2>1. Ready /\ term >= 1
    BY <1>1, <1>3 DEF IInv, PhaseInv, Ready
  <2>2. mem.write_lsn < mem.write_lsn + n /\ mem.write_lsn + n <= mem.write_lsn + MaxWrite
    BY <1>1, <1>4, BoundsAssumption
  <2>. QED  BY <1>1, <1>2, <1>3, <2>1, <2>2 DEF IInv, PhaseInv
<1>7. LogInv' /\ LsnInv' /\ OffloadInv'
  BY <1>1, <1>2, <1>3 DEF IInv, LogInv, LsnInv, OffloadInv
<1>8. CellInv' /\ RecordInv'
  BY <1>1, <1>2, <1>3 DEF IInv, CellInv, RecordInv, Gone
<1>9. SafeInv' /\ FileInv' /\ S3Inv'
  BY <1>1, <1>3 DEF IInv, SafeInv, Safe, FileInv, S3Inv, Gone
<1>10. EndInv'
  BY <1>1, <1>2, <1>3 DEF IInv, EndInv, Intact
<1>. QED  BY <1>5, <1>6, <1>7, <1>8, <1>9, <1>10 DEF IInv

\* After flush_wal, and when truncate_wal begins, nothing is unsynced but
\* what a kill has left.
LEMMA SyncedIs ==
  ASSUME CellInv, op.at = "idle", data' = data,
         disk' = IF mem.file THEN Synced(segment_number(mem.write_lsn)) ELSE disk
  PROVE  /\ disk' \in [Cells -> 0 .. MaxTerm]
         /\ \A c \in Cells : disk'[c] = data[c] \/ (c \in risked /\ disk'[c] = disk[c])
         /\ \A c \in Cells : Stored'[c] \in {0, Stored[c]} /\ disk'[c] \in {0, Stored'[c]}
         /\ \A c \in Cells : data[c] = disk[c] => disk'[c] = data[c]
<1>1. \A c \in Cells : data[c] # disk[c] =>
         c \in risked \/ (mem.file /\ c \in CellsOf(segment_number(mem.write_lsn)))
  BY DEF CellInv, CellsOf
<1>2. /\ disk' \in [Cells -> 0 .. MaxTerm]
      /\ \A c \in Cells : disk'[c] = data[c] \/ (c \in risked /\ disk'[c] = disk[c])
  <2>1. CASE mem.file
    <3>1. disk' = [c \in Cells |-> IF c \in CellsOf(segment_number(mem.write_lsn)) THEN data[c]
                                   ELSE disk[c]]
      BY <2>1 DEF Synced
    <3>. QED  BY <1>1, <3>1 DEF CellInv
  <2>2. CASE ~mem.file
    BY <1>1, <2>2 DEF CellInv
  <2>. QED  BY <2>1, <2>2
<1>3. \A c \in Cells : Stored'[c] \in {0, Stored[c]} /\ disk'[c] \in {0, Stored'[c]}
  <2>. TAKE c \in Cells
  <2>1. Stored'[c] = IF data[c] = 0 THEN disk'[c] ELSE data[c]
    BY DEF Stored
  <2>. QED  BY <1>2, <2>1, CellFacts
<1>. QED  BY <1>2, <1>3

LEMMA FlushWalIInv ==
  ASSUME IInv, FlushWal
  PROVE  IInv'
<1>. USE DEF FlushWal, failures
<1>1. /\ UNCHANGED <<dir, data, op, term, log, risked, crashes>>
      /\ UNCHANGED <<commit, backup, control, s3, offloaded, removing>>
      /\ op.at = "idle"
      /\ mem' = [mem EXCEPT !.flush_record_lsn = mem.write_record_lsn]
  BY DEF retention, offload, Idle, FlushLsn
<1>2. disk' = IF mem.file THEN Synced(segment_number(mem.write_lsn)) ELSE disk
  BY DEF FlushWal
<1>3. /\ disk' \in [Cells -> 0 .. MaxTerm]
      /\ \A c \in Cells : disk'[c] = data[c] \/ (c \in risked /\ disk'[c] = disk[c])
      /\ \A c \in Cells : Stored'[c] \in {0, Stored[c]} /\ disk'[c] \in {0, Stored'[c]}
      /\ \A c \in Cells : data[c] = disk[c] => disk'[c] = data[c]
  BY <1>1, <1>2, SyncedIs DEF IInv
<1>4. /\ mem'.write_lsn = mem.write_lsn /\ mem'.write_record_lsn = mem.write_record_lsn
      /\ mem'.flush_record_lsn = mem.write_record_lsn /\ mem'.file = mem.file
      /\ mem'.truncated = mem.truncated /\ mem'.streaming = mem.streaming
  BY <1>1 DEF IInv, MemType
<1>14. mem.truncated
  BY DEF IInv, LogInv
<1>5. /\ Truncating' = Truncating /\ Ready' = Ready /\ WriteEnd' = WriteEnd
      /\ ~Truncating /\ Kept' = Kept
  BY <1>1, <1>4, <1>14 DEF Truncating, Ready, WriteEnd, Kept
<1>6. mem.write_record_lsn \in Nat /\ mem.flush_record_lsn \in Nat /\ mem.write_lsn \in Nat
      /\ mem.flush_record_lsn <= mem.write_record_lsn
  BY MemFacts DEF IInv, PhaseInv
<1>7. MemType'
  BY <1>1 DEF IInv, MemType
<1>8. PhaseInv'
  BY <1>1, <1>4, <1>5, <1>6, EndsIs DEF IInv, PhaseInv
<1>9. LogInv' /\ OffloadInv'
  BY <1>1, <1>4, <1>5, <1>14 DEF IInv, LogInv, OffloadInv
<1>10. LsnInv'
  <2>1. commit \in Nat /\ commit <= mem.flush_record_lsn
    BY <1>5, LsnFacts DEF IInv, LsnInv
  <2>2. commit <= mem'.flush_record_lsn
    BY <2>1, <1>4, <1>6
  <2>. QED  BY <1>1, <1>4, <1>5, <2>2 DEF IInv, LsnInv
<1>11. CellInv' /\ SafeInv'
  <2>1. CellInv'
    BY <1>1, <1>3, <1>5 DEF IInv, CellInv
  <2>2. SafeInv'
    <3>1. \A i \in 1 .. Safe' : \A c \in CellsOfRecord(i) : c \in Cells
      <4>1. Safe' \in 0 .. Len(Ends)
        <5>1. Safe' = RecordsBefore(mem.write_record_lsn)
          BY <1>4, <1>5 DEF Safe
        <5>. QED  BY <1>6, <5>1, RecordsBeforeIs
      <4>. QED  BY <4>1, CellOfRecord, EndsIs DEF RecordIds
    <3>. QED  BY <1>1, <1>3, <3>1 DEF SafeInv
  <2>. QED  BY <2>1, <2>2
<1>15. \A c : Gone(c) => Gone(c)'
  BY <1>1, <1>3 DEF Gone, IInv, CellInv
<1>16. /\ \A i \in 1 .. Len(log) : \A c \in CellsOfRecord(i) : Stored'[c] \in {0, log[i]}
       /\ Len(log') < Len(Ends) => ~Intact(Stored, Len(log) + 1)'
  BY <1>1, <1>3, StoredCleared
<1>12. RecordInv' /\ FileInv' /\ S3Inv'
  <2>1. RecordInv'
    BY <1>1, <1>5, <1>15, <1>16 DEF IInv, RecordInv
  <2>2. FileInv'
    BY <1>1, <1>5 DEF IInv, FileInv
  <2>3. S3Inv'
    BY <1>1, <1>15 DEF IInv, S3Inv
  <2>. QED  BY <2>1, <2>2, <2>3
<1>13. EndInv'
  BY <1>1, <1>3, <1>4, <1>5, <1>16 DEF IInv, EndInv
<1>. QED  BY <1>7, <1>8, <1>9, <1>10, <1>11, <1>12, <1>13 DEF IInv

-----------------------------------------------------------------------------
(***************************************************************************)
(* handle_elected: the end of it.                                          *)
(***************************************************************************)
LEMMA AdoptIInv ==
  ASSUME IInv, Adopt
  PROVE  IInv'
<1>. USE DEF Adopt, failures
<1>1. /\ UNCHANGED <<dir, data, disk, term, log, risked, crashes, s3, offloaded, removing>>
      /\ op.at = "adopt" /\ op' = Idle /\ op'.at = "idle"
      /\ mem' = [mem EXCEPT !.streaming = TRUE]
      /\ control' = [commit |-> commit', backup |-> backup']
  BY DEF offload, Idle
<1>2. /\ mem'.write_lsn = mem.write_lsn /\ mem'.write_record_lsn = mem.write_record_lsn
      /\ mem'.flush_record_lsn = mem.flush_record_lsn /\ mem'.file = mem.file
      /\ mem'.truncated = mem.truncated /\ mem'.streaming = TRUE /\ mem.truncated
  BY <1>1 DEF IInv, MemType, PhaseInv
<1>3. /\ ~Truncating /\ ~Truncating' /\ Ready /\ Ready' /\ WriteEnd' = WriteEnd
      /\ Stored' = Stored /\ Kept' = Kept
  BY <1>1, <1>2 DEF Truncating, Ready, WriteEnd, Stored, Kept
<1>4. /\ commit \in Nat /\ backup \in Nat /\ StartLsn \in Nat /\ StartLsn > 0
      /\ control.commit \in Nat /\ control.backup \in Nat
  BY LsnFacts, EndsIs DEF IInv
<1>5. /\ commit' = IF commit <= StartLsn THEN StartLsn ELSE commit
      /\ backup' = IF backup <= StartLsn THEN StartLsn ELSE backup
  BY <1>4, MaxOfTwo
<1>6. /\ commit # 0 => commit' = commit /\ commit >= StartLsn
      /\ backup # 0 => backup' = backup /\ backup >= StartLsn
      /\ commit = 0 => commit' = StartLsn /\ backup' = StartLsn /\ backup = 0
      /\ backup = 0 => commit = 0
  <2>1. commit # 0 => commit >= StartLsn
    BY BoundaryIs DEF IInv, LsnInv
  <2>2. backup # 0 => backup >= StartLsn
    BY BackupIsSet DEF IInv
  <2>3. (backup = 0) = (commit = 0)
    BY DEF IInv, LsnInv
  <2>. QED  BY <1>4, <1>5, <2>1, <2>2, <2>3
<1>7. mem.write_lsn \in Nat /\ mem.flush_record_lsn \in Nat /\ mem.write_lsn >= StartLsn
      /\ mem.flush_record_lsn >= StartLsn
  BY <1>3, <1>4, MemFacts DEF IInv, PhaseInv
<1>8. MemType'
  <2>1. 0 \in Lsn
    BY EndsIs DEF Lsn
  <2>2. Idle \in [at : {"idle", "write", "complete", "remove", "zeroed", "adopt"}, until : Lsn]
    BY <2>1 DEF Idle
  <2>. QED  BY <1>1, <2>2 DEF IInv, MemType
<1>9. PhaseInv'
  BY <1>1, <1>2, <1>3, <1>4, <1>6, <1>7 DEF IInv, PhaseInv
<1>10. LogInv'
  BY <1>1, <1>2, <1>3 DEF IInv, LogInv
<1>11. LsnInv'
  <2>1. StartLsn \in Lsn
    BY EndsIs DEF Lsn
  <2>2. commit' \in {0, StartLsn} \cup RecordEnds /\ backup' \in Lsn /\ commit' \in Lsn
    BY <1>6, <2>1, LsnFacts DEF IInv, LsnInv
  <2>3. backup' <= commit' /\ commit' >= StartLsn /\ backup' >= StartLsn
        /\ commit' <= mem.flush_record_lsn /\ backup' <= mem.write_lsn
    BY <1>3, <1>4, <1>6, <1>7 DEF IInv, LsnInv
  <2>4. commit' \in Nat /\ backup' \in Nat
    BY <1>4, <1>6
  <2>5. control'.commit = commit' /\ control'.backup = backup' /\ control' \in [commit : Lsn, backup : Lsn]
    BY <1>1, <2>2
  <2>. QED  BY <1>1, <1>2, <1>3, <1>4, <2>2, <2>3, <2>4, <2>5 DEF LsnInv
<1>12. control.backup <= control'.backup /\ control'.backup \in Nat
  <2>1. control.backup <= backup /\ control'.backup = backup'
    BY <1>1 DEF IInv, LsnInv
  <2>. QED  BY <1>4, <1>6, <2>1
<1>13. segment_number(control.backup) <= segment_number(control'.backup)
       /\ segment_number(control.backup) \in Nat /\ segment_number(control'.backup) \in Nat
  BY <1>4, <1>12, SegmentMono, DivMod
<1>14. OffloadInv'
  <2>1. offloaded # 0 => backup # 0 /\ commit' = commit /\ backup' = backup
    BY <1>6 DEF IInv, OffloadInv
  <2>2. removing \in Nat
    BY OffloadFacts DEF IInv
  <2>. QED  BY <1>1, <1>2, <1>3, <1>13, <2>1, <2>2 DEF IInv, OffloadInv
<1>15. CellInv' /\ RecordInv'
  <2>1. CellInv'
    BY <1>1, <1>2, <1>3 DEF IInv, CellInv
  <2>2. control.commit <= control'.commit /\ control'.commit \in Nat
    <3>1. control.commit <= commit /\ control'.commit = commit'
      BY <1>1 DEF IInv, LsnInv
    <3>. QED  BY <1>4, <1>6, <3>1
  <2>3. RecordsBefore(control.commit) <= RecordsBefore(control'.commit)
        /\ RecordsBefore(control.commit) \in Nat /\ RecordsBefore(control'.commit) \in Nat
    BY <1>4, <2>2, CountsMono, RecordsBeforeIs
  <2>4. ASSUME NEW i \in 1 .. Kept, NEW c \in CellsOfRecord(i)
        PROVE  data[c] = log[i] \/ (i <= RecordsBefore(control'.commit) /\ Gone(c))
    <3>1. data[c] = log[i] \/ (i <= RecordsBefore(control.commit) /\ Gone(c))
      BY DEF IInv, RecordInv
    <3>2. i \in Nat
      BY KeptFacts
    <3>. QED  BY <3>1, <3>2, <2>3
  <2>5. /\ \A i \in 1 .. Len(log) : \A c \in CellsOfRecord(i) : Stored[c] \in {0, log[i]}
        /\ \A c \in Cells : EndOf(Len(log)) <= c /\ c < WriteEnd
              => data[c] = term /\ dir[segment_number(c)] # "none"
    BY <1>3 DEF IInv, RecordInv
  <2>6. RecordInv'
    <3>1. /\ log' = log /\ data' = data /\ disk' = disk /\ risked' = risked /\ term' = term
          /\ dir' = dir
      BY <1>1
    <3>2. \A c : Gone(c)' = Gone(c)
      BY <3>1 DEF Gone
    <3>. QED  BY <1>3, <2>4, <2>5, <3>1, <3>2 DEF RecordInv
  <2>. QED  BY <2>1, <2>6
<1>16. SafeInv'
  BY <1>1, <1>2, <1>3 DEF IInv, SafeInv, Safe
<1>17. FileInv'
  <2>1. SUFFICES ASSUME NEW i \in 1 .. Kept, NEW c \in CellsOfRecord(i),
                        segment_number(control'.backup) <= segment_number(c)
                 PROVE  dir[segment_number(c)] # "none"
    BY <1>1, <1>3 DEF IInv, FileInv
  <2>2. segment_number(c) \in Nat
    BY KeptFacts, CellOfRecord
  <2>3. segment_number(control.backup) <= segment_number(c)
    BY <1>13, <2>1, <2>2
  <2>. QED  BY <1>3, <2>3 DEF IInv, FileInv
<1>18. EndInv'
  BY <1>1, <1>2, <1>3 DEF IInv, EndInv, Intact
<1>19. S3Inv'
  <2>1. SUFFICES ASSUME NEW i \in 1 .. Len(log), NEW c \in CellsOfRecord(i),
                        \/ segment_number(c) < segment_number(backup')
                        \/ offloaded # 0 /\ segment_number(c) = offloaded
                 PROVE  s3[c] = log[i] \/ Gone(c)
    <3>1. log' = log /\ s3' = s3 /\ offloaded' = offloaded
          /\ data' = data /\ disk' = disk /\ risked' = risked
      BY <1>1
    <3>. QED  BY <3>1 DEF S3Inv, Gone
  <2>2. CASE backup # 0
    BY <1>6, <2>1, <2>2 DEF IInv, S3Inv
  <2>3. CASE backup = 0
    <3>1. offloaded = 0 /\ backup' = StartLsn
      BY <1>6, <2>3 DEF IInv, OffloadInv
    <3>2. c \in Cells /\ c \in Nat /\ segment_number(c) \in Nat
      BY LogFacts, CellOfRecord
    <3>3. segment_number(StartLsn) <= segment_number(c) /\ segment_number(StartLsn) \in Nat
      BY <1>4, <3>2, SegmentMono, DivMod DEF Cells
    <3>. QED  BY <2>1, <3>1, <3>2, <3>3
  <2>. QED  BY <2>2, <2>3
<1>. QED  BY <1>8, <1>9, <1>10, <1>11, <1>14, <1>15, <1>16, <1>17, <1>18, <1>19 DEF IInv

-----------------------------------------------------------------------------
(***************************************************************************)
(* truncate_wal.                                                           *)
(***************************************************************************)

\* Intact, of given files.
IntactIn(files, cells, i) ==
    \E t \in 1 .. MaxTerm : \A c \in CellsOfRecord(i) :
        cells[c] = t /\ files[segment_number(c)] # "none"

\* Where all is cleared there is no record.
LEMMA NoneIfCleared ==
  ASSUME NEW files, NEW cells, NEW lsn \in Nat, NEW i \in RecordIds, lsn < DataEnd(i),
         \A c \in Cells : c >= lsn /\ files[segment_number(c)] # "none" => cells[c] = 0
  PROVE  ~IntactIn(files, cells, i)
<1>1. PICK c \in CellsOfRecord(i) : c >= lsn /\ c \in Cells
  <2>1. DataEnd(i) - 1 \in CellsOfRecord(i) /\ DataEnd(i) \in Nat
    BY EndCellsOfRecord, DataEndIs
  <2>2. DataEnd(i) - 1 \in Cells /\ DataEnd(i) - 1 >= lsn
    BY <2>1, CellOfRecord
  <2>. QED  BY <2>1, <2>2
<1>. QED  BY <1>1 DEF IntactIn

LEMMA BeginTruncateIInv ==
  ASSUME IInv, NEW lsn \in RecordEnds \cup {StartLsn}, BeginTruncate(lsn)
  PROVE  IInv'
<1>. USE DEF BeginTruncate, failures
<1>1. /\ UNCHANGED <<dir, data, log, risked, crashes>>
      /\ UNCHANGED <<commit, backup, control, s3, offloaded, removing>>
      /\ op.at = "idle" /\ term < MaxTerm /\ term' = term + 1 /\ commit <= lsn
      /\ IF mem.write_lsn = 0 THEN lsn = StartLsn
         ELSE lsn <= mem.flush_record_lsn /\ lsn <= mem.write_lsn
  BY DEF retention, offload, Idle
<1>2. /\ lsn \in Nat /\ lsn \in Lsn /\ lsn = EndOf(RecordsBefore(lsn))
      /\ RecordsIn(lsn) = RecordsBefore(lsn) /\ lsn \in {StartLsn} \cup RecordEnds
  BY BoundaryIs
<1>3. ~Truncating
  BY <1>1 DEF Truncating
<1>4. term' \in 0 .. MaxTerm /\ term' >= 1 /\ term' \in Nat
  BY <1>1, BoundsAssumption DEF IInv, MemType
<1>5. CASE NothingToTruncate(lsn)
  <2>1. /\ op' = [at |-> "adopt", until |-> lsn] /\ op'.at = "adopt" /\ op'.until = lsn
        /\ mem' = [mem EXCEPT !.streaming = FALSE] /\ UNCHANGED disk
        /\ mem.truncated /\ lsn = mem.write_lsn /\ lsn = mem.flush_record_lsn
    BY <1>5 DEF NothingToTruncate
  <2>2. /\ mem'.write_lsn = mem.write_lsn /\ mem'.write_record_lsn = mem.write_record_lsn
        /\ mem'.flush_record_lsn = mem.flush_record_lsn /\ mem'.file = mem.file
        /\ mem'.truncated = mem.truncated /\ mem'.streaming = FALSE
    BY <2>1 DEF IInv, MemType
  <2>3. /\ ~Truncating' /\ Ready /\ Ready' /\ WriteEnd' = WriteEnd /\ Stored' = Stored
        /\ WriteEnd = mem.write_lsn /\ Kept' = Kept
    BY <1>1, <1>3, <2>1, <2>2 DEF Truncating, Ready, WriteEnd, Stored, Kept
  <2>4. MemType'
    BY <1>1, <1>2, <1>4, <2>1 DEF IInv, MemType
  <2>5. PhaseInv'
    BY <1>1, <1>2, <1>4, <2>1, <2>2, <2>3 DEF IInv, PhaseInv
  <2>6. LogInv' /\ LsnInv' /\ OffloadInv'
    BY <1>1, <1>3, <2>1, <2>2, <2>3 DEF IInv, LogInv, LsnInv, OffloadInv
  <2>7. CellInv'
    BY <1>1, <1>3, <2>1, <2>2, <2>3 DEF IInv, CellInv
  <2>8. RecordInv'
    <3>1. EndOf(Len(log)) = WriteEnd /\ WriteEnd \in Nat
      BY <1>2, <2>1, <2>3 DEF IInv, LogInv
    <3>2. \A c \in Cells : ~(EndOf(Len(log)) <= c /\ c < WriteEnd)
      BY <3>1, CellSegment
    <3>3. \A c : Gone(c)' = Gone(c)
      BY <1>1, <2>1 DEF Gone
    <3>. QED  BY <1>1, <2>3, <3>2, <3>3 DEF IInv, RecordInv
  <2>9. SafeInv' /\ FileInv' /\ S3Inv'
    BY <1>1, <1>3, <2>1, <2>2, <2>3 DEF IInv, SafeInv, Safe, FileInv, S3Inv, Gone
  <2>10. EndInv'
    BY <1>1, <2>1, <2>2, <2>3 DEF IInv, EndInv, Intact
  <2>. QED  BY <2>4, <2>5, <2>6, <2>7, <2>8, <2>9, <2>10 DEF IInv
<1>6. CASE ~NothingToTruncate(lsn)
  <2>1. /\ op' = [at |-> "remove", until |-> lsn] /\ op'.at = "remove" /\ op'.until = lsn
        /\ mem' = [mem EXCEPT !.file = FALSE, !.streaming = FALSE]
        /\ disk' = IF mem.file THEN Synced(segment_number(mem.write_lsn)) ELSE disk
    BY <1>6
  <2>2. /\ mem'.write_lsn = mem.write_lsn /\ mem'.write_record_lsn = mem.write_record_lsn
        /\ mem'.flush_record_lsn = mem.flush_record_lsn /\ mem'.file = FALSE
        /\ mem'.truncated = mem.truncated /\ mem'.streaming = FALSE
    BY <2>1 DEF IInv, MemType
  <2>3. Truncating' /\ ~Ready' /\ WriteEnd' = WriteEnd /\ Kept' = RecordsBefore(lsn)
    BY <1>1, <2>1, <2>2 DEF Truncating, Ready, WriteEnd, Kept
  <2>12. Kept' <= Kept /\ Kept' \in Nat /\ Kept \in Nat
    <3>1. RecordsBefore(lsn) <= RecordsBefore(mem.flush_record_lsn)
      <4>1. CASE mem.write_lsn = 0
        <5>1. lsn = EndOf(0) /\ 0 \in 0 .. Len(Ends)
          BY <1>1, <4>1, EndsIs
        <5>2. RecordsBefore(lsn) = 0
          BY <5>1, CountsAtEnd
        <5>. QED  BY <5>2, KeptFacts, LogFacts
      <4>2. CASE mem.write_lsn # 0
        BY <1>1, <1>2, <4>2, MemFacts, CountsMono DEF IInv
      <4>. QED  BY <4>1, <4>2
    <3>2. RecordsBefore(mem.flush_record_lsn) <= Kept
      <4>1. Safe = RecordsBefore(mem.flush_record_lsn)
        BY <1>3 DEF Safe
      <4>. QED  BY <4>1, KeptFacts
    <3>3. RecordsBefore(lsn) \in Nat /\ RecordsBefore(mem.flush_record_lsn) \in Nat /\ Kept \in Nat
      BY <1>2, KeptFacts, LogFacts, RecordsBeforeIs
    <3>. QED  BY <2>3, <3>1, <3>2, <3>3
  <2>4. MemType'
    BY <1>1, <1>2, <1>4, <2>1 DEF IInv, MemType
  <2>5. PhaseInv'
    BY <1>1, <1>2, <1>4, <2>1, <2>2, <2>3 DEF IInv, PhaseInv
  <2>6. LogInv' /\ LsnInv' /\ OffloadInv'
    BY <1>1, <1>3, <2>1, <2>2, <2>3 DEF IInv, LogInv, LsnInv, OffloadInv
  <2>7. /\ disk' \in [Cells -> 0 .. MaxTerm]
        /\ \A c \in Cells : disk'[c] = data[c] \/ (c \in risked /\ disk'[c] = disk[c])
        /\ \A c \in Cells : Stored'[c] \in {0, Stored[c]} /\ disk'[c] \in {0, Stored'[c]}
        /\ \A c \in Cells : data[c] = disk[c] => disk'[c] = data[c]
    BY <1>1, <2>1, SyncedIs DEF IInv
  <2>8. CellInv'
    BY <1>1, <2>3, <2>7 DEF IInv, CellInv
  <2>13. \A c : Gone(c) => Gone(c)'
    BY <1>1, <2>7 DEF Gone, IInv, CellInv
  <2>14. /\ \A i \in 1 .. Len(log) : \A c \in CellsOfRecord(i) : Stored'[c] \in {0, log[i]}
         /\ Len(log') < Len(Ends) => ~Intact(Stored, Len(log) + 1)'
    BY <1>1, <2>7, StoredCleared
  <2>15. \A i \in 1 .. Kept' : i \in 1 .. Kept
    BY <2>12
  <2>9. RecordInv' /\ FileInv' /\ S3Inv'
    <3>1. RecordInv'
      BY <1>1, <2>3, <2>13, <2>14, <2>15 DEF IInv, RecordInv
    <3>2. FileInv'
      BY <1>1, <2>15 DEF IInv, FileInv
    <3>3. S3Inv'
      BY <1>1, <2>13 DEF IInv, S3Inv
    <3>. QED  BY <3>1, <3>2, <3>3
  <2>10. SafeInv'
    <3>1. Safe' \in 0 .. Len(Ends)
      <4>1. Safe' = RecordsBefore(lsn)
        BY <2>1, <2>3 DEF Safe
      <4>. QED  BY <1>2, <4>1, RecordsBeforeIs
    <3>2. \A i \in 1 .. Safe' : \A c \in CellsOfRecord(i) : c \in Cells
      BY <3>1, CellOfRecord, EndsIs DEF RecordIds
    <3>. QED  BY <1>1, <2>7, <3>2 DEF SafeInv
  <2>11. EndInv'
    BY <2>1, <2>3, <2>14, <1>1 DEF EndInv
  <2>. QED  BY <2>4, <2>5, <2>6, <2>8, <2>9, <2>10, <2>11 DEF IInv
<1>. QED  BY <1>5, <1>6

\* The records that a truncation keeps end before its LSN.
LEMMA CutCells ==
  ASSUME IInv, Truncating, NEW i \in 1 .. Kept, NEW c \in CellsOfRecord(i)
  PROVE  c < op.until /\ segment_number(c) <= segment_number(op.until)
<1>1. Kept = RecordsBefore(op.until) /\ op.until \in Nat /\ op.until \in {StartLsn} \cup RecordEnds
  BY MemFacts DEF Kept, Truncating, IInv, PhaseInv
<1>2. i \in RecordIds /\ i <= Kept
  BY KeptFacts
<1>3. EndOf(i) <= op.until
  BY <1>1, <1>2, RecordsBeforeIs
<1>4. c \in Nat /\ c < EndOf(i) /\ EndOf(i) \in Nat
  BY <1>2, CellOfRecord, DataEndIs
<1>. QED  BY <1>1, <1>3, <1>4, SegmentMono

LEMMA TruncateRemovesIInv ==
  ASSUME IInv, NEW n \in Segments, TruncateRemoves(n)
  PROVE  IInv'
<1>. USE DEF TruncateRemoves, failures
<1>1. /\ StorageUnchanged /\ UNCHANGED <<commit, backup, control, s3, offloaded, removing>>
      /\ dir' = [dir EXCEPT ![n] = "none"] /\ op.at = "remove" /\ n > segment_number(op.until)
      /\ Truncating /\ ~Ready
  BY DEF StorageUnchanged, retention, offload, Truncating, Ready
<1>2. dir \in [Segments -> {"none", "partial", "full"}]
  BY DEF IInv, FileInv
<1>3. dir' \in [Segments -> {"none", "partial", "full"}]
  BY <1>1, <1>2
<1>4. \A m \in Segments : /\ m # n => dir'[m] = dir[m]
                          /\ dir'[m] # "none" => dir[m] # "none"
  BY <1>1, <1>2
<1>5. MemType' /\ LogInv' /\ SafeInv' /\ CellInv' /\ Kept' = Kept
  BY <1>1, StorageKept, CellsKept
<1>6. LsnInv' /\ PhaseInv' /\ OffloadInv' /\ S3Inv'
  BY <1>1 DEF IInv, LsnInv, PhaseInv, OffloadInv, S3Inv, Gone, Ready, Truncating, StorageUnchanged
<1>7. FileInv'
  <2>1. SUFFICES ASSUME NEW i \in 1 .. Kept, NEW c \in CellsOfRecord(i),
                        segment_number(control.backup) <= segment_number(c)
                 PROVE  dir'[segment_number(c)] # "none"
    BY <1>1, <1>3, <1>5 DEF FileInv
  <2>2. segment_number(c) \in Segments /\ segment_number(c) \in Nat /\ n \in Nat
        /\ segment_number(op.until) \in Nat
    BY KeptFacts, CellOfRecord, SegmentsFromOne, MemFacts DEF IInv
  <2>3. dir[segment_number(c)] # "none"
    BY <2>1 DEF IInv, FileInv
  <2>4. segment_number(c) <= segment_number(op.until)
    BY <1>1, CutCells
  <2>. QED  BY <1>1, <1>4, <2>1, <2>2, <2>3, <2>4
<1>8. RecordInv'
  BY <1>1, <1>5 DEF IInv, RecordInv, Stored, Gone, Ready, Truncating, StorageUnchanged
<1>9. EndInv'
  <2>1. ASSUME Len(log) < Len(Ends) PROVE ~Intact(Stored, Len(log) + 1)'
    <3>1. ~Intact(Stored, Len(log) + 1) /\ Len(log) + 1 \in RecordIds
      BY <2>1, LogFacts DEF IInv, EndInv
    <3>2. \A c \in CellsOfRecord(Len(log) + 1) : segment_number(c) \in Segments
      BY <3>1, CellOfRecord
    <3>3. Stored' = Stored /\ log' = log
      BY <1>1 DEF Stored, StorageUnchanged
    <3>. QED  BY <1>4, <3>1, <3>2, <3>3 DEF Intact
  <2>. QED  BY <1>1, <2>1 DEF EndInv, Ready, Truncating, StorageUnchanged
<1>. QED  BY <1>5, <1>6, <1>7, <1>8, <1>9 DEF IInv

LEMMA TruncateZeroesIInv ==
  ASSUME IInv, TruncateZeroes
  PROVE  IInv'
<1>. USE DEF TruncateZeroes, failures
<1>0. PICK n \in Segments : n = segment_number(op.until)
  BY BoundaryIs DEF IInv, PhaseInv, Truncating
<1>1. /\ UNCHANGED <<mem, term, log, risked, crashes, commit, backup, control, s3, offloaded, removing>>
      /\ op.at = "remove" /\ op' = [op EXCEPT !.at = "zeroed"]
      /\ \A m \in Segments : m > n => dir[m] = "none"
      /\ dir' = [dir EXCEPT ![n] = IF @ = "none" THEN "partial" ELSE @]
      /\ data' = [c \in Cells |-> IF c \in CellsOf(n) /\ c >= op.until THEN 0
                                  ELSE Created(n, data)[c]]
      /\ disk' = Created(n, disk)
  BY <1>0 DEF retention, offload
<1>2. op'.at = "zeroed" /\ op'.until = op.until /\ op.until \in Nat /\ n \in Nat
      /\ op.until \in {StartLsn} \cup RecordEnds
  BY <1>1, MemFacts, SegmentsFromOne DEF IInv, MemType, PhaseInv, Truncating
<1>3. /\ Truncating /\ Truncating' /\ ~Ready /\ ~Ready' /\ WriteEnd' = WriteEnd
      /\ Kept' = Kept /\ Safe' = Safe /\ Safe = Kept
  BY <1>1, <1>2 DEF Truncating, Ready, WriteEnd, Kept, Safe
<1>4. dir \in [Segments -> {"none", "partial", "full"}]
  BY DEF IInv, FileInv
<1>5. /\ dir' \in [Segments -> {"none", "partial", "full"}] /\ dir'[n] # "none"
      /\ \A m \in Segments : m # n \/ dir[n] # "none" => dir'[m] = dir[m]
  BY <1>1, <1>4
<1>6. \A c \in Cells : data[c] = disk[c] \/ c \in risked
  BY <1>1, <1>3, NothingUnsynced DEF IInv
<1>7. \A c \in Cells : /\ disk'[c] = IF dir[n] = "none" /\ c \in CellsOf(n) THEN 0 ELSE disk[c]
                       /\ data'[c] = IF c \in CellsOf(n) /\ (c >= op.until \/ dir[n] = "none") THEN 0
                                     ELSE data[c]
  BY <1>1 DEF Created
<1>8. data' \in [Cells -> 0 .. MaxTerm] /\ disk' \in [Cells -> 0 .. MaxTerm]
  <2>1. data \in [Cells -> 0 .. MaxTerm] /\ disk \in [Cells -> 0 .. MaxTerm] /\ 0 \in 0 .. MaxTerm
    BY BoundsAssumption DEF IInv, CellInv
  <2>2. \A c \in Cells : data'[c] \in 0 .. MaxTerm /\ disk'[c] \in 0 .. MaxTerm
    BY <1>7, <2>1
  <2>. QED  BY <1>1, <2>2 DEF Created
<1>9. MemType'
  BY <1>1 DEF IInv, MemType
<1>10. PhaseInv'
  BY <1>1, <1>2, <1>3 DEF IInv, PhaseInv
<1>17. \A c : Gone(c) => Gone(c)'
  BY <1>1, <1>7 DEF Gone, IInv, CellInv
<1>11. LogInv' /\ LsnInv' /\ OffloadInv' /\ S3Inv'
  <2>1. LogInv' /\ LsnInv' /\ OffloadInv'
    BY <1>1, <1>2, <1>3 DEF IInv, LogInv, LsnInv, OffloadInv
  <2>2. S3Inv'
    BY <1>1, <1>17 DEF IInv, S3Inv
  <2>. QED  BY <2>1, <2>2
<1>18. \A c \in Cells : Stored'[c] \in {0, Stored[c]} /\ disk'[c] \in {0, Stored'[c]}
  <2>. TAKE c \in Cells
  <2>1. Stored'[c] = IF data'[c] = 0 THEN disk'[c] ELSE data'[c]
    BY DEF Stored
  <2>2. /\ Stored[c] = IF data[c] = 0 THEN disk[c] ELSE data[c]
        /\ data[c] \in {0, Stored[c]} /\ disk[c] \in {0, Stored[c]}
    BY CellFacts DEF IInv
  <2>3. data'[c] \in {0, data[c]} /\ disk'[c] \in {0, disk[c]}
    BY <1>7
  <2>. QED  BY <2>1, <2>2, <2>3
<1>19. ASSUME NEW i \in 1 .. Kept, NEW c \in CellsOfRecord(i)
       PROVE  c \in Cells /\ data'[c] = data[c] /\ disk'[c] = disk[c]
  <2>1. c \in Cells /\ segment_number(c) \in Nat /\ c \in Nat
    BY KeptFacts, CellOfRecord
  <2>2. c < op.until
    BY <1>3, CutCells
  <2>3. segment_number(c) = n => dir[n] # "none"
    <3>1. segment_number(control.backup) <= n
      <4>1. control.backup <= op.until /\ control.backup \in Nat
        BY <1>2, <1>3, CommitInLog, LsnFacts DEF IInv, LsnInv
      <4>. QED  BY <1>0, <1>2, <4>1, SegmentMono
    <3>. QED  BY <1>2, <2>1, <3>1 DEF IInv, FileInv
  <2>4. ~(c >= op.until)
    BY <1>2, <2>1, <2>2
  <2>. QED  BY <1>7, <2>1, <2>3, <2>4 DEF CellsOf
<1>20. \A c \in Cells : Stored'[c] # 0 /\ dir'[segment_number(c)] # "none"
                             => dir[segment_number(c)] # "none"
  <2>. TAKE c \in Cells
  <2>. HAVE Stored'[c] # 0 /\ dir'[segment_number(c)] # "none"
  <2>1. segment_number(c) \in Segments
    BY CellSegment
  <2>2. Stored'[c] = IF data'[c] = 0 THEN disk'[c] ELSE data'[c]
    BY DEF Stored
  <2>3. ~(dir[n] = "none" /\ c \in CellsOf(n))
    BY <1>7, <2>2
  <2>. QED  BY <1>5, <2>1, <2>3 DEF CellsOf
<1>21. /\ \A i \in 1 .. Len(log) : \A c \in CellsOfRecord(i) : Stored'[c] \in {0, log[i]}
       /\ Len(log') < Len(Ends) => ~Intact(Stored, Len(log) + 1)'
  BY <1>1, <1>18, <1>20, StoredCleared
<1>12. CellInv'
  <2>1. \A c \in Cells : data'[c] # disk'[c] =>
                            c \in risked \/ (op.until <= c /\ segment_number(c) = n)
    BY <1>2, <1>6, <1>7, CellSegment DEF CellsOf
  <2>. QED  BY <1>0, <1>1, <1>2, <1>3, <1>8, <1>18, <2>1 DEF IInv, CellInv
<1>13. RecordInv'
  BY <1>1, <1>3, <1>17, <1>19, <1>21 DEF IInv, RecordInv
<1>14. SafeInv'
  BY <1>1, <1>3, <1>19 DEF IInv, SafeInv
<1>15. FileInv'
  <2>1. SUFFICES ASSUME NEW i \in 1 .. Kept, NEW c \in CellsOfRecord(i),
                        segment_number(control.backup) <= segment_number(c)
                 PROVE  dir'[segment_number(c)] # "none"
    BY <1>1, <1>3, <1>5 DEF FileInv
  <2>2. segment_number(c) \in Segments
    BY KeptFacts, CellOfRecord
  <2>3. dir[segment_number(c)] # "none"
    BY <2>1 DEF IInv, FileInv
  <2>. QED  BY <1>5, <2>2, <2>3
<1>16. EndInv'
  <2>2. \A m \in Segments : m > segment_number(op.until) => dir'[m] = "none"
    <3>. TAKE m \in Segments
    <3>. HAVE m > segment_number(op.until)
    <3>1. m # n /\ dir[m] = "none"
      BY <1>0, <1>1, <1>2, SegmentsFromOne
    <3>. QED  BY <1>5, <3>1
  <2>3. \A c \in CellsOf(segment_number(op.until)) : c >= op.until => data'[c] = 0
    BY <1>0, <1>7 DEF CellsOf
  <2>. QED  BY <1>0, <1>2, <1>3, <1>5, <1>21, <2>2, <2>3, <1>1 DEF EndInv
<1>. QED  BY <1>9, <1>10, <1>11, <1>12, <1>13, <1>14, <1>15, <1>16 DEF IInv

LEMMA TruncateSyncsIInv ==
  ASSUME IInv, TruncateSyncs
  PROVE  /\ IInv' /\ RecordsBefore(op.until) <= Len(log)
         /\ Len(log') = RecordsBefore(op.until)
<1>. USE DEF TruncateSyncs, failures
<1>0. PICK n \in Segments : n = segment_number(op.until)
  BY BoundaryIs DEF IInv, PhaseInv, Truncating
<1>1. /\ UNCHANGED <<data, term, risked, crashes, commit, backup, control, s3, offloaded, removing>>
      /\ op.at = "zeroed" /\ op' = [op EXCEPT !.at = "adopt"]
      /\ disk' = Synced(n) /\ dir' = [dir EXCEPT ![n] = "partial"]
      /\ mem' = [Opened(op.until) EXCEPT !.truncated = TRUE]
      /\ log' = SubSeq(log, 1, RecordsBefore(op.until))
  BY <1>0 DEF retention, offload, MadePartial
<1>2. op'.at = "adopt" /\ op'.until = op.until /\ op.until \in Nat /\ op.until \in Lsn /\ n \in Nat
      /\ op.until \in {StartLsn} \cup RecordEnds
  BY <1>1, MemFacts, SegmentsFromOne DEF IInv, MemType, PhaseInv, Truncating
<1>3. /\ mem'.write_lsn = op.until /\ mem'.write_record_lsn = op.until
      /\ mem'.flush_record_lsn = op.until /\ mem'.file = FALSE
      /\ mem'.truncated = TRUE /\ mem'.streaming = FALSE
      /\ mem' = [write_lsn |-> op.until, write_record_lsn |-> op.until,
                 flush_record_lsn |-> op.until, file |-> FALSE, truncated |-> TRUE,
                 streaming |-> FALSE]
  BY <1>1 DEF Opened
<1>4. /\ Truncating /\ ~Truncating' /\ ~Ready /\ Ready' /\ WriteEnd' = op.until
  BY <1>1, <1>2, <1>3 DEF Truncating, Ready, WriteEnd
<1>5. PICK k \in 0 .. Len(Ends) : /\ k = RecordsBefore(op.until) /\ op.until = EndOf(k)
                                  /\ RecordsIn(op.until) = k /\ k \in Nat
                                  /\ StartLsn <= op.until
  BY <1>2, BoundaryIs, RecordsBeforeIs
<1>6. k <= Len(log) /\ k = Kept
  <2>1. k = Kept
    BY <1>1, <1>5 DEF Kept
  <2>. QED  BY <2>1, KeptFacts, LogFacts
<1>7. /\ log' \in Seq(1 .. MaxTerm) /\ Len(log') = k /\ \A i \in 1 .. k : log'[i] = log[i]
  <2>1. log \in Seq(1 .. MaxTerm) /\ Len(log) \in Nat
    BY LogFacts
  <2>2. log' = SubSeq(log, 1, k)
    BY <1>1, <1>5
  <2>3. \A i \in 1 .. k : log[i] \in 1 .. MaxTerm
    BY <1>5, <1>6, LogFacts
  <2>4. /\ SubSeq(log, 1, k) \in Seq(1 .. MaxTerm)
        /\ Len(SubSeq(log, 1, k)) = IF 1 <= k THEN k - 1 + 1 ELSE 0
        /\ \A i \in 1 .. k - 1 + 1 : SubSeq(log, 1, k)[i] = log[1 + i - 1]
    BY <1>5, <2>3, SubSeqProperties
  <2>. QED  BY <1>5, <2>2, <2>4
<1>8. dir \in [Segments -> {"none", "partial", "full"}]
  BY DEF IInv, FileInv
<1>9. /\ dir' \in [Segments -> {"none", "partial", "full"}] /\ dir'[n] = "partial"
      /\ \A m \in Segments : m # n => dir'[m] = dir[m]
  BY <1>1, <1>8
<1>10. /\ disk' \in [Cells -> 0 .. MaxTerm]
       /\ \A c \in Cells : disk'[c] = data[c] \/ (c \in risked /\ disk'[c] = disk[c])
       /\ \A c \in CellsOf(n) : disk'[c] = data[c]
  <2>1. disk' = [c \in Cells |-> IF c \in CellsOf(n) THEN data[c] ELSE disk[c]]
    BY <1>1 DEF Synced
  <2>2. data \in [Cells -> 0 .. MaxTerm] /\ disk \in [Cells -> 0 .. MaxTerm]
    BY DEF IInv, CellInv
  <2>3. \A c \in Cells : data[c] # disk[c] => c \in CellsOf(n) \/ c \in risked
    BY <1>0, <1>4 DEF IInv, CellInv, CellsOf
  <2>. QED  BY <2>1, <2>2, <2>3 DEF CellsOf
<1>27. \A c \in Cells : Stored'[c] \in {0, Stored[c]} /\ disk'[c] \in {0, Stored'[c]}
                        /\ Stored'[c] = IF data[c] = 0 THEN disk'[c] ELSE data[c]
  <2>. TAKE c \in Cells
  <2>1. Stored'[c] = IF data[c] = 0 THEN disk'[c] ELSE data[c]
    BY <1>1 DEF Stored
  <2>2. /\ Stored[c] = IF data[c] = 0 THEN disk[c] ELSE data[c]
        /\ data[c] \in {0, Stored[c]} /\ disk[c] \in {0, Stored[c]}
    BY CellFacts DEF IInv
  <2>. QED  BY <1>10, <2>1, <2>2
<1>28. \A c : Gone(c) => Gone(c)'
  BY <1>1, <1>10 DEF Gone, IInv, CellInv
<1>29. Kept' = k
  <2>1. Len(log') = k
    BY <1>7
  <2>. QED  BY <1>2, <1>3, <2>1 DEF Kept
<1>11. MemType'
  BY <1>1, <1>2, <1>3 DEF IInv, MemType
<1>12. PhaseInv'
  BY <1>1, <1>2, <1>3, <1>4, <1>5, EndsIs DEF IInv, PhaseInv
<1>13. LogInv'
  BY <1>2, <1>3, <1>4, <1>5, <1>7 DEF LogInv
<1>14. commit <= op.until /\ backup <= op.until /\ commit \in Nat /\ backup \in Nat
  BY <1>2, <1>4, CommitInLog, LsnFacts DEF IInv, LsnInv
<1>15. LsnInv'
  <2>1. log = << >> => log' = << >>
    <3>. HAVE log = << >>
    <3>1. k = 0
      BY <1>5, <1>6
    <3>. QED  BY <1>7, <3>1
  <2>. QED  BY <1>1, <1>3, <1>4, <1>14, <2>1 DEF IInv, LsnInv
<1>16. OffloadInv'
  <2>1. offloaded # 0 => SegmentEnd(offloaded) <= op.until
    <3>. HAVE offloaded # 0
    <3>1. offloaded \in Nat /\ segment_number(commit) \in Nat /\ offloaded < segment_number(commit)
      BY OffloadFacts, LsnFacts DEF IInv, OffloadInv
    <3>2. ~(commit < SegmentEnd(offloaded)) /\ SegmentEnd(offloaded) \in Nat
      BY <1>14, <3>1, SegmentEndIs
    <3>. QED  BY <1>2, <1>14, <3>2
  <2>. QED  BY <1>1, <1>3, <2>1 DEF IInv, OffloadInv
<1>17. CellInv'
  BY <1>1, <1>4, <1>10, <1>27 DEF IInv, CellInv
<1>18. \A i \in 1 .. k : \A c \in CellsOfRecord(i) :
           c \in Cells /\ c \in Nat /\ c < op.until /\ segment_number(c) \in Segments
           /\ segment_number(c) <= n
  <2>. TAKE i \in 1 .. k
  <2>. TAKE c \in CellsOfRecord(i)
  <2>1. i \in RecordIds /\ i \in 0 .. Len(Ends) /\ i <= k
    BY EndsIs DEF RecordIds
  <2>2. EndOf(i) <= op.until /\ EndOf(i) \in Nat
    BY <1>5, <2>1, EndOfOrder
  <2>3. c \in Cells /\ c \in Nat /\ c < EndOf(i) /\ segment_number(c) \in Segments
    BY <2>1, CellOfRecord
  <2>. QED  BY <1>0, <1>2, <2>2, <2>3, SegmentMono
<1>19. RecordInv'
  <2>1. ASSUME NEW i \in 1 .. k, NEW c \in CellsOfRecord(i)
        PROVE  /\ Stored'[c] \in {0, log'[i]}
               /\ data[c] = log'[i] \/ (i <= RecordsBefore(control.commit) /\ Gone(c)')
    <3>1. i \in 1 .. Len(log) /\ i \in 1 .. Kept /\ log'[i] = log[i] /\ c \in Cells
      BY <1>6, <1>7, <1>18, LogFacts
    <3>2. Stored[c] \in {0, log[i]}
      BY <3>1 DEF IInv, RecordInv
    <3>3. data[c] = log[i] \/ (i <= RecordsBefore(control.commit) /\ Gone(c))
      BY <3>1 DEF IInv, RecordInv
    <3>. QED  BY <1>27, <1>28, <3>1, <3>2, <3>3
  <2>2. \A c \in Cells : ~(op.until <= c /\ c < op.until)
    BY <1>2, CellSegment
  <2>3. control' = control /\ data' = data
    BY <1>1
  <2>. QED  BY <1>4, <1>5, <1>7, <1>29, <2>1, <2>2, <2>3 DEF RecordInv
<1>20. SafeInv'
  <2>1. Safe' = k
    BY <1>3, <1>4, <1>5 DEF Safe
  <2>. QED  BY <1>1, <1>10, <1>18, <2>1 DEF SafeInv
<1>21. FileInv'
  <2>1. ASSUME NEW i \in 1 .. k, NEW c \in CellsOfRecord(i),
               segment_number(control.backup) <= segment_number(c)
        PROVE  dir'[segment_number(c)] # "none"
    <3>1. segment_number(c) \in Segments
      BY <1>18
    <3>2. i \in 1 .. Kept
      BY <1>6
    <3>3. dir[segment_number(c)] # "none"
      BY <2>1, <3>1, <3>2 DEF IInv, FileInv
    <3>. QED  BY <1>9, <3>1, <3>3
  <2>. QED  BY <1>1, <1>9, <1>29, <2>1 DEF FileInv
<1>22. \A m \in Segments : m > n => dir'[m] = "none"
  <2>. TAKE m \in Segments
  <2>. HAVE m > n
  <2>1. dir[m] = "none" /\ m # n
    BY <1>0, <1>1, <1>2, SegmentsFromOne DEF IInv, EndInv
  <2>. QED  BY <1>9, <2>1
<1>23. \A c \in Cells : c >= op.until /\ dir'[segment_number(c)] # "none"
          => data[c] = 0 /\ disk'[c] = 0 /\ Stored'[c] = 0
  <2>. TAKE c \in Cells
  <2>. HAVE c >= op.until /\ dir'[segment_number(c)] # "none"
  <2>1. c \in Nat /\ segment_number(c) \in Segments /\ segment_number(c) \in Nat
    BY CellSegment
  <2>2. n <= segment_number(c)
    BY <1>0, <1>2, <2>1, SegmentMono
  <2>3. segment_number(c) = n
    BY <1>2, <1>22, <2>1, <2>2
  <2>4. data[c] = 0 /\ c \in CellsOf(n)
    BY <1>0, <1>1, <2>1, <2>3 DEF IInv, EndInv, CellsOf
  <2>. QED  BY <1>10, <1>27, <2>4
<1>24. EndInv'
  <2>1. ASSUME k < Len(Ends) PROVE ~Intact(Stored, Len(log) + 1)'
    <3>1. k + 1 \in RecordIds /\ op.until < DataEnd(k + 1)
      <4>1. k + 1 \in RecordIds /\ k + 1 - 1 = k
        BY <1>5, <2>1, EndsIs DEF RecordIds
      <4>2. EndOf(k + 1 - 1) < DataEnd(k + 1)
        BY <4>1, DataEndIs
      <4>. QED  BY <1>5, <4>1, <4>2
    <3>2. ~IntactIn(dir', Stored', k + 1)
      BY <1>2, <1>23, <3>1, NoneIfCleared
    <3>. QED  BY <1>7, <3>2 DEF Intact, IntactIn
  <2>2. dir'[n] # "none" /\ dir'[n] # "full"
    BY <1>9
  <2>. QED  BY <1>0, <1>1, <1>2, <1>3, <1>4, <1>7, <1>22, <1>23, <2>1, <2>2 DEF EndInv
<1>25. S3Inv'
  <2>1. \A i \in 1 .. k : i \in 1 .. Len(log)
    BY <1>6, LogFacts
  <2>. QED  BY <1>1, <1>7, <1>28, <2>1 DEF IInv, S3Inv
<1>26. IInv'
  BY <1>11, <1>12, <1>13, <1>15, <1>16, <1>17, <1>19, <1>20, <1>21, <1>24, <1>25 DEF IInv
<1>. QED  BY <1>26, <1>5, <1>6, <1>7

-----------------------------------------------------------------------------
(***************************************************************************)
(* write_in_segment.                                                       *)
(***************************************************************************)

\* What a write may touch: the cells from the position on, up to the end of
\* its segment.
LEMMA WriteRange ==
  ASSUME IInv, op.at = "write", NEW stop,
         stop = Min({op.until, SegmentEnd(segment_number(mem.write_lsn))})
  PROVE  /\ stop \in Nat /\ mem.write_lsn < stop /\ stop <= op.until
         /\ stop <= SegmentEnd(segment_number(mem.write_lsn)) /\ stop \in Lsn
         /\ SegmentEnd(segment_number(mem.write_lsn)) \in Nat
         /\ stop # SegmentEnd(segment_number(mem.write_lsn))
              => segment_number(stop) = segment_number(mem.write_lsn)
         /\ \A c \in Cells : mem.write_lsn <= c /\ c < stop
              => segment_number(c) = segment_number(mem.write_lsn)
<1>1. PICK w \in Nat : w = mem.write_lsn
  BY MemFacts DEF IInv
<1>2. PICK u \in Nat : u = op.until /\ u \in Lsn /\ w < u
  BY <1>1, MemFacts DEF IInv, PhaseInv
<1>3. PICK n \in Nat : n = segment_number(w)
  BY <1>1, DivMod
<1>4. PICK e \in Nat : e = SegmentEnd(n) /\ w < e
  BY <1>3, SegmentEndIs
<1>5. stop = IF u <= e THEN u ELSE e
  BY <1>1, <1>2, <1>3, <1>4, MinOfTwo
<1>6. stop \in Nat /\ w < stop /\ stop <= u /\ stop <= e /\ stop \in Lsn
  <2>1. stop \in Nat /\ w < stop /\ stop <= u /\ stop <= e
    BY <1>2, <1>4, <1>5
  <2>2. EndLsn \in Nat /\ u <= EndLsn
    BY <1>2, EndsIs DEF Lsn
  <2>3. stop \in 0 .. EndLsn
    BY <1>2, <2>1, <2>2
  <2>. QED  BY <2>1, <2>3 DEF Lsn
<1>7. ASSUME NEW c \in Nat, w <= c, c < e PROVE segment_number(c) = n
  <2>1. segment_number(c) <= n /\ n <= segment_number(c) /\ segment_number(c) \in Nat
    BY <1>3, <1>4, <1>7, SegmentEndIs, SegmentMono, DivMod
  <2>. QED  BY <2>1
<1>8. stop # e => segment_number(stop) = n
  BY <1>4, <1>6, <1>7
<1>9. \A c \in Cells : w <= c /\ c < stop => segment_number(c) = n
  BY <1>4, <1>6, <1>7, CellSegment
<1>. QED  BY <1>1, <1>2, <1>3, <1>4, <1>6, <1>8, <1>9

\* The records that a write completes are appended.
Appended(s, r, t) == s \o [i \in 1 .. r - Len(s) |-> t]

LEMMA AppendedIs ==
  ASSUME NEW s \in Seq(1 .. MaxTerm), NEW r \in Nat, Len(s) <= r, NEW t \in 1 .. MaxTerm
  PROVE  /\ Appended(s, r, t) \in Seq(1 .. MaxTerm) /\ Len(Appended(s, r, t)) = r
         /\ \A i \in 1 .. Len(s) : Appended(s, r, t)[i] = s[i]
         /\ \A i \in Len(s) + 1 .. r : Appended(s, r, t)[i] = t
<1>0. PICK S : S = 1 .. MaxTerm /\ s \in Seq(S) /\ t \in S
  OBVIOUS
<1>1. PICK m \in Nat : m = Len(s)
  BY <1>0
<1>2. PICK k \in Nat : k = r - m /\ r = m + k
  BY <1>1
<1>. DEFINE q == Appended(s, r, t)
            a == [i \in 1 .. k |-> t]
<1>3. a \in Seq(S) /\ Len(a) = k /\ \A i \in 1 .. k : a[i] = t
  <2>1. a \in [1 .. k -> S]
    BY <1>0
  <2>2. a \in Seq(S) /\ DOMAIN a = 1 .. k
    BY <2>1, SeqDef
  <2>. QED  BY <2>2, LenProperties
<1>4. q = s \o a
  BY <1>1, <1>2 DEF Appended
<1>. HIDE DEF a, q
<1>5. /\ s \o a \in Seq(S) /\ Len(s \o a) = m + k
      /\ \A i \in 1 .. m + k : (s \o a)[i] = IF i <= m THEN s[i] ELSE a[i - m]
  <2>1. s \in Seq(S) /\ a \in Seq(S)
    BY <1>0, <1>3
  <2>2. /\ s \o a \in Seq(S) /\ Len(s \o a) = Len(s) + Len(a)
        /\ \A i \in 1 .. Len(s) + Len(a) :
              (s \o a)[i] = IF i <= Len(s) THEN s[i] ELSE a[i - Len(s)]
    BY <2>1, ConcatProperties
  <2>. QED  BY <1>1, <1>3, <2>2
<1>6. q \in Seq(S) /\ Len(q) = r
  BY <1>2, <1>4, <1>5
<1>7. \A i \in 1 .. m : q[i] = s[i]
  <2>. TAKE i \in 1 .. m
  <2>1. i \in 1 .. m + k /\ i <= m
    BY <1>2
  <2>. QED  BY <2>1, <1>4, <1>5
<1>8. \A i \in m + 1 .. r : q[i] = t
  <2>. TAKE i \in m + 1 .. r
  <2>1. i \in 1 .. m + k /\ ~(i <= m) /\ i - m \in 1 .. k
    BY <1>2
  <2>. QED  BY <2>1, <1>3, <1>4, <1>5
<1>. QED  BY <1>0, <1>1, <1>6, <1>7, <1>8 DEF q

\* What is committed, and so what is offloaded, lies before the end of the log.
LEMMA OffloadedInLog ==
  ASSUME IInv, Ready, NEW c \in Cells, EndOf(Len(log)) <= c
  PROVE  /\ ~(segment_number(c) < segment_number(backup))
         /\ ~(offloaded # 0 /\ segment_number(c) = offloaded)
<1>1. /\ c \in Nat /\ segment_number(c) \in Nat /\ commit \in Nat /\ segment_number(commit) \in Nat
      /\ segment_number(backup) \in Nat /\ segment_number(backup) <= segment_number(commit)
  BY CellSegment, LsnFacts DEF IInv
<1>2. commit <= mem.flush_record_lsn /\ mem.flush_record_lsn <= mem.write_record_lsn
      /\ mem.write_record_lsn <= EndOf(Len(log))
  BY DEF IInv, LsnInv, PhaseInv, LogInv, Ready
<1>3. commit <= c
  <2>1. mem.flush_record_lsn \in Nat /\ mem.write_record_lsn \in Nat /\ EndOf(Len(log)) \in Nat
    BY MemFacts, LogFacts DEF IInv
  <2>. QED  BY <1>1, <1>2, <2>1
<1>4. segment_number(commit) <= segment_number(c)
  BY <1>1, <1>3, SegmentMono
<1>5. offloaded # 0 => offloaded < segment_number(commit) /\ offloaded \in Nat
  BY OffloadFacts DEF IInv, OffloadInv
<1>. QED  BY <1>1, <1>4, <1>5

LEMMA WriteInSegmentIInv ==
  ASSUME IInv, WriteInSegment
  PROVE  /\ IInv' /\ RecordsBefore(mem'.flush_record_lsn) = RecordsBefore(mem.flush_record_lsn)
         /\ \E k \in 0 .. MaxWrite : log' = log \o [i \in 1 .. k |-> term]
         /\ Kept = Len(log) /\ Kept' = Len(log') /\ term \in 1 .. MaxTerm
         /\ \A i \in 1 .. Len(log) : /\ log'[i] = log[i]
                                     /\ \A c \in CellsOfRecord(i) : disk'[c] = disk[c]
         /\ UnsyncedInv => UnsyncedInv'
<1>0. PICK n : n = segment_number(mem.write_lsn)
  OBVIOUS
<1>1. PICK stop : stop = Min({op.until, SegmentEnd(n)})
  OBVIOUS
<1>2. /\ UNCHANGED <<term, risked, crashes, commit, backup, control, s3, offloaded, removing>>
      /\ op.at = "write"
      /\ dir' = [dir EXCEPT ![n] = "partial"]
      /\ data' = [c \in Cells |-> IF c \in mem.write_lsn .. stop - 1 THEN term
                                  ELSE Created(n, data)[c]]
      /\ disk' = Created(n, disk)
      /\ log' = log \o [i \in 1 .. RecordsIn(stop) - Len(log) |-> term]
      /\ IF stop = SegmentEnd(n)
         THEN op' = [op EXCEPT !.at = "complete"] /\ UNCHANGED mem
         ELSE Written([mem EXCEPT !.file = TRUE], stop)
  BY <1>0, <1>1 DEF WriteInSegment, retention, offload, failures
<1>3. /\ stop \in Nat /\ mem.write_lsn < stop /\ stop <= op.until /\ stop \in Lsn
      /\ stop <= SegmentEnd(n) /\ SegmentEnd(n) \in Nat
      /\ stop # SegmentEnd(n) => segment_number(stop) = n
      /\ \A c \in Cells : mem.write_lsn <= c /\ c < stop => segment_number(c) = n
  BY <1>0, <1>1, <1>2, WriteRange
<1>4. /\ mem.streaming /\ mem.truncated /\ Ready /\ ~Truncating
      /\ Kept = Len(log) /\ WriteEnd = mem.write_lsn
      /\ control.commit >= StartLsn /\ op.until <= mem.write_lsn + MaxWrite
  BY <1>2 DEF IInv, PhaseInv, Ready, Truncating, Kept, WriteEnd
<1>5. n \in Segments /\ n \in Nat /\ term \in 1 .. MaxTerm /\ term # 0 /\ term \in 0 .. MaxTerm
  BY <1>0, <1>2, <1>4, WriteSegment, MemFacts, BoundsAssumption DEF IInv, MemType, PhaseInv
<1>6. PICK w \in Nat : w = mem.write_lsn
  BY MemFacts DEF IInv
<1>7. PICK r \in Nat : /\ r = RecordsIn(stop) /\ r \in 0 .. Len(Ends) /\ Len(log) <= r
                       /\ EndOf(r) \in Nat /\ EndOf(r) \in {StartLsn} \cup RecordEnds
                       /\ EndOf(Len(log)) <= EndOf(r) /\ r <= Len(log) + MaxWrite
  <2>1. RecordsIn(stop) \in 0 .. Len(Ends) /\ RecordsIn(stop) \in Nat
    BY <1>3, RecordsInIs
  <2>2. Len(log) = RecordsIn(w) /\ Len(log) \in 0 .. Len(Ends) /\ Len(log) \in Nat
    BY <1>4, <1>6, LogFacts DEF IInv, LogInv
  <2>3. RecordsIn(w) <= RecordsIn(stop) /\ RecordsIn(stop) - RecordsIn(w) <= stop - w
    BY <1>3, <1>6, CountsMono, RecordsPerCell
  <2>4. stop <= w + MaxWrite
    BY <1>3, <1>4, <1>6, MemFacts, BoundsAssumption DEF IInv
  <2>5. RecordsIn(stop) <= Len(log) + MaxWrite
    BY <1>3, <2>1, <2>2, <2>3, <2>4, BoundsAssumption
  <2>. QED  BY <2>1, <2>2, <2>3, <2>5, EndOfOrder
<1>8. /\ log' \in Seq(1 .. MaxTerm) /\ Len(log') = r
      /\ \A i \in 1 .. Len(log) : log'[i] = log[i]
      /\ \A i \in Len(log) + 1 .. r : log'[i] = term
  <2>1. log' = Appended(log, r, term)
    BY <1>2, <1>7 DEF Appended
  <2>2. log \in Seq(1 .. MaxTerm) /\ Len(log) <= r /\ r \in Nat
    BY <1>7, LogFacts
  <2>3. term \in 1 .. MaxTerm
    BY <1>5
  <2>4. /\ Appended(log, r, term) \in Seq(1 .. MaxTerm) /\ Len(Appended(log, r, term)) = r
        /\ \A i \in 1 .. Len(log) : Appended(log, r, term)[i] = log[i]
        /\ \A i \in Len(log) + 1 .. r : Appended(log, r, term)[i] = term
    BY <2>2, <2>3, AppendedIs
  <2>. QED  BY <2>1, <2>4
<1>9. /\ mem'.truncated = mem.truncated /\ mem'.streaming = mem.streaming
      /\ mem'.flush_record_lsn = mem.flush_record_lsn
      /\ \/ /\ stop = SegmentEnd(n) /\ op'.at = "complete" /\ op'.until = op.until /\ mem' = mem
            /\ op' = [op EXCEPT !.at = "complete"]
         \/ /\ stop # SegmentEnd(n) /\ op' = Idle /\ op'.at = "idle" /\ mem'.write_lsn = stop
            /\ mem'.write_record_lsn = EndOf(r) /\ mem'.file = TRUE
            /\ mem' = [mem EXCEPT !.file = TRUE, !.write_lsn = stop, !.write_record_lsn = EndOf(r)]
  <2>1. mem \in [write_lsn : Lsn, write_record_lsn : {0, StartLsn} \cup RecordEnds,
                 flush_record_lsn : {0, StartLsn} \cup RecordEnds,
                 file : BOOLEAN, truncated : BOOLEAN, streaming : BOOLEAN]
        /\ op \in [at : {"idle", "write", "complete", "remove", "zeroed", "adopt"}, until : Lsn]
    BY DEF IInv, MemType
  <2>2. CASE stop = SegmentEnd(n)
    BY <1>2, <2>1, <2>2
  <2>3. CASE stop # SegmentEnd(n)
    <3>1. Written([mem EXCEPT !.file = TRUE], stop)
      BY <1>2, <2>3
    <3>2. Max({mem.write_record_lsn, EndOf(r)}) = EndOf(r)
      <4>1. mem.write_record_lsn \in Nat /\ mem.write_record_lsn <= EndOf(Len(log))
        BY MemFacts DEF IInv, LogInv
      <4>2. mem.write_record_lsn <= EndOf(r)
        BY <1>7, <4>1, LogFacts
      <4>. QED  BY <1>7, <4>1, <4>2, MaxOfTwo
    <3>3. mem' = [mem EXCEPT !.file = TRUE, !.write_lsn = stop, !.write_record_lsn = EndOf(r)]
          /\ op' = Idle
      BY <1>7, <2>1, <3>1, <3>2 DEF Written
    <3>. QED  BY <2>1, <2>3, <3>3 DEF Idle
  <2>. QED  BY <2>2, <2>3
<1>10. /\ Ready' /\ ~Truncating' /\ WriteEnd' = stop /\ Kept' = Len(log')
       /\ segment_number(mem'.write_lsn) = n /\ (mem'.file \/ op'.at = "complete")
       /\ mem'.write_lsn \in Nat /\ mem.write_lsn <= mem'.write_lsn /\ mem'.write_lsn <= stop
  BY <1>0, <1>3, <1>4, <1>6, <1>9 DEF Ready, Truncating, WriteEnd, Kept
<1>11. MemType'
  <2>1. Idle \in [at : {"idle", "write", "complete", "remove", "zeroed", "adopt"}, until : Lsn]
    BY EndsIs DEF Lsn, Idle
  <2>. QED  BY <1>2, <1>3, <1>7, <1>9, <2>1 DEF IInv, MemType
<1>12. PhaseInv'
  <2>1. mem.write_lsn >= StartLsn /\ StartLsn > 0 /\ StartLsn \in Nat
        /\ mem.flush_record_lsn >= StartLsn /\ mem.flush_record_lsn <= mem.write_record_lsn
        /\ mem.write_record_lsn <= EndOf(Len(log)) /\ term >= 1
    BY <1>4, EndsIs DEF IInv, PhaseInv, LogInv
  <2>2. mem'.write_lsn >= StartLsn /\ mem'.write_lsn # 0
    BY <1>6, <1>10, <2>1
  <2>3. mem.flush_record_lsn <= mem'.write_record_lsn
    <3>1. mem.flush_record_lsn <= EndOf(r)
      BY <1>7, <2>1, MemFacts, LogFacts DEF IInv
    <3>. QED  BY <1>9, <2>1, <3>1
  <2>4. op'.at = "complete" => SegmentEnd(n) <= op'.until /\ op'.until <= mem'.write_lsn + MaxWrite
    BY <1>3, <1>4, <1>9
  <2>. QED  BY <1>2, <1>4, <1>9, <1>10, <2>1, <2>2, <2>3, <2>4 DEF PhaseInv
<1>13. LogInv'
  <2>1. mem'.write_record_lsn <= EndOf(r)
    <3>1. mem.write_record_lsn <= EndOf(Len(log))
      BY DEF IInv, LogInv
    <3>. QED  BY <1>7, <1>9, <3>1, MemFacts, LogFacts DEF IInv
  <2>2. op'.at # "complete" => mem'.write_record_lsn = EndOf(r)
    BY <1>9
  <2>. QED  BY <1>4, <1>7, <1>8, <1>9, <1>10, <2>1, <2>2, EndsIs DEF LogInv
<1>14. LsnInv'
  <2>1. backup <= mem'.write_lsn
    BY <1>4, <1>6, <1>10, LsnFacts DEF IInv, LsnInv
  <2>2. control.commit # 0
    BY <1>4, EndsIs
  <2>. QED  BY <1>2, <1>4, <1>9, <1>10, <2>1, <2>2 DEF IInv, LsnInv
<1>15. OffloadInv'
  <2>1. offloaded # 0 => SegmentEnd(offloaded) <= mem'.write_lsn
    <3>1. offloaded # 0 => SegmentEnd(offloaded) <= mem.write_lsn /\ SegmentEnd(offloaded) \in Nat
      BY <1>4, OffloadFacts, SegmentEndIs DEF IInv, OffloadInv
    <3>. QED  BY <1>6, <1>10, <3>1
  <2>. QED  BY <1>2, <2>1 DEF IInv, OffloadInv
<1>16. /\ dir \in [Segments -> {"none", "partial", "full"}]
       /\ dir' \in [Segments -> {"none", "partial", "full"}] /\ dir'[n] = "partial"
       /\ \A m \in Segments : m # n => dir'[m] = dir[m]
  BY <1>2, <1>5 DEF IInv, FileInv
<1>17. ASSUME NEW c \in Cells
       PROVE  /\ c < w => data'[c] = data[c] /\ disk'[c] = disk[c]
              /\ w <= c /\ c < stop => data'[c] = term /\ disk'[c] = 0 /\ segment_number(c) = n
              /\ stop <= c /\ segment_number(c) = n => data'[c] = 0 /\ disk'[c] = 0
              /\ stop <= c /\ segment_number(c) # n => data'[c] = data[c] /\ disk'[c] = disk[c]
  <2>1. c \in Nat /\ segment_number(c) \in Nat
    BY CellSegment
  <2>2. (c \in mem.write_lsn .. stop - 1) = (w <= c /\ c < stop)
    BY <1>3, <1>6, <2>1
  <2>3. /\ data'[c] = IF w <= c /\ c < stop THEN term ELSE Created(n, data)[c]
        /\ disk'[c] = Created(n, disk)[c]
    BY <1>2, <2>2
  <2>4. \/ /\ dir[n] = "none" /\ segment_number(c) = n
           /\ Created(n, data)[c] = 0 /\ Created(n, disk)[c] = 0
        \/ /\ dir[n] # "none" \/ segment_number(c) # n
           /\ Created(n, data)[c] = data[c] /\ Created(n, disk)[c] = disk[c]
    BY DEF Created, CellsOf
  <2>5. c < w => ~(dir[n] = "none" /\ segment_number(c) = n)
    <3>. HAVE c < w
    <3>1. dir[n] = "none" => segment_number(c) < n
      BY <1>0, <1>4, <1>6 DEF IInv, EndInv
    <3>. QED  BY <1>5, <2>1, <3>1
  <2>6. w <= c /\ segment_number(c) = n /\ dir[n] # "none" => data[c] = 0 /\ disk[c] = 0
    BY <1>4, <1>6 DEF IInv, EndInv
  <2>7. w <= c /\ c < stop => segment_number(c) = n
    BY <1>3, <1>6
  <2>8. ~(c < w /\ w <= c) /\ (stop <= c => w <= c /\ ~(c < stop))
    BY <1>3, <1>6, <2>1
  <2>9. CASE c < w
    BY <2>3, <2>4, <2>5, <2>8, <2>9, <1>3, <1>6, <2>1
  <2>10. CASE w <= c /\ c < stop
    BY <2>3, <2>4, <2>6, <2>7, <2>8, <2>10, <2>1, <1>3, <1>6
  <2>11. CASE stop <= c
    BY <2>3, <2>4, <2>6, <2>8, <2>11, <2>1, <1>3, <1>6
  <2>. QED  BY <2>1, <2>9, <2>10, <2>11, <1>3, <1>6
<1>18. \A c \in Cells : c < w \/ (w <= c /\ c < stop) \/ stop <= c
  BY CellSegment, <1>3, <1>6
<1>31. ASSUME NEW c \in Cells
       PROVE  /\ Stored'[c] = IF data'[c] = 0 THEN disk'[c] ELSE data'[c]
              /\ c < w => Stored'[c] = Stored[c] /\ (Gone(c)' = Gone(c))
  <2>1. Stored'[c] = IF data'[c] = 0 THEN disk'[c] ELSE data'[c]
    BY DEF Stored
  <2>2. Stored[c] = IF data[c] = 0 THEN disk[c] ELSE data[c]
    BY DEF Stored
  <2>. QED  BY <1>2, <1>17, <2>1, <2>2 DEF Gone
<1>19. CellInv'
  <2>1. /\ data \in [Cells -> 0 .. MaxTerm] /\ disk \in [Cells -> 0 .. MaxTerm]
        /\ \A c \in Cells : data[c] # disk[c] => c \in risked \/ segment_number(c) = n
    BY <1>0, <1>2, <1>4 DEF IInv, CellInv
  <2>5. \A c \in Cells : disk[c] = 0 \/ disk[c] = data[c] \/ data[c] = 0
    BY DEF IInv, CellInv, Stored
  <2>2. ASSUME NEW c \in Cells
        PROVE  /\ data'[c] \in 0 .. MaxTerm /\ disk'[c] \in 0 .. MaxTerm
               /\ disk'[c] = 0 \/ disk'[c] = data'[c] \/ data'[c] = 0
               /\ data'[c] # disk'[c] => c \in risked \/ segment_number(c) = n
    <3>0. 0 \in 0 .. MaxTerm
      BY BoundsAssumption
    <3>1. CASE c < w
      BY <1>17, <2>1, <2>5, <3>1
    <3>2. CASE w <= c /\ c < stop
      BY <1>5, <1>17, <3>0, <3>2
    <3>3. CASE stop <= c
      <4>1. CASE segment_number(c) = n
        BY <1>17, <3>0, <3>3, <4>1
      <4>2. CASE segment_number(c) # n
        BY <1>17, <2>1, <2>5, <3>3, <4>2
      <4>. QED  BY <4>1, <4>2
    <3>. QED  BY <1>18, <3>1, <3>2, <3>3
  <2>3. data' \in [Cells -> 0 .. MaxTerm] /\ disk' \in [Cells -> 0 .. MaxTerm]
    BY <1>2, <2>2 DEF Created
  <2>4. s3' \in [Cells -> 0 .. MaxTerm] /\ risked' = risked /\ risked \subseteq Cells
    BY <1>2 DEF IInv, CellInv
  <2>6. \A c \in Cells : disk'[c] \in {0, Stored'[c]}
    BY <1>31, <2>2
  <2>. QED  BY <1>10, <2>2, <2>3, <2>4, <2>6 DEF CellInv
\* A cell of the log, before and after.
<1>20. ASSUME NEW i \in 1 .. r, NEW c \in CellsOfRecord(i)
       PROVE  /\ c \in Cells /\ c \in Nat /\ segment_number(c) \in Segments /\ c < stop
              /\ i <= Len(log) => i \in 1 .. Len(log) /\ c < w
              /\ ~(i <= Len(log)) => i \in Len(log) + 1 .. r /\ EndOf(Len(log)) <= c
  <2>1. i \in RecordIds /\ i - 1 \in 0 .. Len(Ends)
    BY <1>7, EndsIs DEF RecordIds
  <2>2. c \in Cells /\ c \in Nat /\ segment_number(c) \in Segments
        /\ EndOf(i - 1) <= c /\ c < DataEnd(i) /\ DataEnd(i) \in Nat /\ EndOf(i - 1) \in Nat
    BY <2>1, CellOfRecord, DataEndIs
  <2>3. c < stop
    <3>1. DataEnd(i) <= stop
      BY <1>3, <1>7, <2>1, RecordsInIs
    <3>. QED  BY <1>3, <2>2, <3>1
  <2>4. i <= Len(log) => i \in 1 .. Len(log) /\ c < w
    <3>. HAVE i <= Len(log)
    <3>1. i \in 1 .. Len(log)
      BY LogFacts
    <3>2. DataEnd(i) <= w
      BY <1>4, <1>6, <3>1, LogFacts
    <3>. QED  BY <1>6, <2>2, <3>1, <3>2
  <2>5. ~(i <= Len(log)) => i \in Len(log) + 1 .. r /\ EndOf(Len(log)) <= c
    <3>. HAVE ~(i <= Len(log))
    <3>1. i \in Len(log) + 1 .. r /\ Len(log) <= i - 1
      BY <1>7, LogFacts
    <3>2. EndOf(Len(log)) <= EndOf(i - 1) /\ EndOf(Len(log)) \in Nat
      BY <2>1, <3>1, LogFacts, EndOfOrder
    <3>. QED  BY <2>2, <3>1, <3>2
  <2>. QED  BY <2>2, <2>3, <2>4, <2>5
\* What is written of the record that is begun.
<1>21. ASSUME NEW c \in Cells, EndOf(Len(log)) <= c, c < stop
       PROVE  data'[c] = term /\ dir'[segment_number(c)] # "none"
  <2>0. segment_number(c) \in Segments
    BY CellSegment
  <2>1. CASE c < w
    <3>1. data[c] = term /\ dir[segment_number(c)] # "none"
      BY <1>4, <1>6, <1>21, <2>1 DEF IInv, RecordInv
    <3>. QED  BY <1>16, <1>17, <2>0, <2>1, <3>1
  <2>2. CASE w <= c
    BY <1>16, <1>17, <1>21, <2>2
  <2>3. c < w \/ w <= c
    BY <1>6, CellSegment
  <2>. QED  BY <2>1, <2>2, <2>3
<1>22. RecordInv'
  <2>1. ASSUME NEW i \in 1 .. r, NEW c \in CellsOfRecord(i)
        PROVE  /\ Stored'[c] \in {0, log'[i]}
               /\ data'[c] = log'[i] \/ (i <= RecordsBefore(control.commit) /\ Gone(c)')
    <3>1. CASE i <= Len(log)
      <4>1. i \in 1 .. Len(log) /\ c \in Cells /\ c < w /\ i \in 1 .. Kept
        BY <1>4, <1>20, <3>1
      <4>2. data[c] = log[i] \/ (i <= RecordsBefore(control.commit) /\ Gone(c))
        BY <4>1 DEF IInv, RecordInv
      <4>3. Stored[c] \in {0, log[i]}
        BY <4>1 DEF IInv, RecordInv
      <4>4. log'[i] = log[i]
        BY <1>8, <4>1
      <4>. QED  BY <1>17, <1>31, <4>1, <4>2, <4>3, <4>4
    <3>2. CASE ~(i <= Len(log))
      <4>1. c \in Cells /\ EndOf(Len(log)) <= c /\ c < stop /\ log'[i] = term
        BY <1>8, <1>20, <3>2
      <4>2. data'[c] = term
        BY <1>21, <4>1
      <4>. QED  BY <1>5, <1>31, <4>1, <4>2
    <3>. QED  BY <3>1, <3>2
  <2>2. ASSUME NEW c \in Cells, EndOf(r) <= c, c < stop
        PROVE  data'[c] = term /\ dir'[segment_number(c)] # "none"
    <3>1. EndOf(Len(log)) <= c
      BY <1>7, <2>2, CellSegment, LogFacts
    <3>. QED  BY <1>21, <2>2, <3>1
  <2>3. control' = control /\ term' = term
    BY <1>2
  <2>. QED  BY <1>8, <1>10, <2>1, <2>2, <2>3 DEF RecordInv
<1>23. SafeInv'
  <2>1. Safe' = Safe /\ Safe = RecordsBefore(mem.flush_record_lsn)
    BY <1>4, <1>9, <1>10 DEF Safe
  <2>2. ASSUME NEW i \in 1 .. Safe, NEW c \in CellsOfRecord(i)
        PROVE  data'[c] = disk'[c] \/ c \in risked'
    <3>1. data[c] = disk[c] \/ c \in risked
      BY DEF IInv, SafeInv
    <3>2. i \in 1 .. r /\ i <= Len(log)
      BY <1>4, <1>7, KeptFacts
    <3>3. c \in Cells /\ c < w
      BY <1>20, <3>2
    <3>. QED  BY <1>2, <1>17, <3>1, <3>3
  <2>. QED  BY <2>1, <2>2 DEF SafeInv
<1>24. FileInv'
  <2>1. ASSUME NEW i \in 1 .. r, NEW c \in CellsOfRecord(i),
               segment_number(control.backup) <= segment_number(c)
        PROVE  dir'[segment_number(c)] # "none"
    <3>1. CASE i <= Len(log)
      <4>1. i \in 1 .. Len(log) /\ segment_number(c) \in Segments
        BY <1>20, <3>1
      <4>2. dir[segment_number(c)] # "none"
        BY <1>4, <2>1, <4>1 DEF IInv, FileInv
      <4>. QED  BY <1>16, <4>1, <4>2
    <3>2. CASE ~(i <= Len(log))
      BY <1>20, <1>21, <3>2
    <3>. QED  BY <3>1, <3>2
  <2>. QED  BY <1>2, <1>8, <1>10, <1>16, <2>1 DEF FileInv
<1>25. \A m \in Segments : m > n => dir'[m] = "none"
  <2>. TAKE m \in Segments
  <2>. HAVE m > n
  <2>1. dir[m] = "none" /\ m # n
    BY <1>0, <1>4, <1>5, SegmentsFromOne DEF IInv, EndInv
  <2>. QED  BY <1>16, <2>1
<1>26. \A c \in Cells : c >= stop /\ dir'[segment_number(c)] # "none" => data'[c] = 0 /\ disk'[c] = 0 /\ Stored'[c] = 0
  <2>. TAKE c \in Cells
  <2>. HAVE c >= stop /\ dir'[segment_number(c)] # "none"
  <2>1. c \in Nat /\ segment_number(c) \in Segments /\ segment_number(c) \in Nat /\ w <= c
    BY CellSegment, <1>3, <1>6
  <2>2. n <= segment_number(c)
    BY <1>0, <1>6, <2>1, SegmentMono
  <2>3. segment_number(c) = n
    BY <1>5, <1>25, <2>1, <2>2
  <2>. QED  BY <1>3, <1>17, <1>31, <2>1, <2>3
<1>27. EndInv'
  <2>1. ASSUME r < Len(Ends) PROVE ~Intact(Stored, Len(log) + 1)'
    <3>1. r + 1 \in RecordIds
      BY <1>7, <2>1, EndsIs DEF RecordIds
    <3>2. stop < DataEnd(r + 1)
      BY <1>3, <1>7, <3>1, RecordsInIs, DataEndIs
    <3>3. ~IntactIn(dir', Stored', r + 1)
      BY <1>3, <1>26, <3>1, <3>2, NoneIfCleared
    <3>4. Len(log') = r
      BY <1>8
    <3>. QED  BY <3>3, <3>4 DEF Intact, IntactIn
  <2>2. dir'[n] # "none" /\ dir'[n] # "full"
    BY <1>16
  <2>. QED  BY <1>8, <1>9, <1>10, <1>25, <1>26, <2>1, <2>2 DEF EndInv
<1>28. S3Inv'
  <2>1. SUFFICES ASSUME NEW i \in 1 .. r, NEW c \in CellsOfRecord(i),
                        \/ segment_number(c) < segment_number(backup)
                        \/ offloaded # 0 /\ segment_number(c) = offloaded
                 PROVE  s3[c] = log'[i] \/ Gone(c)'
    BY <1>2, <1>8 DEF S3Inv
  <2>2. CASE i <= Len(log)
    <3>1. i \in 1 .. Len(log) /\ c \in Cells /\ c < w
      BY <1>20, <2>2
    <3>. QED  BY <1>8, <1>31, <2>1, <3>1 DEF IInv, S3Inv
  <2>3. CASE ~(i <= Len(log))
    <3>1. c \in Cells /\ EndOf(Len(log)) <= c
      BY <1>20, <2>3
    <3>. QED  BY <1>4, <2>1, <3>1, OffloadedInLog
  <2>. QED  BY <2>2, <2>3
<1>29. IInv'
  BY <1>11, <1>12, <1>13, <1>14, <1>15, <1>19, <1>22, <1>23, <1>24, <1>27, <1>28 DEF IInv
<1>30. \E k \in 0 .. MaxWrite : log' = log \o [i \in 1 .. k |-> term]
  <2>1. r - Len(log) \in 0 .. MaxWrite
    BY <1>7, LogFacts, BoundsAssumption
  <2>. QED  BY <1>2, <1>7, <2>1
<1>32. ASSUME NEW i \in 1 .. Len(log)
       PROVE  log'[i] = log[i] /\ \A c \in CellsOfRecord(i) : disk'[c] = disk[c]
  <2>1. i \in 1 .. r /\ i <= Len(log)
    BY <1>7, LogFacts
  <2>. QED  BY <1>8, <1>17, <1>20, <2>1
<1>33. ASSUME UnsyncedInv PROVE UnsyncedInv'
  <2>1. ASSUME NEW c \in Cells, mem'.flush_record_lsn <= c, c < stop, data'[c] # disk'[c]
        PROVE  segment_number(c) = n
    <3>1. CASE w <= c
      BY <1>17, <2>1, <3>1
    <3>2. CASE ~(w <= c)
      <4>1. c < w /\ data[c] # disk[c]
        BY <1>6, <1>17, <2>1, <3>2, CellSegment
      <4>. QED  BY <1>0, <1>4, <1>6, <1>9, <1>33, <2>1, <4>1 DEF UnsyncedInv
    <3>. QED  BY <3>1, <3>2
  <2>. QED  BY <1>10, <2>1 DEF UnsyncedInv
<1>. QED  BY <1>4, <1>5, <1>9, <1>10, <1>29, <1>30, <1>32, <1>33

LEMMA CompleteSegmentIInv ==
  ASSUME IInv, CompleteSegment
  PROVE  /\ IInv' /\ mem'.flush_record_lsn = mem.flush_record_lsn /\ Kept' = Kept
         /\ \A c \in Cells : disk'[c] \in {disk[c], data[c]}
         /\ UnsyncedInv => UnsyncedInv'
<1>0. PICK n : n = segment_number(mem.write_lsn)
  OBVIOUS
<1>1. /\ UNCHANGED <<data, term, log, risked, crashes, commit, backup, control, s3, offloaded, removing>>
      /\ op.at = "complete" /\ disk' = Synced(n) /\ dir' = [dir EXCEPT ![n] = "full"]
      /\ IF op.until > SegmentEnd(n)
         THEN /\ mem' = [mem EXCEPT !.write_lsn = SegmentEnd(n), !.file = FALSE]
              /\ op' = [op EXCEPT !.at = "write"]
         ELSE Written([mem EXCEPT !.file = FALSE], SegmentEnd(n))
  BY <1>0 DEF CompleteSegment, retention, offload, failures
<1>2. /\ mem.streaming /\ mem.truncated /\ Ready /\ ~Truncating
      /\ Kept = Len(log) /\ WriteEnd = SegmentEnd(n) /\ term >= 1
      /\ control.commit >= StartLsn /\ op.until <= mem.write_lsn + MaxWrite
      /\ SegmentEnd(n) <= op.until
  BY <1>0, <1>1 DEF IInv, PhaseInv, Ready, Truncating, Kept, WriteEnd
<1>3. PICK w \in Nat : w = mem.write_lsn
  BY MemFacts DEF IInv
<1>4. n \in Segments /\ n \in Nat
  BY <1>0, <1>2, <1>3, WriteSegment, DivMod DEF IInv
<1>5. PICK e \in Nat : e = SegmentEnd(n) /\ w < e /\ segment_number(e) = n + 1 /\ e > 0
  BY <1>0, <1>3, <1>4, SegmentEndIs
<1>6. e \in Lsn /\ n + 1 \in Segments
  <2>1. op.until \in Nat /\ op.until <= EndLsn /\ EndLsn \in Nat
    BY MemFacts, EndsIs DEF IInv, Lsn
  <2>2. e <= EndLsn
    BY <1>2, <1>5, <2>1
  <2>3. segment_number(e) <= segment_number(EndLsn)
    BY <2>1, <2>2, SegmentMono
  <2>4. segment_number(StartLsn) \in Nat /\ segment_number(EndLsn) \in Nat
        /\ segment_number(StartLsn) <= n
    BY <1>4, <2>1, EndsIs, DivMod DEF Segments
  <2>. QED  BY <1>4, <1>5, <2>1, <2>2, <2>3, <2>4 DEF Lsn, Segments
<1>7. Len(log) = RecordsIn(e) /\ mem.write_record_lsn <= EndOf(Len(log))
      /\ EndOf(Len(log)) \in Nat /\ EndOf(Len(log)) \in {StartLsn} \cup RecordEnds
  BY <1>2, <1>5, LogFacts, EndOfOrder DEF IInv, LogInv
<1>8. /\ mem'.truncated = mem.truncated /\ mem'.streaming = mem.streaming
      /\ mem'.flush_record_lsn = mem.flush_record_lsn /\ mem'.write_lsn = e
      /\ mem'.file = FALSE
      /\ \/ /\ op.until > e /\ op'.at = "write" /\ op'.until = op.until
            /\ op' = [op EXCEPT !.at = "write"]
            /\ mem'.write_record_lsn = mem.write_record_lsn
            /\ mem' = [mem EXCEPT !.write_lsn = e, !.file = FALSE]
         \/ /\ op' = Idle /\ op'.at = "idle"
            /\ mem'.write_record_lsn = EndOf(Len(log))
            /\ mem' = [mem EXCEPT !.file = FALSE, !.write_lsn = e, !.write_record_lsn = EndOf(Len(log))]
  <2>1. mem \in [write_lsn : Lsn, write_record_lsn : {0, StartLsn} \cup RecordEnds,
                 flush_record_lsn : {0, StartLsn} \cup RecordEnds,
                 file : BOOLEAN, truncated : BOOLEAN, streaming : BOOLEAN]
        /\ op \in [at : {"idle", "write", "complete", "remove", "zeroed", "adopt"}, until : Lsn]
    BY DEF IInv, MemType
  <2>2. CASE op.until > e
    <3>1. mem' = [mem EXCEPT !.write_lsn = e, !.file = FALSE] /\ op' = [op EXCEPT !.at = "write"]
      BY <1>1, <1>5, <2>2
    <3>. QED  BY <2>1, <2>2, <3>1
  <2>3. CASE ~(op.until > e)
    <3>1. Written([mem EXCEPT !.file = FALSE], e)
      BY <1>1, <1>5, <2>3
    <3>2. Max({mem.write_record_lsn, EndOf(Len(log))}) = EndOf(Len(log))
      BY <1>7, MaxOfTwo, MemFacts DEF IInv
    <3>3. mem' = [mem EXCEPT !.file = FALSE, !.write_lsn = e, !.write_record_lsn = EndOf(Len(log))]
          /\ op' = Idle
      BY <1>7, <2>1, <3>1, <3>2 DEF Written
    <3>. QED  BY <2>1, <3>3 DEF Idle
  <2>. QED  BY <2>2, <2>3
<1>9. /\ Ready' /\ ~Truncating' /\ WriteEnd' = e /\ Kept' = Kept
      /\ segment_number(mem'.write_lsn) = n + 1
  BY <1>1, <1>2, <1>5, <1>8 DEF Ready, Truncating, WriteEnd, Kept
<1>10. MemType'
  <2>1. Idle \in [at : {"idle", "write", "complete", "remove", "zeroed", "adopt"}, until : Lsn]
    BY EndsIs DEF Lsn, Idle
  <2>. QED  BY <1>1, <1>6, <1>7, <1>8, <2>1 DEF IInv, MemType
<1>11. PhaseInv'
  <2>1. w >= StartLsn /\ StartLsn > 0 /\ StartLsn \in Nat
        /\ mem.flush_record_lsn >= StartLsn /\ mem.flush_record_lsn <= mem.write_record_lsn
    BY <1>2, <1>3, EndsIs DEF IInv, PhaseInv
  <2>2. e >= StartLsn /\ e # 0
    BY <1>5, <2>1
  <2>3. mem.flush_record_lsn <= mem'.write_record_lsn
    <3>1. mem.flush_record_lsn <= EndOf(Len(log))
      BY <1>7, <2>1, MemFacts DEF IInv
    <3>. QED  BY <1>8, <2>1, <3>1
  <2>4. op.until <= e + MaxWrite
    BY <1>2, <1>3, <1>5, MemFacts, BoundsAssumption DEF IInv
  <2>5. op'.at = "write" => e < op'.until /\ op'.until <= e + MaxWrite
    BY <1>5, <1>8, <2>4, MemFacts DEF IInv
  <2>6. op'.at \in {"write", "idle"} /\ e \in Nat
    BY <1>8
  <2>. QED  BY <1>1, <1>2, <1>8, <1>9, <2>1, <2>2, <2>3, <2>5, <2>6 DEF PhaseInv
<1>12. LogInv'
  <2>1. mem'.write_record_lsn <= EndOf(Len(log))
    BY <1>7, <1>8
  <2>2. op'.at # "write" => mem'.write_record_lsn = EndOf(Len(log))
    BY <1>8
  <2>. QED  BY <1>1, <1>2, <1>7, <1>8, <1>9, <2>1, <2>2 DEF IInv, LogInv
<1>13. LsnInv'
  <2>1. backup <= e
    BY <1>2, <1>3, <1>5, LsnFacts DEF IInv, LsnInv
  <2>. QED  BY <1>1, <1>2, <1>8, <1>9, <2>1 DEF IInv, LsnInv
<1>14. OffloadInv'
  <2>1. offloaded # 0 => SegmentEnd(offloaded) <= e
    <3>1. offloaded # 0 => SegmentEnd(offloaded) <= w /\ SegmentEnd(offloaded) \in Nat
      BY <1>2, <1>3, OffloadFacts, SegmentEndIs DEF IInv, OffloadInv
    <3>. QED  BY <1>5, <3>1
  <2>. QED  BY <1>1, <1>8, <2>1 DEF IInv, OffloadInv
<1>15. /\ dir \in [Segments -> {"none", "partial", "full"}]
       /\ dir' \in [Segments -> {"none", "partial", "full"}] /\ dir'[n] = "full"
       /\ \A m \in Segments : m # n => dir'[m] = dir[m]
  BY <1>1, <1>4 DEF IInv, FileInv
<1>16. /\ disk' \in [Cells -> 0 .. MaxTerm]
       /\ \A c \in Cells : disk'[c] = data[c] \/ (c \in risked /\ disk'[c] = disk[c])
  <2>1. disk' = [c \in Cells |-> IF c \in CellsOf(n) THEN data[c] ELSE disk[c]]
    BY <1>1 DEF Synced
  <2>2. data \in [Cells -> 0 .. MaxTerm] /\ disk \in [Cells -> 0 .. MaxTerm]
    BY DEF IInv, CellInv
  <2>3. \A c \in Cells : data[c] # disk[c] => c \in CellsOf(n) \/ c \in risked
    BY <1>0, <1>1 DEF IInv, CellInv, CellsOf
  <2>. QED  BY <2>1, <2>2, <2>3
<1>26. \A c \in Cells : Stored'[c] \in {0, Stored[c]} /\ disk'[c] \in {0, Stored'[c]}
  <2>. TAKE c \in Cells
  <2>1. Stored'[c] = IF data[c] = 0 THEN disk'[c] ELSE data[c]
    BY <1>1 DEF Stored
  <2>2. /\ Stored[c] = IF data[c] = 0 THEN disk[c] ELSE data[c]
        /\ data[c] \in {0, Stored[c]} /\ disk[c] \in {0, Stored[c]}
    BY CellFacts DEF IInv
  <2>. QED  BY <1>16, <2>1, <2>2
<1>27. \A c : Gone(c) => Gone(c)'
  BY <1>1, <1>16 DEF Gone, IInv, CellInv
<1>17. CellInv'
  BY <1>1, <1>9, <1>16, <1>26 DEF IInv, CellInv
<1>18. RecordInv'
  <2>1. ASSUME NEW i \in 1 .. Len(log), NEW c \in CellsOfRecord(i)
        PROVE  /\ Stored'[c] \in {0, log[i]}
               /\ data[c] = log[i] \/ (i <= RecordsBefore(control.commit) /\ Gone(c)')
    <3>1. c \in Cells /\ i \in 1 .. Kept
      BY <1>2, LogFacts, CellOfRecord
    <3>2. Stored[c] \in {0, log[i]}
      BY DEF IInv, RecordInv
    <3>3. data[c] = log[i] \/ (i <= RecordsBefore(control.commit) /\ Gone(c))
      BY <3>1 DEF IInv, RecordInv
    <3>. QED  BY <1>26, <1>27, <3>1, <3>2, <3>3
  <2>2. ASSUME NEW c \in Cells, EndOf(Len(log)) <= c, c < e
        PROVE  data[c] = term /\ dir'[segment_number(c)] # "none"
    <3>1. data[c] = term /\ dir[segment_number(c)] # "none"
      BY <1>2, <1>5, <2>2 DEF IInv, RecordInv
    <3>. QED  BY <1>15, <3>1, CellSegment
  <2>3. control' = control /\ term' = term /\ data' = data /\ log' = log
    BY <1>1
  <2>. QED  BY <1>2, <1>9, <2>1, <2>2, <2>3 DEF RecordInv
<1>19. SafeInv'
  <2>1. Safe' = Safe /\ Safe = RecordsBefore(mem.flush_record_lsn)
    BY <1>2, <1>8, <1>9 DEF Safe
  <2>2. \A i \in 1 .. Safe : \A c \in CellsOfRecord(i) : c \in Cells
    <3>1. Safe \in 0 .. Len(Ends)
      BY <2>1, MemFacts, RecordsBeforeIs DEF IInv
    <3>. QED  BY <3>1, CellOfRecord, EndsIs DEF RecordIds
  <2>. QED  BY <1>1, <1>16, <2>1, <2>2 DEF SafeInv
<1>20. FileInv'
  <2>1. ASSUME NEW i \in 1 .. Len(log), NEW c \in CellsOfRecord(i),
               segment_number(control.backup) <= segment_number(c)
        PROVE  dir'[segment_number(c)] # "none"
    <3>1. segment_number(c) \in Segments
      BY LogFacts, CellOfRecord
    <3>2. dir[segment_number(c)] # "none"
      BY <1>2, <2>1 DEF IInv, FileInv
    <3>. QED  BY <1>15, <3>1, <3>2
  <2>. QED  BY <1>1, <1>2, <1>9, <1>15, <2>1 DEF FileInv
<1>21. \A m \in Segments : m > n => dir'[m] = "none"
  <2>. TAKE m \in Segments
  <2>. HAVE m > n
  <2>1. dir[m] = "none" /\ m # n
    BY <1>0, <1>2, <1>4, SegmentsFromOne DEF IInv, EndInv
  <2>. QED  BY <1>15, <2>1
<1>22. \A c \in Cells : c >= e => dir'[segment_number(c)] = "none"
  <2>. TAKE c \in Cells
  <2>. HAVE c >= e
  <2>1. c \in Nat /\ segment_number(c) \in Segments /\ segment_number(c) \in Nat
    BY CellSegment
  <2>2. ~(segment_number(c) <= n)
    BY <1>4, <1>5, <2>1, SegmentEndIs
  <2>. QED  BY <1>4, <1>21, <2>1, <2>2
<1>23. EndInv'
  <2>1. ASSUME Len(log) < Len(Ends) PROVE ~Intact(Stored, Len(log) + 1)'
    <3>1. Len(log) + 1 \in RecordIds /\ e < DataEnd(Len(log) + 1)
      BY <1>2, <1>5, <2>1, LogFacts
    <3>2. ~IntactIn(dir', Stored', Len(log) + 1)
      BY <1>22, <3>1, NoneIfCleared
    <3>. QED  BY <1>1, <3>2 DEF Intact, IntactIn
  <2>2. dir'[n + 1] = "none"
    BY <1>4, <1>6, <1>21
  <2>3. \A m \in Segments : m > n + 1 => dir'[m] = "none"
    BY <1>4, <1>21, SegmentsFromOne
  <2>4. \A c \in Cells : c < e => segment_number(c) < n + 1
    BY <1>4, <1>5, SegmentEndIs, CellSegment
  <2>. QED  BY <1>1, <1>8, <1>9, <1>22, <2>1, <2>2, <2>3, <2>4 DEF EndInv
<1>24. S3Inv'
  BY <1>1, <1>27 DEF IInv, S3Inv
<1>25. IInv'
  BY <1>10, <1>11, <1>12, <1>13, <1>14, <1>17, <1>18, <1>19, <1>20, <1>23, <1>24 DEF IInv
<1>28. ASSUME UnsyncedInv PROVE UnsyncedInv'
  <2>1. \A c \in Cells : disk'[c] = IF segment_number(c) = n THEN data[c] ELSE disk[c]
    BY <1>1 DEF Synced, CellsOf
  <2>2. \A c \in Cells : mem.flush_record_lsn <= c /\ c < e => data[c] = disk'[c]
    BY <1>0, <1>2, <1>5, <1>28, <2>1 DEF UnsyncedInv
  <2>. QED  BY <1>1, <1>8, <1>9, <2>2 DEF UnsyncedInv
<1>. QED  BY <1>8, <1>9, <1>16, <1>25, <1>28

-----------------------------------------------------------------------------
(***************************************************************************)
(* Kill, power failure and restart.                                        *)
(***************************************************************************)

\* A prefix of the log.
LEMMA PrefixIs ==
  ASSUME NEW s \in Seq(1 .. MaxTerm), NEW m \in Nat, m <= Len(s)
  PROVE  /\ SubSeq(s, 1, m) \in Seq(1 .. MaxTerm) /\ Len(SubSeq(s, 1, m)) = m
         /\ \A i \in 1 .. m : SubSeq(s, 1, m)[i] = s[i]
<1>0. Len(s) \in Nat
  OBVIOUS
<1>1. \A i \in 1 .. m : s[i] \in 1 .. MaxTerm
  <2>. TAKE i \in 1 .. m
  <2>1. i \in 1 .. Len(s)
    BY <1>0
  <2>. QED  BY <2>1, ElementOfSeq
<1>2. /\ SubSeq(s, 1, m) \in Seq(1 .. MaxTerm)
      /\ Len(SubSeq(s, 1, m)) = IF 1 <= m THEN m - 1 + 1 ELSE 0
      /\ \A i \in 1 .. m - 1 + 1 : SubSeq(s, 1, m)[i] = s[1 + i - 1]
  BY <1>1, SubSeqProperties
<1>. QED  BY <1>2

\* What is known to be committed, and then what find_end_of_wal reads.
LEMMA ReadBack ==
  ASSUME NEW s \in Seq(1 .. MaxTerm), NEW k \in Nat, NEW m \in Nat, k <= m, m <= Len(s),
         NEW a, a \in [1 .. m - k -> 1 .. MaxTerm], \A j \in 1 .. m - k : a[j] = s[k + j]
  PROVE  SubSeq(s, 1, k) \o a = SubSeq(s, 1, m)
<1>0. PICK S : S = 1 .. MaxTerm /\ s \in Seq(S)
  OBVIOUS
<1>1. PICK d \in Nat : d = m - k /\ m = k + d
  OBVIOUS
<1>2. a \in Seq(S) /\ Len(a) = d
  <2>1. a \in [1 .. d -> S]
    BY <1>0, <1>1
  <2>2. a \in Seq(S) /\ DOMAIN a = 1 .. d
    BY <2>1, SeqDef
  <2>. QED  BY <2>2, LenProperties
<1>3. PICK p \in Seq(S) : p = SubSeq(s, 1, k) /\ Len(p) = k /\ \A i \in 1 .. k : p[i] = s[i]
  <2>1. k <= Len(s)
    BY <1>0
  <2>. QED  BY <1>0, <2>1, PrefixIs
<1>4. PICK q \in Seq(S) : q = SubSeq(s, 1, m) /\ Len(q) = m /\ \A i \in 1 .. m : q[i] = s[i]
  BY <1>0, PrefixIs
<1>5. /\ p \o a \in Seq(S) /\ Len(p \o a) = k + d
      /\ \A i \in 1 .. k + d : (p \o a)[i] = IF i <= k THEN p[i] ELSE a[i - k]
  <2>1. p \in Seq(S) /\ a \in Seq(S)
    BY <1>2, <1>3
  <2>2. /\ p \o a \in Seq(S) /\ Len(p \o a) = Len(p) + Len(a)
        /\ \A i \in 1 .. Len(p) + Len(a) :
              (p \o a)[i] = IF i <= Len(p) THEN p[i] ELSE a[i - Len(p)]
    BY <2>1, ConcatProperties
  <2>. QED  BY <1>2, <1>3, <2>2
<1>6. \A i \in 1 .. m : (p \o a)[i] = q[i]
  <2>. TAKE i \in 1 .. m
  <2>1. CASE i <= k
    BY <1>1, <1>3, <1>4, <1>5, <2>1
  <2>2. CASE ~(i <= k)
    <3>1. i - k \in 1 .. d /\ k + (i - k) = i
      BY <1>1, <2>2
    <3>2. a[i - k] = s[i]
      BY <1>1, <3>1
    <3>. QED  BY <1>1, <1>4, <1>5, <2>2, <3>2
  <2>. QED  BY <2>1, <2>2
<1>7. p \o a = q
  BY <1>1, <1>4, <1>5, <1>6, SeqEqual
<1>. QED  BY <1>3, <1>4, <1>7

\* What a kill or a power failure leaves of the cells.
Left(left) == \A c \in Cells : left[c] = data[c] \/ left[c] = disk[c]

\* A record that is whole after that was whole before it.
LEMMA IntactBefore ==
  ASSUME IInv, NEW left, Left(left), NEW i \in RecordIds, Intact(left, i)
  PROVE  /\ Intact(Stored, i)
         /\ \A c \in CellsOfRecord(i) : left[c] = Stored[c] /\ dir[segment_number(c)] # "none"
<1>1. PICK t \in 1 .. MaxTerm : \A c \in CellsOfRecord(i) : left[c] = t /\ dir[segment_number(c)] # "none"
  BY DEF Intact
<1>2. t # 0
  BY BoundsAssumption
<1>3. \A c \in CellsOfRecord(i) : left[c] = Stored[c]
  <2>. TAKE c \in CellsOfRecord(i)
  <2>1. c \in Cells
    BY CellOfRecord
  <2>2. left[c] = 0 \/ left[c] = Stored[c]
    BY <2>1, CellFacts DEF IInv, Left
  <2>. QED  BY <1>1, <1>2, <2>2
<1>. QED  BY <1>1, <1>3 DEF Intact

\* The search for the end of WAL finds what is committed, and nothing that is
\* not of the log; and it stops below what is kept only at a cell that has
\* not reached the disk and is lost.
LEMMA FoundInLog ==
  ASSUME IInv, NEW left, Left(left), control.commit # 0,
         NEW found, found = find_end_of_wal(left, control.commit)
  PROVE  /\ found \in Nat /\ RecordsBefore(control.commit) <= found
         /\ found <= Len(log)
         /\ found < Len(Ends) => ~Intact(left, found + 1)
         /\ \A i \in RecordsBefore(control.commit) + 1 .. found : \A c \in CellsOfRecord(i) :
               left[c] = log[i] /\ dir[segment_number(c)] # "none"
         /\ found < Kept => \E c \in CellsOfRecord(found + 1) :
               left[c] # data[c] /\ disk[c] # log[found + 1]
<1>1. control.commit \in Nat
  BY LsnFacts DEF IInv
<1>2. PICK kept \in Nat : kept = RecordsBefore(control.commit)
  BY KeptFacts
<1>3. PICK len \in Nat : len = Len(log) /\ len <= Len(Ends)
  BY LogFacts
<1>4. /\ found \in kept .. Len(Ends) /\ found \in Nat /\ kept <= found
      /\ \A j \in kept + 1 .. found : Intact(left, j)
      /\ found < Len(Ends) => ~Intact(left, found + 1)
  BY <1>1, <1>2, FoundIs, EndsIs
<1>5. found <= len
  <2>. SUFFICES ASSUME ~(found <= len) PROVE FALSE
    OBVIOUS
  <2>0. kept <= len
    BY <1>2, <1>3, KeptFacts
  <2>1. len + 1 \in kept + 1 .. found /\ len < Len(Ends)
    BY <2>0, <1>2, <1>3, <1>4, EndsIs
  <2>2. len + 1 \in RecordIds /\ Intact(left, len + 1)
    BY <1>3, <1>4, <2>1, EndsIs DEF RecordIds
  <2>3. Intact(Stored, len + 1)
    BY <2>2, IntactBefore
  <2>. QED  BY <1>3, <2>1, <2>3 DEF IInv, EndInv
<1>6. ASSUME NEW i \in kept + 1 .. found, NEW c \in CellsOfRecord(i)
      PROVE  left[c] = log[i] /\ dir[segment_number(c)] # "none"
  <2>1. i \in RecordIds /\ i \in 1 .. Len(log)
    BY <1>3, <1>4, <1>5, EndsIs DEF RecordIds
  <2>2. left[c] = Stored[c] /\ dir[segment_number(c)] # "none"
    BY <1>4, <2>1, IntactBefore
  <2>3. Stored[c] \in {0, log[i]}
    BY <2>1 DEF IInv, RecordInv
  <2>4. left[c] # 0
    <3>1. PICK t \in 1 .. MaxTerm : \A d \in CellsOfRecord(i) : left[d] = t
      BY <1>4 DEF Intact
    <3>. QED  BY <3>1, BoundsAssumption
  <2>. QED  BY <2>2, <2>3, <2>4
<1>7. ASSUME found < Kept
      PROVE  \E c \in CellsOfRecord(found + 1) : left[c] # data[c] /\ disk[c] # log[found + 1]
  <2>1. PICK i \in Nat : i = found + 1
    BY <1>4
  <2>2. i \in 1 .. Kept /\ i \in 1 .. Len(log) /\ i \in RecordIds /\ found < Len(Ends)
        /\ i - 1 = found
    <3>1. Kept \in Nat /\ Kept <= Len(log)
      BY KeptFacts, LogFacts
    <3>2. i \in 1 .. Kept /\ i \in 1 .. len /\ found < len /\ i - 1 = found
      BY <1>3, <1>4, <1>7, <2>1, <3>1
    <3>. QED  BY <1>3, <3>2, LogFacts, EndsIs
  <2>3. ~(i <= RecordsBefore(control.commit))
    BY <1>2, <1>4, <2>1
  <2>4. ASSUME NEW c \in CellsOfRecord(i)
        PROVE  c \in Cells /\ data[c] = log[i] /\ dir[segment_number(c)] # "none"
    <3>1. c \in Nat /\ EndOf(i - 1) <= c /\ c \in Cells
      BY <2>2, CellOfRecord
    <3>2. found \in 0 .. Len(Ends) /\ kept \in 0 .. Len(Ends)
      BY <1>4, <2>2, EndsIs
    <3>3. EndOf(kept) <= EndOf(found) /\ EndOf(kept) \in Nat /\ EndOf(found) \in Nat
      BY <1>4, <3>2, EndOfOrder
    <3>4. control.commit = EndOf(kept)
      BY <1>2, BoundaryIs DEF IInv, LsnInv
    <3>5. control.backup \in Nat /\ control.backup <= control.commit
      BY LsnFacts DEF IInv, LsnInv
    <3>6. control.backup <= c
      BY <2>2, <3>1, <3>3, <3>4, <3>5
    <3>7. segment_number(control.backup) <= segment_number(c)
      BY <3>1, <3>5, <3>6, SegmentMono
    <3>8. dir[segment_number(c)] # "none"
      BY <2>2, <3>7 DEF IInv, FileInv
    <3>9. data[c] = log[i]
      BY <2>2, <2>3 DEF IInv, RecordInv
    <3>. QED  BY <3>1, <3>8, <3>9
  <2>5. log[i] \in 1 .. MaxTerm
    BY <2>2, LogFacts
  <2>6. ~Intact(left, i)
    BY <1>4, <2>1, <2>2
  <2>7. PICK c \in CellsOfRecord(i) : left[c] # log[i]
    BY <2>4, <2>5, <2>6 DEF Intact
  <2>8. left[c] # data[c] /\ disk[c] # log[i]
    BY <2>4, <2>7 DEF Left
  <2>. QED  BY <2>1, <2>8
<1>. QED  BY <1>2, <1>3, <1>4, <1>5, <1>6, <1>7

\* What is committed is flushed.
LEMMA CommitFlushed ==
  ASSUME IInv
  PROVE  /\ RecordsBefore(control.commit) <= Safe
         /\ RecordsBefore(control.commit) <= RecordsBefore(mem.flush_record_lsn)
<1>1. commit \in Nat /\ control.commit \in Nat /\ op.until \in Nat /\ mem.flush_record_lsn \in Nat
      /\ control.commit <= commit
  BY LsnFacts, MemFacts DEF IInv, LsnInv
<1>2. CASE ~Truncating
  <2>1. control.commit <= mem.flush_record_lsn /\ Safe = RecordsBefore(mem.flush_record_lsn)
    BY <1>1, <1>2 DEF IInv, LsnInv, Safe
  <2>. QED  BY <1>1, <2>1, CountsMono
<1>3. CASE Truncating
  <2>1. control.commit <= op.until /\ Safe = RecordsBefore(op.until)
    BY <1>1, <1>3 DEF IInv, LsnInv, Safe
  <2>2. RecordsBefore(control.commit) <= Safe
    BY <1>1, <2>1, CountsMono
  <2>3. CASE mem.write_lsn = 0
    <3>1. op.until = EndOf(0) /\ 0 \in 0 .. Len(Ends)
      BY <1>3, <2>3, EndsIs DEF IInv, PhaseInv
    <3>2. Safe = 0
      BY <2>1, <3>1, CountsAtEnd
    <3>. QED  BY <2>2, <3>2, KeptFacts
  <2>4. CASE mem.write_lsn # 0
    <3>1. control.commit <= mem.flush_record_lsn
      BY <1>1, <1>3, <2>1, <2>4 DEF IInv, PhaseInv
    <3>. QED  BY <1>1, <2>2, <3>1, CountsMono
  <2>. QED  BY <2>3, <2>4
<1>. QED  BY <1>2, <1>3

\* What the restart found: m records.
FoundRecords(left, m) ==
    /\ m <= Len(log) /\ RecordsBefore(control.commit) <= m
    /\ control.commit = 0 => m = 0 /\ log = << >>
    /\ control.commit # 0 => m = find_end_of_wal(left, control.commit)
    /\ m < Len(Ends) => ~Intact(left, m + 1)
    /\ \A i \in RecordsBefore(control.commit) + 1 .. m : \A c \in CellsOfRecord(i) :
          left[c] = log[i] /\ dir[segment_number(c)] # "none"
    /\ m < Kept => \E c \in CellsOfRecord(m + 1) : left[c] # data[c] /\ disk[c] # log[m + 1]

LEMMA RestartFinds ==
  ASSUME IInv, NEW left, Left(left)
  PROVE  \E m \in Nat : FoundRecords(left, m)
<1>1. CASE control.commit = 0
  <2>1. log = << >> /\ Len(log) = 0
    BY <1>1 DEF IInv, LsnInv
  <2>2. RecordsBefore(control.commit) = 0 /\ Kept = 0
    BY <1>1, <2>1, CountsAtZero, KeptFacts
  <2>3. ~Intact(left, 0 + 1)
    <3>1. 0 + 1 \in RecordIds /\ ~Intact(Stored, 0 + 1)
      BY <2>1, EndsIs DEF IInv, EndInv, RecordIds
    <3>. QED  BY <3>1, IntactBefore
  <2>4. FoundRecords(left, 0)
    BY <1>1, <2>1, <2>2, <2>3 DEF FoundRecords
  <2>. QED  BY <2>4
<1>2. CASE control.commit # 0
  <2>1. PICK found : found = find_end_of_wal(left, control.commit)
    OBVIOUS
  <2>2. found \in Nat /\ FoundRecords(left, found)
    BY <1>2, <2>1, FoundInLog DEF FoundRecords
  <2>. QED  BY <2>2
<1>. QED  BY <1>1, <1>2

\* Memory after the restart.
LEMMA RestartIs ==
  ASSUME IInv, NEW left, Restart(left), NEW m \in Nat, FoundRecords(left, m),
         log' \in Seq(1 .. MaxTerm), m <= Len(log'), Len(log') <= Len(Ends),
         log = << >> => log' = << >>
  PROVE  /\ MemType' /\ PhaseInv' /\ LogInv' /\ LsnInv' /\ OffloadInv'
         /\ ~Truncating' /\ ~Ready' /\ op'.at = "idle" /\ mem'.file = FALSE
         /\ Kept' = m /\ Safe' = m /\ RecordsBefore(mem'.flush_record_lsn) = m
<1>1. /\ crashes' = crashes + 1 /\ op' = Idle
      /\ mem' = IF control.commit = 0 THEN Opened(0)
                ELSE Opened(EndOf(find_end_of_wal(left, control.commit)))
      /\ removing' = 0 /\ offloaded' = 0 /\ commit' = control.commit /\ backup' = control.backup
      /\ UNCHANGED <<dir, term, control, s3>>
  BY DEF Restart
<1>2. /\ mem' = IF control.commit = 0 THEN Opened(0) ELSE Opened(EndOf(m))
      /\ control.commit = 0 => m = 0 /\ log = << >>
      /\ RecordsBefore(control.commit) <= m /\ m <= Len(log)
  BY <1>1 DEF FoundRecords
<1>3. PICK e \in Nat : /\ mem' = Opened(e) /\ e = IF control.commit = 0 THEN 0 ELSE EndOf(m)
                       /\ e \in Lsn /\ e \in {0, StartLsn} \cup RecordEnds
                       /\ RecordsBefore(e) = m /\ e <= EndOf(m) /\ EndOf(m) \in Nat
                       /\ e # 0 => e = EndOf(m) /\ e >= StartLsn
                       /\ control.commit <= e
  <2>1. m \in 0 .. Len(Ends)
    BY <1>2, LogFacts, EndsIs
  <2>2. EndOf(m) \in Nat /\ EndOf(m) \in Lsn /\ EndOf(m) \in {StartLsn} \cup RecordEnds
        /\ EndOf(m) >= StartLsn /\ RecordsBefore(EndOf(m)) = m
    BY <2>1, EndOfOrder, CountsAtEnd
  <2>3. CASE control.commit = 0
    <3>1. m = 0 /\ mem' = Opened(0) /\ 0 \in Lsn
      BY <1>2, <2>3, EndsIs DEF Lsn
    <3>. QED  BY <2>2, <2>3, <3>1, CountsAtZero
  <2>4. CASE control.commit # 0
    <3>1. mem' = Opened(EndOf(m))
      BY <1>2, <2>4
    <3>2. control.commit = EndOf(RecordsBefore(control.commit))
          /\ RecordsBefore(control.commit) \in 0 .. Len(Ends)
      BY <2>4, BoundaryIs DEF IInv, LsnInv
    <3>3. control.commit <= EndOf(m)
      BY <1>2, <2>1, <3>2, EndOfOrder
    <3>. QED  BY <2>2, <2>4, <3>1, <3>3
  <2>. QED  BY <2>3, <2>4
<1>4. /\ mem'.write_lsn = e /\ mem'.write_record_lsn = e /\ mem'.flush_record_lsn = e
      /\ mem'.file = FALSE /\ mem'.truncated = FALSE /\ mem'.streaming = FALSE
      /\ op'.at = "idle"
      /\ mem' = [write_lsn |-> e, write_record_lsn |-> e, flush_record_lsn |-> e,
                 file |-> FALSE, truncated |-> FALSE, streaming |-> FALSE]
  <2>1. mem' = [write_lsn |-> e, write_record_lsn |-> e, flush_record_lsn |-> e,
                file |-> FALSE, truncated |-> FALSE, streaming |-> FALSE]
    BY <1>3 DEF Opened
  <2>2. op'.at = "idle"
    BY <1>1 DEF Idle
  <2>. QED  BY <2>1, <2>2
<1>5. ~Truncating' /\ ~Ready' /\ Kept' = m /\ Safe' = m
  BY <1>3, <1>4 DEF Truncating, Ready, Kept, Safe
<1>6. MemType'
  <2>1. Idle \in [at : {"idle", "write", "complete", "remove", "zeroed", "adopt"}, until : Lsn]
    BY EndsIs DEF Lsn, Idle
  <2>2. crashes' \in Nat
    BY <1>1 DEF IInv, MemType
  <2>. QED  BY <1>1, <1>3, <1>4, <2>1, <2>2 DEF IInv, MemType
<1>7. PhaseInv'
  BY <1>3, <1>4, <1>5 DEF PhaseInv
<1>8. LogInv'
  <2>1. e <= EndOf(Len(log'))
    <3>1. m \in 0 .. Len(Ends) /\ Len(log') \in 0 .. Len(Ends)
      BY EndsIs
    <3>2. EndOf(m) <= EndOf(Len(log')) /\ EndOf(Len(log')) \in Nat
      BY <3>1, EndOfOrder
    <3>. QED  BY <1>3, <3>2
  <2>. QED  BY <2>1, <1>4 DEF LogInv
<1>9. LsnInv'
  <2>2. control.commit \in Nat /\ control.backup \in Nat /\ control.backup \in Lsn
        /\ control.backup <= control.commit /\ control.commit \in {0, StartLsn} \cup RecordEnds
        /\ control \in [commit : Lsn, backup : Lsn]
        /\ (control.commit # 0 => control.backup >= StartLsn) /\ StartLsn > 0 /\ StartLsn \in Nat
    BY LsnFacts, EndsIs DEF IInv, LsnInv
  <2>3. (control.backup = 0) = (control.commit = 0)
    BY <2>2
  <2>. QED  BY <1>1, <1>2, <1>3, <1>4, <1>5, <2>2, <2>3 DEF LsnInv
<1>10. OffloadInv'
  BY <1>1 DEF OffloadInv
<1>. QED  BY <1>3, <1>4, <1>5, <1>6, <1>7, <1>8, <1>9, <1>10

\* A committed cell stays gone, or stays as it is.
LEMMA KillIInv ==
  ASSUME IInv, Kill
  PROVE  /\ IInv' /\ UNCHANGED <<log, disk>>
         /\ \E m \in Nat : /\ Kept <= m /\ m <= Len(log) /\ Kept' = m
                           /\ RecordsBefore(mem'.flush_record_lsn) = m
<1>1. /\ Restart(data) /\ UNCHANGED <<data, disk, log>>
      /\ risked' = risked \cup {c \in Cells : data[c] # disk[c]}
  BY DEF Kill
<1>2. UNCHANGED <<dir, term, control, s3>> /\ offloaded' = 0 /\ backup' = control.backup
  BY <1>1 DEF Restart
<1>3. Left(data)
  BY DEF Left
<1>4. PICK m \in Nat : FoundRecords(data, m)
  BY <1>3, RestartFinds
<1>5. /\ m <= Len(log) /\ RecordsBefore(control.commit) <= m /\ RecordsBefore(control.commit) \in Nat
      /\ Kept <= m /\ Kept \in Nat /\ RecordsBefore(control.commit) <= Kept
  BY <1>4, KeptFacts DEF FoundRecords
<1>6. /\ MemType' /\ PhaseInv' /\ LogInv' /\ LsnInv' /\ OffloadInv'
      /\ ~Truncating' /\ ~Ready' /\ op'.at = "idle" /\ mem'.file = FALSE
      /\ Kept' = m /\ Safe' = m /\ RecordsBefore(mem'.flush_record_lsn) = m
  <2>1. log' \in Seq(1 .. MaxTerm) /\ m <= Len(log') /\ Len(log') <= Len(Ends)
    BY <1>1, <1>5, LogFacts, EndsIs
  <2>2. log = << >> => log' = << >>
    BY <1>1
  <2>. QED  BY <1>1, <1>4, <2>1, <2>2, RestartIs
<1>7. Stored' = Stored
  BY <1>1 DEF Stored
<1>8. \A c \in Cells : Gone(c) => Gone(c)'
  BY <1>1 DEF Gone
<1>9. ASSUME NEW i \in 1 .. m
      PROVE  /\ i \in 1 .. Len(log) /\ i \in RecordIds /\ \A c \in CellsOfRecord(i) : c \in Cells
             /\ i <= RecordsBefore(control.commit) => i \in 1 .. Kept
             /\ ~(i <= RecordsBefore(control.commit)) => i \in RecordsBefore(control.commit) + 1 .. m
  <2>1. i \in 1 .. Len(log) /\ i \in RecordIds
    <3>1. Len(log) \in Nat /\ 1 .. Len(log) \subseteq RecordIds
      BY LogFacts
    <3>2. i \in 1 .. Len(log)
      BY <1>5, <3>1
    <3>. QED  BY <3>1, <3>2
  <2>. QED  BY <1>5, <2>1, CellOfRecord
<1>10. CellInv'
  BY <1>1, <1>2, <1>7 DEF IInv, CellInv
<1>11. RecordInv'
  <2>1. \A i \in 1 .. Len(log') : \A c \in CellsOfRecord(i) : Stored'[c] \in {0, log'[i]}
    BY <1>1, <1>7 DEF IInv, RecordInv
  <2>2. ASSUME NEW i \in 1 .. m, NEW c \in CellsOfRecord(i)
        PROVE  data[c] = log[i] \/ (i <= RecordsBefore(control.commit) /\ Gone(c)')
    <3>1. CASE i <= RecordsBefore(control.commit)
      BY <1>8, <1>9, <3>1 DEF IInv, RecordInv
    <3>2. CASE ~(i <= RecordsBefore(control.commit))
      BY <1>4, <1>9, <3>2 DEF FoundRecords
    <3>. QED  BY <3>1, <3>2
  <2>. QED  BY <1>1, <1>2, <1>6, <2>1, <2>2 DEF RecordInv
<1>12. SafeInv'
  <2>1. ASSUME NEW i \in 1 .. m, NEW c \in CellsOfRecord(i) PROVE data'[c] = disk'[c] \/ c \in risked'
    BY <1>1, <1>9
  <2>. QED  BY <1>6, <2>1 DEF SafeInv
<1>13. FileInv'
  <2>1. ASSUME NEW i \in 1 .. m, NEW c \in CellsOfRecord(i),
               segment_number(control.backup) <= segment_number(c)
        PROVE  dir[segment_number(c)] # "none"
    <3>1. CASE i <= RecordsBefore(control.commit)
      BY <1>9, <2>1, <3>1 DEF IInv, FileInv
    <3>2. CASE ~(i <= RecordsBefore(control.commit))
      BY <1>4, <1>9, <3>2 DEF FoundRecords
    <3>. QED  BY <3>1, <3>2
  <2>. QED  BY <1>2, <1>6, <2>1 DEF IInv, FileInv
<1>14. EndInv'
  <2>1. Len(log') < Len(Ends) => ~Intact(Stored, Len(log) + 1)'
    BY <1>1, <1>2, <1>7 DEF IInv, EndInv, Intact
  <2>. QED  BY <1>6, <2>1 DEF EndInv
<1>15. S3Inv'
  <2>1. SUFFICES ASSUME NEW i \in 1 .. Len(log), NEW c \in CellsOfRecord(i),
                        segment_number(c) < segment_number(control.backup)
                 PROVE  s3[c] = log[i] \/ Gone(c)'
    BY <1>1, <1>2 DEF S3Inv
  <2>2. segment_number(c) \in Nat /\ c \in Cells
    BY LogFacts, CellOfRecord
  <2>3. segment_number(c) < segment_number(backup)
    BY <2>1, <2>2, LsnFacts DEF IInv
  <2>. QED  BY <1>8, <2>2, <2>3 DEF IInv, S3Inv
<1>16. IInv'
  BY <1>6, <1>10, <1>11, <1>12, <1>13, <1>14, <1>15 DEF IInv
<1>. QED  BY <1>1, <1>5, <1>6, <1>16

\* What is lost of the committed cells was at risk, and what is found beyond
\* them is as it was written.
LEMMA PowerFailureIInv ==
  ASSUME IInv, PowerFailure
  PROVE  /\ IInv'
         /\ \E m \in Nat :
              /\ m <= Len(log) /\ log' = SubSeq(log, 1, m) /\ Len(log') = m
              /\ \A i \in 1 .. m : log'[i] = log[i]
              /\ Kept' = m /\ RecordsBefore(mem'.flush_record_lsn) = m
              /\ m < Kept => \E c \in CellsOfRecord(m + 1) : disk[c] # log[m + 1]
              /\ \A i \in 1 .. m : \A c \in CellsOfRecord(i) : disk'[c] # log[i] =>
                    i <= RecordsBefore(control.commit) /\ disk[c] # log[i]
<1>1. PICK lost \in SUBSET {c \in Cells : data[c] # disk[c]} :
        LET left == [c \in Cells |-> IF c \in lost THEN disk[c] ELSE data[c]]
            kept == RecordsBefore(control.commit)
            found == find_end_of_wal(left, control.commit)
        IN  /\ Restart(left)
            /\ data' = left
            /\ disk' = left
            /\ log' = IF control.commit = 0 THEN << >>
                      ELSE SubSeq(log, 1, kept)
                             \o [j \in 1 .. found - kept |-> left[EndOf(kept + j - 1)]]
            /\ UNCHANGED risked
  BY DEF PowerFailure
<1>2. PICK left : left = [c \in Cells |-> IF c \in lost THEN disk[c] ELSE data[c]]
  OBVIOUS
<1>3. PICK kept \in Nat : kept = RecordsBefore(control.commit)
  BY KeptFacts
<1>4. Left(left) /\ left \in [Cells -> 0 .. MaxTerm]
  BY <1>2 DEF Left, IInv, CellInv
<1>5. PICK m \in Nat : FoundRecords(left, m)
  BY <1>4, RestartFinds
<1>6. /\ m <= Len(log) /\ kept <= m /\ kept <= Kept /\ Kept \in Nat /\ kept <= Safe
      /\ control.commit = 0 => m = 0 /\ log = << >>
      /\ control.commit # 0 => m = find_end_of_wal(left, control.commit)
      /\ \A i \in kept + 1 .. m : \A c \in CellsOfRecord(i) :
            left[c] = log[i] /\ dir[segment_number(c)] # "none"
  BY <1>3, <1>5, KeptFacts, CommitFlushed DEF FoundRecords
<1>7. /\ Restart(left) /\ data' = left /\ disk' = left /\ UNCHANGED risked
      /\ control.commit = 0 => log' = << >>
      /\ control.commit # 0 => log' = SubSeq(log, 1, kept)
                                  \o [j \in 1 .. m - kept |-> left[EndOf(kept + j - 1)]]
  <2>1. PICK found : found = find_end_of_wal(left, control.commit)
    OBVIOUS
  <2>2. /\ Restart(left) /\ data' = left /\ disk' = left /\ UNCHANGED risked
        /\ log' = IF control.commit = 0 THEN << >>
                  ELSE SubSeq(log, 1, kept)
                         \o [j \in 1 .. found - kept |-> left[EndOf(kept + j - 1)]]
    BY <1>1, <1>2, <1>3, <2>1
  <2>3. control.commit # 0 => m = found
    BY <1>6, <2>1
  <2>. QED  BY <2>2, <2>3
<1>8. UNCHANGED <<dir, term, control, s3>> /\ offloaded' = 0 /\ backup' = control.backup
  BY <1>7 DEF Restart
<1>9. ASSUME NEW i \in 1 .. m
      PROVE  /\ i \in 1 .. Len(log) /\ i \in RecordIds /\ \A c \in CellsOfRecord(i) : c \in Cells
             /\ i <= kept => i \in 1 .. Kept /\ i \in 1 .. Safe
             /\ ~(i <= kept) => i \in kept + 1 .. m
  <2>1. i \in 1 .. Len(log) /\ i \in RecordIds
    BY <1>6, LogFacts
  <2>. QED  BY <1>6, <2>1, CellOfRecord, KeptFacts
<1>10. log' = SubSeq(log, 1, m)
  <2>1. CASE control.commit = 0
    <3>1. log' = << >> /\ m = 0
      BY <1>6, <1>7, <2>1
    <3>. QED  BY <3>1, SubSeqEmpty
  <2>2. CASE control.commit # 0
    <3>. DEFINE a == [j \in 1 .. m - kept |-> left[EndOf(kept + j - 1)]]
    <3>1. \A j \in 1 .. m - kept : a[j] = log[kept + j] /\ log[kept + j] \in 1 .. MaxTerm
      <4>. TAKE j \in 1 .. m - kept
      <4>1. PICK i \in Nat : i = kept + j
        OBVIOUS
      <4>2. i \in kept + 1 .. m /\ i \in 1 .. m
        BY <1>6, <4>1
      <4>3. i \in RecordIds /\ log[i] \in 1 .. MaxTerm
        BY <1>9, <4>2, LogFacts
      <4>4. EndOf(i - 1) \in CellsOfRecord(i)
        BY <4>3, EndCellsOfRecord
      <4>5. left[EndOf(i - 1)] = log[i]
        BY <1>6, <4>2, <4>4
      <4>. QED  BY <4>1, <4>3, <4>5
    <3>2. a \in [1 .. m - kept -> 1 .. MaxTerm]
      BY <3>1
    <3>3. log' = SubSeq(log, 1, kept) \o a
      BY <1>7, <2>2
    <3>. HIDE DEF a
    <3>4. SubSeq(log, 1, kept) \o a = SubSeq(log, 1, m)
      <4>1. log \in Seq(1 .. MaxTerm)
        BY LogFacts
      <4>2. \A j \in 1 .. m - kept : a[j] = log[kept + j]
        BY <3>1
      <4>. QED  BY <1>6, <3>2, <4>1, <4>2, ReadBack
    <3>. QED  BY <3>3, <3>4
  <2>. QED  BY <2>1, <2>2
<1>11. log' \in Seq(1 .. MaxTerm) /\ Len(log') = m /\ \A i \in 1 .. m : log'[i] = log[i]
  BY <1>6, <1>10, LogFacts, PrefixIs
<1>12. /\ MemType' /\ PhaseInv' /\ LogInv' /\ LsnInv' /\ OffloadInv'
       /\ ~Truncating' /\ ~Ready' /\ op'.at = "idle" /\ mem'.file = FALSE
       /\ Kept' = m /\ Safe' = m /\ RecordsBefore(mem'.flush_record_lsn) = m
  <2>1. Len(log') <= Len(Ends) /\ m <= Len(log')
    BY <1>6, <1>11, LogFacts, EndsIs
  <2>2. log = << >> => log' = << >>
    <3>. HAVE log = << >>
    <3>1. m = 0
      BY <1>6
    <3>. QED  BY <3>1, <1>11
  <2>. QED  BY <1>5, <1>7, <1>11, <2>1, <2>2, RestartIs
<1>13. Stored' = left
  BY <1>4, <1>7 DEF Stored
<1>14. \A c \in Cells : Gone(c) => Gone(c)' /\ left[c] = 0 /\ disk[c] = 0
  BY <1>4, <1>7 DEF Gone, Left
<1>15. ASSUME NEW i \in 1 .. m, NEW c \in CellsOfRecord(i)
       PROVE  /\ left[c] = log[i] \/ (i <= kept /\ Gone(c)')
              /\ left[c] # log[i] => i <= kept /\ disk[c] # log[i]
  <2>1. i \in 1 .. Len(log) /\ c \in Cells /\ log[i] \in 1 .. MaxTerm /\ log[i] # 0
    BY <1>9, LogFacts, BoundsAssumption
  <2>2. CASE i <= kept
    <3>1. data[c] = log[i] \/ Gone(c)
      BY <1>9, <2>2 DEF IInv, RecordInv
    <3>2. CASE Gone(c)
      BY <1>14, <2>1, <2>2, <3>2
    <3>3. CASE data[c] = log[i]
      <4>1. data[c] = disk[c] \/ c \in risked
        BY <1>9, <2>2 DEF IInv, SafeInv
      <4>2. disk[c] \in {0, log[i]}
        BY <2>1, <3>3, CellFacts DEF IInv
      <4>3. left[c] = data[c] \/ left[c] = disk[c]
        BY <1>4, <2>1 DEF Left
      <4>4. CASE left[c] = log[i]
        BY <4>4
      <4>5. CASE left[c] # log[i]
        <5>1. left[c] = 0 /\ disk[c] = 0 /\ c \in risked
          BY <2>1, <3>3, <4>1, <4>2, <4>3, <4>5
        <5>. QED  BY <1>7, <2>1, <2>2, <5>1 DEF Gone
      <4>. QED  BY <4>4, <4>5
    <3>. QED  BY <3>1, <3>2, <3>3
  <2>3. CASE ~(i <= kept)
    BY <1>6, <1>9, <2>3
  <2>. QED  BY <2>2, <2>3
<1>16. CellInv'
  BY <1>4, <1>7, <1>8, <1>13 DEF IInv, CellInv
<1>17. RecordInv'
  <2>1. ASSUME NEW i \in 1 .. m, NEW c \in CellsOfRecord(i) PROVE left[c] \in {0, log[i]}
    <3>1. c \in Cells /\ i \in 1 .. Len(log)
      BY <1>9
    <3>2. Stored[c] \in {0, log[i]}
      BY <3>1 DEF IInv, RecordInv
    <3>3. left[c] \in {0, Stored[c]}
      BY <1>4, <3>1, CellFacts DEF IInv, Left
    <3>. QED  BY <3>2, <3>3
  <2>. QED  BY <1>3, <1>7, <1>8, <1>11, <1>12, <1>13, <1>15, <2>1 DEF RecordInv
<1>18. SafeInv'
  BY <1>7 DEF SafeInv
<1>19. FileInv'
  <2>1. ASSUME NEW i \in 1 .. m, NEW c \in CellsOfRecord(i),
               segment_number(control.backup) <= segment_number(c)
        PROVE  dir[segment_number(c)] # "none"
    <3>1. CASE i <= kept
      BY <1>9, <2>1, <3>1 DEF IInv, FileInv
    <3>2. CASE ~(i <= kept)
      BY <1>6, <1>9, <3>2
    <3>. QED  BY <3>1, <3>2
  <2>. QED  BY <1>8, <1>12, <2>1 DEF IInv, FileInv
<1>20. EndInv'
  <2>1. ASSUME m < Len(Ends) PROVE ~Intact(Stored, Len(log) + 1)'
    BY <1>5, <1>8, <1>11, <1>13, <2>1 DEF Intact, FoundRecords
  <2>. QED  BY <1>11, <1>12, <2>1 DEF EndInv
<1>21. S3Inv'
  <2>1. SUFFICES ASSUME NEW i \in 1 .. m, NEW c \in CellsOfRecord(i),
                        segment_number(c) < segment_number(control.backup)
                 PROVE  s3[c] = log[i] \/ Gone(c)'
    BY <1>8, <1>11 DEF S3Inv
  <2>2. i \in 1 .. Len(log) /\ c \in Cells /\ i \in RecordIds
    BY <1>9
  <2>3. segment_number(c) \in Nat
    BY <2>2, CellOfRecord
  <2>4. segment_number(c) < segment_number(backup)
    BY <2>1, <2>3, LsnFacts DEF IInv
  <2>. QED  BY <1>14, <2>2, <2>4 DEF IInv, S3Inv
<1>22. IInv'
  BY <1>12, <1>16, <1>17, <1>18, <1>19, <1>20, <1>21 DEF IInv
<1>23. m < Kept => \E c \in CellsOfRecord(m + 1) : disk[c] # log[m + 1]
  BY <1>5 DEF FoundRecords
<1>. QED  BY <1>3, <1>6, <1>7, <1>10, <1>11, <1>12, <1>15, <1>22, <1>23

-----------------------------------------------------------------------------
(***************************************************************************)
(* The invariant is inductive.                                             *)
(***************************************************************************)
LEMMA NextIInv ==
  ASSUME IInv, [Next]_vars
  PROVE  IInv'
<1>1. ASSUME NEW n \in 1 .. MaxWrite, WriteWal(n) PROVE IInv'
  BY <1>1, WriteWalIInv
<1>2. CASE WriteInSegment
  BY <1>2, WriteInSegmentIInv
<1>3. CASE CompleteSegment
  BY <1>3, CompleteSegmentIInv
<1>4. CASE FlushWal
  BY <1>4, FlushWalIInv
<1>5. ASSUME NEW lsn \in RecordEnds \cup {StartLsn}, BeginTruncate(lsn) PROVE IInv'
  BY <1>5, BeginTruncateIInv
<1>6. ASSUME NEW n \in Segments, TruncateRemoves(n) PROVE IInv'
  BY <1>6, TruncateRemovesIInv
<1>7. CASE TruncateZeroes
  BY <1>7, TruncateZeroesIInv
<1>8. CASE TruncateSyncs
  BY <1>8, TruncateSyncsIInv
<1>9. CASE Adopt
  BY <1>9, AdoptIInv
<1>10. ASSUME NEW lsn \in RecordEnds, AdvanceCommit(lsn) PROVE IInv'
  BY <1>10, AdvanceCommitIInv
<1>11. CASE PersistControl
  BY <1>11, PersistControlIInv
<1>12. CASE BackupSegment
  BY <1>12, BackupSegmentIInv
<1>13. CASE set_wal_backup_lsn
  BY <1>13, SetWalBackupLsnIInv
<1>14. ASSUME NEW n \in Segments, RemoveOldWal(n) PROVE IInv'
  BY <1>14, RemoveOldWalIInv
<1>15. ASSUME NEW n \in Segments, RemoveUpTo(n) PROVE IInv'
  BY <1>15, RemoveUpToIInv
<1>16. CASE Kill
  BY <1>16, KillIInv
<1>17. CASE PowerFailure
  BY <1>17, PowerFailureIInv
<1>18. CASE UNCHANGED vars
  <2>1. StorageUnchanged /\ UNCHANGED <<dir, commit, backup, control, s3, offloaded, removing>>
    BY <1>18 DEF vars, StorageUnchanged
  <2>2. control'.commit \in Nat /\ control.commit <= control'.commit
        /\ control'.backup \in Nat /\ control.backup <= control'.backup
    BY <2>1, LsnFacts DEF IInv
  <2>3. MemType' /\ LogInv' /\ SafeInv' /\ RecordInv' /\ EndInv' /\ CellInv' /\ FileInv'
    BY <2>1, <2>2, StorageKept, FilesKept, CellsKept, FilesNeeded
  <2>4. PhaseInv' /\ OffloadInv'
    BY <2>1 DEF IInv, PhaseInv, OffloadInv, Ready, Truncating, StorageUnchanged
  <2>5. LsnInv'
    BY <2>1 DEF IInv, LsnInv, Ready, Truncating, StorageUnchanged
  <2>6. S3Inv'
    BY <2>1 DEF IInv, S3Inv, Gone, StorageUnchanged
  <2>. QED  BY <2>3, <2>4, <2>5, <2>6 DEF IInv
<1>. QED  BY <1>1, <1>2, <1>3, <1>4, <1>5, <1>6, <1>7, <1>8, <1>9, <1>10, <1>11, <1>12, <1>13,
             <1>14, <1>15, <1>16, <1>17, <1>18 DEF Next

LEMMA InitUnsynced ==
  ASSUME Init
  PROVE  UnsyncedInv
BY DEF Init, UnsyncedInv

LEMMA NextUnsynced ==
  ASSUME IInv, UnsyncedInv, [Next]_vars
  PROVE  UnsyncedInv'
<1>0. op \in [at : {"idle", "write", "complete", "remove", "zeroed", "adopt"}, until : Lsn]
      /\ mem \in [write_lsn : Lsn, write_record_lsn : {0, StartLsn} \cup RecordEnds,
                  flush_record_lsn : {0, StartLsn} \cup RecordEnds,
                  file : BOOLEAN, truncated : BOOLEAN, streaming : BOOLEAN]
  BY DEF IInv, MemType
<1>1. ASSUME NEW n \in 1 .. MaxWrite, WriteWal(n) PROVE UnsyncedInv'
  <2>1. op.at = "idle" /\ op'.at = "write" /\ UNCHANGED <<mem, data, disk>>
    BY <1>1 DEF WriteWal, Idle
  <2>. QED  BY <2>1 DEF UnsyncedInv, Ready, Truncating, WriteEnd
<1>2. CASE WriteInSegment
  BY <1>2, WriteInSegmentIInv
<1>3. CASE CompleteSegment
  BY <1>3, CompleteSegmentIInv
<1>4. CASE FlushWal
  <2>1. /\ op.at = "idle" /\ UNCHANGED <<op, data>>
        /\ mem' = [mem EXCEPT !.flush_record_lsn = mem.write_record_lsn]
        /\ disk' = IF mem.file THEN Synced(segment_number(mem.write_lsn)) ELSE disk
    BY <1>4 DEF FlushWal, FlushLsn, Idle
  <2>2. /\ mem'.flush_record_lsn = mem.write_record_lsn /\ mem'.write_lsn = mem.write_lsn
        /\ mem'.file = mem.file /\ mem'.truncated = mem.truncated
    BY <1>0, <2>1
  <2>3. \A c \in Cells : data[c] # disk'[c] =>
           data[c] # disk[c] /\ ~(mem.file /\ segment_number(c) = segment_number(mem.write_lsn))
    BY <2>1 DEF Synced, CellsOf
  <2>4. mem.write_record_lsn \in Nat /\ mem.flush_record_lsn \in Nat
        /\ mem.flush_record_lsn <= mem.write_record_lsn
    BY MemFacts DEF IInv, PhaseInv
  <2>5. \A c \in Cells : mem.write_record_lsn <= c => mem.flush_record_lsn <= c
    BY <2>4, CellSegment
  <2>. QED  BY <2>1, <2>2, <2>3, <2>5 DEF UnsyncedInv, Ready, Truncating, WriteEnd
<1>5. ASSUME NEW lsn \in RecordEnds \cup {StartLsn}, BeginTruncate(lsn) PROVE UnsyncedInv'
  <2>1. CASE op' = [at |-> "remove", until |-> lsn]
    BY <2>1 DEF UnsyncedInv, Ready, Truncating
  <2>2. CASE op' # [at |-> "remove", until |-> lsn]
    <3>1. /\ op' = [at |-> "adopt", until |-> lsn] /\ op.at = "idle"
          /\ mem' = [mem EXCEPT !.streaming = FALSE] /\ UNCHANGED <<data, disk>>
      BY <1>5, <2>2 DEF BeginTruncate, Idle
    <3>2. /\ mem'.flush_record_lsn = mem.flush_record_lsn /\ mem'.write_lsn = mem.write_lsn
          /\ mem'.file = mem.file /\ mem'.truncated = mem.truncated /\ op'.at = "adopt"
      BY <1>0, <3>1
    <3>. QED  BY <3>1, <3>2 DEF UnsyncedInv, Ready, Truncating, WriteEnd
  <2>. QED  BY <2>1, <2>2
<1>6. ASSUME NEW n \in Segments, TruncateRemoves(n) PROVE UnsyncedInv'
  BY <1>6 DEF TruncateRemoves, UnsyncedInv, Ready, Truncating
<1>7. CASE TruncateZeroes
  <2>1. op'.at = "zeroed"
    BY <1>0, <1>7 DEF TruncateZeroes
  <2>. QED  BY <2>1 DEF UnsyncedInv, Ready, Truncating
<1>8. CASE TruncateSyncs
  <2>1. /\ mem'.flush_record_lsn = op.until /\ mem'.write_lsn = op.until /\ op'.at = "adopt"
    BY <1>0, <1>8 DEF TruncateSyncs, Opened
  <2>2. op.until \in Nat /\ \A c \in Cells : c \in Nat
    BY MemFacts, CellSegment DEF IInv
  <2>3. \A c \in Cells : ~(op.until <= c /\ c < op.until)
    BY <2>2
  <2>. QED  BY <2>1, <2>3 DEF UnsyncedInv, WriteEnd
<1>9. CASE Adopt
  <2>1. mem' = [mem EXCEPT !.streaming = TRUE] /\ op.at = "adopt" /\ op'.at = "idle"
        /\ UNCHANGED <<data, disk>>
    BY <1>9 DEF Adopt, Idle
  <2>2. /\ mem'.flush_record_lsn = mem.flush_record_lsn /\ mem'.write_lsn = mem.write_lsn
        /\ mem'.file = mem.file /\ mem'.truncated = mem.truncated
    BY <1>0, <2>1
  <2>. QED  BY <2>1, <2>2 DEF UnsyncedInv, Ready, Truncating, WriteEnd
<1>10. CASE Kill \/ PowerFailure
  <2>1. ASSUME NEW cells, Restart(cells) PROVE mem'.truncated = FALSE
    BY <2>1 DEF Restart, Opened
  <2>2. mem'.truncated = FALSE
    BY <1>10, <2>1 DEF Kill, PowerFailure
  <2>. QED  BY <2>2 DEF UnsyncedInv, Ready
<1>11. ASSUME UNCHANGED <<mem, op, data, disk>> PROVE UnsyncedInv'
  BY <1>11 DEF UnsyncedInv, Ready, Truncating, WriteEnd
<1>12. ASSUME NEW lsn \in RecordEnds, AdvanceCommit(lsn) PROVE UNCHANGED <<mem, op, data, disk>>
  BY <1>12 DEF AdvanceCommit
<1>13. PersistControl \/ BackupSegment \/ set_wal_backup_lsn => UNCHANGED <<mem, op, data, disk>>
  BY DEF PersistControl, BackupSegment, set_wal_backup_lsn
<1>14. ASSUME NEW n \in Segments, RemoveOldWal(n) \/ RemoveUpTo(n)
       PROVE  UNCHANGED <<mem, op, data, disk>>
  BY <1>14 DEF RemoveOldWal, RemoveUpTo
<1>15. UNCHANGED vars => UNCHANGED <<mem, op, data, disk>>
  BY DEF vars
<1>. QED  BY <1>1, <1>2, <1>3, <1>4, <1>5, <1>6, <1>7, <1>8, <1>9, <1>10, <1>11, <1>12, <1>13,
             <1>14, <1>15 DEF Next

\* The invariant holds whatever the layout of the WAL and wherever a kill or
\* a power failure cuts a call short.
THEOREM StorageInvariant == Spec => []IInv
<1>1. Init => IInv
  BY InitIInv
<1>2. IInv /\ [Next]_vars => IInv'
  BY NextIInv
<1>. QED  BY <1>1, <1>2, PTL DEF Spec

-----------------------------------------------------------------------------
(***************************************************************************)
(* What it implies.                                                        *)
(***************************************************************************)

\* TypeOK: in particular the positions that PhysicalStorage reports are ends
\* of records, and never beyond the WAL that there is.
THEOREM StorageTypeCorrect == Spec => []TypeOK
<1>1. IInv => TypeOK
  <2>. SUFFICES ASSUME IInv PROVE TypeOK
    OBVIOUS
  <2>1. /\ mem.write_lsn \in Lsn
        /\ mem.write_record_lsn \in {0, StartLsn} \cup RecordEnds
        /\ mem.flush_record_lsn \in {0, StartLsn} \cup RecordEnds
        /\ op.at \in {"idle", "write", "complete", "remove", "zeroed", "adopt"}
        /\ op.until \in Lsn
    BY MemFacts DEF IInv
  <2>2. commit \in Lsn /\ backup \in Lsn /\ control \in [commit : Lsn, backup : Lsn]
    BY LsnFacts DEF IInv, LsnInv
  <2>3. log \in Seq(1 .. MaxTerm) /\ Len(log) <= Len(Ends)
    BY LogFacts, EndsIs
  <2>4. removing \in {0} \cup Segments /\ offloaded \in {0} \cup Segments
    BY DEF IInv, OffloadInv
  <2>. QED  BY <2>1, <2>2, <2>3, <2>4 DEF TypeOK, IInv, CellInv, FileInv
<1>. QED  BY <1>1, StorageInvariant, PTL

\* Every committed record can be read, from the local files or from S3, at
\* every step of remove_old_wal, of offloading and of a truncation, and after
\* every kill and every power failure: all but the cells that a kill left
\* unsynced and the restart did not sync either.
THEOREM CommittedStaysReadable == Spec => []CommittedIsRetained
<1>1. IInv => CommittedIsRetained
  <2>. SUFFICES ASSUME IInv, NEW i \in 1 .. RecordsBefore(commit), NEW c \in CellsOfRecord(i)
                PROVE  \/ dir[segment_number(c)] # "none" /\ data[c] = log[i]
                       \/ s3[c] = log[i]
                       \/ c \in risked /\ disk[c] # log[i]
    BY DEF CommittedIsRetained
  <2>1. i \in 1 .. Kept /\ i \in 1 .. Len(log)
    BY KeptFacts, LogFacts
  <2>2. c \in Cells /\ log[i] # 0
    <3>1. i \in RecordIds /\ log[i] \in 1 .. MaxTerm
      BY <2>1, LogFacts
    <3>. QED  BY <3>1, CellOfRecord, BoundsAssumption
  <2>3. segment_number(c) \in Nat /\ segment_number(control.backup) \in Nat
        /\ segment_number(backup) \in Nat
        /\ segment_number(control.backup) <= segment_number(backup)
    BY <2>2, CellSegment, LsnFacts DEF IInv
  <2>4. Gone(c) => c \in risked /\ disk[c] # log[i]
    BY <2>2 DEF Gone
  <2>5. CASE segment_number(control.backup) <= segment_number(c)
    <3>1. dir[segment_number(c)] # "none"
      BY <2>1, <2>5 DEF IInv, FileInv
    <3>2. data[c] = log[i] \/ Gone(c)
      BY <2>1 DEF IInv, RecordInv
    <3>. QED  BY <2>4, <3>1, <3>2
  <2>6. CASE segment_number(c) < segment_number(control.backup)
    <3>1. segment_number(c) < segment_number(backup)
      BY <2>3, <2>6
    <3>2. s3[c] = log[i] \/ Gone(c)
      BY <2>1, <3>1 DEF IInv, S3Inv
    <3>. QED  BY <2>4, <3>2
  <2>. QED  BY <2>3, <2>5, <2>6
<1>. QED  BY <1>1, StorageInvariant, PTL

\* write_in_segment never has to open a file with the name of a complete
\* segment: the check that fails with "unexpected write into non-partial
\* segment file" never does.
THEOREM WritesOpenPartialFiles == Spec => []WritesArePartial
<1>1. IInv => WritesArePartial
  BY DEF IInv, PhaseInv, EndInv, Ready, Truncating, WritesArePartial
<1>. QED  BY <1>1, StorageInvariant, PTL

-----------------------------------------------------------------------------
(***************************************************************************)
(* The storage implements DurableLog.                                      *)
(***************************************************************************)

\* The records that are reported as flushed and are not all on the disk.
Exposed == {i \in 1 .. RecordsBefore(mem.flush_record_lsn) :
               i <= Kept /\ \E c \in CellsOfRecord(i) : disk[c] # log[i]}

LEMMA DurableInit ==
  ASSUME Init
  PROVE  Durable!Init
<1>1. log = << >> /\ Len(log) = 0 /\ mem.flush_record_lsn = 0 /\ op.at = "idle"
      /\ mem.truncated = FALSE
  BY DEF Init, Opened, Idle
<1>2. RecordsBefore(mem.flush_record_lsn) = 0 /\ Kept = 0
  BY <1>1, CountsAtZero DEF Kept
<1>3. Exposed = {}
  BY <1>2 DEF Exposed
<1>. QED  BY <1>1, <1>2, <1>3 DEF Durable!Init, Exposed

\* A record of the log that is on the disk stays there when some of the
\* files are synced.
LEMMA SyncedStays ==
  ASSUME IInv, NEW i \in 1 .. Kept, NEW c \in CellsOfRecord(i), disk[c] = log[i]
  PROVE  data[c] = log[i]
<1>1. i \in 1 .. Len(log)
  BY KeptFacts, LogFacts
<1>2. log[i] # 0
  BY <1>1, LogFacts, BoundsAssumption
<1>. QED  BY <1>2 DEF IInv, RecordInv, Gone

\* What is not exposed is not exposed by a step that leaves the log alone,
\* keeps no more than before and lets cells reach the disk.
LEMMA ExposedShrinks ==
  ASSUME IInv, Kept' \in Nat, Kept' <= Kept,
         NEW f \in Nat, f = RecordsBefore(mem.flush_record_lsn),
         RecordsBefore(mem'.flush_record_lsn) \in Nat, RecordsBefore(mem'.flush_record_lsn) <= f,
         \A i \in 1 .. Kept' : log'[i] = log[i],
         \A i \in 1 .. Kept' : \A c \in CellsOfRecord(i) : disk'[c] \in {disk[c], data[c]}
  PROVE  Exposed' \in SUBSET Exposed
<1>. SUFFICES ASSUME NEW i \in Exposed' PROVE i \in Exposed
  OBVIOUS
<1>1. PICK c \in CellsOfRecord(i) : disk'[c] # log'[i]
  BY DEF Exposed
<1>2. i \in 1 .. RecordsBefore(mem'.flush_record_lsn) /\ i <= Kept'
  BY DEF Exposed
<1>3. i \in 1 .. Kept' /\ i \in 1 .. f /\ i \in 1 .. Kept /\ i <= Kept
  BY <1>2, KeptFacts
<1>4. log'[i] = log[i] /\ disk'[c] \in {disk[c], data[c]}
  BY <1>3
<1>5. disk[c] # log[i]
  BY <1>1, <1>3, <1>4, SyncedStays
<1>. QED  BY <1>3, <1>5 DEF Exposed

\* Such a step, with nothing else that DurableLog sees.
LEMMA Settles ==
  ASSUME IInv, UNCHANGED log, mem'.flush_record_lsn = mem.flush_record_lsn, Kept' = Kept,
         \A i \in 1 .. Kept : \A c \in CellsOfRecord(i) : disk'[c] \in {disk[c], data[c]}
  PROVE  Durable!Next
<1>1. Kept \in Nat /\ RecordsBefore(mem.flush_record_lsn) \in Nat
  BY KeptFacts, LogFacts
<1>2. Exposed' \in SUBSET Exposed
  BY <1>1, ExposedShrinks
<1>3. Durable!Settle
  BY <1>2 DEF Durable!Settle, Exposed
<1>. QED  BY <1>3 DEF Durable!Next

\* write_in_segment appends the records that it completes, if it does.
LEMMA WriteGrows ==
  ASSUME IInv, WriteInSegment
  PROVE  [Durable!Next]_(Durable!logVars)
<1>1. PICK k \in 0 .. MaxWrite : log' = log \o [i \in 1 .. k |-> term]
  BY WriteInSegmentIInv
<1>2. /\ IInv' /\ RecordsBefore(mem'.flush_record_lsn) = RecordsBefore(mem.flush_record_lsn)
      /\ Kept = Len(log) /\ Kept' = Len(log') /\ term \in 1 .. MaxTerm
      /\ \A i \in 1 .. Len(log) : log'[i] = log[i]
                                  /\ \A c \in CellsOfRecord(i) : disk'[c] = disk[c]
  BY WriteInSegmentIInv
<1>3. PICK f \in Nat : f = RecordsBefore(mem.flush_record_lsn) /\ f <= Len(log)
  BY KeptFacts, LogFacts
<1>4. Len(log) \in Nat /\ Len(log') \in Nat /\ f <= Len(log')
  <2>1. PICK r \in Nat : r = Len(log) + k /\ r - Len(log) = k /\ Len(log) <= r
    BY LogFacts, BoundsAssumption
  <2>2. log' = Appended(log, r, term)
    BY <1>1, <2>1 DEF Appended
  <2>3. Len(log') = r
    BY <1>2, <2>1, <2>2, AppendedIs, LogFacts
  <2>. QED  BY <1>3, <2>1, <2>3, LogFacts
<1>5. Exposed' = Exposed
  BY <1>2, <1>3, <1>4 DEF Exposed
<1>6. CASE k = 0
  <2>1. [i \in 1 .. k |-> term] = << >>
    BY <1>6
  <2>2. log' = log
    <3>1. log \o << >> = log
      BY LogFacts, ConcatEmptySeq
    <3>. QED  BY <1>1, <2>1, <3>1, Zenon
  <2>3. Kept' = Kept
    BY <1>2, <2>2
  <2>. QED  BY <1>2, <1>5, <2>2, <2>3 DEF Durable!logVars, Exposed
<1>7. CASE k # 0
  <2>1. k \in 1 .. MaxWrite
    BY <1>7, BoundsAssumption
  <2>2. Durable!Grow(term)
    BY <1>1, <1>2, <1>5, <2>1 DEF Durable!Grow, Exposed
  <2>. QED  BY <1>2, <2>2 DEF Durable!Next
<1>. QED  BY <1>6, <1>7

\* flush_wal flushes all of the log.
LEMMA FlushFlushes ==
  ASSUME IInv, UnsyncedInv, FlushWal
  PROVE  Durable!Flush
<1>1. /\ op.at = "idle" /\ op' = op /\ log' = log
      /\ mem' = [mem EXCEPT !.flush_record_lsn = mem.write_record_lsn]
      /\ mem.flush_record_lsn # mem.write_record_lsn
  BY DEF FlushWal, FlushLsn, Idle
<1>2. mem'.flush_record_lsn = mem.write_record_lsn /\ mem'.truncated = mem.truncated
  BY <1>1 DEF IInv, MemType
<1>3. mem.write_lsn # 0 /\ mem.flush_record_lsn <= mem.write_record_lsn
      /\ mem.flush_record_lsn >= StartLsn /\ mem.truncated
  BY <1>1 DEF IInv, PhaseInv, LogInv
<1>4. mem.write_record_lsn = EndOf(Len(log))
  BY <1>1, <1>3 DEF IInv, LogInv
<1>5. RecordsBefore(mem.write_record_lsn) = Len(log)
  BY <1>4, CountsAtEnd, LogFacts
<1>6. PICK f \in Nat : f = RecordsBefore(mem.flush_record_lsn) /\ f < Len(log)
  <2>1. PICK k \in 0 .. Len(Ends) : k = RecordsBefore(mem.flush_record_lsn)
                                    /\ mem.flush_record_lsn = EndOf(k) /\ k \in Nat
    <3>1. mem.flush_record_lsn \in {StartLsn} \cup RecordEnds
      BY <1>3, MemFacts, EndsIs DEF IInv
    <3>2. RecordsBefore(mem.flush_record_lsn) \in 0 .. Len(Ends)
          /\ mem.flush_record_lsn = EndOf(RecordsBefore(mem.flush_record_lsn))
      BY <3>1, BoundaryIs
    <3>3. \A k \in 0 .. Len(Ends) : k \in Nat
      BY EndsIs
    <3>. QED  BY <3>2, <3>3, Zenon
  <2>2. k <= Len(log) /\ k # Len(log)
    BY <1>1, <1>3, <1>4, <2>1, EndOfOrder, LogFacts
  <2>. QED  BY <2>1, <2>2, LogFacts
<1>7. Kept = Len(log) /\ Kept' = Len(log)
  BY <1>1, <1>2, <1>3 DEF Kept
<1>8. Exposed' \in SUBSET Exposed
  <2>. SUFFICES ASSUME NEW i \in Exposed' PROVE i \in Exposed
    OBVIOUS
  <2>1. PICK c \in CellsOfRecord(i) : disk'[c] # log[i]
    BY <1>1 DEF Exposed
  <2>2. i \in 1 .. Len(log) /\ i \in 1 .. Kept /\ i <= Kept
    BY <1>2, <1>5, <1>7 DEF Exposed
  <2>3. c \in Cells /\ log[i] # 0
    <3>1. i \in RecordIds /\ log[i] \in 1 .. MaxTerm
      BY <2>2, LogFacts
    <3>. QED  BY <3>1, CellOfRecord, BoundsAssumption
  <2>4. disk'[c] \in {disk[c], data[c]}
    BY <2>3 DEF FlushWal, Synced
  <2>5. disk[c] # log[i]
    BY <2>1, <2>2, <2>4, SyncedStays
  <2>6. CASE i <= f
    BY <1>6, <2>2, <2>5, <2>6 DEF Exposed
  <2>7. CASE ~(i <= f)
    <3>1. i \in RecordIds /\ i \in Nat /\ f \in 0 .. Len(Ends) /\ i - 1 \in 0 .. Len(Ends)
          /\ f <= i - 1
      BY <1>6, <2>2, <2>7, LogFacts, EndsIs DEF RecordIds
    <3>2. EndOf(f) <= EndOf(i - 1) /\ EndOf(i - 1) <= c /\ c < DataEnd(i) /\ c \in Nat
          /\ EndOf(f) \in Nat /\ EndOf(i - 1) \in Nat
      BY <3>1, CellOfRecord, EndOfOrder
    <3>3. mem.flush_record_lsn = EndOf(f)
      BY <1>3, <1>6, BoundaryIs, MemFacts, EndsIs DEF IInv
    <3>4. c < WriteEnd
      BY <1>3, <2>2, <3>2, LogFacts, MemFacts DEF IInv
    <3>5. Ready
      BY <1>1, <1>3 DEF Ready, Truncating
    <3>6. data[c] # disk[c] => mem.file /\ segment_number(c) = segment_number(mem.write_lsn)
      BY <1>1, <2>3, <3>2, <3>3, <3>4, <3>5 DEF UnsyncedInv
    <3>7. disk'[c] = data[c]
      BY <2>3, <3>6 DEF FlushWal, Synced, CellsOf
    <3>8. ~(i <= RecordsBefore(control.commit))
      BY <1>6, <2>7, <3>1, CommitFlushed, KeptFacts
    <3>9. data[c] = log[i]
      BY <2>2, <3>8 DEF IInv, RecordInv
    <3>. QED  BY <2>1, <3>7, <3>9
  <2>. QED  BY <2>6, <2>7
<1>. QED  BY <1>1, <1>2, <1>5, <1>6, <1>7, <1>8 DEF Durable!Flush, Exposed

\* truncate_wal licenses the loss of what is beyond its LSN.
LEMMA BeginBegins ==
  ASSUME IInv, NEW lsn \in RecordEnds \cup {StartLsn}, BeginTruncate(lsn)
  PROVE  Durable!Next
<1>1. /\ op.at = "idle" /\ log' = log /\ ~Truncating
      /\ mem'.flush_record_lsn = mem.flush_record_lsn /\ mem'.truncated = mem.truncated
  BY DEF BeginTruncate, Idle, Truncating, IInv, MemType
<1>2. \A c \in Cells : disk'[c] \in {disk[c], data[c]}
  BY DEF BeginTruncate, Synced
<1>3. \A i \in 1 .. Kept : \A c \in CellsOfRecord(i) : disk'[c] \in {disk[c], data[c]}
  <2>. TAKE i \in 1 .. Kept
  <2>1. i \in RecordIds
    BY KeptFacts
  <2>. QED  BY <1>2, <2>1, CellOfRecord
<1>4. \/ op' = [at |-> "adopt", until |-> lsn]
      \/ op' = [at |-> "remove", until |-> lsn]
  BY DEF BeginTruncate
<1>5. CASE op' = [at |-> "adopt", until |-> lsn]
  <2>1. Kept' = Kept
    BY <1>1, <1>5 DEF Kept
  <2>. QED  BY <1>1, <1>3, <2>1, Settles
<1>6. CASE op' = [at |-> "remove", until |-> lsn]
  <2>1. Kept' = RecordsBefore(lsn)
    BY <1>6 DEF Kept
  <2>2. PICK f \in Nat : f = RecordsBefore(mem.flush_record_lsn) /\ f = Safe /\ f <= Kept
    BY <1>1, KeptFacts DEF Safe
  <2>3. Kept' \in Nat /\ Kept' <= Kept /\ Kept \in Nat
    <3>2. lsn \in Nat
      BY BoundaryIs
    <3>3. CASE mem.write_lsn = 0
      <4>1. lsn = EndOf(0) /\ 0 \in 0 .. Len(Ends)
        BY <3>3, EndsIs DEF BeginTruncate
      <4>. QED  BY <2>1, <4>1, CountsAtEnd, KeptFacts
    <3>4. CASE mem.write_lsn # 0
      <4>1. lsn <= mem.flush_record_lsn /\ mem.flush_record_lsn \in Nat
        BY <3>4, MemFacts DEF BeginTruncate, IInv
      <4>2. RecordsBefore(lsn) <= f /\ RecordsBefore(lsn) \in Nat
        BY <2>2, <3>2, <4>1, CountsMono, RecordsBeforeIs
      <4>. QED  BY <2>1, <2>2, <4>2, KeptFacts
    <3>. QED  BY <3>3, <3>4
  <2>4. \A i \in 1 .. Kept' : i \in 1 .. Kept
    BY <2>3
  <2>5. Exposed' \in SUBSET Exposed
    BY <1>1, <1>3, <2>2, <2>3, <2>4, ExposedShrinks
  <2>6. Kept' \in 0 .. Kept
    BY <2>3
  <2>7. Durable!BeginTruncate
    BY <1>1, <2>5, <2>6 DEF Durable!BeginTruncate, Exposed
  <2>. QED  BY <2>7 DEF Durable!Next
<1>. QED  BY <1>4, <1>5, <1>6

\* The truncation is done once the zeros are synced.
LEMMA SyncFinishes ==
  ASSUME IInv, TruncateSyncs
  PROVE  Durable!FinishTruncate
<1>1. /\ op.at = "zeroed" /\ op' = [op EXCEPT !.at = "adopt"]
      /\ mem' = [Opened(op.until) EXCEPT !.truncated = TRUE]
      /\ log' = SubSeq(log, 1, RecordsBefore(op.until))
      /\ disk' = Synced(segment_number(op.until))
  BY DEF TruncateSyncs
<1>2. op'.at = "adopt" /\ mem'.flush_record_lsn = op.until /\ mem'.truncated = TRUE
  BY <1>1 DEF IInv, MemType, Opened
<1>3. PICK k \in Nat : /\ k = RecordsBefore(op.until) /\ k = Kept /\ k <= Len(log)
                       /\ Len(log') = k /\ Kept' = k /\ RecordsBefore(mem'.flush_record_lsn) = k
  <2>1. Len(log') = RecordsBefore(op.until) /\ Kept = RecordsBefore(op.until)
    BY <1>1, TruncateSyncsIInv DEF Kept
  <2>2. Kept' = Len(log')
    BY <1>2 DEF Kept
  <2>. QED  BY <1>2, <2>1, <2>2, KeptFacts, LogFacts
<1>4. \A i \in 1 .. k : log'[i] = log[i]
  BY <1>1, <1>3, LogFacts, PrefixIs
<1>5. Exposed' \in SUBSET (Exposed \cap 1 .. Kept)
  <2>. SUFFICES ASSUME NEW i \in Exposed' PROVE i \in Exposed /\ i \in 1 .. Kept
    OBVIOUS
  <2>1. i \in 1 .. k /\ i \in 1 .. Kept /\ i <= Kept
    BY <1>3 DEF Exposed
  <2>2. PICK c \in CellsOfRecord(i) : disk'[c] # log[i]
    BY <1>4, <2>1 DEF Exposed
  <2>3. i \in RecordIds
    BY <2>1, KeptFacts
  <2>4. c \in Cells
    BY <2>3, CellOfRecord
  <2>5. disk'[c] \in {disk[c], data[c]}
    BY <1>1, <2>4 DEF Synced
  <2>6. disk[c] # log[i]
    BY <2>1, <2>2, <2>5, SyncedStays
  <2>7. i \in 1 .. RecordsBefore(mem.flush_record_lsn)
    <3>1. CASE mem.write_lsn = 0
      <4>1. op.until = EndOf(0) /\ 0 \in 0 .. Len(Ends)
        BY <1>1, <3>1, EndsIs DEF IInv, PhaseInv, Truncating
      <4>2. k = 0
        BY <1>3, <4>1, CountsAtEnd
      <4>. QED  BY <2>1, <4>2
    <3>2. CASE mem.write_lsn # 0
      <4>1. op.until <= mem.flush_record_lsn /\ op.until \in Nat /\ mem.flush_record_lsn \in Nat
        BY <1>1, <3>2, MemFacts DEF IInv, PhaseInv, Truncating
      <4>2. k <= RecordsBefore(mem.flush_record_lsn) /\ RecordsBefore(mem.flush_record_lsn) \in Nat
        BY <1>3, <4>1, CountsMono, RecordsBeforeIs
      <4>. QED  BY <2>1, <4>2
    <3>. QED  BY <3>1, <3>2
  <2>. QED  BY <2>1, <2>6, <2>7 DEF Exposed
<1>6. Durable!Prefix(Kept) = log'
  BY <1>1, <1>3 DEF Durable!Prefix
<1>. QED  BY <1>3, <1>5, <1>6 DEF Durable!FinishTruncate, Exposed

\* After a kill all that is not to be cut is found.  What the restart
\* reports as flushed beyond what was flushed is exposed.
LEMMA KillKeeps ==
  ASSUME IInv, Kill
  PROVE  Durable!Kill
<1>1. PICK m \in Nat : /\ Kept <= m /\ m <= Len(log) /\ Kept' = m
                       /\ RecordsBefore(mem'.flush_record_lsn) = m /\ log' = log /\ disk' = disk
  BY KillIInv
<1>2. Kept \in Nat /\ RecordsBefore(mem.flush_record_lsn) \in Nat /\ m \in Kept .. Len(log)
  BY <1>1, KeptFacts, LogFacts
<1>3. Exposed' \in SUBSET (Exposed \cup {i \in 1 .. m :
                              i > RecordsBefore(mem.flush_record_lsn) \/ i > Kept})
  <2>. SUFFICES ASSUME NEW i \in Exposed',
                       ~(i > RecordsBefore(mem.flush_record_lsn) \/ i > Kept)
                PROVE  i \in Exposed /\ i \in 1 .. m
    BY <1>1 DEF Exposed
  <2>1. i \in 1 .. m /\ \E c \in CellsOfRecord(i) : disk[c] # log[i]
    BY <1>1 DEF Exposed
  <2>2. i \in 1 .. RecordsBefore(mem.flush_record_lsn) /\ i <= Kept
    BY <1>2, <2>1
  <2>. QED  BY <2>1, <2>2 DEF Exposed
<1>. QED  BY <1>1, <1>2, <1>3 DEF Durable!Kill, Exposed

\* After a power failure what is flushed, or to be kept, is found but for
\* what was exposed.
LEMMA PowerFailureTakes ==
  ASSUME IInv, PowerFailure
  PROVE  Durable!PowerFailure
<1>1. PICK m \in Nat :
         /\ m <= Len(log) /\ log' = SubSeq(log, 1, m) /\ Len(log') = m
         /\ \A i \in 1 .. m : log'[i] = log[i]
         /\ Kept' = m /\ RecordsBefore(mem'.flush_record_lsn) = m
         /\ m < Kept => \E c \in CellsOfRecord(m + 1) : disk[c] # log[m + 1]
         /\ \A i \in 1 .. m : \A c \in CellsOfRecord(i) : disk'[c] # log[i] =>
               i <= RecordsBefore(control.commit) /\ disk[c] # log[i]
  BY PowerFailureIInv
<1>2. PICK f \in Nat : /\ f = RecordsBefore(mem.flush_record_lsn) /\ Kept \in Nat
                       /\ RecordsBefore(control.commit) \in Nat
                       /\ RecordsBefore(control.commit) <= f
                       /\ RecordsBefore(control.commit) <= Kept
  BY KeptFacts, LogFacts, CommitFlushed
<1>3. m >= f \/ m >= Kept \/ m + 1 \in Exposed
  BY <1>1, <1>2 DEF Exposed
<1>4. Exposed' \in SUBSET (Exposed \cap 1 .. m)
  <2>. SUFFICES ASSUME NEW i \in Exposed' PROVE i \in Exposed /\ i \in 1 .. m
    OBVIOUS
  <2>1. i \in 1 .. m
    BY <1>1 DEF Exposed
  <2>2. PICK c \in CellsOfRecord(i) : disk'[c] # log[i]
    BY <1>1, <2>1 DEF Exposed
  <2>3. i <= RecordsBefore(control.commit) /\ disk[c] # log[i]
    BY <1>1, <2>1, <2>2
  <2>4. i \in 1 .. f /\ i <= Kept
    BY <1>2, <2>1, <2>3
  <2>. QED  BY <1>2, <2>1, <2>3, <2>4 DEF Exposed
<1>5. m \in 0 .. Len(log) /\ Durable!Prefix(m) = log'
  BY <1>1, LogFacts DEF Durable!Prefix
<1>. QED  BY <1>1, <1>2, <1>3, <1>4, <1>5 DEF Durable!PowerFailure, Exposed

\* The new file that zeroing may create holds none of the records to keep.
LEMMA ZeroesSettle ==
  ASSUME IInv, TruncateZeroes
  PROVE  Durable!Next
<1>1. PICK n : n = segment_number(op.until)
  OBVIOUS
<1>2. log' = log /\ mem' = mem /\ op.at = "remove" /\ op' = [op EXCEPT !.at = "zeroed"]
      /\ disk' = Created(n, disk)
  BY <1>1 DEF TruncateZeroes
<1>3. op'.at = "zeroed" /\ op'.until = op.until
  BY <1>2 DEF IInv, MemType
<1>4. Kept' = Kept
  BY <1>2, <1>3 DEF Kept
<1>5. ASSUME NEW i \in 1 .. Kept, NEW c \in CellsOfRecord(i) PROVE disk'[c] \in {disk[c], data[c]}
  <2>1. i \in RecordIds
    BY KeptFacts
  <2>2. c \in Cells /\ c \in Nat
    BY <2>1, CellOfRecord
  <2>3. disk'[c] = IF dir[n] = "none" /\ segment_number(c) = n THEN 0 ELSE disk[c]
    BY <1>2, <2>2 DEF Created, CellsOf
  <2>4. segment_number(c) = n => dir[n] # "none"
    <3>. HAVE segment_number(c) = n
    <3>1. control.backup <= op.until /\ op.until \in Nat /\ control.backup \in Nat
      <4>1. Truncating
        BY <1>2 DEF Truncating
      <4>2. commit <= op.until /\ control.commit <= commit /\ control.backup <= control.commit
        BY <4>1 DEF IInv, LsnInv
      <4>. QED  BY <4>2, LsnFacts, MemFacts DEF IInv
    <3>2. segment_number(control.backup) <= n
      BY <1>1, <3>1, SegmentMono
    <3>. QED  BY <3>2 DEF IInv, FileInv
  <2>. QED  BY <2>3, <2>4
<1>. QED  BY <1>2, <1>4, <1>5, Settles

\* All other steps are invisible, or make exposed records durable.
LEMMA OthersSettle ==
  ASSUME IInv,
         \/ \E n \in 1 .. MaxWrite : WriteWal(n)
         \/ CompleteSegment
         \/ \E n \in Segments : TruncateRemoves(n)
         \/ Adopt
         \/ \E lsn \in RecordEnds : AdvanceCommit(lsn)
         \/ PersistControl \/ BackupSegment \/ set_wal_backup_lsn
         \/ \E n \in Segments : RemoveOldWal(n) \/ RemoveUpTo(n)
         \/ UNCHANGED vars
  PROVE  Durable!Next
<1>0. op \in [at : {"idle", "write", "complete", "remove", "zeroed", "adopt"}, until : Lsn]
      /\ mem \in [write_lsn : Lsn, write_record_lsn : {0, StartLsn} \cup RecordEnds,
                  flush_record_lsn : {0, StartLsn} \cup RecordEnds,
                  file : BOOLEAN, truncated : BOOLEAN, streaming : BOOLEAN]
  BY DEF IInv, MemType
<1>1. ASSUME NEW n \in 1 .. MaxWrite, WriteWal(n) PROVE Durable!Next
  <2>1. op.at = "idle" /\ op'.at = "write" /\ mem' = mem /\ log' = log /\ disk' = disk
    BY <1>1 DEF WriteWal, Idle
  <2>2. Kept' = Kept
    BY <2>1 DEF Kept
  <2>. QED  BY <2>1, <2>2, Settles
<1>2. CASE CompleteSegment
  <2>1. log' = log
    BY <1>2 DEF CompleteSegment
  <2>2. /\ mem'.flush_record_lsn = mem.flush_record_lsn /\ Kept' = Kept
        /\ \A c \in Cells : disk'[c] \in {disk[c], data[c]}
    BY <1>2, CompleteSegmentIInv
  <2>3. \A i \in 1 .. Kept : \A c \in CellsOfRecord(i) : disk'[c] \in {disk[c], data[c]}
    <3>. TAKE i \in 1 .. Kept
    <3>1. i \in RecordIds
      BY KeptFacts
    <3>. QED  BY <2>2, <3>1, CellOfRecord
  <2>. QED  BY <2>1, <2>2, <2>3, Settles
<1>3. CASE Adopt
  <2>1. log' = log /\ mem' = [mem EXCEPT !.streaming = TRUE] /\ op.at = "adopt" /\ op'.at = "idle"
        /\ disk' = disk
    BY <1>3 DEF Adopt, Idle
  <2>2. mem'.flush_record_lsn = mem.flush_record_lsn /\ mem'.truncated = mem.truncated
    BY <1>0, <2>1
  <2>3. Kept' = Kept
    BY <2>1, <2>2 DEF Kept
  <2>. QED  BY <2>1, <2>2, <2>3, Settles
<1>5. ASSUME UNCHANGED <<mem, op, log, disk>> PROVE Durable!Next
  <2>1. Kept' = Kept
    BY <1>5 DEF Kept
  <2>. QED  BY <1>5, <2>1, Settles
<1>6. ASSUME NEW n \in Segments, TruncateRemoves(n) PROVE UNCHANGED <<mem, op, log, disk>>
  BY <1>6 DEF TruncateRemoves
<1>7. ASSUME NEW lsn \in RecordEnds, AdvanceCommit(lsn) PROVE UNCHANGED <<mem, op, log, disk>>
  BY <1>7 DEF AdvanceCommit
<1>8. PersistControl \/ BackupSegment \/ set_wal_backup_lsn => UNCHANGED <<mem, op, log, disk>>
  BY DEF PersistControl, BackupSegment, set_wal_backup_lsn
<1>9. ASSUME NEW n \in Segments, RemoveOldWal(n) \/ RemoveUpTo(n)
      PROVE  UNCHANGED <<mem, op, log, disk>>
  BY <1>9 DEF RemoveOldWal, RemoveUpTo
<1>10. UNCHANGED vars => UNCHANGED <<mem, op, log, disk>>
  BY DEF vars
<1>. QED  BY <1>1, <1>2, <1>3, <1>5, <1>6, <1>7, <1>8, <1>9, <1>10

LEMMA DurableStep ==
  ASSUME IInv, UnsyncedInv, [Next]_vars
  PROVE  [Durable!Next]_(Durable!logVars)
<1>1. CASE WriteInSegment
  BY <1>1, WriteGrows
<1>2. CASE FlushWal
  BY <1>2, FlushFlushes DEF Durable!Next
<1>3. ASSUME NEW lsn \in RecordEnds \cup {StartLsn}, BeginTruncate(lsn)
      PROVE  Durable!Next
  BY <1>3, BeginBegins
<1>4. CASE TruncateSyncs
  BY <1>4, SyncFinishes DEF Durable!Next
<1>5. CASE Kill
  BY <1>5, KillKeeps DEF Durable!Next
<1>6. CASE PowerFailure
  BY <1>6, PowerFailureTakes DEF Durable!Next
<1>7. CASE TruncateZeroes
  BY <1>7, ZeroesSettle
<1>. QED  BY <1>1, <1>2, <1>3, <1>4, <1>5, <1>6, <1>7, OthersSettle DEF Next

\* The storage, with its files, its unsynced writes and its restarts between
\* any two steps, is the log that the consensus part relies on: what is
\* flushed is lost to a truncation, or to a power failure that strikes what a
\* restart after a kill reported as flushed and did not sync; and no restart
\* invents a record.
THEOREM StorageIsDurable == Spec => ImplementsDurableLog
<1>1. Init => Durable!Init /\ UnsyncedInv
  BY DurableInit, InitUnsynced
<1>2. IInv /\ UnsyncedInv /\ [Next]_vars => UnsyncedInv'
  BY NextUnsynced
<1>3. IInv /\ UnsyncedInv /\ [Next]_vars => [Durable!Next]_(Durable!logVars)
  BY DurableStep
<1>. QED  BY <1>1, <1>2, <1>3, StorageInvariant, PTL DEF Spec, ImplementsDurableLog, Durable!Spec
=============================================================================
