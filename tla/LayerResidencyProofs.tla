------------------------ MODULE LayerResidencyProofs ------------------------
(***************************************************************************)
(* LayerResidency, for every number of accesses and evictions: a layer     *)
(* that is read has its file, one task at a time works on the file, and    *)
(* the assertions of OnceCell and of its users hold.                       *)
(***************************************************************************)
EXTENDS LayerResidency, FiniteSetTheorems, SequenceTheorems, TLAPS

\* A call has the permit of the cell from acquire to set0, or its download task
\* has it.
Owns(r) == reader[r].at \in {"stat", "set"} \/ download[r] # "none"

\* A call is between the beginning of its attempt and set0.
Initializing(r) == reader[r].at \in {"stat", "rx", "set"}

\* There is a download task while its caller waits for it, and after the caller
\* is gone until the permit is returned; only a caller that waits is sent to.
DownloadInv ==
    \A r \in Readers :
        /\ download[r] # "none" => reader[r].at \in {"rx", "done"}
        /\ reader[r].at = "rx" => download[r] # "none"
        /\ download[r] \in {"sent", "error"} => reader[r].at = "rx"

\* Every semaphore but the cell's is closed with its permit in it; the cell's is
\* closed exactly when the cell has a value.  A task may wait on an old one, and
\* would then be woken.
SemInv ==
    /\ Current >= 1
    /\ \A n \in 1 .. Current : n < Current => sems[n].closed /\ sems[n].permits = 1
    /\ sems[Current].closed <=> value # Nothing
    /\ sems[Current].closed => sems[Current].permits = 1
    /\ value.is = "nothing" => value = Nothing
    /\ \A r \in Readers : reader[r].at = "wait" => reader[r].sem \in 1 .. Current

\* The permit of the cell's semaphore has one owner, a call or an eviction.
OwnerInv ==
    /\ \A r \in Readers : Owns(r) =>
          reader[r].sem = Current /\ sems[Current].permits = 0 /\ evicting = {}
    /\ \A r, q \in Readers : Owns(r) /\ Owns(q) => r = q
    /\ \A j \in evicting : j.sem = Current /\ sems[Current].permits = 0
    /\ \A i, j \in evicting : i = j

\* References are to the version in the cell, and a version that is being dropped
\* or evicted has none: no drop can overtake a reader.
ReferenceInv ==
    /\ \A r \in Readers : reader[r].at = "read" =>
          value # Nothing /\ reader[r].version = value.version
    /\ \A e \in Evictors : evictor[e].at = "drop" =>
          value # Nothing /\ evictor[e].version = value.version
    /\ \A v \in dropping \cup jobs : Holders(v) = {}

\* The calls that have begun, or never will begin, an attempt to initialize.
Begun == {r \in Readers : reader[r].at \notin {"call", "again", "wait"}}

\* Each attempt has a version of its own, and the version of the attempt under way
\* is not one that is being dropped or evicted.
VersionInv ==
    /\ version <= Cardinality(Begun)
    /\ value.version <= version
    /\ \A v \in dropping \cup jobs : v <= version
    /\ \A r \in Readers : Initializing(r) =>
          reader[r].version = version /\ version \notin dropping \cup jobs

\* The file is there once a download has succeeded, until the cell is emptied.
FileInv ==
    /\ value # Nothing => file
    /\ \A r \in Readers : reader[r].at = "set" \/ download[r] \in {"ok", "sent"} => file

IInv == /\ TypeOK /\ DownloadInv /\ SemInv /\ OwnerInv
        /\ ReferenceInv /\ VersionInv /\ FileInv

-----------------------------------------------------------------------------
LEMMA ReadersFinite ==
  ASSUME NEW S \in SUBSET Readers
  PROVE  IsFiniteSet(S) /\ Cardinality(S) \in Nat /\ Cardinality(S) <= Cardinality(Readers)
         /\ Cardinality(Readers) \in Nat
BY CallsAssumption, FS_Subset, FS_CardinalityType

LEMMA ZeroVersion == 0 \in Versions /\ Versions \subseteq Nat
<1>1. {} \in SUBSET Readers
  OBVIOUS
<1>. QED  BY <1>1, ReadersFinite DEF Versions

\* A step that moves no call back to before its attempt, and begins none.
LEMMA BegunGrows ==
  ASSUME version' = version, version \in Nat, version <= Cardinality(Begun),
         Begun \subseteq Begun'
  PROVE  version' <= Cardinality(Begun')
<1>1. Begun' \in SUBSET Readers
  BY DEF Begun
<1>2. IsFiniteSet(Begun') /\ Cardinality(Begun') \in Nat
  BY <1>1, ReadersFinite
<1>3. Cardinality(Begun) <= Cardinality(Begun') /\ Cardinality(Begun) \in Nat
  BY <1>2, FS_Subset, FS_CardinalityType
<1>. QED  BY <1>2, <1>3

\* ... and one that begins an attempt.
LEMMA BegunOne ==
  ASSUME version' = version + 1, version \in Nat, version <= Cardinality(Begun),
         NEW r \in Readers, r \notin Begun, Begun' = Begun \cup {r}
  PROVE  version' <= Cardinality(Begun') /\ version' \in Versions
<1>1. Begun \in SUBSET Readers /\ Begun' \in SUBSET Readers
  BY DEF Begun
<1>2. IsFiniteSet(Begun) /\ Cardinality(Begun) \in Nat
  BY <1>1, ReadersFinite
<1>3. Cardinality(Begun') = Cardinality(Begun) + 1
  BY <1>2, FS_AddElement
<1>4. Cardinality(Begun') <= Cardinality(Readers) /\ Cardinality(Readers) \in Nat
  BY <1>1, ReadersFinite
<1>. QED  BY <1>2, <1>3, <1>4 DEF Versions

LEMMA SentType ==
  ASSUME TypeOK, NEW status \in {"Evicted", "Downloaded"}
  PROVE  /\ Sent(status) \in [Evictors -> EvictorState]
         /\ \A e \in Evictors : Sent(status)[e].at = evictor[e].at
                                /\ Sent(status)[e].version = evictor[e].version
BY DEF Sent, TypeOK, EvictorState

-----------------------------------------------------------------------------
\* What becomes of the semaphores.
LEMMA ReturnedFacts ==
  ASSUME sems \in Seq(Semaphore), Current >= 1, sems[Current].permits = 0
  PROVE  /\ Returned(Current) \in Seq(Semaphore)
         /\ Len(Returned(Current)) = Current
         /\ Returned(Current)[Current].permits = 1
         /\ Returned(Current)[Current].closed = sems[Current].closed
         /\ \A n \in 1 .. Current : n # Current => Returned(Current)[n] = sems[n]
<1>1. Current \in 1 .. Len(sems)
  BY DEF Current
<1>2. sems[Current] \in Semaphore
  BY <1>1
<1>3. [sems[Current] EXCEPT !.permits = @ + 1] = [permits |-> 1, closed |-> sems[Current].closed]
  BY <1>2 DEF Semaphore
<1>4. Returned(Current) = [sems EXCEPT ![Current] = [permits |-> 1, closed |-> sems[Current].closed]]
  BY <1>3 DEF Returned
<1>5. [permits |-> 1, closed |-> sems[Current].closed] \in Semaphore
  BY <1>2 DEF Semaphore
<1>. QED  BY <1>1, <1>4, <1>5, ExceptSeq DEF Current

LEMMA ClosedSemaphore ==
  ASSUME NEW x \in Semaphore, NEW c \in BOOLEAN
  PROVE  [x EXCEPT !.closed = c] = [permits |-> x.permits, closed |-> c]
BY DEF Semaphore

LEMMA DeinitFacts ==
  ASSUME sems \in Seq(Semaphore)
  PROVE  /\ take_and_deinit \in Seq(Semaphore)
         /\ Len(take_and_deinit) = Current + 1
         /\ take_and_deinit[Current + 1] = [permits |-> 0, closed |-> FALSE]
         /\ \A n \in 1 .. Current : take_and_deinit[n] = sems[n]
BY DEF take_and_deinit, Current, Semaphore

\* SemInv when the owner gives the permit back ...
LEMMA ReturnedKeeps ==
  ASSUME TypeOK, SemInv, sems[Current].permits = 0, sems' = Returned(Current), value' = value,
         \A r \in Readers : reader'[r].at = "wait" =>
            reader[r].at = "wait" /\ reader'[r].sem = reader[r].sem
  PROVE  SemInv' /\ sems' \in Seq(Semaphore) /\ Current' = Current
<1>1. sems \in Seq(Semaphore) /\ Current >= 1
  BY DEF TypeOK, SemInv
<1>2. Current' = Current /\ sems' \in Seq(Semaphore)
  BY <1>1, ReturnedFacts DEF Current
<1>3. /\ sems'[Current].permits = 1 /\ sems'[Current].closed = sems[Current].closed
      /\ \A n \in 1 .. Current : n # Current => sems'[n] = sems[n]
  BY <1>1, ReturnedFacts
<1>4. Current \in Nat
  BY <1>1 DEF Current
<1>. QED  BY <1>1, <1>2, <1>3, <1>4 DEF SemInv

\* ... and when the cell is emptied.
LEMMA DeinitKeeps ==
  ASSUME TypeOK, SemInv, value # Nothing, sems' = take_and_deinit, value' = Nothing,
         \A r \in Readers : reader'[r].at = "wait" =>
            reader[r].at = "wait" /\ reader'[r].sem = reader[r].sem
  PROVE  /\ SemInv' /\ sems' \in Seq(Semaphore)
         /\ Current' = Current + 1 /\ Current \in Nat
         /\ sems'[Current'].permits = 0
<1>1. sems \in Seq(Semaphore) /\ Current >= 1 /\ Current \in Nat
  BY DEF TypeOK, SemInv, Current
<1>2. Current' = Current + 1 /\ sems' \in Seq(Semaphore)
  BY <1>1, DeinitFacts DEF Current
<1>3. /\ sems'[Current'] = [permits |-> 0, closed |-> FALSE]
      /\ \A n \in 1 .. Current : sems'[n] = sems[n]
  BY <1>1, <1>2, DeinitFacts
<1>4. sems[Current].closed /\ sems[Current].permits = 1
  BY DEF SemInv
<1>5. \A n \in 1 .. Current' : n < Current' => sems'[n].closed /\ sems'[n].permits = 1
  BY <1>1, <1>2, <1>3, <1>4 DEF SemInv
<1>6. sems'[Current'].closed = FALSE /\ sems'[Current'].permits = 0
  BY <1>3
<1>. QED  BY <1>1, <1>2, <1>5, <1>6 DEF SemInv, Nothing

\* Nobody owns a permit while the cell has a value.
LEMMA NoOwner ==
  ASSUME TypeOK, SemInv, OwnerInv, value # Nothing
  PROVE  evicting = {} /\ \A r \in Readers : ~Owns(r)
<1>1. sems[Current].permits = 1
  BY DEF SemInv
<1>2. \A j \in evicting : FALSE
  BY <1>1 DEF OwnerInv
<1>. QED  BY <1>1, <1>2 DEF OwnerInv

LEMMA Parts == IInv <=> /\ TypeOK /\ DownloadInv /\ SemInv /\ OwnerInv
                        /\ ReferenceInv /\ VersionInv /\ FileInv
BY DEF IInv

-----------------------------------------------------------------------------
\* What becomes of the calls.
LEMMA MovedFacts ==
  ASSUME TypeOK, NEW r \in Readers, NEW at \in {"again", "rx", "set", "read", "done"}
  PROVE  /\ Moved(r, at) \in [Readers -> ReaderState(Current)]
         /\ Moved(r, at)[r] = [at |-> at, sem |-> reader[r].sem, version |-> reader[r].version]
         /\ \A q \in Readers : q # r => Moved(r, at)[q] = reader[q]
<1>1. reader[r] \in ReaderState(Current)
  BY DEF TypeOK
<1>2. [reader[r] EXCEPT !.at = at]
        = [at |-> at, sem |-> reader[r].sem, version |-> reader[r].version]
  BY <1>1 DEF ReaderState
<1>3. [reader[r] EXCEPT !.at = at] \in ReaderState(Current)
  BY <1>1, <1>2 DEF ReaderState
<1>. QED  BY <1>2, <1>3 DEF Moved, TypeOK

LEMMA FinishedFacts ==
  ASSUME TypeOK, NEW r \in Readers
  PROVE  /\ Finished(r) \in [Readers -> ReaderState(Current)]
         /\ Finished(r)[r] = [at |-> "done", sem |-> 0, version |-> 0]
         /\ \A q \in Readers : q # r => Finished(r)[q] = reader[q]
<1>1. 0 \in Versions /\ 0 \in 0 .. Current
  BY ZeroVersion DEF Current, TypeOK
<1>2. [at |-> "done", sem |-> 0, version |-> 0] \in ReaderState(Current)
  BY <1>1 DEF ReaderState
<1>. QED  BY <1>2 DEF Finished, NoReader, TypeOK

\* The owner of the permit gives it back.
LEMMA ReleaseStep ==
  ASSUME IInv, NEW r \in Readers, Owns(r),
         sems' = Returned(reader[r].sem),
         \/ reader' = Finished(r)
         \/ reader' = reader /\ reader[r].at = "done",
         download' = [download EXCEPT ![r] = "none"],
         wanted_evicted' \in BOOLEAN,
         UNCHANGED <<value, version, wanted_deleted, file, evictor, dropping, jobs, evicting>>
  PROVE  IInv'
<1>1. TypeOK /\ DownloadInv /\ SemInv /\ OwnerInv /\ ReferenceInv /\ VersionInv /\ FileInv
  BY Parts
<1>2. reader[r].sem = Current /\ sems[Current].permits = 0 /\ evicting = {}
  BY <1>1 DEF OwnerInv
<1>3. /\ reader' \in [Readers -> ReaderState(Current)] /\ reader'[r].at = "done"
      /\ \A q \in Readers : q # r => reader'[q] = reader[q]
  BY <1>1, FinishedFacts DEF TypeOK
<1>4. SemInv' /\ sems' \in Seq(Semaphore) /\ Current' = Current
  BY <1>1, <1>2, <1>3, ReturnedKeeps
<1>5. /\ download' \in [Readers -> {"none", "running", "ok", "failed", "sent", "error"}]
      /\ download'[r] = "none"
      /\ \A q \in Readers : q # r => download'[q] = download[q]
  BY <1>1 DEF TypeOK
<1>6. TypeOK'
  BY <1>1, <1>3, <1>4, <1>5 DEF TypeOK
<1>7. DownloadInv'
  BY <1>1, <1>3, <1>5 DEF DownloadInv
<1>8. \A q \in Readers : ~Owns(q)'
  BY <1>1, <1>3, <1>5 DEF OwnerInv, Owns
<1>9. OwnerInv'
  BY <1>2, <1>8 DEF OwnerInv
<1>10. ReferenceInv'
  <2>1. \A v : Holders(v)' \subseteq Holders(v)
    BY <1>3 DEF Holders
  <2>. QED  BY <1>1, <1>3, <2>1 DEF ReferenceInv
<1>11. VersionInv'
  <2>1. version' <= Cardinality(Begun')
    <3>1. Begun \subseteq Begun'
      BY <1>3 DEF Begun
    <3>. QED  BY <1>1, <3>1, BegunGrows, ReadersFinite DEF VersionInv, TypeOK, Versions
  <2>. QED  BY <1>1, <1>3, <2>1 DEF VersionInv, Initializing
<1>12. FileInv'
  BY <1>1, <1>3, <1>5 DEF FileInv
<1>. QED  BY <1>4, <1>6, <1>7, <1>9, <1>10, <1>11, <1>12 DEF IInv

\* The owner of the permit goes on with it.
LEMMA OwnerStep ==
  ASSUME IInv, NEW r \in Readers, Owns(r), NEW at \in {"rx", "set", "done"},
         NEW d \in {"none", "running", "ok", "failed", "sent", "error"},
         reader' = Moved(r, at) \/ (reader' = reader /\ reader[r].at = at),
         download' = [download EXCEPT ![r] = d],
         d # "none" => at \in {"rx", "done"},
         at \in {"rx", "done"} => d # "none",
         d \in {"sent", "error"} => at = "rx",
         at # "done" => Initializing(r),
         file' \in BOOLEAN, file => file', at = "set" \/ d \in {"ok", "sent"} => file',
         wanted_evicted' \in BOOLEAN,
         UNCHANGED <<sems, value, version, wanted_deleted, evictor, dropping, jobs, evicting>>
  PROVE  IInv'
<1>1. TypeOK /\ DownloadInv /\ SemInv /\ OwnerInv /\ ReferenceInv /\ VersionInv /\ FileInv
  BY Parts
<1>2. reader[r].sem = Current /\ sems[Current].permits = 0 /\ evicting = {}
  BY <1>1 DEF OwnerInv
<1>3. /\ reader' \in [Readers -> ReaderState(Current)] /\ reader'[r].at = at
      /\ reader'[r].sem = reader[r].sem /\ reader'[r].version = reader[r].version
      /\ \A q \in Readers : q # r => reader'[q] = reader[q]
  <2>1. CASE reader' = Moved(r, at)
    <3>1. /\ Moved(r, at) \in [Readers -> ReaderState(Current)]
          /\ Moved(r, at)[r] = [at |-> at, sem |-> reader[r].sem, version |-> reader[r].version]
          /\ \A q \in Readers : q # r => Moved(r, at)[q] = reader[q]
      BY <1>1, at \in {"again", "rx", "set", "read", "done"}, MovedFacts, ZenonT(30)
    <3>. QED  BY <2>1, <3>1
  <2>2. CASE reader' = reader /\ reader[r].at = at
    BY <1>1, <2>2 DEF TypeOK
  <2>. QED  BY <2>1, <2>2
<1>4. Current' = Current
  BY DEF Current
<1>5. /\ download' \in [Readers -> {"none", "running", "ok", "failed", "sent", "error"}]
      /\ download'[r] = d
      /\ \A q \in Readers : q # r => download'[q] = download[q]
  BY <1>1 DEF TypeOK
<1>6. TypeOK'
  BY <1>1, <1>3, <1>4, <1>5 DEF TypeOK
<1>7. DownloadInv'
  BY <1>1, <1>3, <1>5 DEF DownloadInv
<1>8. SemInv'
  BY <1>1, <1>3, <1>4 DEF SemInv
<1>9. OwnerInv'
  <2>1. \A q \in Readers : Owns(q)' => q = r
    BY <1>1, <1>3, <1>5 DEF OwnerInv, Owns
  <2>. QED  BY <1>2, <1>3, <1>4, <2>1 DEF OwnerInv
<1>10. ReferenceInv'
  <2>1. \A v : Holders(v)' \subseteq Holders(v)
    BY <1>3 DEF Holders
  <2>. QED  BY <1>1, <1>3, <2>1 DEF ReferenceInv
<1>11. VersionInv'
  <2>1. version' <= Cardinality(Begun')
    <3>1. Begun \subseteq Begun'
      BY <1>3 DEF Begun
    <3>. QED  BY <1>1, <3>1, BegunGrows, ReadersFinite DEF VersionInv, TypeOK, Versions
  <2>. QED  BY <1>1, <1>3, <2>1 DEF VersionInv, Initializing
<1>12. FileInv'
  BY <1>1, <1>3, <1>5 DEF FileInv
<1>. QED  BY <1>6, <1>7, <1>8, <1>9, <1>10, <1>11, <1>12 DEF IInv

\* A call that has no permit waits for one, or stops waiting.
LEMMA WaiterStep ==
  ASSUME IInv, NEW r \in Readers, reader[r].at \in {"call", "again", "wait"},
         reader' \in [Readers -> ReaderState(Current)],
         reader'[r].at \in {"wait", "again", "done"},
         reader'[r].at = "wait" => reader'[r].sem = Current,
         \A q \in Readers : q # r => reader'[q] = reader[q],
         UNCHANGED <<sems, value, version, wanted_evicted, wanted_deleted, file, download,
                     evictor, dropping, jobs, evicting>>
  PROVE  IInv'
<1>1. TypeOK /\ DownloadInv /\ SemInv /\ OwnerInv /\ ReferenceInv /\ VersionInv /\ FileInv
  BY Parts
<1>2. Current' = Current
  BY DEF Current
<1>3. download[r] = "none"
  BY <1>1 DEF DownloadInv, TypeOK
<1>4. TypeOK'
  BY <1>1, <1>2 DEF TypeOK
<1>5. DownloadInv'
  BY <1>1, <1>3 DEF DownloadInv
<1>6. SemInv'
  <2>1. Current \in 1 .. Current
    BY <1>1 DEF SemInv, TypeOK, Current
  <2>. QED  BY <1>1, <1>2, <2>1 DEF SemInv
<1>7. OwnerInv'
  <2>1. \A q \in Readers : Owns(q)' => Owns(q) /\ q # r
    BY <1>3 DEF Owns
  <2>. QED  BY <1>1, <1>2, <2>1 DEF OwnerInv
<1>8. ReferenceInv'
  <2>1. \A v : Holders(v)' \subseteq Holders(v)
    BY DEF Holders
  <2>. QED  BY <1>1, <2>1 DEF ReferenceInv
<1>9. VersionInv'
  <2>1. version' <= Cardinality(Begun')
    <3>1. Begun \subseteq Begun'
      BY DEF Begun
    <3>. QED  BY <1>1, <3>1, BegunGrows, ReadersFinite DEF VersionInv, TypeOK, Versions
  <2>. QED  BY <1>1, <2>1 DEF VersionInv, Initializing
<1>10. FileInv'
  BY <1>1 DEF FileInv
<1>. QED  BY <1>4, <1>5, <1>6, <1>7, <1>8, <1>9, <1>10 DEF IInv

\* A call gets the permit: of the semaphore it waited for, or of the new one.
LEMMA BeginInitStep ==
  ASSUME IInv, NEW r \in Readers, reader[r].at \in {"call", "again", "wait"},
         BeginInit(r, Current'),
         sems' \in Seq(Semaphore), Current' >= Current, SemInv', value' = Nothing,
         sems'[Current'].permits = 0,
         evicting = {}, \A q \in Readers : ~Owns(q),
         value # Nothing => Holders(value.version) = {},
         UNCHANGED <<wanted_evicted, wanted_deleted, file, download, dropping, jobs, evicting>>
  PROVE  IInv'
<1>1. TypeOK /\ DownloadInv /\ SemInv /\ OwnerInv /\ ReferenceInv /\ VersionInv /\ FileInv
  BY Parts
<1>2. Current \in Nat /\ Current' \in Nat /\ version \in Nat
  BY <1>1, ReadersFinite DEF TypeOK, Current, Versions
<1>3. version' = version + 1 /\ version' <= Cardinality(Begun') /\ version' \in Versions
  <2>1. version' = version + 1
    BY DEF BeginInit
  <2>2. r \notin Begun /\ Begun' = Begun \cup {r}
    BY <1>1 DEF Begun, BeginInit, TypeOK
  <2>. QED  BY <1>1, <1>2, <2>1, <2>2, BegunOne DEF VersionInv
<1>4. /\ reader' \in [Readers -> ReaderState(Current')]
      /\ reader'[r] = [at |-> "stat", sem |-> Current', version |-> version']
      /\ \A q \in Readers : q # r => reader'[q] = reader[q]
  <2>1. [at |-> "stat", sem |-> Current', version |-> version'] \in ReaderState(Current')
    BY <1>2, <1>3 DEF ReaderState
  <2>2. reader \in [Readers -> ReaderState(Current')]
    BY <1>1, <1>2 DEF TypeOK, ReaderState
  <2>. QED  BY <1>3, <2>1, <2>2 DEF BeginInit
<1>5. /\ evictor' \in [Evictors -> EvictorState]
      /\ \A e \in Evictors : evictor'[e].at = evictor[e].at
                             /\ evictor'[e].version = evictor[e].version
  BY <1>1, SentType DEF BeginInit
<1>6. TypeOK'
  <2>1. value' \in [is : {"nothing", "resident", "wanted"}, version : Versions]
    BY ZeroVersion DEF Nothing
  <2>. QED  BY <1>1, <1>3, <1>4, <1>5, <2>1 DEF TypeOK
<1>7. DownloadInv'
  BY <1>1, <1>4 DEF DownloadInv, Owns
<1>8. OwnerInv'
  <2>1. \A q \in Readers : Owns(q)' => q = r
    BY <1>4 DEF Owns
  <2>. QED  BY <1>4, <2>1 DEF OwnerInv
<1>9. \A q \in Readers : reader'[q].at # "read"
  BY <1>1, <1>4 DEF ReferenceInv, Holders
<1>10. \A e \in Evictors : evictor'[e].at # "drop"
  BY <1>1, <1>5 DEF ReferenceInv, Holders
<1>11. ReferenceInv'
  <2>1. \A v : Holders(v)' = {}
    BY <1>9, <1>10 DEF Holders, Nothing, Resident
  <2>. QED  BY <1>9, <1>10, <2>1 DEF ReferenceInv
<1>12. VersionInv'
  <2>1. \A v \in dropping \cup jobs : v <= version' /\ v # version'
    BY <1>1, <1>2, <1>3 DEF VersionInv, TypeOK, Versions
  <2>2. \A q \in Readers : q # r => ~Initializing(q)'
    BY <1>1, <1>4 DEF Initializing, Owns, DownloadInv
  <2>3. value'.version <= version'
    BY <1>2, <1>3 DEF Nothing
  <2>. QED  BY <1>3, <1>4, <2>1, <2>2, <2>3 DEF VersionInv
<1>13. FileInv'
  BY <1>1, <1>4 DEF FileInv, Nothing
<1>. QED  BY <1>6, <1>7, <1>8, <1>11, <1>12, <1>13 DEF IInv

-----------------------------------------------------------------------------
\* The actions.
LEMMA GetAndUpgradeStep ==
  ASSUME IInv, NEW r \in Readers, reader[r].at \in {"call", "again", "wait"},
         value # Nothing, GetAndUpgrade(r)
  PROVE  IInv'
<1>1. TypeOK /\ DownloadInv /\ SemInv /\ OwnerInv /\ ReferenceInv /\ VersionInv /\ FileInv
  BY Parts
<1>2. evicting = {} /\ \A q \in Readers : ~Owns(q)
  BY <1>1, NoOwner
<1>3. UNCHANGED <<wanted_deleted, file, download, dropping, jobs, evicting>>
  BY DEF GetAndUpgrade
<1>4. CASE value.is = "resident" \/ Holders(value.version) # {}
  <2>1. /\ reader' = [reader EXCEPT ![r].at = "read", ![r].version = value.version]
        /\ UNCHANGED <<sems, version>>
        /\ IF value.is = "wanted" THEN UpgradedBack
           ELSE UNCHANGED <<value, wanted_evicted, evictor>>
    BY <1>4 DEF GetAndUpgrade
  <2>2. /\ value.version \in Versions
        /\ value'.version = value.version
        /\ value' = Resident(value.version)
        /\ value' # Nothing
    BY <1>1, <2>1 DEF TypeOK, UpgradedBack, Resident, Nothing, SemInv
  <2>3. /\ reader' \in [Readers -> ReaderState(Current)]
        /\ reader'[r].at = "read" /\ reader'[r].version = value.version
        /\ \A q \in Readers : q # r => reader'[q] = reader[q]
    BY <1>1, <2>1, <2>2 DEF TypeOK, ReaderState
  <2>4. /\ evictor' \in [Evictors -> EvictorState]
        /\ \A e \in Evictors : evictor'[e].at = evictor[e].at
                               /\ evictor'[e].version = evictor[e].version
    <3>1. CASE value.is = "wanted"
      BY <1>1, <2>1, <3>1, SentType DEF UpgradedBack
    <3>2. CASE value.is # "wanted"
      BY <1>1, <2>1, <3>2 DEF TypeOK
    <3>. QED  BY <3>1, <3>2
  <2>5. Current' = Current
    BY <2>1 DEF Current
  <2>6. TypeOK'
    <3>1. wanted_evicted' \in BOOLEAN
      BY <1>1, <2>1 DEF TypeOK, UpgradedBack
    <3>2. value' \in [is : {"nothing", "resident", "wanted"}, version : Versions]
      BY <2>2 DEF Resident
    <3>. QED  BY <1>1, <1>3, <2>1, <2>3, <2>4, <2>5, <3>1, <3>2 DEF TypeOK
  <2>7. DownloadInv'
    BY <1>1, <1>2, <1>3, <2>3 DEF DownloadInv, Owns
  <2>8. SemInv'
    BY <1>1, <2>1, <2>2, <2>3, <2>5 DEF SemInv, Resident
  <2>9. OwnerInv'
    <3>1. \A q \in Readers : ~Owns(q)'
      BY <1>2, <1>3, <2>3 DEF Owns
    <3>. QED  BY <1>2, <1>3, <3>1 DEF OwnerInv
  <2>10. ReferenceInv'
    <3>1. value.version \notin dropping \cup jobs
      <4>1. Holders(value.version) # {}
        BY <1>1, <1>4 DEF Holders, Resident, TypeOK
      <4>. QED  BY <1>1, <4>1 DEF ReferenceInv
    <3>2. \A v : v # value.version => Holders(v)' \subseteq Holders(v)
      BY <2>2, <2>3, <2>4 DEF Holders, Resident
    <3>. QED  BY <1>1, <1>3, <2>2, <2>3, <2>4, <3>1, <3>2 DEF ReferenceInv
  <2>11. VersionInv'
    <3>1. version' <= Cardinality(Begun')
      <4>1. Begun \subseteq Begun'
        BY <2>3 DEF Begun
      <4>. QED  BY <1>1, <2>1, <4>1, BegunGrows, ZeroVersion DEF VersionInv, TypeOK
    <3>. QED  BY <1>1, <1>3, <2>1, <2>2, <2>3, <3>1 DEF VersionInv, Initializing
  <2>12. FileInv'
    BY <1>1, <1>3, <2>3 DEF FileInv
  <2>. QED  BY <2>6, <2>7, <2>8, <2>9, <2>10, <2>11, <2>12 DEF IInv
<1>5. CASE ~(value.is = "resident" \/ Holders(value.version) # {})
  <2>1. /\ value' = Nothing /\ sems' = take_and_deinit /\ BeginInit(r, Current + 1)
        /\ UNCHANGED wanted_evicted
    BY <1>5 DEF GetAndUpgrade
  <2>2. \A q \in Readers : reader'[q].at = "wait" =>
            reader[q].at = "wait" /\ reader'[q].sem = reader[q].sem
    BY <1>1, <2>1 DEF BeginInit, TypeOK
  <2>3. /\ SemInv' /\ sems' \in Seq(Semaphore)
        /\ Current' = Current + 1 /\ Current \in Nat
        /\ sems'[Current'].permits = 0
    BY <1>1, <2>1, <2>2, DeinitKeeps
  <2>4. Current' >= Current
    BY <2>3
  <2>. QED  BY <1>2, <1>3, <1>5, <2>1, <2>3, <2>4, BeginInitStep
<1>. QED  BY <1>4, <1>5

LEMMA GetOrInitStep ==
  ASSUME IInv, NEW r \in Readers, GetOrInit(r)
  PROVE  IInv'
<1>1. reader[r].at \in {"call", "again", "wait"}
  BY DEF GetOrInit
<1>2. CASE value # Nothing
  BY <1>1, <1>2, GetAndUpgradeStep DEF GetOrInit
<1>3. CASE value = Nothing
  <2>1. /\ reader' = [reader EXCEPT ![r].at = "wait", ![r].sem = Current]
        /\ UNCHANGED <<sems, value, version, wanted_evicted, wanted_deleted, file,
                       download, evictor, dropping, jobs, evicting>>
    BY <1>3 DEF GetOrInit
  <2>2. reader \in [Readers -> ReaderState(Current)] /\ Current \in 0 .. Current
    BY Parts DEF TypeOK, Current
  <2>3. /\ reader' \in [Readers -> ReaderState(Current)]
        /\ reader'[r].at = "wait" /\ reader'[r].sem = Current
        /\ \A q \in Readers : q # r => reader'[q] = reader[q]
    BY <2>1, <2>2 DEF ReaderState
  <2>. QED  BY <1>1, <2>1, <2>3, WaiterStep
<1>. QED  BY <1>2, <1>3

LEMMA AcquireClosedStep ==
  ASSUME IInv, NEW r \in Readers, AcquireClosed(r)
  PROVE  IInv'
<1>1. reader[r].at \in {"call", "again", "wait"} /\ TypeOK
  BY Parts DEF AcquireClosed
<1>2. CASE Replaced(r)
  <2>1. /\ reader' = Moved(r, "again")
        /\ UNCHANGED <<sems, value, version, wanted_evicted, wanted_deleted, file,
                       download, evictor, dropping, jobs, evicting>>
    BY <1>2 DEF AcquireClosed
  <2>2. /\ reader' \in [Readers -> ReaderState(Current)] /\ reader'[r].at = "again"
        /\ \A q \in Readers : q # r => reader'[q] = reader[q]
    BY <1>1, <2>1 DEF Moved, TypeOK, ReaderState
  <2>. QED  BY <1>1, <2>1, <2>2, WaiterStep
<1>3. CASE ~Replaced(r)
  BY <1>1, <1>3, GetAndUpgradeStep DEF AcquireClosed
<1>. QED  BY <1>2, <1>3

LEMMA AcquireStep ==
  ASSUME IInv, NEW r \in Readers, Acquire(r)
  PROVE  IInv'
<1>1. TypeOK /\ SemInv /\ OwnerInv
  BY Parts
<1>2. reader[r].sem = Current /\ sems[Current].permits = 1 /\ ~sems[Current].closed
  <2>1. /\ reader[r].sem \in 1 .. Current /\ ~sems[reader[r].sem].closed
        /\ sems[reader[r].sem].permits > 0
    BY <1>1 DEF Acquire, SemInv
  <2>2. Current \in Nat /\ sems[reader[r].sem] \in Semaphore
    BY <1>1, <2>1 DEF TypeOK, Current
  <2>3. reader[r].sem = Current
    BY <1>1, <2>1, <2>2 DEF SemInv
  <2>. QED  BY <2>1, <2>2, <2>3 DEF Semaphore
<1>3. value = Nothing
  BY <1>1, <1>2 DEF SemInv
<1>4. /\ sems' = [sems EXCEPT ![Current].permits = @ - 1]
      /\ BeginInit(r, Current)
      /\ UNCHANGED <<value, wanted_evicted, wanted_deleted, file, download, dropping, jobs,
                     evicting>>
  BY <1>2 DEF Acquire
<1>5. Current \in 1 .. Len(sems) /\ Current \in Nat /\ sems[Current] \in Semaphore
  BY <1>1 DEF SemInv, TypeOK, Current
<1>6. sems' = [sems EXCEPT ![Current] = [permits |-> 0, closed |-> FALSE]]
  <2>1. sems[Current].closed = FALSE /\ sems[Current].permits - 1 = 0
    BY <1>2, <1>5 DEF Semaphore
  <2>2. [sems[Current] EXCEPT !.permits = @ - 1]
          = [permits |-> sems[Current].permits - 1, closed |-> sems[Current].closed]
    BY <1>5 DEF Semaphore
  <2>. QED  BY <1>4, <2>1, <2>2
<1>7. /\ sems' \in Seq(Semaphore) /\ Current' = Current
      /\ sems'[Current] = [permits |-> 0, closed |-> FALSE]
      /\ \A n \in 1 .. Current : n # Current => sems'[n] = sems[n]
  <2>1. [permits |-> 0, closed |-> FALSE] \in Semaphore
    BY DEF Semaphore
  <2>. QED  BY <1>1, <1>5, <1>6, <2>1, ExceptSeq DEF TypeOK, Current
<1>8. SemInv'
  <2>1. \A q \in Readers : reader'[q].at = "wait" =>
            reader[q].at = "wait" /\ reader'[q].sem = reader[q].sem
    BY <1>1, <1>4 DEF BeginInit, TypeOK
  <2>2. sems'[Current'].permits = 0 /\ sems'[Current'].closed = FALSE
    BY <1>7
  <2>. QED  BY <1>1, <1>3, <1>4, <1>5, <1>7, <2>1, <2>2 DEF SemInv
<1>9. evicting = {} /\ \A q \in Readers : ~Owns(q)
  <2>1. \A j \in evicting : FALSE
    BY <1>1, <1>2 DEF OwnerInv
  <2>. QED  BY <1>1, <1>2, <2>1 DEF OwnerInv
<1>10. sems'[Current'].permits = 0 /\ Current' >= Current
  BY <1>5, <1>7
<1>11. reader[r].at \in {"call", "again", "wait"}
  BY DEF Acquire
<1>. QED  BY <1>3, <1>4, <1>7, <1>8, <1>9, <1>10, <1>11, BeginInitStep

LEMMA NeedsDownloadStep ==
  ASSUME IInv, NEW r \in Readers, NeedsDownload(r)
  PROVE  IInv'
<1>1. TypeOK /\ DownloadInv
  BY Parts
<1>2. /\ reader[r].at = "stat" /\ Owns(r) /\ Initializing(r)
      /\ download[r] = "none" /\ download = [download EXCEPT ![r] = "none"]
  BY <1>1 DEF NeedsDownload, Owns, Initializing, DownloadInv, TypeOK
<1>3. UNCHANGED <<value, version, wanted_deleted, file, evictor, dropping, jobs, evicting>>
  BY DEF NeedsDownload
<1>4. CASE file /\ reader' = Moved(r, "set") /\ UNCHANGED <<sems, wanted_evicted, download>>
  <2>1. wanted_evicted' \in BOOLEAN /\ file' \in BOOLEAN
    BY <1>1, <1>3, <1>4 DEF TypeOK
  <2>. QED  BY <1>2, <1>3, <1>4, <2>1, OwnerStep
<1>5. CASE /\ wanted_evicted' = FALSE
           /\ reader' = Moved(r, "rx")
           /\ download' = [download EXCEPT ![r] = "running"]
           /\ UNCHANGED sems
  <2>1. wanted_evicted' \in BOOLEAN /\ file' \in BOOLEAN
    BY <1>1, <1>3, <1>5 DEF TypeOK
  <2>. QED  BY <1>2, <1>3, <1>5, <2>1, OwnerStep
<1>6. CASE /\ wanted_evicted' = FALSE
           /\ reader' = Finished(r)
           /\ sems' = Returned(reader[r].sem)
           /\ UNCHANGED download
  <2>1. wanted_evicted' \in BOOLEAN
    BY <1>6
  <2>. QED  BY <1>2, <1>3, <1>6, <2>1, ReleaseStep
<1>. QED  BY <1>4, <1>5, <1>6 DEF NeedsDownload

LEMMA DownloadEndsStep ==
  ASSUME IInv, NEW r \in Readers, DownloadEnds(r)
  PROVE  IInv'
<1>1. TypeOK /\ DownloadInv /\ FileInv
  BY Parts
<1>2. reader[r].at \in {"rx", "done"} /\ Owns(r)
  BY <1>1 DEF DownloadEnds, Owns, DownloadInv
<1>3. PICK d \in {"ok", "failed"} :
          /\ download' = [download EXCEPT ![r] = d]
          /\ file' = (file \/ d = "ok")
  BY DEF DownloadEnds
<1>4. /\ file' \in BOOLEAN /\ (file => file') /\ (d = "ok" => file')
      /\ wanted_evicted' \in BOOLEAN
  BY <1>1, <1>3 DEF TypeOK, DownloadEnds
<1>5. UNCHANGED <<sems, value, version, wanted_deleted, reader, evictor, dropping, jobs, evicting>>
  BY DEF DownloadEnds
<1>6. reader[r].at # "done" => Initializing(r)
  BY <1>2 DEF Initializing
<1>. QED  BY <1>2, <1>3, <1>4, <1>5, <1>6, OwnerStep

LEMMA DownloadSendsStep ==
  ASSUME IInv, NEW r \in Readers, DownloadSends(r)
  PROVE  IInv'
<1>1. TypeOK /\ DownloadInv /\ FileInv
  BY Parts
<1>2. /\ reader[r].at \in {"rx", "done"} /\ Owns(r)
      /\ wanted_evicted' \in BOOLEAN /\ file' \in BOOLEAN
  BY <1>1 DEF DownloadSends, Owns, DownloadInv, TypeOK
<1>3. UNCHANGED <<value, version, wanted_evicted, wanted_deleted, file, reader, evictor,
                  dropping, jobs, evicting>>
  BY DEF DownloadSends
<1>4. CASE reader[r].at = "rx"
  <2>1. PICK d \in {"sent", "error"} :
            /\ download' = [download EXCEPT ![r] = d] /\ UNCHANGED sems
            /\ d = "sent" => download[r] = "ok"
    BY <1>1, <1>4 DEF DownloadSends, TypeOK
  <2>2. d \in {"ok", "sent"} => file'
    BY <1>1, <1>3, <2>1 DEF FileInv
  <2>. QED  BY <1>2, <1>3, <1>4, <2>1, <2>2, OwnerStep DEF Initializing
<1>5. CASE reader[r].at # "rx"
  BY <1>2, <1>3, <1>5, ReleaseStep DEF DownloadSends
<1>. QED  BY <1>4, <1>5

LEMMA ReceivedStep ==
  ASSUME IInv, NEW r \in Readers, Received(r)
  PROVE  IInv'
<1>1. TypeOK /\ DownloadInv /\ FileInv
  BY Parts
<1>2. /\ reader[r].at = "rx" /\ Owns(r) /\ Initializing(r)
      /\ download' = [download EXCEPT ![r] = "none"]
      /\ wanted_evicted' \in BOOLEAN /\ file' \in BOOLEAN
      /\ UNCHANGED <<value, version, wanted_evicted, wanted_deleted, file, evictor, dropping,
                     jobs, evicting>>
  BY <1>1 DEF Received, Owns, Initializing, DownloadInv, TypeOK
<1>3. CASE download[r] = "sent" /\ file /\ reader' = Moved(r, "set") /\ UNCHANGED sems
  BY <1>2, <1>3, OwnerStep
<1>4. CASE reader' = Finished(r) /\ sems' = Returned(reader[r].sem)
  BY <1>2, <1>4, ReleaseStep
<1>. QED  BY <1>3, <1>4 DEF Received

LEMMA CancelStep ==
  ASSUME IInv, NEW r \in Readers, Cancel(r)
  PROVE  IInv'
<1>1. TypeOK /\ DownloadInv /\ FileInv
  BY Parts
<1>2. /\ UNCHANGED <<value, version, wanted_evicted, wanted_deleted, file, evictor, dropping,
                     jobs, evicting>>
      /\ wanted_evicted' \in BOOLEAN /\ file' \in BOOLEAN
  BY <1>1 DEF Cancel, TypeOK
<1>3. CASE reader[r].at = "wait"
  <2>1. download[r] = "none"
    BY <1>1, <1>3 DEF DownloadInv, TypeOK
  <2>2. reader' = Finished(r) /\ UNCHANGED <<sems, download>>
    BY <1>1, <1>3, <2>1 DEF Cancel, TypeOK
  <2>3. /\ reader' \in [Readers -> ReaderState(Current)] /\ reader'[r].at = "done"
        /\ \A q \in Readers : q # r => reader'[q] = reader[q]
    BY <1>1, <2>2, FinishedFacts
  <2>. QED  BY <1>2, <1>3, <2>2, <2>3, WaiterStep
<1>4. CASE reader[r].at = "stat" \/ download[r] \in {"sent", "error"}
  <2>1. reader[r].at = "stat" => download[r] = "none"
    BY <1>1 DEF DownloadInv, TypeOK
  <2>2. download[r] \in {"sent", "error"} => reader[r].at = "rx"
    BY <1>1 DEF DownloadInv
  <2>3. Owns(r) /\ OwnsPermit(r) /\ reader[r].at # "wait"
    BY <1>4, <2>1, <2>2 DEF Owns, OwnsPermit
  <2>4. /\ reader' = Finished(r) /\ sems' = Returned(reader[r].sem)
        /\ download' = [download EXCEPT ![r] = "none"]
    BY <1>1, <1>4, <2>1, <2>3 DEF Cancel, TypeOK
  <2>. QED  BY <1>2, <2>3, <2>4, ReleaseStep
<1>5. CASE reader[r].at = "rx" /\ download[r] \in {"running", "ok", "failed"}
  <2>1. ~OwnsPermit(r) /\ Owns(r)
    BY <1>5 DEF OwnsPermit, Owns
  <2>2. /\ reader' = Moved(r, "done") /\ UNCHANGED <<sems, download>>
        /\ download' = [download EXCEPT ![r] = download[r]]
    BY <1>1, <1>5, <2>1 DEF Cancel, TypeOK
  <2>3. download[r] \in {"ok", "sent"} => file'
    BY <1>1, <1>2 DEF FileInv
  <2>4. download[r] \in {"none", "running", "ok", "failed", "sent", "error"}
    BY <1>5
  <2>. QED  BY <1>2, <1>5, <2>1, <2>2, <2>3, <2>4, OwnerStep
<1>. QED  BY <1>1, <1>3, <1>4, <1>5 DEF Cancel, DownloadInv, TypeOK

LEMMA SetStep ==
  ASSUME IInv, NEW r \in Readers, Set(r)
  PROVE  IInv'
<1>1. TypeOK /\ DownloadInv /\ SemInv /\ OwnerInv /\ ReferenceInv /\ VersionInv /\ FileInv
  BY Parts
<1>2. /\ reader[r].sem = Current /\ sems[Current].permits = 0 /\ evicting = {} /\ file
      /\ reader[r].version = version /\ version \notin dropping \cup jobs
  BY <1>1 DEF OwnerInv, Owns, Set, FileInv, VersionInv, Initializing
<1>3. /\ value = Nothing /\ value' = Resident(version) /\ reader' = Moved(r, "read")
      /\ sems' = [Returned(Current) EXCEPT ![Current].closed = TRUE]
      /\ UNCHANGED <<version, wanted_evicted, wanted_deleted, file, download, evictor,
                     dropping, jobs, evicting>>
  BY <1>2 DEF Set
<1>4. /\ reader' \in [Readers -> ReaderState(Current)]
      /\ reader'[r].at = "read" /\ reader'[r].version = version
      /\ \A q \in Readers : q # r => reader'[q] = reader[q]
  BY <1>1, <1>2, <1>3 DEF Moved, TypeOK, ReaderState
<1>5. /\ sems' \in Seq(Semaphore) /\ Current' = Current /\ Current \in Nat
      /\ sems'[Current].permits = 1 /\ sems'[Current].closed = TRUE
      /\ \A n \in 1 .. Current : n # Current => sems'[n] = sems[n]
  <2>. DEFINE s == Returned(Current)
  <2>1. /\ s \in Seq(Semaphore) /\ Len(s) = Current /\ s[Current].permits = 1
        /\ \A n \in 1 .. Current : n # Current => s[n] = sems[n]
    BY <1>1, <1>2, ReturnedFacts DEF TypeOK, SemInv
  <2>2. Current \in 1 .. Len(s) /\ Current \in Nat
    BY <1>1, <2>1 DEF SemInv, TypeOK, Current
  <2>. HIDE DEF s
  <2>3. s[Current] \in Semaphore
    BY <2>1, <2>2
  <2>4. [s[Current] EXCEPT !.closed = TRUE] = [permits |-> s[Current].permits, closed |-> TRUE]
    BY <2>3, ClosedSemaphore
  <2>5. sems' = [s EXCEPT ![Current] = [permits |-> 1, closed |-> TRUE]]
    BY <1>3, <2>1, <2>4 DEF s
  <2>6. [permits |-> 1, closed |-> TRUE] \in Semaphore
    BY DEF Semaphore
  <2>7. /\ sems' \in Seq(Semaphore) /\ Len(sems') = Len(s)
        /\ \A n \in 1 .. Len(s) :
              sems'[n] = IF n = Current THEN [permits |-> 1, closed |-> TRUE] ELSE s[n]
    BY <2>1, <2>2, <2>5, <2>6, ExceptSeq
  <2>. QED  BY <2>1, <2>2, <2>7 DEF Current
<1>6. TypeOK'
  <2>1. value' \in [is : {"nothing", "resident", "wanted"}, version : Versions]
    BY <1>1, <1>3 DEF Resident, TypeOK
  <2>. QED  BY <1>1, <1>3, <1>4, <1>5, <2>1 DEF TypeOK
<1>7. DownloadInv'
  <2>1. download[r] = "none"
    BY <1>1 DEF Set, DownloadInv, TypeOK
  <2>. QED  BY <1>1, <1>3, <1>4, <2>1 DEF DownloadInv
<1>8. SemInv'
  <2>1. value' # Nothing /\ value'.is = "resident"
    BY <1>3 DEF Resident, Nothing
  <2>. QED  BY <1>1, <1>4, <1>5, <2>1 DEF SemInv
<1>9. OwnerInv'
  <2>1. \A q \in Readers : ~Owns(q)'
    BY <1>1, <1>3, <1>4 DEF OwnerInv, Owns, Set, DownloadInv
  <2>. QED  BY <1>2, <1>3, <2>1 DEF OwnerInv
<1>10. ReferenceInv'
  <2>1. value' # Nothing /\ value'.version = version
    BY <1>3 DEF Resident, Nothing
  <2>2. \A v : v # version => Holders(v)' \subseteq Holders(v)
    BY <1>3, <1>4 DEF Holders, Resident
  <2>. QED  BY <1>1, <1>2, <1>3, <1>4, <2>1, <2>2 DEF ReferenceInv
<1>11. VersionInv'
  <2>1. version' <= Cardinality(Begun')
    <3>1. Begun \subseteq Begun'
      BY <1>4 DEF Begun
    <3>. QED  BY <1>1, <1>3, <3>1, BegunGrows, ZeroVersion DEF VersionInv, TypeOK
  <2>2. value'.version <= version'
    BY <1>1, <1>3, ZeroVersion DEF Resident, TypeOK
  <2>. QED  BY <1>1, <1>3, <1>4, <2>1, <2>2 DEF VersionInv, Initializing
<1>12. FileInv'
  BY <1>1, <1>2, <1>3 DEF FileInv
<1>. QED  BY <1>6, <1>7, <1>8, <1>9, <1>10, <1>11, <1>12 DEF IInv

\* Steps that touch neither the cell, nor the file, nor a call of a reader, and
\* add no reference: an evictor goes on, or versions are dropped.
LEMMA QuietStep ==
  ASSUME IInv, evictor' \in [Evictors -> EvictorState],
         \A e \in Evictors : evictor'[e].at = "drop" =>
            evictor[e].at = "drop" /\ evictor'[e].version = evictor[e].version,
         dropping' \cup jobs' \subseteq dropping \cup jobs,
         wanted_deleted' \in BOOLEAN,
         UNCHANGED <<sems, value, version, wanted_evicted, file, reader, download, evicting>>
  PROVE  IInv'
<1>1. TypeOK /\ DownloadInv /\ SemInv /\ OwnerInv /\ ReferenceInv /\ VersionInv /\ FileInv
  BY Parts
<1>2. Current' = Current
  BY DEF Current
<1>3. TypeOK'
  BY <1>1, <1>2 DEF TypeOK
<1>4. DownloadInv' /\ FileInv'
  BY <1>1 DEF DownloadInv, FileInv
<1>5. SemInv'
  BY <1>1, <1>2 DEF SemInv
<1>6. OwnerInv'
  BY <1>1, <1>2 DEF OwnerInv, Owns
<1>7. ReferenceInv'
  <2>1. \A v : Holders(v)' \subseteq Holders(v)
    BY DEF Holders
  <2>. QED  BY <1>1, <2>1 DEF ReferenceInv
<1>8. VersionInv'
  BY <1>1 DEF VersionInv, Begun, Initializing
<1>. QED  BY <1>3, <1>4, <1>5, <1>6, <1>7, <1>8 DEF IInv

\* The last reference to a version, or another one, is dropped.
LEMMA DropStep ==
  ASSUME IInv, NEW h, NEW v \in Versions, h \in Holders(v), h # "cell",
         dropping' = DroppedBy(h, v),
         \A w : Holders(w)' = IF w = v THEN Holders(w) \ {h} ELSE Holders(w),
         reader' \in [Readers -> ReaderState(Current)],
         \A r \in Readers : reader'[r] = reader[r] \/ (reader[r].at = "read" /\ reader'[r].at = "done"),
         evictor' \in [Evictors -> EvictorState],
         \A e \in Evictors : evictor'[e] = evictor[e] \/ evictor'[e].at = "wait",
         UNCHANGED <<sems, value, version, wanted_evicted, wanted_deleted, file, download,
                     jobs, evicting>>
  PROVE  IInv'
<1>1. TypeOK /\ DownloadInv /\ SemInv /\ OwnerInv /\ ReferenceInv /\ VersionInv /\ FileInv
  BY Parts
<1>2. Current' = Current
  BY DEF Current
<1>3. v <= version /\ value # Nothing /\ dropping' \subseteq dropping \cup {v}
  <2>1. value # Nothing /\ v = value.version
    BY <1>1 DEF ReferenceInv, Holders
  <2>. QED  BY <1>1, <2>1 DEF DroppedBy, VersionInv
<1>4. TypeOK'
  BY <1>1, <1>2, <1>3 DEF TypeOK
<1>5. DownloadInv'
  BY <1>1 DEF DownloadInv
<1>6. SemInv'
  BY <1>1, <1>2 DEF SemInv
<1>7. \A q \in Readers : ~Owns(q) /\ ~Owns(q)' /\ ~Initializing(q)'
  BY <1>1, <1>3, NoOwner DEF Owns, Initializing, DownloadInv
<1>8. OwnerInv'
  BY <1>1, <1>2, <1>7 DEF OwnerInv
<1>9. ReferenceInv'
  <2>1. ASSUME NEW w \in dropping' \cup jobs' PROVE Holders(w)' = {}
    <3>1. CASE w \in dropping \cup jobs
      BY <1>1, <3>1 DEF ReferenceInv
    <3>2. CASE w \notin dropping \cup jobs
      BY <2>1, <3>2 DEF DroppedBy
    <3>. QED  BY <3>1, <3>2
  <2>. QED  BY <1>1, <2>1 DEF ReferenceInv
<1>10. VersionInv'
  <2>1. version' <= Cardinality(Begun')
    <3>1. Begun \subseteq Begun'
      BY DEF Begun
    <3>. QED  BY <1>1, <3>1, BegunGrows, ZeroVersion DEF VersionInv, TypeOK
  <2>. QED  BY <1>1, <1>3, <1>7, <2>1 DEF VersionInv
<1>11. FileInv'
  BY <1>1 DEF FileInv
<1>. QED  BY <1>4, <1>5, <1>6, <1>8, <1>9, <1>10, <1>11 DEF IInv

LEMMA DropReferenceStep ==
  ASSUME IInv, NEW r \in Readers, DropReference(r)
  PROVE  IInv'
<1>1. TypeOK
  BY Parts
<1>2. r # "cell" /\ r \notin Evictors
  BY CallsAssumption
<1>. DEFINE v == reader[r].version
<1>3. v \in Versions /\ r \in Holders(v)
  BY <1>1 DEF TypeOK, ReaderState, Holders, DropReference
<1>4. /\ reader' \in [Readers -> ReaderState(Current)] /\ reader'[r].at = "done"
      /\ \A q \in Readers : q # r => reader'[q] = reader[q]
  BY <1>1, FinishedFacts DEF DropReference
<1>5. \A w : Holders(w)' = IF w = v THEN Holders(w) \ {r} ELSE Holders(w)
  <2>1. /\ reader[r].at = "read" /\ UNCHANGED <<evictor, value>>
    BY DEF DropReference
  <2>. QED  BY <1>2, <1>4, <2>1 DEF Holders
<1>6. /\ reader[r].at = "read" /\ dropping' = DroppedBy(r, v)
      /\ UNCHANGED <<sems, value, version, wanted_evicted, wanted_deleted, file, download,
                     evictor, jobs, evicting>>
  BY DEF DropReference
<1>7. evictor' \in [Evictors -> EvictorState]
  BY <1>1, <1>6 DEF TypeOK
<1>. HIDE DEF v
<1>. QED  BY <1>2, <1>3, <1>4, <1>5, <1>6, <1>7, DropStep

LEMMA DropDowngradedStep ==
  ASSUME IInv, NEW e \in Evictors, DropDowngraded(e)
  PROVE  IInv'
<1>1. TypeOK
  BY Parts
<1>2. e # "cell" /\ e \notin Readers
  BY CallsAssumption
<1>. DEFINE v == evictor[e].version
<1>3. v \in Versions /\ e \in Holders(v)
  BY <1>1 DEF TypeOK, EvictorState, Holders, DropDowngraded
<1>4. /\ evictor' \in [Evictors -> EvictorState] /\ evictor'[e].at = "wait"
      /\ \A q \in Evictors : q # e => evictor'[q] = evictor[q]
  BY <1>1, ZeroVersion DEF DropDowngraded, TypeOK, EvictorState
<1>5. \A w : Holders(w)' = IF w = v THEN Holders(w) \ {e} ELSE Holders(w)
  <2>1. /\ evictor[e].at = "drop" /\ UNCHANGED <<reader, value>>
    BY DEF DropDowngraded
  <2>. QED  BY <1>2, <1>4, <2>1 DEF Holders
<1>6. /\ dropping' = DroppedBy(e, v)
      /\ UNCHANGED <<sems, value, version, wanted_evicted, wanted_deleted, file, reader,
                     download, jobs, evicting>>
  BY DEF DropDowngraded
<1>7. reader' \in [Readers -> ReaderState(Current)]
  BY <1>1, <1>6 DEF TypeOK
<1>. HIDE DEF v
<1>. QED  BY <1>2, <1>3, <1>4, <1>5, <1>6, <1>7, DropStep

LEMMA SubscribeStep ==
  ASSUME IInv, NEW e \in Evictors, Subscribe(e)
  PROVE  IInv'
<1>1. /\ evictor' \in [Evictors -> EvictorState] /\ evictor'[e].at = "subscribed"
      /\ \A q \in Evictors : q # e => evictor'[q] = evictor[q]
      /\ wanted_deleted' \in BOOLEAN
  BY Parts DEF Subscribe, TypeOK, EvictorState
<1>. QED  BY <1>1, QuietStep DEF Subscribe

LEMMA NoEvictorType == NoEvictor("done") \in EvictorState
BY ZeroVersion DEF NoEvictor, EvictorState

LEMMA RecvStep ==
  ASSUME IInv, NEW e \in Evictors, Recv(e)
  PROVE  IInv'
<1>1. /\ evictor' \in [Evictors -> EvictorState] /\ evictor'[e].at = "done"
      /\ \A q \in Evictors : q # e => evictor'[q] = evictor[q]
      /\ wanted_deleted' \in BOOLEAN
  <2>1. NoEvictor("done").at = "done"
    BY DEF NoEvictor
  <2>. QED  BY <2>1, NoEvictorType, Parts DEF Recv, TypeOK
<1>. QED  BY <1>1, QuietStep DEF Recv

LEMMA OnDownloadedLayerDropStep ==
  ASSUME IInv, NEW v \in Versions, OnDownloadedLayerDrop(v)
  PROVE  IInv'
<1>1. dropping' \cup jobs' \subseteq dropping \cup jobs
  BY DEF OnDownloadedLayerDrop
<1>2. evictor' \in [Evictors -> EvictorState] /\ wanted_deleted' \in BOOLEAN
  BY Parts DEF OnDownloadedLayerDrop, TypeOK
<1>. QED  BY <1>1, <1>2, QuietStep DEF OnDownloadedLayerDrop

LEMMA DeleteOnDropStep == IInv /\ DeleteOnDrop => IInv'
<1>. SUFFICES ASSUME IInv, DeleteOnDrop PROVE IInv'
  OBVIOUS
<1>1. evictor' \in [Evictors -> EvictorState] /\ wanted_deleted' \in BOOLEAN
  BY Parts DEF DeleteOnDrop, TypeOK
<1>. QED  BY <1>1, QuietStep DEF DeleteOnDrop


LEMMA DowngradeStep ==
  ASSUME IInv, NEW e \in Evictors, Downgrade(e)
  PROVE  IInv'
<1>1. TypeOK /\ DownloadInv /\ SemInv /\ OwnerInv /\ ReferenceInv /\ VersionInv /\ FileInv
  BY Parts
<1>2. /\ evictor[e].at = "subscribed" /\ Current' = Current
      /\ UNCHANGED <<sems, version, wanted_deleted, file, reader, download, dropping, jobs,
                     evicting>>
  BY DEF Downgrade, Current
<1>3. CASE value = Nothing
  <2>1. /\ evictor' = [evictor EXCEPT ![e] = NoEvictor("done")]
        /\ UNCHANGED <<value, wanted_evicted>>
    BY <1>3 DEF Downgrade
  <2>2. /\ evictor' \in [Evictors -> EvictorState] /\ evictor'[e].at = "done"
        /\ \A q \in Evictors : q # e => evictor'[q] = evictor[q]
    <3>1. NoEvictor("done").at = "done"
      BY DEF NoEvictor
    <3>. QED  BY <1>1, <2>1, <3>1, NoEvictorType DEF TypeOK
  <2>3. wanted_deleted' \in BOOLEAN
    BY <1>1, <1>2 DEF TypeOK
  <2>. QED  BY <1>2, <2>1, <2>2, <2>3, QuietStep
<1>4. CASE value # Nothing
  <2>1. /\ value' = WantedEvicted(value.version) /\ wanted_evicted' = TRUE
        /\ evictor' = IF value.is = "resident"
                      THEN [evictor EXCEPT ![e].at = "drop", ![e].version = value.version]
                      ELSE [evictor EXCEPT ![e].at = "wait"]
    BY <1>4 DEF Downgrade
  <2>2. /\ evictor' \in [Evictors -> EvictorState]
        /\ \A q \in Evictors : q # e => evictor'[q] = evictor[q]
        /\ evictor'[e].at = "drop" =>
              value.is = "resident" /\ evictor'[e].version = value.version
    BY <1>1, <2>1 DEF TypeOK, EvictorState
  <2>3. value' # Nothing /\ value'.version = value.version /\ value'.is = "wanted"
    BY <2>1 DEF WantedEvicted, Nothing
  <2>4. TypeOK'
    <3>1. value' \in [is : {"nothing", "resident", "wanted"}, version : Versions]
      BY <1>1, <2>1 DEF WantedEvicted, TypeOK
    <3>. QED  BY <1>1, <1>2, <2>1, <2>2, <3>1 DEF TypeOK
  <2>5. DownloadInv' /\ FileInv'
    BY <1>1, <1>2, <1>4 DEF DownloadInv, FileInv
  <2>6. SemInv'
    BY <1>1, <1>2, <1>4, <2>3 DEF SemInv
  <2>7. OwnerInv'
    BY <1>1, <1>2 DEF OwnerInv, Owns
  <2>8. ReferenceInv'
    <3>1. ASSUME NEW w \in dropping' \cup jobs' PROVE Holders(w)' = {}
      <4>1. Holders(w) = {}
        BY <1>1, <1>2, <3>1 DEF ReferenceInv
      <4>2. value.is = "resident" => value = Resident(value.version)
        BY <1>1 DEF TypeOK, Resident
      <4>3. value.is = "resident" => w # value.version
        BY <4>1, <4>2 DEF Holders
      <4>4. value' # Resident(w)
        BY <2>3 DEF Resident
      <4>. QED  BY <1>2, <2>2, <4>1, <4>3, <4>4 DEF Holders
    <3>2. \A r \in Readers : reader'[r].at = "read" => reader'[r].version = value'.version
      BY <1>1, <1>2, <2>3 DEF ReferenceInv
    <3>3. \A q \in Evictors : evictor'[q].at = "drop" => evictor'[q].version = value'.version
      BY <1>1, <2>2, <2>3 DEF ReferenceInv
    <3>. QED  BY <2>3, <3>1, <3>2, <3>3 DEF ReferenceInv
  <2>9. VersionInv'
    BY <1>1, <1>2, <2>3 DEF VersionInv, Begun, Initializing
  <2>. QED  BY <2>4, <2>5, <2>6, <2>7, <2>8, <2>9 DEF IInv
<1>. QED  BY <1>3, <1>4

LEMMA EvictBeginsStep ==
  ASSUME IInv, NEW v \in Versions, EvictBegins(v)
  PROVE  IInv'
<1>1. TypeOK /\ DownloadInv /\ SemInv /\ OwnerInv /\ ReferenceInv /\ VersionInv /\ FileInv
  BY Parts
<1>2. /\ v \in jobs /\ jobs' = jobs \ {v}
      /\ UNCHANGED <<version, wanted_evicted, wanted_deleted, file, reader, download, evictor,
                     dropping>>
  BY DEF EvictBegins
<1>3. CASE ~EvictsVersion(v)
  <2>1. UNCHANGED <<value, sems, evicting>>
    BY <1>3 DEF EvictBegins
  <2>2. evictor' \in [Evictors -> EvictorState] /\ wanted_deleted' \in BOOLEAN
    BY <1>1, <1>2 DEF TypeOK
  <2>. QED  BY <1>2, <2>1, <2>2, QuietStep
<1>4. CASE EvictsVersion(v)
  <2>1. /\ value' = Nothing /\ sems' = take_and_deinit
        /\ evicting' = evicting \cup {[sem |-> Current + 1, removed |-> FALSE]}
    BY <1>4 DEF EvictBegins
  <2>2. value # Nothing /\ value.version = v
    BY <1>4 DEF EvictsVersion, WantedEvicted, Nothing
  <2>3. evicting = {} /\ \A r \in Readers : ~Owns(r)
    BY <1>1, <2>2, NoOwner
  <2>4. /\ SemInv' /\ sems' \in Seq(Semaphore) /\ Current' = Current + 1 /\ Current \in Nat
        /\ sems'[Current'].permits = 0
    BY <1>1, <1>2, <2>1, <2>2, DeinitKeeps
  <2>5. evicting' = {[sem |-> Current', removed |-> FALSE]}
    BY <2>1, <2>3, <2>4
  <2>6. /\ \A r \in Readers : reader[r].at # "read"
        /\ \A e \in Evictors : evictor[e].at # "drop"
    <3>1. Holders(v) = {}
      BY <1>1, <1>2 DEF ReferenceInv
    <3>. QED  BY <1>1, <2>2, <3>1 DEF ReferenceInv, Holders
  <2>7. TypeOK'
    <3>1. value' \in [is : {"nothing", "resident", "wanted"}, version : Versions]
      BY <2>1, ZeroVersion DEF Nothing
    <3>2. reader' \in [Readers -> ReaderState(Current')]
      BY <1>1, <1>2, <2>4 DEF TypeOK, ReaderState
    <3>3. [sem |-> Current', removed |-> FALSE] \in [sem : 1 .. Current', removed : BOOLEAN]
      BY <2>4
    <3>. QED  BY <1>1, <1>2, <2>4, <2>5, <3>1, <3>2, <3>3 DEF TypeOK
  <2>8. DownloadInv'
    BY <1>1, <1>2 DEF DownloadInv
  <2>9. \A r \in Readers : ~Owns(r)' /\ ~Initializing(r)'
    BY <1>1, <1>2, <2>3 DEF Owns, Initializing, DownloadInv
  <2>10. OwnerInv'
    BY <2>4, <2>5, <2>9 DEF OwnerInv
  <2>11. ReferenceInv'
    <3>1. \A w : Holders(w)' = {}
      BY <1>2, <2>1, <2>6 DEF Holders, Nothing, Resident
    <3>. QED  BY <1>2, <2>6, <3>1 DEF ReferenceInv
  <2>12. VersionInv'
    <3>1. value'.version <= version'
      BY <1>1, <1>2, <2>1, ZeroVersion DEF Nothing, TypeOK
    <3>. QED  BY <1>1, <1>2, <2>9, <3>1 DEF VersionInv, Begun
  <2>13. FileInv'
    BY <1>1, <1>2, <2>1 DEF FileInv
  <2>. QED  BY <2>4, <2>7, <2>8, <2>10, <2>11, <2>12, <2>13 DEF IInv
<1>. QED  BY <1>3, <1>4

\* While an eviction has the permit, the cell is empty and nobody initializes it.
LEMMA EvictingOwns ==
  ASSUME IInv, NEW j \in evicting
  PROVE  /\ value = Nothing /\ j.sem = Current /\ sems[Current].permits = 0
         /\ evicting = {j} /\ \A r \in Readers : ~Owns(r)
<1>1. SemInv /\ OwnerInv
  BY Parts
<1>. QED  BY <1>1 DEF SemInv, OwnerInv

LEMMA EvictRemovesStep ==
  ASSUME IInv, NEW j \in evicting, EvictRemoves(j)
  PROVE  IInv'
<1>1. TypeOK /\ DownloadInv /\ SemInv /\ OwnerInv /\ ReferenceInv /\ VersionInv /\ FileInv
  BY Parts
<1>2. /\ value = Nothing /\ j.sem = Current /\ sems[Current].permits = 0
      /\ evicting = {j} /\ \A r \in Readers : ~Owns(r)
  BY EvictingOwns
<1>3. /\ UNCHANGED <<sems, value, version, wanted_evicted, wanted_deleted, reader, download,
                     evictor, dropping, jobs>>
      /\ file' \in BOOLEAN /\ Current' = Current
  BY <1>1 DEF EvictRemoves, TypeOK, Current
<1>4. \E b \in BOOLEAN : evicting' = {[sem |-> Current, removed |-> b]}
  <2>1. j \in [sem : 1 .. Current, removed : BOOLEAN]
    BY <1>1 DEF TypeOK
  <2>2. ASSUME NEW b \in BOOLEAN
        PROVE  [j EXCEPT !.removed = b] = [sem |-> j.sem, removed |-> b]
    BY <2>1
  <2>3. evicting' = {[j EXCEPT !.removed = TRUE]}
    BY <1>2 DEF EvictRemoves
  <2>. QED  BY <1>2, <2>2, <2>3
<1>5. TypeOK'
  <2>1. Current \in 1 .. Current
    BY <1>1 DEF SemInv, TypeOK, Current
  <2>2. evicting' \subseteq [sem : 1 .. Current, removed : BOOLEAN]
    BY <1>4, <2>1
  <2>. QED  BY <1>1, <1>3, <2>2 DEF TypeOK
<1>6. DownloadInv'
  BY <1>1, <1>3 DEF DownloadInv
<1>7. SemInv'
  BY <1>1, <1>3 DEF SemInv
<1>8. OwnerInv'
  BY <1>2, <1>3, <1>4 DEF OwnerInv, Owns
<1>9. ReferenceInv'
  BY <1>1, <1>3 DEF ReferenceInv, Holders
<1>10. VersionInv'
  BY <1>1, <1>3 DEF VersionInv, Begun, Initializing
<1>11. FileInv'
  BY <1>1, <1>2, <1>3 DEF FileInv, Owns, DownloadInv
<1>. QED  BY <1>5, <1>6, <1>7, <1>8, <1>9, <1>10, <1>11 DEF IInv

LEMMA EvictEndsStep ==
  ASSUME IInv, NEW j \in evicting, EvictEnds(j)
  PROVE  IInv'
<1>1. TypeOK /\ DownloadInv /\ SemInv /\ OwnerInv /\ ReferenceInv /\ VersionInv /\ FileInv
  BY Parts
<1>2. /\ value = Nothing /\ j.sem = Current /\ sems[Current].permits = 0
      /\ evicting = {j} /\ \A r \in Readers : ~Owns(r)
  BY EvictingOwns
<1>3. /\ evicting' = {} /\ evictor' = Sent("Evicted") /\ sems' = Returned(Current)
      /\ UNCHANGED <<value, version, wanted_evicted, wanted_deleted, file, reader, download,
                     dropping, jobs>>
  BY <1>2 DEF EvictEnds
<1>4. SemInv' /\ sems' \in Seq(Semaphore) /\ Current' = Current
  BY <1>1, <1>2, <1>3, ReturnedKeeps
<1>5. /\ evictor' \in [Evictors -> EvictorState]
      /\ \A e \in Evictors : evictor'[e].at = evictor[e].at
                             /\ evictor'[e].version = evictor[e].version
  BY <1>1, <1>3, SentType
<1>6. TypeOK'
  BY <1>1, <1>3, <1>4, <1>5 DEF TypeOK
<1>7. DownloadInv' /\ FileInv'
  BY <1>1, <1>3 DEF DownloadInv, FileInv
<1>8. OwnerInv'
  BY <1>2, <1>3 DEF OwnerInv, Owns
<1>9. ReferenceInv'
  <2>1. \A w : Holders(w)' = Holders(w)
    BY <1>3, <1>5 DEF Holders
  <2>. QED  BY <1>1, <1>3, <1>5, <2>1 DEF ReferenceInv
<1>10. VersionInv'
  BY <1>1, <1>3 DEF VersionInv, Begun, Initializing
<1>. QED  BY <1>4, <1>6, <1>7, <1>8, <1>9, <1>10 DEF IInv

-----------------------------------------------------------------------------
LEMMA InitEstablishes == Init => IInv
<1>. SUFFICES ASSUME Init PROVE IInv
  OBVIOUS
<1>1. PICK there \in BOOLEAN :
        /\ sems = <<[permits |-> 1, closed |-> there]>>
        /\ value = IF there THEN Resident(0) ELSE Nothing
        /\ file = there
  BY DEF Init
<1>2. /\ version = 0 /\ wanted_evicted = FALSE /\ wanted_deleted = FALSE
      /\ reader = [r \in Readers |-> NoReader("call")]
      /\ download = [r \in Readers |-> "none"]
      /\ evictor = [e \in Evictors |-> NoEvictor("call")]
      /\ dropping = {} /\ jobs = {} /\ evicting = {}
  BY DEF Init
<1>3. /\ sems \in Seq(Semaphore) /\ Current = 1
      /\ sems[1].permits = 1 /\ sems[1].closed = there
  <2>1. [permits |-> 1, closed |-> there] \in Semaphore
    BY DEF Semaphore
  <2>. QED  BY <1>1, <2>1 DEF Current
<1>4. /\ value \in [is : {"nothing", "resident", "wanted"}, version : Versions]
      /\ value.version = 0 /\ (value # Nothing <=> there)
      /\ value.is = "nothing" => value = Nothing
  BY <1>1, ZeroVersion DEF Resident, Nothing
<1>5. /\ reader \in [Readers -> ReaderState(Current)]
      /\ \A r \in Readers : reader[r].at = "call"
  BY <1>2, <1>3, ZeroVersion DEF NoReader, ReaderState
<1>6. /\ evictor \in [Evictors -> EvictorState]
      /\ \A e \in Evictors : evictor[e].at = "call"
  BY <1>2, ZeroVersion DEF NoEvictor, EvictorState
<1>7. TypeOK
  BY <1>1, <1>2, <1>3, <1>4, <1>5, <1>6, ZeroVersion DEF TypeOK
<1>8. DownloadInv /\ FileInv
  BY <1>1, <1>2, <1>4, <1>5 DEF DownloadInv, FileInv
<1>9. SemInv
  BY <1>3, <1>4, <1>5 DEF SemInv
<1>10. OwnerInv
  BY <1>2, <1>5 DEF OwnerInv, Owns
<1>11. ReferenceInv
  BY <1>2, <1>5, <1>6 DEF ReferenceInv
<1>12. VersionInv
  <2>1. version <= Cardinality(Begun)
    <3>1. Begun \in SUBSET Readers
      BY DEF Begun
    <3>. QED  BY <1>2, <3>1, ReadersFinite
  <2>. QED  BY <1>2, <1>4, <1>5, <2>1 DEF VersionInv, Initializing
<1>. QED  BY <1>7, <1>8, <1>9, <1>10, <1>11, <1>12 DEF IInv

LEMMA StutterStep == IInv /\ UNCHANGED vars => IInv'
<1>. SUFFICES ASSUME IInv, UNCHANGED vars PROVE IInv'
  OBVIOUS
<1>1. evictor' \in [Evictors -> EvictorState] /\ wanted_deleted' \in BOOLEAN
  BY Parts DEF vars, TypeOK
<1>. QED  BY <1>1, QuietStep DEF vars

LEMMA NextKeeps == IInv /\ [Next]_vars => IInv'
<1>. SUFFICES ASSUME IInv, [Next]_vars PROVE IInv'
  OBVIOUS
<1>1. ASSUME NEW r \in Readers, GetOrInit(r) \/ ReaderStep(r) \/ Cancel(r) PROVE IInv'
  <2>1. CASE GetOrInit(r)
    BY <2>1, GetOrInitStep
  <2>2. CASE Acquire(r)
    BY <2>2, AcquireStep
  <2>3. CASE AcquireClosed(r)
    BY <2>3, AcquireClosedStep
  <2>4. CASE NeedsDownload(r)
    BY <2>4, NeedsDownloadStep
  <2>5. CASE DownloadEnds(r)
    BY <2>5, DownloadEndsStep
  <2>6. CASE DownloadSends(r)
    BY <2>6, DownloadSendsStep
  <2>7. CASE Received(r)
    BY <2>7, ReceivedStep
  <2>8. CASE Set(r)
    BY <2>8, SetStep
  <2>9. CASE DropReference(r)
    BY <2>9, DropReferenceStep
  <2>10. CASE Cancel(r)
    BY <2>10, CancelStep
  <2>. QED
    BY <1>1, <2>1, <2>2, <2>3, <2>4, <2>5, <2>6, <2>7, <2>8, <2>9, <2>10 DEF ReaderStep
<1>2. ASSUME NEW e \in Evictors, Subscribe(e) \/ EvictorStep(e) PROVE IInv'
  <2>1. CASE Subscribe(e)
    BY <2>1, SubscribeStep
  <2>2. CASE Downgrade(e)
    BY <2>2, DowngradeStep
  <2>3. CASE DropDowngraded(e)
    BY <2>3, DropDowngradedStep
  <2>4. CASE Recv(e)
    BY <2>4, RecvStep
  <2>. QED  BY <1>2, <2>1, <2>2, <2>3, <2>4 DEF EvictorStep
<1>3. ASSUME JobStep PROVE IInv'
  <2>1. ASSUME NEW v \in Versions, OnDownloadedLayerDrop(v) PROVE IInv'
    BY <2>1, OnDownloadedLayerDropStep
  <2>2. ASSUME NEW v \in Versions, EvictBegins(v) PROVE IInv'
    BY <2>2, EvictBeginsStep
  <2>3. ASSUME NEW j \in evicting, EvictRemoves(j) PROVE IInv'
    BY <2>3, EvictRemovesStep
  <2>4. ASSUME NEW j \in evicting, EvictEnds(j) PROVE IInv'
    BY <2>4, EvictEndsStep
  <2>. QED  BY <1>3, <2>1, <2>2, <2>3, <2>4 DEF JobStep
<1>. QED  BY <1>1, <1>2, <1>3, DeleteOnDropStep, StutterStep DEF Next

\* IInv is an inductive invariant of the layer.
LEMMA Invariance == Spec => []IInv
<1>. QED  BY InitEstablishes, NextKeeps, PTL DEF Spec

-----------------------------------------------------------------------------
\* Every variable of the layer keeps its type: no semaphore ever has more than
\* its one permit, and no access needs a version beyond the number of accesses.
THEOREM LayerTypeCorrect == Spec => []TypeOK
<1>1. IInv => TypeOK
  BY DEF IInv
<1>. QED  BY <1>1, Invariance, PTL

\* get_or_maybe_download against evict_blocking: a resident cell, and every call
\* that reads the layer or is about to initialize the cell, has the layer's file.
THEOREM ResidentLayerHasFile == Spec => []ResidentHasFile
<1>1. ASSUME IInv PROVE ResidentHasFile
  <2>1. ReferenceInv /\ FileInv
    BY <1>1, Parts
  <2>2. value.is = "resident" => value # Nothing
    BY DEF Nothing
  <2>. QED  BY <2>1, <2>2 DEF ReferenceInv, FileInv, ResidentHasFile
<1>. QED  BY <1>1, Invariance, PTL

\* The permit of OnceCell serialises the tasks that write and remove the file:
\* among the downloads, with or without their callers, and the evictions there
\* is at most one.
THEOREM OneTaskOnTheFile == Spec => []OneAtATime
<1>1. ASSUME IInv PROVE OneAtATime
  <2>. DEFINE D == {r \in Readers : download[r] \in {"running", "ok", "failed"}}
  <2>1. OwnerInv
    BY <1>1, Parts
  <2>2. \A r \in D : Owns(r)
    BY DEF Owns
  <2>3. CASE D = {} /\ evicting = {}
    BY <2>3, FS_EmptySet DEF OneAtATime
  <2>4. CASE D # {}
    <3>1. PICK r \in D : TRUE
      BY <2>4
    <3>2. D = {r} /\ evicting = {}
      BY <2>1, <2>2, <3>1 DEF OwnerInv
    <3>3. Cardinality(D) = 1 /\ Cardinality(evicting) = 0
      BY <3>2, FS_EmptySet, FS_Singleton
    <3>. QED  BY <3>3 DEF OneAtATime
  <2>5. CASE evicting # {}
    <3>1. PICK j \in evicting : TRUE
      BY <2>5
    <3>2. evicting = {j} /\ D = {}
      BY <1>1, <2>2, <3>1, EvictingOwns
    <3>3. Cardinality(D) = 0 /\ Cardinality(evicting) = 1
      BY <3>2, FS_EmptySet, FS_Singleton
    <3>. QED  BY <3>3 DEF OneAtATime
  <2>. QED  BY <2>3, <2>4, <2>5
<1>. QED  BY <1>1, Invariance, PTL

\* The asserts of heavier_once_cell.rs and layer.rs never fail: set is called on
\* an empty cell with the cell's own permit, a waiter that finds its semaphore
\* closed and still in place finds a value, and a download has left the file.
THEOREM CellAssertionsHold == Spec => []AssertionsHold
<1>1. ASSUME IInv PROVE AssertionsHold
  <2>1. TypeOK /\ SemInv /\ OwnerInv /\ FileInv
    BY <1>1, Parts
  <2>2. ASSUME NEW r \in Readers, reader[r].at = "set"
        PROVE  value = Nothing /\ sems[Current].permits = 0
    <3>1. sems[Current].permits = 0
      BY <2>1, <2>2 DEF OwnerInv, Owns
    <3>. QED  BY <2>1, <3>1 DEF SemInv
  <2>3. ASSUME NEW r \in Readers, sems[reader[r].sem].closed, ~Replaced(r)
        PROVE  value # Nothing
    BY <2>1, <2>3 DEF SemInv, Replaced
  <2>4. \A r \in Readers : download[r] = "sent" => file
    BY <2>1 DEF FileInv
  <2>. QED  BY <2>2, <2>3, <2>4 DEF AssertionsHold
<1>. QED  BY <1>1, Invariance, PTL
=============================================================================
