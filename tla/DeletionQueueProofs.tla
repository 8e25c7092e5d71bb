-------------------------- MODULE DeletionQueueProofs --------------------------
(***************************************************************************)
(* What every step of pageservers, their deletion queues and the service   *)
(* does to the fields of the state, and that these keep their types and    *)
(* sequence numbers stay fresh, for any number of pageservers, all bounds, *)
(* and with or without the assumptions on the service.                     *)
(***************************************************************************)
EXTENDS DeletionQueue, FiniteSetTheorems, WellFoundedInduction, TLAPS

(***************************************************************************)
(* Types of all variables, and what makes them inductive: an issued        *)
(* generation has a bound because a pageserver re-attaches once per crash, *)
(* LSNs because each upload adds one.                                      *)
(***************************************************************************)
GenerationsOr0 == 0 .. MaxGeneration + MaxCrashes
Update == [generation : GenerationsOr0, lsn : 0 .. MaxUploads]
Phases == {"idle", "asked", "answered", "saving", "execute", "cleanup"}
ValidatorType ==
    [at : Phases, pending : SUBSET List, validated : SUBSET List, asked : GenerationsOr0,
     update : Update, valid : BOOLEAN, writeFailed : BOOLEAN]
Slot ==
    [state : {"down", "starting", "up"}, generation : GenerationsOr0, part : IndexPart,
     pending : List, channel : SUBSET List, lsnTable : Update, validator : ValidatorType]

ServiceType ==
    /\ row \in [generation : Generations, node : Pageservers]
    /\ generation \in Generations
    /\ \/ op = NoOp
       \/ op \in [kind : {"attach_hook", "reconcile"}, node : Pageservers,
                  generation : Generations]
    /\ requests \subseteq [node : Pageservers, generation : Generations]

StorageType ==
    /\ index \in [Generations -> IndexPart] /\ objects \subseteq Object
    /\ visible \in 0 .. MaxUploads

Types ==
    /\ ServiceType /\ StorageType
    /\ ps \in [Pageservers -> Slot]
    /\ disk \in [Pageservers -> [lists : SUBSET List, header : Nat]]
    /\ uploads \in 0 .. MaxUploads /\ crashes \in 0 .. MaxCrashes /\ failures \in 0 .. MaxFailures

DownSet == {p \in Pageservers : ps[p].state = "down"}

CountInv ==
    /\ Cardinality(DownSet) <= crashes
    /\ row.generation + Cardinality(DownSet) <= MaxGeneration + crashes

LsnInv ==
    /\ index[1] # NoIndex
    /\ \A g \in Generations : index[g].lsn <= uploads
    /\ \A p \in Pageservers : ps[p].part.lsn <= uploads

\* What the list writer has handed over.
Handed(p) == ps[p].channel \cup ps[p].validator.pending \cup ps[p].validator.validated
Lists(p) == Handed(p) \cup disk[p].lists \cup {ps[p].pending}

(***************************************************************************)
(* Sequence numbers.  A pageserver that is not up has nothing in memory,   *)
(* and there is a highest number on its disk.  Otherwise all numbers used  *)
(* are below the next one, and what still waits for the validator is above *)
(* what the validator has.  The list being written is not validated.       *)
(***************************************************************************)
SequenceOK(p) ==
    /\ ~Up(p) => /\ ps[p].channel = {} /\ ps[p].validator = IdleValidator(FALSE)
                 /\ \E n \in Nat : \A l \in disk[p].lists : l.sequence < n
    /\ Up(p) => /\ disk[p].header < ps[p].pending.sequence
                /\ \A l \in Handed(p) \cup disk[p].lists :
                      l.sequence < ps[p].pending.sequence
    /\ \A c \in ps[p].channel :
          \A l \in ps[p].validator.pending \cup ps[p].validator.validated :
             l.sequence < c.sequence
    /\ ~ps[p].pending.validated

SequenceInv == \A p \in Pageservers : SequenceOK(p)

TypeInv == Types /\ CountInv /\ LsnInv /\ SequenceInv

Starting(p) == ps[p].state = "starting"

-----------------------------------------------------------------------------
(***************************************************************************)
(* Maxima.                                                                 *)
(***************************************************************************)
LEMMA LeastNat ==
  ASSUME NEW T \in SUBSET Nat, T # {}
  PROVE  \E n \in T : \A k \in T : ~(k < n)
<1>1. PICK n \in T : \A k \in T : ~(<<k, n>> \in OpToRel(<, Nat))
  BY NatLessThanWellFounded, WFMin
<1>. QED  BY <1>1 DEF OpToRel

LEMMA GreatestNat ==
  ASSUME NEW S \in SUBSET Nat, S # {}, NEW n \in Nat, \A x \in S : x <= n
  PROVE  \E x \in S : \A y \in S : x >= y
<1>. DEFINE T == {n - x : x \in S}
<1>1. T \in SUBSET Nat /\ T # {}
  <2>1. \A x \in S : n - x \in Nat
    OBVIOUS
  <2>. QED  BY <2>1
<1>2. PICK t \in T : \A k \in T : ~(k < t)
  <2>. HIDE DEF T
  <2>. QED  BY <1>1, LeastNat
<1>3. PICK x \in S : t = n - x
  BY <1>2
<1>4. \A y \in S : n - y \in T
  OBVIOUS
<1>5. ASSUME NEW y \in S PROVE x >= y
  <2>1. ~(n - y < n - x)
    BY <1>2, <1>3, <1>4
  <2>. QED  BY <2>1
<1>. QED  BY <1>5

LEMMA MaxIs ==
  ASSUME NEW S \in SUBSET Nat, S # {}, NEW n \in Nat, \A x \in S : x <= n
  PROVE  Max(S) \in S /\ \A y \in S : y <= Max(S)
<1>1. \E x \in S : \A y \in S : x >= y
  BY GreatestNat
<1>2. Max(S) \in S /\ \A y \in S : Max(S) >= y
  BY <1>1 DEF Max
<1>. QED  BY <1>2

LEMMA MaxTwo ==
  ASSUME NEW a \in Nat, NEW b \in Nat
  PROVE  /\ Max({a, b}) \in Nat /\ Max({a, b}) >= a /\ Max({a, b}) >= b
         /\ Max({a, b}) = a \/ Max({a, b}) = b
<1>1. \E x \in {a, b} : \A y \in {a, b} : x >= y
  OBVIOUS
<1>2. Max({a, b}) \in {a, b} /\ \A y \in {a, b} : Max({a, b}) >= y
  BY <1>1 DEF Max
<1>. QED  BY <1>2

LEMMA ConstTypes ==
  /\ MaxGeneration + MaxCrashes \in Nat /\ MaxUploads \in Nat
  /\ 1 \in Generations /\ Generations \subseteq Nat
  /\ \A g : g \in Generations <=> g \in GenerationsOr0 /\ g # 0
  /\ \A g \in GenerationsOr0 : g \in Nat
  /\ NoIndex \in IndexPart /\ FirstIndex \in IndexPart /\ FirstIndex # NoIndex
  /\ NoUpdate \in Update
  /\ \A b \in BOOLEAN : IdleValidator(b) \in ValidatorType
  /\ \A s \in Nat \ {0} : DeletionList(s, 0, {}) \in List
  /\ Down \in Slot
<1>1. /\ MaxGeneration + MaxCrashes \in Nat /\ MaxUploads \in Nat
      /\ 1 \in Generations /\ Generations \subseteq Nat
      /\ \A g : g \in Generations <=> g \in GenerationsOr0 /\ g # 0
      /\ \A g \in GenerationsOr0 : g \in Nat
      /\ 0 \in GenerationsOr0 /\ 0 \in 0 .. MaxUploads
  BY ServiceAssumption, QueueAssumption DEF Generations, GenerationsOr0
<1>2. <<1, 0>> \in Object
  BY <1>1 DEF Object
<1>3. NoIndex \in IndexPart /\ FirstIndex \in IndexPart /\ FirstIndex # NoIndex
  BY <1>1, <1>2 DEF NoIndex, FirstIndex, IndexPart
<1>4. NoUpdate \in Update
  BY <1>1 DEF NoUpdate, Update
<1>5. \A b \in BOOLEAN : IdleValidator(b) \in ValidatorType
  BY <1>1, <1>4 DEF IdleValidator, ValidatorType, Phases
<1>6. \A s \in Nat \ {0} : DeletionList(s, 0, {}) \in List
  BY <1>1 DEF DeletionList, List, GenerationsOr0
<1>7. Down \in Slot
  <2>1. IdleValidator(FALSE) \in ValidatorType
    BY <1>5, Zenon
  <2>2. DeletionList(1, 0, {}) \in List
    BY <1>6
  <2>. QED  BY <1>1, <1>3, <1>4, <2>1, <2>2 DEF Down, Slot
<1>. QED  BY <1>1, <1>3, <1>4, <1>5, <1>6, <1>7

\* download_index_part finds the newest index that is not above g.
LEMMA DownloadIs ==
  ASSUME Types, index[1] # NoIndex, NEW g \in Generations
  PROVE  /\ download_index_part(g) \in IndexPart
         /\ \E m \in Generations :
              /\ m <= g /\ index[m] # NoIndex /\ download_index_part(g) = index[m]
              /\ \A h \in Generations : h <= g /\ index[h] # NoIndex => h <= m
<1>. DEFINE S == {h \in Generations : h <= g /\ index[h] # NoIndex}
<1>1. S \in SUBSET Nat /\ 1 \in S /\ g \in Nat /\ \A x \in S : x <= g
  BY ConstTypes DEF Generations
<1>2. Max(S) \in S /\ \A y \in S : y <= Max(S)
  <2>. HIDE DEF S
  <2>. QED  BY <1>1, MaxIs
<1>3. Max(S) \in Generations /\ download_index_part(g) = index[Max(S)]
  BY <1>2 DEF download_index_part
<1>4. download_index_part(g) \in IndexPart
  BY <1>3 DEF Types, StorageType
<1>. QED  BY <1>2, <1>3, <1>4

LEMMA LastIs ==
  ASSUME NEW L \in SUBSET List, L # {}, NEW n \in Nat, \A l \in L : l.sequence < n
  PROVE  LastOf(L) \in L /\ \A k \in L : k.sequence <= LastOf(L).sequence
<1>. DEFINE S == {l.sequence : l \in L}
<1>1. S \in SUBSET Nat /\ S # {} /\ \A x \in S : x <= n
  BY DEF List
<1>2. PICK x \in S : \A y \in S : x >= y
  <2>. HIDE DEF S
  <2>. QED  BY <1>1, GreatestNat
<1>3. PICK l \in L : \A k \in L : k.sequence <= l.sequence
  <2>1. PICK l \in L : l.sequence = x
    BY <1>2
  <2>2. \A k \in L : k.sequence \in S /\ k.sequence \in Nat
    BY DEF List
  <2>3. \A k \in L : k.sequence <= l.sequence
    BY <1>2, <2>1, <2>2
  <2>. QED  BY <2>3
<1>. QED  BY <1>3 DEF LastOf

-----------------------------------------------------------------------------
(***************************************************************************)
(* What the actions do, field by field.                                    *)
(***************************************************************************)
DiskType == [lists : SUBSET List, header : Nat]

\* Only pageserver p is concerned.
Frame(p) ==
    /\ ps' \in [Pageservers -> Slot] /\ disk' \in [Pageservers -> DiskType]
    /\ \A q \in Pageservers : q # p => ps'[q] = ps[q] /\ disk'[q] = disk[q]

SameHolder(p) ==
    /\ ps'[p].state = ps[p].state /\ ps'[p].generation = ps[p].generation
    /\ ps'[p].part = ps[p].part

SameWriter(p) == ps'[p].pending = ps[p].pending /\ ps'[p].channel = ps[p].channel

SameQueue(p) ==
    /\ SameWriter(p)
    /\ ps'[p].lsnTable = ps[p].lsnTable /\ ps'[p].validator = ps[p].validator

SameDisk(p) == disk'[p].lists = disk[p].lists /\ disk'[p].header = disk[p].header

LEMMA SlotStep ==
  ASSUME Types, NEW p \in Pageservers, NEW s \in Slot, NEW d \in DiskType,
         ps' = [ps EXCEPT ![p] = s], disk' = [disk EXCEPT ![p] = d]
  PROVE  Frame(p) /\ ps'[p] = s /\ disk'[p] = d
BY DEF Types, Frame, DiskType

LEMMA SlotTypes ==
  ASSUME Types, NEW p \in Pageservers
  PROVE  /\ ps[p] \in Slot /\ disk[p] \in DiskType
         /\ ps[p].validator \in ValidatorType /\ ps[p].pending \in List
         /\ ps[p].part \in IndexPart /\ ps[p].lsnTable \in Update
         /\ ps[p].channel \subseteq List
         /\ ps[p].generation \in GenerationsOr0
         /\ ps[p].validator.pending \subseteq List /\ ps[p].validator.validated \subseteq List
         /\ disk[p].lists \subseteq List /\ disk[p].header \in Nat
         /\ ps[p].pending.sequence \in Nat /\ ps[p].pending.sequence > 0
<1>1. ps[p] \in Slot /\ disk[p] \in DiskType
  BY DEF Types, DiskType
<1>2. /\ ps[p].validator \in ValidatorType /\ ps[p].pending \in List
      /\ ps[p].part \in IndexPart /\ ps[p].lsnTable \in Update
      /\ ps[p].channel \subseteq List
      /\ ps[p].generation \in GenerationsOr0
  BY <1>1 DEF Slot
<1>3. disk[p].lists \subseteq List /\ disk[p].header \in Nat
  BY <1>1 DEF DiskType
<1>4. ps[p].validator.pending \subseteq List /\ ps[p].validator.validated \subseteq List
  BY <1>2 DEF ValidatorType
<1>5. ps[p].pending.sequence \in Nat /\ ps[p].pending.sequence > 0
  BY <1>2 DEF List
<1>. QED  BY <1>1, <1>2, <1>3, <1>4, <1>5

LEMMA FlushListFields ==
  ASSUME Types, NEW p \in Pageservers, FlushList(p)
  PROVE  /\ Frame(p) /\ Up(p) /\ SameHolder(p)
         /\ UNCHANGED <<serviceVars, storageVars, bounds>>
         /\ ps'[p].lsnTable = ps[p].lsnTable /\ ps'[p].validator = ps[p].validator
         /\ ps'[p].channel = ps[p].channel \cup {ps[p].pending}
         /\ ps'[p].pending = DeletionList(ps[p].pending.sequence + 1, 0, {})
         /\ disk'[p].lists = disk[p].lists \cup {ps[p].pending}
         /\ disk'[p].header = disk[p].header
<1>. DEFINE s == Flushed(ps[p])
            d == [disk[p] EXCEPT !.lists = @ \cup {ps[p].pending}]
<1>1. DeletionList(ps[p].pending.sequence + 1, 0, {}) \in List
  BY SlotTypes, ConstTypes
<1>2. s \in Slot
  BY <1>1, SlotTypes DEF Slot, Flushed
<1>3. d \in DiskType
  BY SlotTypes DEF DiskType
<1>4. ps' = [ps EXCEPT ![p] = s] /\ disk' = [disk EXCEPT ![p] = d]
  BY DEF FlushList
<1>5. Frame(p) /\ ps'[p] = s /\ disk'[p] = d
  <2>. HIDE DEF s, d
  <2>. QED  BY <1>2, <1>3, <1>4, SlotStep
<1>6. /\ ps'[p].channel = ps[p].channel \cup {ps[p].pending}
      /\ ps'[p].pending = DeletionList(ps[p].pending.sequence + 1, 0, {})
      /\ ps'[p].lsnTable = ps[p].lsnTable /\ ps'[p].validator = ps[p].validator
      /\ SameHolder(p)
  BY <1>5, SlotTypes DEF SameHolder, Flushed, Slot
<1>7. disk'[p].lists = disk[p].lists \cup {ps[p].pending} /\ disk'[p].header = disk[p].header
  BY <1>5, SlotTypes DEF DiskType
<1>8. Up(p) /\ UNCHANGED <<serviceVars, storageVars, bounds>>
  BY DEF FlushList
<1>. QED  BY <1>5, <1>6, <1>7, <1>8

LEMMA ValidatorFlushFields ==
  ASSUME TypeInv, NEW p \in Pageservers, ValidatorFlush(p)
  PROVE  LET pending == {l \in ps[p].channel : ~l.validated}
             asked == TenantGeneration(pending, ps[p].lsnTable)
         IN  /\ Frame(p) /\ Up(p) /\ SameHolder(p) /\ SameDisk(p)
             /\ UNCHANGED <<serviceVars, storageVars, bounds>>
             /\ asked \in GenerationsOr0 /\ ps[p].validator.at = "idle"
             /\ ps'[p].lsnTable = NoUpdate
             /\ ps'[p].channel = {} /\ ps'[p].pending = ps[p].pending
             /\ ps'[p].validator.pending = pending
             /\ ps'[p].validator.validated = {l \in ps[p].channel : l.validated}
             /\ ps'[p].validator.at = IF asked # 0 THEN "asked" ELSE "execute"
             /\ ps'[p].validator.asked = asked
             /\ ps'[p].validator.update = ps[p].lsnTable
             /\ ps'[p].validator.valid = ps[p].validator.valid
             /\ ps'[p].validator.writeFailed = ps[p].validator.writeFailed
<1>. DEFINE pending == {l \in ps[p].channel : ~l.validated}
            validated == {l \in ps[p].channel : l.validated}
            asked == TenantGeneration(pending, ps[p].lsnTable)
            v == [ps[p].validator EXCEPT !.at = IF asked # 0 THEN "asked" ELSE "execute",
                      !.pending = pending, !.validated = validated,
                      !.asked = asked, !.update = ps[p].lsnTable]
            s == [ps[p] EXCEPT !.channel = {}, !.lsnTable = NoUpdate, !.validator = v]
<1>0. Types /\ Up(p)
  BY DEF TypeInv, ValidatorFlush
<1>1. asked \in GenerationsOr0
  <2>1. ps[p].lsnTable.generation \in GenerationsOr0 /\ 0 \in GenerationsOr0
    BY <1>0, SlotTypes, ConstTypes DEF Update, GenerationsOr0
  <2>. DEFINE b == IF pending = {} THEN 0 ELSE LastOf(pending).generation
  <2>2. b \in GenerationsOr0
    <3>1. CASE pending = {}
      BY <2>1, <3>1
    <3>2. CASE pending # {}
      <4>1. pending \in SUBSET List /\ ps[p].pending.sequence \in Nat
        BY <1>0, SlotTypes
      <4>2. \A l \in pending : l.sequence < ps[p].pending.sequence
        BY <1>0 DEF TypeInv, SequenceInv, SequenceOK, Handed
      <4>3. LastOf(pending) \in pending
        <5>. HIDE DEF pending
        <5>. QED  BY <3>2, <4>1, <4>2, LastIs
      <4>. QED  BY <3>2, <4>1, <4>3 DEF List, GenerationsOr0
    <3>. QED  BY <3>1, <3>2
  <2>3. Max({ps[p].lsnTable.generation, b}) \in {ps[p].lsnTable.generation, b}
    <3>1. ps[p].lsnTable.generation \in Nat /\ b \in Nat
      BY <2>1, <2>2, ConstTypes
    <3>. HIDE DEF b
    <3>. QED  BY <3>1, MaxTwo
  <2>. QED  BY <2>1, <2>2, <2>3 DEF TenantGeneration
<1>2. v \in ValidatorType
  <2>. HIDE DEF asked
  <2>. QED  BY <1>0, <1>1, SlotTypes DEF ValidatorType, Phases
<1>3. s \in Slot
  <2>. HIDE DEF v
  <2>. QED  BY <1>0, <1>2, SlotTypes, ConstTypes DEF Slot
<1>4. ps' = [ps EXCEPT ![p] = s] /\ disk' = [disk EXCEPT ![p] = disk[p]]
  BY <1>0, SlotTypes DEF ValidatorFlush, Types
<1>5. Frame(p) /\ ps'[p] = s /\ disk'[p] = disk[p]
  <2>. HIDE DEF s
  <2>. QED  BY <1>0, <1>3, <1>4, SlotTypes, SlotStep
<1>6. /\ ps'[p].channel = {} /\ ps'[p].lsnTable = NoUpdate /\ ps'[p].validator = v
      /\ ps'[p].pending = ps[p].pending /\ SameHolder(p)
  <2>. HIDE DEF v
  <2>. QED  BY <1>0, <1>5, SlotTypes DEF Slot, SameHolder
<1>7. /\ ps'[p].validator.pending = pending /\ ps'[p].validator.validated = validated
      /\ ps'[p].validator.at = IF asked # 0 THEN "asked" ELSE "execute"
      /\ ps'[p].validator.asked = asked /\ ps'[p].validator.update = ps[p].lsnTable
      /\ ps'[p].validator.valid = ps[p].validator.valid
      /\ ps'[p].validator.writeFailed = ps[p].validator.writeFailed
  <2>. HIDE DEF asked
  <2>. QED  BY <1>0, <1>6, SlotTypes DEF ValidatorType
<1>8. SameDisk(p) /\ UNCHANGED <<serviceVars, storageVars, bounds>> /\ ps[p].validator.at = "idle"
  BY <1>5 DEF SameDisk, ValidatorFlush
<1>. HIDE DEF asked
<1>. QED  BY <1>0, <1>1, <1>5, <1>6, <1>7, <1>8 DEF asked

\* Steps of the validator change nothing else in memory.
LEMMA ValidatorStep ==
  ASSUME Types, NEW p \in Pageservers, NEW v \in ValidatorType, NEW d \in DiskType,
         ps' = [ps EXCEPT ![p].validator = v], disk' = [disk EXCEPT ![p] = d]
  PROVE  /\ Frame(p) /\ SameHolder(p) /\ SameWriter(p) /\ ps'[p].lsnTable = ps[p].lsnTable
         /\ ps'[p].validator = v /\ disk'[p] = d
<1>. DEFINE s == [ps[p] EXCEPT !.validator = v]
<1>1. s \in Slot
  BY SlotTypes DEF Slot
<1>2. ps' = [ps EXCEPT ![p] = s]
  BY DEF Types
<1>3. Frame(p) /\ ps'[p] = s /\ disk'[p] = d
  <2>. HIDE DEF s
  <2>. QED  BY <1>1, <1>2, SlotStep
<1>. QED  BY <1>3, SlotTypes DEF SameHolder, SameWriter, Slot

ValidatorOnly(p) ==
    /\ Frame(p) /\ SameHolder(p) /\ SameWriter(p) /\ ps'[p].lsnTable = ps[p].lsnTable

LEMMA ValidateAnswerFields ==
  ASSUME Types, NEW p \in Pageservers, ValidateAnswer(p)
  PROVE  /\ ValidatorOnly(p) /\ SameDisk(p) /\ UNCHANGED <<serviceVars, storageVars, bounds>>
         /\ ps[p].validator.at = "asked"
         /\ ps'[p].validator = [ps[p].validator EXCEPT
               !.at = "answered", !.valid = (generation = ps[p].validator.asked)]
<1>. DEFINE v == [ps[p].validator EXCEPT
               !.at = "answered", !.valid = (generation = ps[p].validator.asked)]
<1>1. v \in ValidatorType
  BY SlotTypes DEF ValidatorType, Phases
<1>2. ps' = [ps EXCEPT ![p].validator = v] /\ disk' = [disk EXCEPT ![p] = disk[p]]
  BY DEF ValidateAnswer, validate, Types
<1>3. ValidatorOnly(p) /\ ps'[p].validator = v /\ disk'[p] = disk[p]
  <2>. HIDE DEF v
  <2>1. PICK d \in DiskType : d = disk[p]
    BY SlotTypes
  <2>2. disk' = [disk EXCEPT ![p] = d]
    BY <1>2, <2>1
  <2>3. ps' = [ps EXCEPT ![p].validator = v]
    BY <1>2
  <2>4. ValidatorOnly(p) /\ ps'[p].validator = v /\ disk'[p] = d
    BY <1>1, <2>2, <2>3, ValidatorStep DEF ValidatorOnly
  <2>. QED  BY <2>1, <2>4
<1>. QED  BY <1>3 DEF ValidateAnswer, SameDisk

LEMMA ApplyLsnFields ==
  ASSUME Types, NEW p \in Pageservers, ApplyLsn(p)
  PROVE  /\ ValidatorOnly(p) /\ SameDisk(p) /\ UNCHANGED <<serviceVars, index, objects, bounds>>
         /\ ps[p].validator.at = "answered"
         /\ ps'[p].validator = [ps[p].validator EXCEPT !.at = "saving"]
         /\ visible' \in 0 .. MaxUploads
         /\ \/ visible' = visible
            \/ /\ LsnValid(ps[p].validator) /\ visible' = ps[p].validator.update.lsn
               /\ visible' >= visible
<1>. DEFINE v == [ps[p].validator EXCEPT !.at = "saving"]
<1>1. v \in ValidatorType
  BY SlotTypes DEF ValidatorType, Phases
<1>2. ps' = [ps EXCEPT ![p].validator = v] /\ disk' = [disk EXCEPT ![p] = disk[p]]
  BY DEF ApplyLsn, Types
<1>3. ValidatorOnly(p) /\ ps'[p].validator = v /\ disk'[p] = disk[p]
  <2>. HIDE DEF v
  <2>1. PICK d \in DiskType : d = disk[p]
    BY SlotTypes
  <2>2. disk' = [disk EXCEPT ![p] = d]
    BY <1>2, <2>1
  <2>3. ps' = [ps EXCEPT ![p].validator = v]
    BY <1>2
  <2>4. ValidatorOnly(p) /\ ps'[p].validator = v /\ disk'[p] = d
    BY <1>1, <2>2, <2>3, ValidatorStep DEF ValidatorOnly
  <2>. QED  BY <2>1, <2>4
<1>4. visible \in 0 .. MaxUploads /\ ps[p].validator.update.lsn \in 0 .. MaxUploads
  BY SlotTypes DEF Types, StorageType, ValidatorType, Update
<1>5. /\ visible' \in 0 .. MaxUploads
      /\ \/ visible' = visible
         \/ /\ LsnValid(ps[p].validator) /\ visible' = ps[p].validator.update.lsn
            /\ visible' >= visible
  <2>1. CASE ~LsnValid(ps[p].validator)
    BY <1>4, <2>1 DEF ApplyLsn
  <2>2. CASE LsnValid(ps[p].validator)
    <3>1. visible' = Max({visible, ps[p].validator.update.lsn})
      BY <2>2 DEF ApplyLsn
    <3>2. visible \in Nat /\ ps[p].validator.update.lsn \in Nat
      BY <1>4, ConstTypes
    <3>3. /\ visible' >= visible
          /\ visible' = visible \/ visible' = ps[p].validator.update.lsn
      BY <3>1, <3>2, MaxTwo
    <3>. QED  BY <1>4, <2>2, <3>3
  <2>. QED  BY <2>1, <2>2
<1>6. ps[p].validator.at = "answered" /\ UNCHANGED <<serviceVars, index, objects, bounds>>
  BY DEF ApplyLsn
<1>. QED  BY <1>3, <1>5, <1>6 DEF SameDisk

LEMMA SaveListFields ==
  ASSUME Types, NEW p \in Pageservers, SaveList(p)
  PROVE  /\ ValidatorOnly(p) /\ UNCHANGED <<serviceVars, storageVars, uploads, crashes>>
         /\ failures' \in 0 .. MaxFailures
         /\ ps[p].validator.at = "saving" /\ disk'[p].header = disk[p].header
         /\ \E l \in ps[p].validator.pending, w \in BOOLEAN :
              LET v == ps[p].validator
                  k == KeptList(l, v)
              IN  /\ k \in List
                  /\ ps'[p].validator =
                        [v EXCEPT !.pending = (@ \ {l}) \cup {k}, !.writeFailed = w]
                  /\ \/ ListValid(l, v) /\ disk'[p].lists = disk[p].lists /\ w = v.writeFailed
                     \/ /\ ~ListValid(l, v) /\ w = v.writeFailed
                        /\ disk'[p].lists = {d \in disk[p].lists : d.sequence # l.sequence}
                                               \cup {k}
                     \/ ~ListValid(l, v) /\ disk'[p].lists = disk[p].lists /\ w = TRUE
<1>. DEFINE v == ps[p].validator
<1>1. PICK l \in v.pending :
        /\ v.at = "saving"
        /\ \/ /\ ListValid(l, v)
              /\ UNCHANGED <<disk, failures>>
              /\ ps' = [ps EXCEPT ![p].validator.pending = (@ \ {l}) \cup {KeptList(l, v)}]
           \/ /\ ~ListValid(l, v)
              /\ disk' = [disk EXCEPT ![p].lists = {d \in @ : d.sequence # l.sequence}
                                                      \cup {KeptList(l, v)}]
              /\ UNCHANGED failures
              /\ ps' = [ps EXCEPT ![p].validator.pending = (@ \ {l}) \cup {KeptList(l, v)}]
           \/ /\ ~ListValid(l, v)
              /\ failures < MaxFailures
              /\ failures' = failures + 1
              /\ ps' = [ps EXCEPT ![p].validator.pending = (@ \ {l}) \cup {KeptList(l, v)},
                                  ![p].validator.writeFailed = TRUE]
              /\ UNCHANGED disk
  BY DEF SaveList
<1>. DEFINE k == KeptList(l, v)
            u(w) == [v EXCEPT !.pending = (@ \ {l}) \cup {k}, !.writeFailed = w]
            saved == [disk[p] EXCEPT !.lists = {d \in @ : d.sequence # l.sequence} \cup {k}]
<1>2. v \in ValidatorType /\ l \in List /\ disk[p] \in DiskType
  BY <1>1, SlotTypes
<1>3. k \in List
  BY <1>2 DEF KeptList, List
<1>4. \A w \in BOOLEAN : u(w) \in ValidatorType
  <2>. HIDE DEF k
  <2>. QED  BY <1>2, <1>3 DEF ValidatorType
<1>5. saved \in DiskType /\ saved.header = disk[p].header
      /\ saved.lists = {d \in disk[p].lists : d.sequence # l.sequence} \cup {k}
  <2>. HIDE DEF k
  <2>. QED  BY <1>2, <1>3 DEF DiskType
<1>6. v.writeFailed \in BOOLEAN /\ failures \in 0 .. MaxFailures /\ MaxFailures \in Nat
  BY <1>2, QueueAssumption DEF ValidatorType, Types
<1>7. PICK w \in BOOLEAN, d \in DiskType :
        /\ ps' = [ps EXCEPT ![p].validator = u(w)] /\ disk' = [disk EXCEPT ![p] = d]
        /\ failures' \in 0 .. MaxFailures /\ d.header = disk[p].header
        /\ \/ ListValid(l, v) /\ d = disk[p] /\ w = v.writeFailed
           \/ ~ListValid(l, v) /\ d = saved /\ w = v.writeFailed
           \/ ~ListValid(l, v) /\ d = disk[p] /\ w = TRUE
  <2>0. ps \in [Pageservers -> Slot] /\ disk \in [Pageservers -> DiskType]
    BY DEF Types, DiskType
  <2>a. disk = [disk EXCEPT ![p] = disk[p]]
    BY <2>0
  <2>b. u(v.writeFailed) = [v EXCEPT !.pending = (@ \ {l}) \cup {k}]
    <3>. HIDE DEF k
    <3>. QED  BY <1>2 DEF ValidatorType
  <2>1. CASE /\ ListValid(l, v)
             /\ UNCHANGED <<disk, failures>>
             /\ ps' = [ps EXCEPT ![p].validator.pending = (@ \ {l}) \cup {KeptList(l, v)}]
    <3>1. ps' = [ps EXCEPT ![p].validator = u(v.writeFailed)]
      BY <2>0, <2>1, <2>b
    <3>. HIDE DEF u
    <3>. QED  BY <1>2, <1>6, <2>1, <2>a, <3>1
  <2>2. CASE /\ ~ListValid(l, v)
             /\ disk' = [disk EXCEPT ![p].lists = {d \in @ : d.sequence # l.sequence}
                                                      \cup {KeptList(l, v)}]
             /\ UNCHANGED failures
             /\ ps' = [ps EXCEPT ![p].validator.pending = (@ \ {l}) \cup {KeptList(l, v)}]
    <3>1. ps' = [ps EXCEPT ![p].validator = u(v.writeFailed)]
      BY <2>0, <2>2, <2>b
    <3>2. disk' = [disk EXCEPT ![p] = saved]
      BY <2>0, <2>2
    <3>. HIDE DEF u, saved
    <3>. QED  BY <1>5, <1>6, <2>2, <3>1, <3>2
  <2>3. CASE /\ ~ListValid(l, v)
             /\ failures < MaxFailures
             /\ failures' = failures + 1
             /\ ps' = [ps EXCEPT ![p].validator.pending = (@ \ {l}) \cup {KeptList(l, v)},
                                 ![p].validator.writeFailed = TRUE]
             /\ UNCHANGED disk
    <3>1. ps' = [ps EXCEPT ![p].validator = u(TRUE)]
      BY <2>0, <2>3
    <3>2. failures' \in 0 .. MaxFailures
      BY <1>6, <2>3
    <3>. HIDE DEF u
    <3>. QED  BY <1>2, <2>3, <2>a, <3>1, <3>2
  <2>. QED  BY <1>1, <2>1, <2>2, <2>3
<1>8. ValidatorOnly(p) /\ ps'[p].validator = u(w) /\ disk'[p] = d
  <2>. HIDE DEF u
  <2>1. u(w) \in ValidatorType
    BY <1>4, <1>7
  <2>2. ps' = [ps EXCEPT ![p].validator = u(w)] /\ disk' = [disk EXCEPT ![p] = d]
    BY <1>7
  <2>3. /\ Frame(p) /\ SameHolder(p) /\ SameWriter(p) /\ ps'[p].lsnTable = ps[p].lsnTable
        /\ ps'[p].validator = u(w) /\ disk'[p] = d
    BY <2>1, <2>2, ValidatorStep
  <2>. QED  BY <2>3 DEF ValidatorOnly
<1>9. ps[p].validator.at = "saving" /\ UNCHANGED <<serviceVars, storageVars, uploads, crashes>>
  BY DEF SaveList
<1>10. \/ ListValid(l, v) /\ disk'[p].lists = disk[p].lists /\ w = v.writeFailed
       \/ /\ ~ListValid(l, v) /\ w = v.writeFailed
          /\ disk'[p].lists = {e \in disk[p].lists : e.sequence # l.sequence} \cup {k}
       \/ ~ListValid(l, v) /\ disk'[p].lists = disk[p].lists /\ w = TRUE
  <2>. HIDE DEF k, saved
  <2>. QED  BY <1>5, <1>7, <1>8
<1>. QED  BY <1>3, <1>7, <1>8, <1>9, <1>10

LEMMA SaveHeaderFields ==
  ASSUME TypeInv, NEW p \in Pageservers, SaveHeader(p)
  PROVE  /\ ValidatorOnly(p) /\ UNCHANGED <<serviceVars, storageVars, uploads, crashes>>
         /\ failures' \in 0 .. MaxFailures
         /\ ps[p].validator.at = "saving" /\ \A l \in ps[p].validator.pending : l.validated
         /\ ps'[p].validator = Validated(ps[p].validator)
         /\ disk'[p].lists = disk[p].lists
         /\ \/ disk'[p].header = disk[p].header
            \/ /\ HeaderAllowed(ps[p].validator) /\ LastOf(ps[p].validator.pending) \in ps[p].validator.pending
               /\ \A l \in ps[p].validator.pending :
                     l.sequence <= LastOf(ps[p].validator.pending).sequence
               /\ disk'[p].header = LastOf(ps[p].validator.pending).sequence
<1>. DEFINE v == ps[p].validator
            n == LastOf(v.pending).sequence
<1>1. Types /\ v \in ValidatorType /\ disk[p] \in DiskType
  BY SlotTypes DEF TypeInv
<1>2. Validated(v) \in ValidatorType
  BY <1>1, ConstTypes DEF Validated, ValidatorType, IdleValidator, Phases
<1>3. HeaderAllowed(v) => /\ LastOf(v.pending) \in v.pending /\ n \in Nat
                          /\ \A l \in v.pending : l.sequence <= n
  <2>1. SUFFICES ASSUME v.pending # {}
                 PROVE  /\ LastOf(v.pending) \in v.pending /\ n \in Nat
                        /\ \A l \in v.pending : l.sequence <= n
    BY DEF HeaderAllowed
  <2>2. v.pending \in SUBSET List /\ ps[p].pending.sequence \in Nat
    BY <1>1, SlotTypes
  <2>3. Up(p)
    BY <2>1 DEF TypeInv, SequenceInv, SequenceOK, IdleValidator
  <2>4. \A l \in v.pending : l.sequence < ps[p].pending.sequence
    BY <2>3 DEF TypeInv, SequenceInv, SequenceOK, Handed
  <2>5. LastOf(v.pending) \in v.pending /\ \A l \in v.pending : l.sequence <= n
    BY <2>1, <2>2, <2>4, LastIs
  <2>6. n \in Nat
    BY <2>2, <2>5 DEF List
  <2>. QED  BY <2>5, <2>6
<1>4. failures \in 0 .. MaxFailures /\ MaxFailures \in Nat
  BY <1>1, QueueAssumption DEF Types
<1>5. PICK d \in DiskType :
        /\ disk' = [disk EXCEPT ![p] = d] /\ d.lists = disk[p].lists
        /\ d.header = disk[p].header \/ (HeaderAllowed(v) /\ d.header = n)
        /\ failures' \in 0 .. MaxFailures
  <2>1. disk \in [Pageservers -> DiskType]
    BY <1>1 DEF Types, DiskType
  <2>2. CASE UNCHANGED disk
    <3>1. disk' = [disk EXCEPT ![p] = disk[p]]
      BY <2>1, <2>2
    <3>2. failures' \in 0 .. MaxFailures
      BY <1>4, <2>2 DEF SaveHeader
    <3>. QED  BY <1>1, <3>1, <3>2
  <2>3. CASE HeaderAllowed(v) /\ disk' = [disk EXCEPT ![p].header = n] /\ UNCHANGED failures
    <3>. DEFINE d == [disk[p] EXCEPT !.header = n]
    <3>1. n \in Nat
      BY <1>3, <2>3
    <3>. HIDE DEF n
    <3>2. d \in DiskType /\ d.lists = disk[p].lists /\ d.header = n
      BY <1>1, <3>1 DEF DiskType
    <3>3. disk' = [disk EXCEPT ![p] = d]
      BY <2>1, <2>3
    <3>. HIDE DEF d
    <3>. QED  BY <1>4, <2>3, <3>2, <3>3
  <2>. QED  BY <2>2, <2>3 DEF SaveHeader
<1>6. ps' = [ps EXCEPT ![p].validator = Validated(v)]
  BY DEF SaveHeader
<1>7. ValidatorOnly(p) /\ ps'[p].validator = Validated(v) /\ disk'[p] = d
  <2>1. disk' = [disk EXCEPT ![p] = d]
    BY <1>5
  <2>2. /\ Frame(p) /\ SameHolder(p) /\ SameWriter(p) /\ ps'[p].lsnTable = ps[p].lsnTable
        /\ ps'[p].validator = Validated(v) /\ disk'[p] = d
    BY <1>1, <1>2, <1>6, <2>1, ValidatorStep
  <2>. QED  BY <2>2 DEF ValidatorOnly
<1>8. /\ v.at = "saving" /\ \A l \in v.pending : l.validated
      /\ UNCHANGED <<serviceVars, storageVars, uploads, crashes>>
  BY DEF SaveHeader
<1>. QED  BY <1>3, <1>5, <1>7, <1>8

LEMMA ExecuteFields ==
  ASSUME Types, NEW p \in Pageservers, Execute(p)
  PROVE  /\ ValidatorOnly(p) /\ SameDisk(p) /\ UNCHANGED <<serviceVars, index, visible, bounds>>
         /\ ps[p].validator.at = "execute"
         /\ ps'[p].validator = [ps[p].validator EXCEPT !.at = "cleanup"]
         /\ objects' \subseteq objects
         /\ \A o \in objects : o \in objects' \/ \E l \in ps[p].validator.validated : o \in l.objects
<1>. DEFINE v == [ps[p].validator EXCEPT !.at = "cleanup"]
<1>1. v \in ValidatorType
  BY SlotTypes DEF ValidatorType, Phases
<1>2. ps' = [ps EXCEPT ![p].validator = v] /\ disk' = [disk EXCEPT ![p] = disk[p]]
  BY DEF Execute, Types
<1>3. ValidatorOnly(p) /\ ps'[p].validator = v /\ disk'[p] = disk[p]
  <2>. HIDE DEF v
  <2>1. PICK d \in DiskType : d = disk[p]
    BY SlotTypes
  <2>2. disk' = [disk EXCEPT ![p] = d]
    BY <1>2, <2>1
  <2>3. ps' = [ps EXCEPT ![p].validator = v]
    BY <1>2
  <2>4. ValidatorOnly(p) /\ ps'[p].validator = v /\ disk'[p] = d
    BY <1>1, <2>2, <2>3, ValidatorStep DEF ValidatorOnly
  <2>. QED  BY <2>1, <2>4
<1>4. /\ objects' = objects \ UNION {l.objects : l \in ps[p].validator.validated}
      /\ ps[p].validator.at = "execute" /\ UNCHANGED <<serviceVars, index, visible, bounds>>
  BY DEF Execute
<1>5. \A o \in objects : o \in objects' \/ \E l \in ps[p].validator.validated : o \in l.objects
  BY <1>4
<1>. QED  BY <1>3, <1>4, <1>5 DEF SameDisk

LEMMA CleanupFields ==
  ASSUME Types, NEW p \in Pageservers, cleanup_lists(p)
  PROVE  /\ ValidatorOnly(p) /\ UNCHANGED <<serviceVars, storageVars, bounds>>
         /\ ps[p].validator.at = "cleanup" /\ disk'[p].header = disk[p].header
         /\ \E l \in ps[p].validator.validated :
               /\ disk'[p].lists = {d \in disk[p].lists : d.sequence # l.sequence}
               /\ \/ /\ ps[p].validator.validated = {l}
                     /\ ps'[p].validator = IdleValidator(ps[p].validator.writeFailed)
                  \/ ps'[p].validator = [ps[p].validator EXCEPT !.validated = @ \ {l}]
<1>. DEFINE v == ps[p].validator
<1>1. PICK l \in v.validated :
        /\ v.at = "cleanup"
        /\ disk' = [disk EXCEPT ![p].lists = {d \in @ : d.sequence # l.sequence}]
        /\ ps' = [ps EXCEPT ![p].validator =
                     IF v.validated = {l} THEN IdleValidator(v.writeFailed)
                     ELSE [v EXCEPT !.validated = @ \ {l}]]
        /\ UNCHANGED <<serviceVars, storageVars, bounds>>
  BY DEF cleanup_lists
<1>. DEFINE u == IF v.validated = {l} THEN IdleValidator(v.writeFailed)
                 ELSE [v EXCEPT !.validated = @ \ {l}]
            d == [disk[p] EXCEPT !.lists = {e \in @ : e.sequence # l.sequence}]
<1>2. v \in ValidatorType /\ disk[p] \in DiskType
  BY SlotTypes
<1>3. u \in ValidatorType
  BY <1>2, ConstTypes DEF ValidatorType
<1>4. d \in DiskType /\ d.header = disk[p].header
      /\ d.lists = {e \in disk[p].lists : e.sequence # l.sequence}
  BY <1>2 DEF DiskType
<1>5. ps' = [ps EXCEPT ![p].validator = u] /\ disk' = [disk EXCEPT ![p] = d]
  <2>1. ps \in [Pageservers -> Slot] /\ disk \in [Pageservers -> DiskType]
    BY DEF Types, DiskType
  <2>2. disk' = [disk EXCEPT ![p] = d]
    BY <1>1, <2>1
  <2>3. ps' = [ps EXCEPT ![p].validator = u]
    BY <1>1
  <2>. QED  BY <2>2, <2>3
<1>6. ValidatorOnly(p) /\ ps'[p].validator = u /\ disk'[p] = d
  <2>. HIDE DEF u, d
  <2>. QED  BY <1>3, <1>4, <1>5, ValidatorStep DEF ValidatorOnly
<1>7. \/ v.validated = {l} /\ ps'[p].validator = IdleValidator(v.writeFailed)
      \/ ps'[p].validator = [v EXCEPT !.validated = @ \ {l}]
  BY <1>6
<1>. HIDE DEF d, u
<1>. QED  BY <1>1, <1>4, <1>6, <1>7

LEMMA UpsertFields ==
  ASSUME TypeInv, NEW p \in Pageservers, upsert_location(p)
  PROVE  /\ Frame(p) /\ SameDisk(p) /\ SameQueue(p) /\ Up(p) /\ ps'[p].state = "up"
         /\ UNCHANGED <<row, generation, op, index, objects, visible, bounds>>
         /\ \E r \in requests :
              /\ r.node = p /\ requests' = requests \ {r}
              /\ \/ SameHolder(p)
                 \/ /\ r.generation > ps[p].generation
                    /\ ps'[p].generation = r.generation
                    /\ ps'[p].part = download_index_part(r.generation)
<1>1. PICK r \in requests :
        /\ r.node = p /\ Up(p) /\ requests' = requests \ {r}
        /\ IF r.generation > ps[p].generation
           THEN ps' = [ps EXCEPT ![p] = Attached(@, r.generation)]
           ELSE UNCHANGED ps
        /\ UNCHANGED <<row, generation, op, index, objects, visible, disk, bounds>>
  BY DEF upsert_location
<1>2. Types /\ index[1] # NoIndex /\ r.generation \in Generations
  BY <1>1 DEF TypeInv, Types, ServiceType, LsnInv
<1>3. PICK d \in DiskType : d = disk[p] /\ disk' = [disk EXCEPT ![p] = d]
  BY <1>1, <1>2, SlotTypes DEF Types
<1>4. CASE r.generation > ps[p].generation
  <2>. DEFINE s == Attached(ps[p], r.generation)
  <2>1. download_index_part(r.generation) \in IndexPart /\ r.generation \in GenerationsOr0
    BY <1>2, DownloadIs, ConstTypes
  <2>2. s \in Slot
    BY <1>2, <2>1, SlotTypes DEF Slot, Attached
  <2>3. ps' = [ps EXCEPT ![p] = s]
    BY <1>1, <1>4
  <2>4. Frame(p) /\ ps'[p] = s /\ disk'[p] = d
    <3>. HIDE DEF s
    <3>. QED  BY <1>2, <1>3, <2>2, <2>3, SlotStep
  <2>5. /\ ps'[p].generation = r.generation /\ ps'[p].part = download_index_part(r.generation)
        /\ SameQueue(p) /\ ps'[p].state = ps[p].state
    BY <1>2, <2>4, SlotTypes DEF Slot, Attached, SameQueue, SameWriter
  <2>. QED  BY <1>1, <1>3, <1>4, <2>4, <2>5 DEF SameDisk, Up
<1>5. CASE ~(r.generation > ps[p].generation)
  <2>1. ps' = ps
    BY <1>1, <1>5
  <2>2. Frame(p)
    BY <1>1, <1>2, <2>1 DEF Frame, Types, DiskType
  <2>. QED  BY <1>1, <2>1, <2>2 DEF SameDisk, SameQueue, SameWriter, SameHolder, Up
<1>. QED  BY <1>4, <1>5

LEMMA DetachFields ==
  ASSUME Types, NEW p \in Pageservers, DetachTenant(p)
  PROVE  /\ Frame(p) /\ SameDisk(p) /\ SameQueue(p) /\ Up(p) /\ ps'[p].state = "up"
         /\ UNCHANGED <<serviceVars, storageVars, bounds>>
         /\ row.node # p /\ ps'[p].generation = 0 /\ ps'[p].part = NoIndex
<1>. DEFINE s == [ps[p] EXCEPT !.generation = 0, !.part = NoIndex]
<1>1. s \in Slot
  <2>1. 0 \in GenerationsOr0 /\ NoIndex \in IndexPart
    BY ConstTypes DEF GenerationsOr0
  <2>. QED  BY <2>1, SlotTypes DEF Slot
<1>2. ps' = [ps EXCEPT ![p] = s] /\ Up(p) /\ row.node # p
      /\ UNCHANGED <<serviceVars, storageVars, disk, bounds>>
  BY DEF DetachTenant, Holds, Types
<1>3. PICK d \in DiskType : d = disk[p] /\ disk' = [disk EXCEPT ![p] = d]
  BY <1>2, SlotTypes DEF Types
<1>4. Frame(p) /\ ps'[p] = s /\ disk'[p] = d
  <2>1. ps' = [ps EXCEPT ![p] = s]
    BY <1>2
  <2>. HIDE DEF s
  <2>. QED  BY <1>1, <2>1, <1>3, SlotStep
<1>5. /\ ps'[p].generation = 0 /\ ps'[p].part = NoIndex /\ ps'[p].state = ps[p].state
      /\ SameQueue(p)
  BY <1>4, SlotTypes DEF Slot, SameQueue, SameWriter
<1>. QED  BY <1>2, <1>3, <1>4, <1>5 DEF SameDisk, Up

LEMMA CrashFields ==
  ASSUME Types, NEW p \in Pageservers, Crash(p)
  PROVE  /\ Frame(p) /\ SameDisk(p) /\ ps'[p] = Down
         /\ UNCHANGED <<serviceVars, storageVars, uploads, failures>>
         /\ ps[p].state # "down" /\ crashes' = crashes + 1 /\ crashes' \in 0 .. MaxCrashes
<1>1. ps' = [ps EXCEPT ![p] = Down] /\ UNCHANGED <<serviceVars, storageVars, disk, uploads, failures>>
      /\ ps[p].state # "down" /\ crashes < MaxCrashes /\ crashes' = crashes + 1
  BY DEF Crash
<1>2. PICK d \in DiskType : d = disk[p] /\ disk' = [disk EXCEPT ![p] = d]
  BY <1>1, SlotTypes DEF Types
<1>3. PICK s \in Slot : s = Down
  BY ConstTypes
<1>4. Frame(p) /\ ps'[p] = s /\ disk'[p] = d
  BY <1>1, <1>2, <1>3, SlotStep
<1>5. crashes' \in 0 .. MaxCrashes
  BY <1>1, QueueAssumption DEF Types
<1>. QED  BY <1>1, <1>2, <1>3, <1>4, <1>5 DEF SameDisk

LEMMA ReAttachFields ==
  ASSUME TypeInv, NEW p \in Pageservers, ReAttach(p)
  PROVE  /\ Frame(p) /\ SameDisk(p) /\ SameQueue(p) /\ ps'[p].part = ps[p].part
         /\ ps[p].state = "down" /\ ps'[p].state = "starting"
         /\ UNCHANGED <<storageVars, bounds, generation, op, requests>>
         /\ row' \in [generation : Generations, node : Pageservers]
         /\ row'.node = row.node
         /\ \/ /\ row.node = p /\ row'.generation = row.generation + 1
               /\ ps'[p].generation = row.generation + 1
            \/ row.node # p /\ row'.generation = row.generation /\ ps'[p].generation = 0
<1>1. /\ ps[p].state = "down"
      /\ row' = [row EXCEPT !.generation = IF row.node = p THEN @ + 1 ELSE @]
      /\ ps' = [ps EXCEPT ![p].state = "starting",
                          ![p].generation = IF row.node = p THEN row'.generation ELSE 0]
      /\ UNCHANGED <<generation, op, requests, storageVars, disk, bounds>>
  BY DEF ReAttach, re_attach, re_attach_row
<1>2. Types /\ row \in [generation : Generations, node : Pageservers]
  BY DEF TypeInv, Types, ServiceType
<1>3. /\ row'.node = row.node
      /\ row'.generation = IF row.node = p THEN row.generation + 1 ELSE row.generation
  BY <1>1, <1>2
<1>4. row.generation + 1 \in Generations
  <2>1. p \in DownSet /\ IsFiniteSet(DownSet)
    <3>1. p \in DownSet /\ DownSet \subseteq Pageservers
      BY <1>1 DEF DownSet
    <3>. QED  BY <3>1, ServiceAssumption, FS_Subset
  <2>2. Cardinality(DownSet) \in Nat /\ Cardinality(DownSet) >= 1
    <3>1. Cardinality(DownSet \ {p}) = Cardinality(DownSet) - 1
      BY <2>1, FS_RemoveElement
    <3>2. Cardinality(DownSet) \in Nat /\ Cardinality(DownSet \ {p}) \in Nat
      BY <2>1, FS_CardinalityType, FS_RemoveElement
    <3>. QED  BY <3>1, <3>2
  <2>3. row.generation + Cardinality(DownSet) <= MaxGeneration + crashes
    BY DEF TypeInv, CountInv
  <2>4. crashes \in Nat /\ crashes <= MaxCrashes /\ MaxCrashes \in Nat /\ MaxGeneration \in Nat
    BY <1>2, QueueAssumption, ServiceAssumption DEF Types
  <2>5. row.generation \in Nat /\ row.generation >= 1
    BY <1>2 DEF Generations
  <2>6. row.generation + 1 <= MaxGeneration + MaxCrashes
    BY <2>2, <2>3, <2>4, <2>5
  <2>. QED  BY <2>4, <2>5, <2>6 DEF Generations
<1>5. row' \in [generation : Generations, node : Pageservers]
  BY <1>1, <1>2, <1>4
<1>. DEFINE g == IF row.node = p THEN row.generation + 1 ELSE 0
            s == [ps[p] EXCEPT !.state = "starting", !.generation = g]
<1>6. g \in GenerationsOr0
  BY <1>4, ConstTypes DEF GenerationsOr0
<1>7. s \in Slot
  <2>. HIDE DEF g
  <2>. QED  BY <1>2, <1>6, SlotTypes DEF Slot
<1>8. ps' = [ps EXCEPT ![p] = s]
  BY <1>1, <1>2, <1>3 DEF Types
<1>9. PICK d \in DiskType : d = disk[p] /\ disk' = [disk EXCEPT ![p] = d]
  BY <1>1, <1>2, SlotTypes DEF Types
<1>10. Frame(p) /\ ps'[p] = s /\ disk'[p] = d
  <2>. HIDE DEF s
  <2>. QED  BY <1>2, <1>7, <1>8, <1>9, SlotStep
<1>11. /\ ps'[p].state = "starting" /\ ps'[p].generation = g /\ ps'[p].part = ps[p].part
       /\ SameQueue(p)
  <2>. HIDE DEF g
  <2>. QED  BY <1>2, <1>10, SlotTypes DEF Slot, SameQueue, SameWriter
<1>. QED  BY <1>1, <1>3, <1>5, <1>9, <1>10, <1>11 DEF SameDisk

\* recover picks a number above the header's and above those of all lists.
LEMMA NextSequenceIs ==
  ASSUME TypeInv, NEW p \in Pageservers, ~Up(p)
  PROVE  /\ NextSequence(disk[p]) \in Nat \ {0}
         /\ disk[p].header < NextSequence(disk[p])
         /\ \A l \in disk[p].lists : l.sequence < NextSequence(disk[p])
<1>. DEFINE h == disk[p].header
            L == disk[p].lists
            S == {h + 1} \cup {l.sequence + 1 : l \in L}
<1>1. h \in Nat /\ L \subseteq List
  BY SlotTypes DEF TypeInv
<1>2. PICK n \in Nat : \A l \in L : l.sequence < n
  BY DEF TypeInv, SequenceInv, SequenceOK
<1>3. \A l \in L : l.sequence \in Nat
  BY <1>1 DEF List
<1>4. S \in SUBSET Nat /\ S # {} /\ h + n + 1 \in Nat /\ \A x \in S : x <= h + n + 1
  BY <1>1, <1>2, <1>3
<1>5. Max(S) \in S /\ \A y \in S : y <= Max(S)
  <2>. HIDE DEF S
  <2>. QED  BY <1>4, MaxIs
<1>6. NextSequence(disk[p]) = Max(S)
  BY DEF NextSequence
<1>7. Max(S) \in Nat /\ h + 1 <= Max(S) /\ \A l \in L : l.sequence + 1 <= Max(S)
  BY <1>4, <1>5
<1>. HIDE DEF S
<1>. QED  BY <1>1, <1>3, <1>6, <1>7

LEMMA RecoveredListIs ==
  ASSUME NEW l \in List, NEW h \in Nat, NEW g \in GenerationsOr0
  PROVE  LET r == RecoveredList(l, h, g)
         IN  /\ r \in List /\ r.sequence = l.sequence /\ r.objects = l.objects
             /\ r.validated <=> l.validated \/ l.sequence <= h
             /\ r.generation = l.generation \/ (l.generation = g - 1 /\ r.generation = g /\ g # 0)
<1>1. CASE l.sequence <= h
  BY <1>1 DEF RecoveredList, List
<1>2. CASE ~(l.sequence <= h)
  <2>1. l.generation \in Nat /\ g \in Nat
    BY ConstTypes DEF List, GenerationsOr0
  <2>2. CASE l.generation = g - 1
    BY <1>2, <2>1, <2>2 DEF RecoveredList, List, GenerationsOr0
  <2>3. CASE l.generation # g - 1
    BY <1>2, <2>1, <2>3 DEF RecoveredList, List
  <2>. QED  BY <2>2, <2>3
<1>. QED  BY <1>1, <1>2

LEMMA ReAttachReplyFields ==
  ASSUME TypeInv, NEW p \in Pageservers, ReAttachReply(p)
  PROVE  LET g == ps[p].generation
         IN  /\ Frame(p) /\ SameDisk(p) /\ Starting(p) /\ ps'[p].state = "up"
             /\ UNCHANGED <<row, op, requests, storageVars, bounds>>
             /\ generation' = Max({generation, g}) /\ ps'[p].generation = g
             /\ ps'[p].part = IF g = 0 THEN NoIndex ELSE download_index_part(g)
             /\ ps'[p].pending = DeletionList(NextSequence(disk[p]), 0, {})
             /\ ps'[p].channel = {RecoveredList(l, disk[p].header, g) : l \in disk[p].lists}
             /\ ps'[p].lsnTable = NoUpdate /\ ps'[p].validator = IdleValidator(FALSE)
<1>. DEFINE g == ps[p].generation
            c == {RecoveredList(l, disk[p].header, g) : l \in disk[p].lists}
            part == IF g = 0 THEN NoIndex ELSE download_index_part(g)
            pending == DeletionList(NextSequence(disk[p]), 0, {})
            s == [Down EXCEPT !.state = "up", !.pending = pending, !.channel = c,
                              !.generation = g, !.part = part]
<1>1. /\ Starting(p) /\ generation' = Max({generation, g}) /\ UNCHANGED <<row, op, requests>>
      /\ ps' = [ps EXCEPT ![p] = IF g = 0 THEN Recovered(disk[p], 0)
                                 ELSE Attached(Recovered(disk[p], g), g)]
      /\ UNCHANGED <<storageVars, disk, bounds>>
  BY DEF ReAttachReply, re_attach_reply, Starting, storageVars
<1>2. Types /\ index[1] # NoIndex /\ ~Up(p) /\ g \in GenerationsOr0
  BY <1>1, SlotTypes DEF TypeInv, LsnInv, Starting, Up
<1>3. pending \in List
  BY <1>2, NextSequenceIs, ConstTypes
<1>4. c \subseteq List
  <2>1. ASSUME NEW l \in disk[p].lists PROVE RecoveredList(l, disk[p].header, g) \in List
    <3>1. l \in List /\ disk[p].header \in Nat
      BY <1>2, SlotTypes
    <3>. QED  BY <1>2, <3>1, RecoveredListIs
  <2>. QED  BY <2>1
<1>5. part \in IndexPart
  <2>1. CASE g = 0
    BY <2>1, ConstTypes
  <2>2. CASE g # 0
    BY <1>2, <2>2, DownloadIs, ConstTypes
  <2>. QED  BY <2>1, <2>2
<1>6. Down \in Slot /\ Down.generation = 0 /\ Down.part = NoIndex
      /\ Down.lsnTable = NoUpdate /\ Down.validator = IdleValidator(FALSE)
  BY ConstTypes DEF Down
<1>7. ps' = [ps EXCEPT ![p] = s]
  <2>1. CASE g = 0
    <3>. HIDE DEF g
    <3>1. s = [Down EXCEPT !.state = "up", !.pending = pending, !.channel = c]
      <4>. HIDE DEF c, pending
      <4>. QED  BY <1>6, <2>1 DEF Slot
    <3>2. Recovered(disk[p], 0) = s
      BY <2>1, <3>1 DEF Recovered
    <3>. QED  BY <1>1, <2>1, <3>2 DEF g
  <2>2. CASE g # 0
    <3>. HIDE DEF g
    <3>1. s = [[Down EXCEPT !.state = "up", !.pending = pending, !.channel = c]
                  EXCEPT !.generation = g, !.part = download_index_part(g)]
      <4>. HIDE DEF c, pending
      <4>. QED  BY <1>6, <2>2 DEF Slot
    <3>2. Attached(Recovered(disk[p], g), g) = s
      BY <3>1 DEF Recovered, Attached
    <3>. QED  BY <1>1, <2>2, <3>2 DEF g
  <2>. QED  BY <2>1, <2>2
<1>8. /\ s \in Slot /\ s.state = "up" /\ s.generation = g /\ s.part = part /\ s.pending = pending
      /\ s.channel = c /\ s.lsnTable = NoUpdate /\ s.validator = IdleValidator(FALSE)
  <2>. HIDE DEF g, c, part, pending
  <2>. QED  BY <1>2, <1>3, <1>4, <1>5, <1>6 DEF Slot
<1>9. PICK d \in DiskType : d = disk[p] /\ disk' = [disk EXCEPT ![p] = d]
  BY <1>1, <1>2, SlotTypes DEF Types
<1>10. Frame(p) /\ ps'[p] = s /\ disk'[p] = d
  <2>. HIDE DEF s
  <2>1. s \in Slot
    BY <1>8
  <2>2. disk' = [disk EXCEPT ![p] = d]
    BY <1>9
  <2>3. Frame(p) /\ ps'[p] = s /\ disk'[p] = d
    BY <1>2, <1>7, <2>1, <2>2, SlotStep
  <2>. QED  BY <2>3
<1>11. SameDisk(p)
  BY <1>9, <1>10 DEF SameDisk
<1>. HIDE DEF s, c, part, pending
<1>. QED  BY <1>1, <1>8, <1>10, <1>11 DEF c, part, pending

\* The list writer's part of an upload: nothing, a push, or a flush and a push.
Kept(p) == SameWriter(p) /\ disk'[p].lists = disk[p].lists

PushedTo(p, list, old) ==
    /\ ps'[p].pending \in List /\ ~ps'[p].pending.validated
    /\ ps'[p].pending.sequence = list.sequence /\ ps'[p].pending.generation = ps[p].generation
    /\ ps'[p].pending.objects = list.objects \cup old

PushedDirectly(p, old) ==
    /\ ps[p].pending.objects = {} \/ ps[p].pending.generation = ps[p].generation
    /\ ps'[p].channel = ps[p].channel /\ disk'[p].lists = disk[p].lists
    /\ PushedTo(p, ps[p].pending, old)

PushedAfterFlush(p, old) ==
    /\ ps[p].pending.objects # {}
    /\ ps'[p].channel = ps[p].channel \cup {ps[p].pending}
    /\ disk'[p].lists = disk[p].lists \cup {ps[p].pending}
    /\ PushedTo(p, DeletionList(ps[p].pending.sequence + 1, 0, {}), old)

LEMMA PushLayersFields ==
  ASSUME Types, NEW p \in Pageservers, NEW s \in Slot, NEW O \in SUBSET Object,
         s.pending = ps[p].pending /\ s.channel = ps[p].channel /\ s.generation = ps[p].generation,
         ~s.pending.validated,
         push_layers(p, s, O)
  PROVE  /\ Frame(p) /\ disk'[p].header = disk[p].header /\ failures' \in 0 .. MaxFailures
         /\ ps'[p].state = s.state /\ ps'[p].generation = s.generation /\ ps'[p].part = s.part
         /\ ps'[p].lsnTable = s.lsnTable /\ ps'[p].validator = s.validator
         /\ Kept(p) \/ PushedDirectly(p, O) \/ PushedAfterFlush(p, O)
<1>1. /\ disk[p] \in DiskType /\ s.pending \in List /\ s.generation \in GenerationsOr0
      /\ disk \in [Pageservers -> DiskType] /\ ps \in [Pageservers -> Slot]
      /\ s.channel \subseteq List
  BY SlotTypes DEF Slot, Types, DiskType
<1>2. failures \in 0 .. MaxFailures /\ MaxFailures \in Nat
  BY QueueAssumption DEF Types
<1>3. CASE /\ Accepts(s.pending, s.generation)
           /\ ps' = [ps EXCEPT ![p] = Pushed(s, O)]
           /\ UNCHANGED <<disk, failures>>
  <2>. DEFINE q == [s.pending EXCEPT !.generation = s.generation, !.objects = @ \cup O]
  <2>1. /\ q \in List /\ q.sequence = s.pending.sequence /\ q.generation = s.generation
        /\ q.objects = s.pending.objects \cup O /\ ~q.validated
    BY <1>1 DEF List, GenerationsOr0
  <2>2. Pushed(s, O) = [s EXCEPT !.pending = q]
    BY <1>1 DEF Pushed, Slot, List
  <2>. DEFINE u == [s EXCEPT !.pending = q]
  <2>3. /\ u \in Slot /\ u.pending = q /\ u.channel = s.channel
        /\ u.state = s.state /\ u.generation = s.generation /\ u.part = s.part
        /\ u.lsnTable = s.lsnTable /\ u.validator = s.validator
    <3>. HIDE DEF q
    <3>. QED  BY <2>1 DEF Slot
  <2>4. PICK d \in DiskType : d = disk[p] /\ disk' = [disk EXCEPT ![p] = d]
    BY <1>1, <1>3
  <2>5. Frame(p) /\ ps'[p] = u /\ disk'[p] = d
    <3>1. ps' = [ps EXCEPT ![p] = u]
      BY <1>3, <2>2
    <3>. HIDE DEF u
    <3>. QED  BY <2>3, <2>4, <3>1, SlotStep
  <2>6. s.pending.objects = {} \/ s.pending.generation = s.generation
    BY <1>3 DEF Accepts
  <2>. HIDE DEF q, u
  <2>7. PushedDirectly(p, O)
    BY <2>1, <2>3, <2>4, <2>5, <2>6 DEF PushedDirectly, PushedTo
  <2>8. failures' \in 0 .. MaxFailures
    BY <1>2, <1>3
  <2>. QED  BY <2>3, <2>4, <2>5, <2>7, <2>8
<1>4. CASE /\ ~Accepts(s.pending, s.generation)
           /\ ps' = [ps EXCEPT ![p] = Pushed(Flushed(s), O)]
           /\ disk' = [disk EXCEPT ![p].lists = @ \cup {s.pending}]
           /\ UNCHANGED failures
  <2>. DEFINE e == DeletionList(s.pending.sequence + 1, 0, {})
              q == [e EXCEPT !.generation = s.generation, !.objects = @ \cup O]
              c == s.channel \cup {s.pending}
              u == [s EXCEPT !.pending = q, !.channel = c]
              d == [disk[p] EXCEPT !.lists = @ \cup {s.pending}]
  <2>1. e \in List /\ ~e.validated
    <3>1. s.pending.sequence + 1 \in Nat \ {0}
      BY <1>1 DEF List
    <3>. QED  BY <3>1, ConstTypes DEF DeletionList
  <2>2. /\ q \in List /\ q.sequence = e.sequence /\ q.generation = s.generation
        /\ q.objects = e.objects \cup O /\ ~q.validated
    <3>. HIDE DEF e
    <3>. QED  BY <1>1, <2>1 DEF List, GenerationsOr0
  <2>3. Pushed(Flushed(s), O) = u
    <3>1. Flushed(s) = [s EXCEPT !.channel = c, !.pending = e]
      BY DEF Flushed
    <3>2. Pushed([s EXCEPT !.channel = c, !.pending = e], O) = u
      <4>. HIDE DEF e, c
      <4>. QED  BY <1>1, <2>1 DEF Pushed, Slot, List
    <3>. QED  BY <3>1, <3>2
  <2>4. /\ u \in Slot /\ u.pending = q /\ u.channel = c
        /\ u.state = s.state /\ u.generation = s.generation /\ u.part = s.part
        /\ u.lsnTable = s.lsnTable /\ u.validator = s.validator
    <3>1. c \subseteq List
      BY <1>1
    <3>. HIDE DEF q, c
    <3>. QED  BY <2>2, <3>1 DEF Slot
  <2>5. /\ d \in DiskType /\ d.lists = disk[p].lists \cup {s.pending}
        /\ d.header = disk[p].header
    BY <1>1 DEF DiskType
  <2>6. disk' = [disk EXCEPT ![p] = d] /\ ps' = [ps EXCEPT ![p] = u]
    <3>. HIDE DEF u
    <3>. QED  BY <1>1, <1>4, <2>3
  <2>7. Frame(p) /\ ps'[p] = u /\ disk'[p] = d
    <3>. HIDE DEF u, d
    <3>1. u \in Slot
      BY <2>4
    <3>2. d \in DiskType
      BY <2>5
    <3>. QED  BY <2>6, <3>1, <3>2, SlotStep
  <2>. HIDE DEF q, u, d
  <2>8. PushedAfterFlush(p, O)
    <3>1. ps[p].pending.objects # {}
      BY <1>4 DEF Accepts
    <3>. QED  BY <2>2, <2>4, <2>5, <2>7, <3>1 DEF PushedAfterFlush, PushedTo
  <2>9. failures' \in 0 .. MaxFailures
    BY <1>2, <1>4
  <2>. QED  BY <2>4, <2>5, <2>7, <2>8, <2>9
<1>5. CASE /\ failures < MaxFailures
           /\ failures' = failures + 1
           /\ ps' = [ps EXCEPT ![p] = s]
           /\ UNCHANGED disk
  <2>1. PICK d \in DiskType : d = disk[p] /\ disk' = [disk EXCEPT ![p] = d]
    BY <1>1, <1>5
  <2>2. Frame(p) /\ ps'[p] = s /\ disk'[p] = d
    BY <1>5, <2>1, SlotStep
  <2>3. failures' \in 0 .. MaxFailures
    BY <1>2, <1>5
  <2>4. Kept(p)
    BY <2>1, <2>2 DEF Kept, SameWriter
  <2>. QED  BY <2>1, <2>2, <2>3, <2>4
<1>. QED  BY <1>3, <1>4, <1>5 DEF push_layers

NewLayer(p) == <<ps[p].generation, ps[p].part.lsn + 1>>
NewPart(p, kept) == [layers |-> kept \cup {NewLayer(p)}, lsn |-> ps[p].part.lsn + 1]

LEMMA UploadFields ==
  ASSUME TypeInv, NEW p \in Pageservers, UploadIndex(p)
  PROVE  /\ Frame(p) /\ Holds(p) /\ ps'[p].state = "up"
         /\ ps[p].generation \in Generations /\ ps'[p].generation = ps[p].generation
         /\ UNCHANGED <<serviceVars, visible, crashes>>
         /\ uploads' = uploads + 1 /\ uploads' \in 0 .. MaxUploads
         /\ failures' \in 0 .. MaxFailures
         /\ NewLayer(p) \in Object /\ objects' = objects \cup {NewLayer(p)}
         /\ disk'[p].header = disk[p].header /\ ps'[p].validator = ps[p].validator
         /\ \E kept \in SUBSET Object :
              /\ kept \subseteq ps[p].part.layers
              /\ NewPart(p, kept) \in IndexPart
              /\ index' = [index EXCEPT ![ps[p].generation] = NewPart(p, kept)]
              /\ ps'[p].part = NewPart(p, kept)
              /\ ps'[p].lsnTable = [generation |-> ps[p].generation, lsn |-> ps[p].part.lsn + 1]
              /\ \/ Kept(p)
                 \/ /\ kept = {}
                    /\ \/ PushedDirectly(p, ps[p].part.layers)
                       \/ PushedAfterFlush(p, ps[p].part.layers)
<1>. DEFINE g == ps[p].generation
            old == ps[p].part
<1>1. Types /\ old \in IndexPart /\ ps[p] \in Slot /\ ~ps[p].pending.validated
  BY SlotTypes DEF TypeInv, SequenceInv, SequenceOK
<1>2. /\ Holds(p) /\ uploads < MaxUploads /\ uploads' = uploads + 1
      /\ objects' = objects \cup {NewLayer(p)} /\ UNCHANGED <<serviceVars, visible, crashes>>
  BY DEF UploadIndex, NewLayer
<1>3. g \in Generations /\ g \in GenerationsOr0
  BY <1>1, <1>2, SlotTypes, ConstTypes DEF Holds
<1>4. /\ old.lsn \in Nat /\ old.lsn <= uploads /\ uploads' \in 0 .. MaxUploads
      /\ old.lsn + 1 \in 0 .. MaxUploads /\ old.layers \in SUBSET Object
  <2>1. old.lsn \in Nat /\ old.lsn <= uploads /\ old.layers \in SUBSET Object
    BY <1>1, ConstTypes DEF IndexPart, TypeInv, LsnInv
  <2>2. uploads \in Nat /\ MaxUploads \in Nat
    BY <1>1, QueueAssumption DEF Types
  <2>. QED  BY <1>2, <2>1, <2>2
<1>5. NewLayer(p) \in Object
  BY <1>3, <1>4 DEF NewLayer, Object
<1>6. PICK kept \in {{}, old.layers} :
        LET part == NewPart(p, kept)
            slot == [ps[p] EXCEPT !.part = part,
                                  !.lsnTable = [generation |-> g, lsn |-> part.lsn]]
        IN  /\ index' = [index EXCEPT ![g] = part]
            /\ IF kept = {}
               THEN push_layers(p, slot, old.layers)
               ELSE ps' = [ps EXCEPT ![p] = slot] /\ UNCHANGED <<disk, failures>>
  BY DEF UploadIndex, NewPart, NewLayer
<1>. DEFINE part == NewPart(p, kept)
            t == [generation |-> g, lsn |-> old.lsn + 1]
            slot == [ps[p] EXCEPT !.part = part, !.lsnTable = t]
<1>7. /\ part \in IndexPart /\ part.lsn = old.lsn + 1 /\ kept \in SUBSET Object
      /\ kept \subseteq old.layers
  BY <1>4, <1>5, <1>6 DEF NewPart, IndexPart
<1>8. t \in Update
  BY <1>3, <1>4 DEF Update
<1>9. /\ slot \in Slot /\ slot.part = part /\ slot.lsnTable = t /\ slot.state = ps[p].state
      /\ slot.generation = g /\ slot.pending = ps[p].pending /\ slot.channel = ps[p].channel
      /\ slot.validator = ps[p].validator
  <2>. HIDE DEF part, t
  <2>. QED  BY <1>1, <1>7, <1>8 DEF Slot
<1>10. /\ index' = [index EXCEPT ![g] = part]
       /\ kept = {} => push_layers(p, slot, old.layers)
       /\ kept # {} => ps' = [ps EXCEPT ![p] = slot] /\ UNCHANGED <<disk, failures>>
  BY <1>6, <1>7
<1>11. /\ Frame(p) /\ disk'[p].header = disk[p].header /\ failures' \in 0 .. MaxFailures
       /\ ps'[p].state = slot.state /\ ps'[p].generation = slot.generation
       /\ ps'[p].part = slot.part
       /\ ps'[p].lsnTable = slot.lsnTable /\ ps'[p].validator = slot.validator
       /\ \/ Kept(p)
          \/ kept = {} /\ (PushedDirectly(p, old.layers) \/ PushedAfterFlush(p, old.layers))
  <2>. HIDE DEF slot
  <2>1. CASE kept = {}
    BY <1>1, <1>4, <1>9, <1>10, <2>1, PushLayersFields
  <2>2. CASE kept # {}
    <3>1. PICK d \in DiskType : d = disk[p] /\ disk' = [disk EXCEPT ![p] = d]
      BY <1>1, <1>10, <2>2, SlotTypes DEF Types
    <3>2. ps' = [ps EXCEPT ![p] = slot]
      BY <1>10, <2>2
    <3>3. Frame(p) /\ ps'[p] = slot /\ disk'[p] = d
      BY <1>1, <1>9, <3>1, <3>2, SlotStep
    <3>4. failures' \in 0 .. MaxFailures
      BY <1>1, <1>10, <2>2 DEF Types
    <3>5. Kept(p)
      BY <1>9, <3>1, <3>3 DEF Kept, SameWriter
    <3>. QED  BY <3>1, <3>3, <3>4, <3>5
  <2>. QED  BY <2>1, <2>2
<1>12. ps[p].state = "up"
  BY <1>2 DEF Holds, Up
<1>. HIDE DEF slot
<1>. QED  BY <1>2, <1>3, <1>4, <1>5, <1>7, <1>9, <1>10, <1>11, <1>12

-----------------------------------------------------------------------------
(***************************************************************************)
(* Types, bounds and sequence numbers are preserved.                       *)
(***************************************************************************)
LEMMA FrameSequence ==
  ASSUME SequenceInv, NEW p \in Pageservers, Frame(p), SequenceOK(p)'
  PROVE  SequenceInv'
<1>1. ASSUME NEW q \in Pageservers, q # p PROVE SequenceOK(q)'
  <2>1. SequenceOK(q) /\ ps'[q] = ps[q] /\ disk'[q] = disk[q]
    BY <1>1 DEF SequenceInv, Frame
  <2>. QED  BY <2>1 DEF SequenceOK, Up, Handed
<1>. QED  BY <1>1 DEF SequenceInv

LEMMA FrameCount ==
  ASSUME CountInv, NEW p \in Pageservers, Frame(p),
         ps[p].state = "down" <=> ps'[p].state = "down",
         row'.generation = row.generation, crashes' = crashes
  PROVE  CountInv'
<1>1. DownSet' = DownSet
  BY DEF Frame, DownSet
<1>. QED  BY <1>1 DEF CountInv

LEMMA FrameLsn ==
  ASSUME LsnInv, NEW p \in Pageservers, Frame(p), UNCHANGED <<index, uploads>>,
         ps'[p].part.lsn <= uploads
  PROVE  LsnInv'
BY DEF LsnInv, Frame

BoundTypes == uploads \in 0 .. MaxUploads /\ crashes \in 0 .. MaxCrashes /\ failures \in 0 .. MaxFailures

LEMMA FrameTypes ==
  ASSUME NEW p \in Pageservers, Frame(p), ServiceType', StorageType', BoundTypes'
  PROVE  Types'
BY DEF Types, Frame, BoundTypes, DiskType

\* A step of pageserver p that leaves its holding of the tenant alone.
LEMMA QueueStepTypes ==
  ASSUME TypeInv, NEW p \in Pageservers, Frame(p), SameHolder(p),
         UNCHANGED <<serviceVars, index, uploads, crashes>>,
         objects' \subseteq Object, visible' \in 0 .. MaxUploads, failures' \in 0 .. MaxFailures,
         SequenceOK(p)'
  PROVE  TypeInv'
<1>1. ServiceType'
  BY DEF TypeInv, Types, ServiceType, serviceVars
<1>2. StorageType' /\ BoundTypes'
  BY DEF TypeInv, Types, StorageType, BoundTypes
<1>3. Types'
  BY <1>1, <1>2, FrameTypes
<1>4. row' = row
  BY DEF serviceVars
<1>5. CountInv'
  BY <1>4, FrameCount DEF TypeInv, SameHolder
<1>6. ps[p].part.lsn <= uploads
  BY DEF TypeInv, LsnInv
<1>7. LsnInv'
  BY <1>6, FrameLsn DEF TypeInv, SameHolder
<1>8. SequenceInv'
  BY FrameSequence DEF TypeInv
<1>. QED  BY <1>3, <1>5, <1>7, <1>8 DEF TypeInv

\* The validator's lists are replaced by lists with numbers that were there.
LEMMA ValidatorSequence ==
  ASSUME TypeInv, NEW p \in Pageservers, ValidatorOnly(p), Up(p),
         disk'[p].header < ps[p].pending.sequence,
         \A l \in ps'[p].validator.pending \cup ps'[p].validator.validated :
            \E k \in ps[p].validator.pending \cup ps[p].validator.validated : k.sequence = l.sequence,
         \A d \in disk'[p].lists :
            \E k \in disk[p].lists \cup ps[p].validator.pending : k.sequence = d.sequence
  PROVE  SequenceOK(p)'
<1>1. SequenceOK(p) /\ Up(p)'
  BY DEF TypeInv, SequenceInv, ValidatorOnly, SameHolder, Up
<1>2. /\ ps'[p].pending = ps[p].pending /\ ps'[p].channel = ps[p].channel
  BY DEF ValidatorOnly, SameWriter
<1>3. \A l \in Handed(p) \cup disk[p].lists : l.sequence < ps[p].pending.sequence
  BY <1>1 DEF SequenceOK
<1>4. \A l \in Handed(p)' \cup disk'[p].lists : l.sequence < ps[p].pending.sequence
  BY <1>2, <1>3 DEF Handed
<1>5. \A c \in ps[p].channel : \A l \in ps'[p].validator.pending \cup ps'[p].validator.validated :
         l.sequence < c.sequence
  BY <1>1 DEF SequenceOK
<1>6. ~ps[p].pending.validated
  BY <1>1 DEF SequenceOK
<1>. QED  BY <1>1, <1>2, <1>4, <1>5, <1>6 DEF SequenceOK

LEMMA BusyIsUp ==
  ASSUME TypeInv, NEW p \in Pageservers, ps[p].validator.at # "idle"
  PROVE  Up(p) /\ disk[p].header < ps[p].pending.sequence
<1>1. SequenceOK(p)
  BY DEF TypeInv, SequenceInv
<1>2. Up(p)
  BY <1>1 DEF SequenceOK, IdleValidator
<1>. QED  BY <1>1, <1>2 DEF SequenceOK

LEMMA FlushListTypes ==
  ASSUME TypeInv, NEW p \in Pageservers, FlushList(p)
  PROVE  TypeInv'
<1>1. Types /\ SequenceOK(p)
  BY DEF TypeInv, SequenceInv
<1>2. /\ Frame(p) /\ Up(p) /\ SameHolder(p)
      /\ UNCHANGED <<serviceVars, storageVars, bounds>>
      /\ ps'[p].lsnTable = ps[p].lsnTable /\ ps'[p].validator = ps[p].validator
      /\ ps'[p].channel = ps[p].channel \cup {ps[p].pending}
      /\ ps'[p].pending = DeletionList(ps[p].pending.sequence + 1, 0, {})
      /\ disk'[p].lists = disk[p].lists \cup {ps[p].pending}
      /\ disk'[p].header = disk[p].header
  BY <1>1, FlushListFields
<1>. DEFINE n == ps[p].pending.sequence
<1>3. /\ n \in Nat /\ disk[p].header \in Nat /\ \A l \in Handed(p) \cup disk[p].lists : l.sequence \in Nat
      /\ ps'[p].pending.sequence = n + 1 /\ ~ps'[p].pending.validated
  BY <1>1, <1>2, SlotTypes DEF Handed, List, DeletionList
<1>4. disk[p].header < n /\ \A l \in Handed(p) \cup disk[p].lists : l.sequence < n
  BY <1>1, <1>2 DEF SequenceOK
<1>5. disk[p].header < n + 1 /\ n < n + 1 /\ \A l \in Handed(p) \cup disk[p].lists : l.sequence < n + 1
  BY <1>3, <1>4
<1>6. \A l \in Handed(p)' \cup disk'[p].lists : l.sequence < n + 1
  BY <1>2, <1>5 DEF Handed
<1>7. \A c \in ps'[p].channel :
        \A l \in ps[p].validator.pending \cup ps[p].validator.validated : l.sequence < c.sequence
  BY <1>1, <1>2, <1>4 DEF SequenceOK, Handed
<1>8. SequenceOK(p)'
  <2>1. Up(p)'
    BY <1>2 DEF Up, SameHolder
  <2>. QED  BY <2>1, <1>2, <1>3, <1>5, <1>6, <1>7 DEF SequenceOK
<1>9. /\ UNCHANGED <<index, uploads, crashes>> /\ objects' \subseteq Object
      /\ visible' \in 0 .. MaxUploads /\ failures' \in 0 .. MaxFailures
  BY <1>1, <1>2 DEF storageVars, bounds, Types, StorageType
<1>. QED  BY <1>2, <1>8, <1>9, QueueStepTypes

LEMMA ValidatorFlushTypes ==
  ASSUME TypeInv, NEW p \in Pageservers, ValidatorFlush(p)
  PROVE  TypeInv'
<1>1. Types /\ SequenceOK(p)
  BY DEF TypeInv, SequenceInv
<1>2. /\ Frame(p) /\ Up(p) /\ SameHolder(p) /\ SameDisk(p)
      /\ UNCHANGED <<serviceVars, storageVars, bounds>>
      /\ ps'[p].channel = {} /\ ps'[p].pending = ps[p].pending
      /\ ps'[p].validator.pending = {l \in ps[p].channel : ~l.validated}
      /\ ps'[p].validator.validated = {l \in ps[p].channel : l.validated}
  BY ValidatorFlushFields
<1>3. SequenceOK(p)'
  <2>1. Up(p)' /\ Handed(p)' \subseteq Handed(p)
    BY <1>2 DEF Up, SameHolder, Handed
  <2>. QED  BY <2>1, <1>1, <1>2 DEF SequenceOK, SameDisk
<1>4. /\ UNCHANGED <<index, uploads, crashes>> /\ objects' \subseteq Object
      /\ visible' \in 0 .. MaxUploads /\ failures' \in 0 .. MaxFailures
  BY <1>1, <1>2 DEF storageVars, bounds, Types, StorageType
<1>. QED  BY <1>2, <1>3, <1>4, QueueStepTypes

LEMMA ValidateAnswerTypes ==
  ASSUME TypeInv, NEW p \in Pageservers, ValidateAnswer(p)
  PROVE  TypeInv'
<1>1. Types
  BY DEF TypeInv
<1>2. /\ ValidatorOnly(p) /\ SameDisk(p) /\ UNCHANGED <<serviceVars, storageVars, bounds>>
      /\ ps[p].validator.at = "asked"
      /\ ps'[p].validator = [ps[p].validator EXCEPT
            !.at = "answered", !.valid = (generation = ps[p].validator.asked)]
  BY <1>1, ValidateAnswerFields
<1>3. ps[p].validator \in ValidatorType
  BY <1>1, SlotTypes
<1>4. /\ ps'[p].validator.pending = ps[p].validator.pending
      /\ ps'[p].validator.validated = ps[p].validator.validated
  BY <1>2, <1>3 DEF ValidatorType
<1>5. Up(p) /\ disk'[p].header < ps[p].pending.sequence
  BY <1>2, BusyIsUp DEF SameDisk
<1>6. SequenceOK(p)'
  BY <1>2, <1>4, <1>5, ValidatorSequence DEF SameDisk
<1>7. /\ UNCHANGED <<index, uploads, crashes>> /\ objects' \subseteq Object
      /\ visible' \in 0 .. MaxUploads /\ failures' \in 0 .. MaxFailures
  BY <1>1, <1>2 DEF storageVars, bounds, Types, StorageType
<1>. QED  BY <1>2, <1>6, <1>7, QueueStepTypes DEF ValidatorOnly

LEMMA ApplyLsnTypes ==
  ASSUME TypeInv, NEW p \in Pageservers, ApplyLsn(p)
  PROVE  TypeInv'
<1>1. Types
  BY DEF TypeInv
<1>2. /\ ValidatorOnly(p) /\ SameDisk(p) /\ UNCHANGED <<serviceVars, index, objects, bounds>>
      /\ ps[p].validator.at = "answered" /\ visible' \in 0 .. MaxUploads
      /\ ps'[p].validator = [ps[p].validator EXCEPT !.at = "saving"]
  BY <1>1, ApplyLsnFields
<1>3. ps[p].validator \in ValidatorType
  BY <1>1, SlotTypes
<1>4. /\ ps'[p].validator.pending = ps[p].validator.pending
      /\ ps'[p].validator.validated = ps[p].validator.validated
  BY <1>2, <1>3 DEF ValidatorType
<1>5. Up(p) /\ disk'[p].header < ps[p].pending.sequence
  BY <1>2, BusyIsUp DEF SameDisk
<1>6. SequenceOK(p)'
  BY <1>2, <1>4, <1>5, ValidatorSequence DEF SameDisk
<1>7. /\ UNCHANGED <<uploads, crashes>> /\ objects' \subseteq Object /\ failures' \in 0 .. MaxFailures
  BY <1>1, <1>2 DEF bounds, Types, StorageType
<1>. QED  BY <1>2, <1>6, <1>7, QueueStepTypes DEF ValidatorOnly

LEMMA ExecuteTypes ==
  ASSUME TypeInv, NEW p \in Pageservers, Execute(p)
  PROVE  TypeInv'
<1>1. Types
  BY DEF TypeInv
<1>2. /\ ValidatorOnly(p) /\ SameDisk(p) /\ UNCHANGED <<serviceVars, index, visible, bounds>>
      /\ ps[p].validator.at = "execute" /\ objects' \subseteq objects
      /\ ps'[p].validator = [ps[p].validator EXCEPT !.at = "cleanup"]
  BY <1>1, ExecuteFields
<1>3. ps[p].validator \in ValidatorType
  BY <1>1, SlotTypes
<1>4. /\ ps'[p].validator.pending = ps[p].validator.pending
      /\ ps'[p].validator.validated = ps[p].validator.validated
  BY <1>2, <1>3 DEF ValidatorType
<1>5. Up(p) /\ disk'[p].header < ps[p].pending.sequence
  BY <1>2, BusyIsUp DEF SameDisk
<1>6. SequenceOK(p)'
  BY <1>2, <1>4, <1>5, ValidatorSequence DEF SameDisk
<1>7. /\ UNCHANGED <<uploads, crashes>> /\ objects' \subseteq Object
      /\ visible' \in 0 .. MaxUploads /\ failures' \in 0 .. MaxFailures
  BY <1>1, <1>2 DEF bounds, Types, StorageType
<1>. QED  BY <1>2, <1>6, <1>7, QueueStepTypes DEF ValidatorOnly

LEMMA SaveListTypes ==
  ASSUME TypeInv, NEW p \in Pageservers, SaveList(p)
  PROVE  TypeInv'
<1>1. Types
  BY DEF TypeInv
<1>. DEFINE v == ps[p].validator
<1>2. /\ ValidatorOnly(p) /\ UNCHANGED <<serviceVars, storageVars, uploads, crashes>>
      /\ failures' \in 0 .. MaxFailures
      /\ v.at = "saving" /\ disk'[p].header = disk[p].header
  BY <1>1, SaveListFields
<1>3. PICK l \in v.pending, w \in BOOLEAN :
        /\ KeptList(l, v) \in List
        /\ ps'[p].validator = [v EXCEPT !.pending = (@ \ {l}) \cup {KeptList(l, v)}, !.writeFailed = w]
        /\ \/ disk'[p].lists = disk[p].lists
           \/ disk'[p].lists = {d \in disk[p].lists : d.sequence # l.sequence} \cup {KeptList(l, v)}
  <2>1. PICK l \in ps[p].validator.pending, w \in BOOLEAN :
          LET k == KeptList(l, ps[p].validator)
          IN  /\ k \in List
              /\ ps'[p].validator =
                    [ps[p].validator EXCEPT !.pending = (@ \ {l}) \cup {k}, !.writeFailed = w]
              /\ \/ ListValid(l, ps[p].validator) /\ disk'[p].lists = disk[p].lists
                    /\ w = ps[p].validator.writeFailed
                 \/ /\ ~ListValid(l, ps[p].validator) /\ w = ps[p].validator.writeFailed
                    /\ disk'[p].lists = {d \in disk[p].lists : d.sequence # l.sequence}
                                           \cup {k}
                 \/ ~ListValid(l, ps[p].validator) /\ disk'[p].lists = disk[p].lists /\ w = TRUE
    BY <1>1, SaveListFields
  <2>. WITNESS l \in v.pending, w \in BOOLEAN
  <2>. QED  BY <2>1
<1>4. v \in ValidatorType /\ l \in List
  BY <1>1, <1>3, SlotTypes
<1>5. KeptList(l, v).sequence = l.sequence
  BY <1>4 DEF KeptList, List
<1>6. /\ ps'[p].validator.pending = (v.pending \ {l}) \cup {KeptList(l, v)}
      /\ ps'[p].validator.validated = v.validated
  <2>. HIDE DEF v
  <2>. QED  BY <1>3, <1>4 DEF ValidatorType
<1>7. Up(p) /\ disk'[p].header < ps[p].pending.sequence
  BY <1>2, BusyIsUp
<1>8. \A k \in ps'[p].validator.pending \cup ps'[p].validator.validated :
        \E m \in v.pending \cup v.validated : m.sequence = k.sequence
  BY <1>3, <1>5, <1>6
<1>9. \A d \in disk'[p].lists : \E k \in disk[p].lists \cup v.pending : k.sequence = d.sequence
  BY <1>3, <1>5
<1>10. SequenceOK(p)'
  BY <1>2, <1>7, <1>8, <1>9, ValidatorSequence
<1>11. /\ UNCHANGED index /\ objects' \subseteq Object /\ visible' \in 0 .. MaxUploads
  BY <1>1, <1>2 DEF storageVars, Types, StorageType
<1>. QED  BY <1>2, <1>10, <1>11, QueueStepTypes DEF ValidatorOnly

LEMMA ValidatedIs ==
  ASSUME NEW v \in ValidatorType
  PROVE  /\ Validated(v) \in ValidatorType /\ Validated(v).writeFailed = v.writeFailed
         /\ Validated(v).pending = {} /\ Validated(v).validated = v.validated \cup v.pending
         /\ Validated(v).update = NoUpdate
         /\ Validated(v).at = "execute" \/ (Validated(v).at = "idle" /\ Validated(v).validated = {})
<1>1. v.writeFailed \in BOOLEAN /\ v.validated \cup v.pending \in SUBSET List
  BY DEF ValidatorType
<1>2. IdleValidator(v.writeFailed) \in ValidatorType
  BY <1>1, ConstTypes
<1>3. CASE v.validated \cup v.pending = {}
  BY <1>1, <1>2, <1>3 DEF Validated, IdleValidator
<1>4. CASE v.validated \cup v.pending # {}
  BY <1>1, <1>2, <1>4 DEF Validated, IdleValidator, ValidatorType, Phases
<1>. QED  BY <1>3, <1>4

LEMMA SaveHeaderTypes ==
  ASSUME TypeInv, NEW p \in Pageservers, SaveHeader(p)
  PROVE  TypeInv'
<1>1. Types /\ SequenceOK(p)
  BY DEF TypeInv, SequenceInv
<1>. DEFINE v == ps[p].validator
            last == LastOf(v.pending)
<1>2. /\ ValidatorOnly(p) /\ UNCHANGED <<serviceVars, storageVars, uploads, crashes>>
      /\ failures' \in 0 .. MaxFailures /\ v.at = "saving"
      /\ ps'[p].validator = Validated(v) /\ disk'[p].lists = disk[p].lists
      /\ disk'[p].header = disk[p].header \/ (last \in v.pending /\ disk'[p].header = last.sequence)
  BY <1>1, SaveHeaderFields
<1>3. v \in ValidatorType
  BY <1>1, SlotTypes
<1>4. ps'[p].validator.pending = {} /\ ps'[p].validator.validated = v.validated \cup v.pending
  BY <1>2, <1>3, ValidatedIs
<1>5. Up(p) /\ disk[p].header < ps[p].pending.sequence
  BY <1>2, BusyIsUp
<1>6. disk'[p].header < ps[p].pending.sequence
  <2>1. \A l \in v.pending : l.sequence < ps[p].pending.sequence
    BY <1>1, <1>5 DEF SequenceOK, Handed
  <2>. QED  BY <1>2, <1>5, <2>1
<1>7. \A k \in ps'[p].validator.pending \cup ps'[p].validator.validated :
        \E m \in v.pending \cup v.validated : m.sequence = k.sequence
  BY <1>4
<1>8. SequenceOK(p)'
  <2>. HIDE DEF last
  <2>. QED  BY <1>2, <1>5, <1>6, <1>7, ValidatorSequence
<1>9. /\ UNCHANGED index /\ objects' \subseteq Object /\ visible' \in 0 .. MaxUploads
  BY <1>1, <1>2 DEF storageVars, Types, StorageType
<1>. QED  BY <1>2, <1>8, <1>9, QueueStepTypes DEF ValidatorOnly

LEMMA CleanupTypes ==
  ASSUME TypeInv, NEW p \in Pageservers, cleanup_lists(p)
  PROVE  TypeInv'
<1>1. Types
  BY DEF TypeInv
<1>. DEFINE v == ps[p].validator
<1>2. /\ ValidatorOnly(p) /\ UNCHANGED <<serviceVars, storageVars, bounds>>
      /\ v.at = "cleanup" /\ disk'[p].header = disk[p].header
  BY <1>1, CleanupFields
<1>3. PICK l \in v.validated :
        /\ disk'[p].lists = {d \in disk[p].lists : d.sequence # l.sequence}
        /\ \/ ps'[p].validator = IdleValidator(v.writeFailed)
           \/ ps'[p].validator = [v EXCEPT !.validated = @ \ {l}]
  BY <1>1, CleanupFields
<1>4. v \in ValidatorType
  BY <1>1, SlotTypes
<1>5. /\ ps'[p].validator.pending \subseteq v.pending
      /\ ps'[p].validator.validated \subseteq v.validated
  <2>. HIDE DEF v
  <2>1. CASE ps'[p].validator = IdleValidator(v.writeFailed)
    BY <2>1 DEF IdleValidator
  <2>2. CASE ps'[p].validator = [v EXCEPT !.validated = @ \ {l}]
    BY <1>4, <2>2 DEF ValidatorType
  <2>. QED  BY <1>3, <2>1, <2>2
<1>6. Up(p) /\ disk'[p].header < ps[p].pending.sequence
  BY <1>2, BusyIsUp
<1>7. /\ \A k \in ps'[p].validator.pending \cup ps'[p].validator.validated :
           \E m \in v.pending \cup v.validated : m.sequence = k.sequence
      /\ \A d \in disk'[p].lists : \E k \in disk[p].lists \cup v.pending : k.sequence = d.sequence
  BY <1>3, <1>5
<1>8. SequenceOK(p)'
  BY <1>2, <1>6, <1>7, ValidatorSequence
<1>9. /\ UNCHANGED <<index, uploads, crashes>> /\ objects' \subseteq Object
      /\ visible' \in 0 .. MaxUploads /\ failures' \in 0 .. MaxFailures
  BY <1>1, <1>2 DEF storageVars, bounds, Types, StorageType
<1>. QED  BY <1>2, <1>8, <1>9, QueueStepTypes DEF ValidatorOnly

LEMMA UploadTypes ==
  ASSUME TypeInv, NEW p \in Pageservers, UploadIndex(p)
  PROVE  TypeInv'
<1>1. Types /\ SequenceOK(p) /\ LsnInv
  BY DEF TypeInv, SequenceInv
<1>. DEFINE g == ps[p].generation
            n == ps[p].pending.sequence
<1>2. /\ Frame(p) /\ Holds(p) /\ ps'[p].state = "up"
      /\ g \in Generations /\ ps'[p].generation = g
      /\ UNCHANGED <<serviceVars, visible, crashes>>
      /\ uploads' = uploads + 1 /\ uploads' \in 0 .. MaxUploads
      /\ failures' \in 0 .. MaxFailures
      /\ NewLayer(p) \in Object /\ objects' = objects \cup {NewLayer(p)}
      /\ disk'[p].header = disk[p].header /\ ps'[p].validator = ps[p].validator
  BY UploadFields
<1>3. PICK kept \in SUBSET Object :
        /\ NewPart(p, kept) \in IndexPart
        /\ index' = [index EXCEPT ![g] = NewPart(p, kept)]
        /\ ps'[p].part = NewPart(p, kept)
        /\ Kept(p) \/ PushedDirectly(p, ps[p].part.layers) \/ PushedAfterFlush(p, ps[p].part.layers)
  BY UploadFields
<1>4. Types'
  <2>1. ServiceType'
    BY <1>1, <1>2 DEF Types, ServiceType, serviceVars
  <2>2. StorageType'
    BY <1>1, <1>2, <1>3 DEF Types, StorageType
  <2>3. BoundTypes'
    BY <1>1, <1>2 DEF Types, BoundTypes
  <2>. QED  BY <1>2, <2>1, <2>2, <2>3, FrameTypes
<1>5. CountInv'
  BY <1>2, FrameCount DEF TypeInv, Holds, Up, serviceVars
<1>6. LsnInv'
  <2>1. /\ uploads \in Nat /\ ps[p].part.lsn \in Nat /\ ps[p].part.lsn <= uploads
        /\ \A h \in Generations : index[h].lsn \in Nat
        /\ \A q \in Pageservers : ps[q].part.lsn \in Nat
    <3>1. /\ \A h \in Generations : index[h] \in IndexPart
          /\ \A q \in Pageservers : ps[q].part \in IndexPart
      BY <1>1, SlotTypes DEF Types, StorageType
    <3>2. \A x \in IndexPart : x.lsn \in Nat
      BY ConstTypes DEF IndexPart
    <3>. QED  BY <1>1, <3>1, <3>2 DEF Types, LsnInv
  <2>2. /\ NewPart(p, kept).lsn = ps[p].part.lsn + 1 /\ NewPart(p, kept) # NoIndex
    BY DEF NewPart, NoIndex
  <2>3. index'[1] # NoIndex
    BY <1>1, <1>2, <1>3, <2>2, ConstTypes DEF LsnInv, Types, StorageType
  <2>4. ASSUME NEW h \in Generations PROVE index'[h].lsn <= uploads'
    <3>1. index'[h] = index[h] \/ index'[h] = NewPart(p, kept)
      BY <1>1, <1>2, <1>3 DEF Types, StorageType
    <3>2. index[h].lsn <= uploads
      BY <1>1 DEF LsnInv
    <3>. QED  BY <1>2, <2>1, <2>2, <3>1, <3>2
  <2>5. ASSUME NEW q \in Pageservers PROVE ps'[q].part.lsn <= uploads'
    <3>1. ps'[q].part = ps[q].part \/ ps'[q].part = NewPart(p, kept)
      BY <1>2, <1>3 DEF Frame
    <3>2. ps[q].part.lsn <= uploads
      BY <1>1 DEF LsnInv
    <3>. QED  BY <1>2, <2>1, <2>2, <3>1, <3>2
  <2>. QED  BY <2>3, <2>4, <2>5 DEF LsnInv
<1>7. SequenceOK(p)'
  <2>1. Up(p) /\ Up(p)'
    BY <1>2 DEF Holds, Up
  <2>2. /\ n \in Nat /\ disk[p].header \in Nat
        /\ \A l \in Handed(p) \cup disk[p].lists : l.sequence \in Nat
    BY <1>1, SlotTypes DEF Handed, List
  <2>3. disk[p].header < n /\ \A l \in Handed(p) \cup disk[p].lists : l.sequence < n
    BY <1>1, <2>1 DEF SequenceOK
  <2>4. CASE Kept(p)
    <3>1. ps'[p].pending = ps[p].pending /\ ps'[p].channel = ps[p].channel
          /\ disk'[p].lists = disk[p].lists
      BY <2>4 DEF Kept, SameWriter
    <3>. QED  BY <1>1, <1>2, <2>1, <3>1 DEF SequenceOK, Handed
  <2>5. CASE PushedDirectly(p, ps[p].part.layers)
    <3>1. /\ ps'[p].channel = ps[p].channel /\ disk'[p].lists = disk[p].lists
          /\ ps'[p].pending.sequence = n /\ ~ps'[p].pending.validated
      BY <2>5 DEF PushedDirectly, PushedTo
    <3>. QED  BY <1>1, <1>2, <2>1, <3>1 DEF SequenceOK, Handed
  <2>6. CASE PushedAfterFlush(p, ps[p].part.layers)
    <3>1. /\ ps'[p].channel = ps[p].channel \cup {ps[p].pending}
          /\ disk'[p].lists = disk[p].lists \cup {ps[p].pending}
          /\ ps'[p].pending.sequence = n + 1 /\ ~ps'[p].pending.validated
      BY <2>6 DEF PushedAfterFlush, PushedTo, DeletionList
    <3>2. disk[p].header < n + 1 /\ n < n + 1 /\ \A l \in Handed(p) \cup disk[p].lists : l.sequence < n + 1
      BY <2>2, <2>3
    <3>3. \A l \in Handed(p)' \cup disk'[p].lists : l.sequence < n + 1
      BY <1>2, <3>1, <3>2 DEF Handed
    <3>4. \A c \in ps'[p].channel :
            \A l \in ps[p].validator.pending \cup ps[p].validator.validated : l.sequence < c.sequence
      BY <1>1, <2>3, <3>1 DEF SequenceOK, Handed
    <3>. QED  BY <1>2, <2>1, <3>1, <3>2, <3>3, <3>4 DEF SequenceOK
  <2>. QED  BY <1>3, <2>4, <2>5, <2>6
<1>8. SequenceInv'
  BY <1>2, <1>7, FrameSequence DEF TypeInv
<1>. QED  BY <1>4, <1>5, <1>6, <1>8 DEF TypeInv

-----------------------------------------------------------------------------
(* Who holds the tenant.                                                   *)

LEMMA DownloadLsn ==
  ASSUME TypeInv, NEW g \in Generations
  PROVE  download_index_part(g).lsn <= uploads
<1>1. Types /\ index[1] # NoIndex
  BY DEF TypeInv, LsnInv
<1>2. PICK m \in Generations : download_index_part(g) = index[m]
  BY <1>1, DownloadIs
<1>. QED  BY <1>2 DEF TypeInv, LsnInv

LEMMA UpsertTypes ==
  ASSUME TypeInv, NEW p \in Pageservers, upsert_location(p)
  PROVE  TypeInv'
<1>1. Types /\ SequenceOK(p) /\ LsnInv
  BY DEF TypeInv, SequenceInv
<1>2. /\ Frame(p) /\ SameDisk(p) /\ SameQueue(p) /\ Up(p) /\ ps'[p].state = "up"
      /\ UNCHANGED <<row, generation, op, index, objects, visible, bounds>>
  BY UpsertFields
<1>3. PICK r \in requests :
        /\ requests' = requests \ {r}
        /\ SameHolder(p) \/ ps'[p].part = download_index_part(r.generation)
  BY UpsertFields
<1>4. r.generation \in Generations
  BY <1>1 DEF Types, ServiceType
<1>5. Types'
  <2>1. ServiceType'
    BY <1>1, <1>2, <1>3 DEF Types, ServiceType
  <2>2. StorageType' /\ BoundTypes'
    BY <1>1, <1>2 DEF Types, StorageType, BoundTypes, bounds
  <2>. QED  BY <1>2, <2>1, <2>2, FrameTypes
<1>6. CountInv'
  BY <1>2, FrameCount DEF TypeInv, Up, bounds
<1>7. LsnInv'
  <2>1. ps'[p].part.lsn <= uploads
    BY <1>1, <1>3, <1>4, DownloadLsn DEF SameHolder, LsnInv
  <2>. QED  BY <1>1, <1>2, <2>1, FrameLsn DEF bounds
<1>8. SequenceOK(p)'
  BY <1>1, <1>2 DEF SequenceOK, Up, Handed, SameDisk, SameQueue, SameWriter
<1>9. SequenceInv'
  BY <1>2, <1>8, FrameSequence DEF TypeInv
<1>. QED  BY <1>5, <1>6, <1>7, <1>9 DEF TypeInv

LEMMA DetachTypes ==
  ASSUME TypeInv, NEW p \in Pageservers, DetachTenant(p)
  PROVE  TypeInv'
<1>1. Types /\ SequenceOK(p) /\ LsnInv
  BY DEF TypeInv, SequenceInv
<1>2. /\ Frame(p) /\ SameDisk(p) /\ SameQueue(p) /\ Up(p) /\ ps'[p].state = "up"
      /\ UNCHANGED <<serviceVars, storageVars, bounds>> /\ ps'[p].part = NoIndex
  BY <1>1, DetachFields
<1>3. Types'
  <2>1. ServiceType'
    BY <1>1, <1>2 DEF Types, ServiceType, serviceVars
  <2>2. StorageType' /\ BoundTypes'
    BY <1>1, <1>2 DEF Types, StorageType, BoundTypes, bounds, storageVars
  <2>. QED  BY <1>2, <2>1, <2>2, FrameTypes
<1>4. CountInv'
  BY <1>2, FrameCount DEF TypeInv, Up, bounds, serviceVars
<1>5. LsnInv'
  <2>1. ps'[p].part.lsn <= uploads
    BY <1>1, <1>2 DEF NoIndex, Types
  <2>. QED  BY <1>1, <1>2, <2>1, FrameLsn DEF bounds, storageVars
<1>6. SequenceOK(p)'
  BY <1>1, <1>2 DEF SequenceOK, Up, Handed, SameDisk, SameQueue, SameWriter
<1>7. SequenceInv'
  BY <1>2, <1>6, FrameSequence DEF TypeInv
<1>. QED  BY <1>3, <1>4, <1>5, <1>7 DEF TypeInv

LEMMA DownSetIs ==
  /\ DownSet \subseteq Pageservers /\ IsFiniteSet(DownSet) /\ Cardinality(DownSet) \in Nat
<1>1. DownSet \subseteq Pageservers
  BY DEF DownSet
<1>. QED  BY <1>1, ServiceAssumption, FS_Subset, FS_CardinalityType

LEMMA NotUpHasBound ==
  ASSUME TypeInv, NEW p \in Pageservers
  PROVE  \E n \in Nat : \A l \in disk[p].lists : l.sequence < n
<1>1. SequenceOK(p) /\ Types
  BY DEF TypeInv, SequenceInv
<1>2. ps[p].pending.sequence \in Nat
  BY <1>1, SlotTypes
<1>3. CASE Up(p)
  BY <1>1, <1>2, <1>3 DEF SequenceOK
<1>4. CASE ~Up(p)
  BY <1>1, <1>4 DEF SequenceOK
<1>. QED  BY <1>3, <1>4

LEMMA CrashTypes ==
  ASSUME TypeInv, NEW p \in Pageservers, Crash(p)
  PROVE  TypeInv'
<1>1. Types /\ SequenceOK(p) /\ LsnInv
  BY DEF TypeInv, SequenceInv
<1>2. /\ Frame(p) /\ SameDisk(p) /\ ps'[p] = Down
      /\ UNCHANGED <<serviceVars, storageVars, uploads, failures>>
      /\ ps[p].state # "down" /\ crashes' = crashes + 1 /\ crashes' \in 0 .. MaxCrashes
  BY <1>1, CrashFields
<1>3. Types'
  <2>1. ServiceType'
    BY <1>1, <1>2 DEF Types, ServiceType, serviceVars
  <2>2. StorageType' /\ BoundTypes'
    BY <1>1, <1>2 DEF Types, StorageType, BoundTypes, storageVars
  <2>. QED  BY <1>2, <2>1, <2>2, FrameTypes
<1>4. CountInv'
  <2>1. DownSet' = DownSet \cup {p} /\ p \notin DownSet
    BY <1>2 DEF DownSet, Frame, Down
  <2>2. Cardinality(DownSet') = Cardinality(DownSet) + 1
    BY <2>1, DownSetIs, FS_AddElement
  <2>3. /\ row' = row /\ row.generation \in Nat /\ crashes \in Nat /\ MaxGeneration \in Nat
        /\ Cardinality(DownSet) \in Nat
    BY <1>1, <1>2, DownSetIs, ConstTypes, ServiceAssumption DEF Types, ServiceType, serviceVars
  <2>. HIDE DEF DownSet
  <2>. QED  BY <1>2, <2>2, <2>3 DEF TypeInv, CountInv
<1>5. LsnInv'
  <2>1. ps'[p].part.lsn <= uploads
    BY <1>1, <1>2 DEF NoIndex, Down, Types
  <2>. QED  BY <1>1, <1>2, <2>1, FrameLsn DEF storageVars
<1>6. SequenceOK(p)'
  <2>1. \E n \in Nat : \A l \in disk'[p].lists : l.sequence < n
    BY <1>2, NotUpHasBound DEF SameDisk
  <2>2. /\ ~Up(p)' /\ ps'[p].channel = {} /\ ps'[p].validator = IdleValidator(FALSE)
        /\ ~ps'[p].pending.validated
    BY <1>2 DEF Up, Down, DeletionList
  <2>. QED  BY <2>1, <2>2 DEF SequenceOK
<1>7. SequenceInv'
  BY <1>2, <1>6, FrameSequence DEF TypeInv
<1>. QED  BY <1>3, <1>4, <1>5, <1>7 DEF TypeInv

LEMMA ReAttachTypes ==
  ASSUME TypeInv, NEW p \in Pageservers, ReAttach(p)
  PROVE  TypeInv'
<1>1. Types /\ SequenceOK(p) /\ LsnInv
  BY DEF TypeInv, SequenceInv
<1>2. /\ Frame(p) /\ SameDisk(p) /\ SameQueue(p) /\ ps'[p].part = ps[p].part
      /\ ps[p].state = "down" /\ ps'[p].state = "starting"
      /\ UNCHANGED <<storageVars, bounds, generation, op, requests>>
      /\ row' \in [generation : Generations, node : Pageservers]
      /\ row'.generation = row.generation + 1 \/ row'.generation = row.generation
  BY ReAttachFields
<1>3. Types'
  <2>1. ServiceType'
    BY <1>1, <1>2 DEF Types, ServiceType
  <2>2. StorageType' /\ BoundTypes'
    BY <1>1, <1>2 DEF Types, StorageType, BoundTypes, bounds, storageVars
  <2>. QED  BY <1>2, <2>1, <2>2, FrameTypes
<1>4. CountInv'
  <2>1. DownSet' = DownSet \ {p} /\ p \in DownSet
    BY <1>2 DEF DownSet, Frame
  <2>2. Cardinality(DownSet') = Cardinality(DownSet) - 1
    BY <2>1, DownSetIs, FS_RemoveElement
  <2>3. /\ row.generation \in Nat /\ crashes \in Nat /\ MaxGeneration \in Nat
        /\ Cardinality(DownSet) \in Nat /\ crashes' = crashes
    BY <1>1, <1>2, DownSetIs, ConstTypes, ServiceAssumption DEF Types, ServiceType, bounds
  <2>. HIDE DEF DownSet
  <2>. QED  BY <1>2, <2>2, <2>3 DEF TypeInv, CountInv
<1>5. LsnInv'
  BY <1>1, <1>2, FrameLsn DEF storageVars, bounds, LsnInv
<1>6. SequenceOK(p)'
  BY <1>1, <1>2 DEF SequenceOK, Up, Handed, SameDisk, SameQueue, SameWriter
<1>7. SequenceInv'
  BY <1>2, <1>6, FrameSequence DEF TypeInv
<1>. QED  BY <1>3, <1>4, <1>5, <1>7 DEF TypeInv

LEMMA ReAttachReplyTypes ==
  ASSUME TypeInv, NEW p \in Pageservers, ReAttachReply(p)
  PROVE  TypeInv'
<1>1. Types /\ SequenceOK(p) /\ LsnInv
  BY DEF TypeInv, SequenceInv
<1>. DEFINE g == ps[p].generation
            n == NextSequence(disk[p])
<1>2. /\ Frame(p) /\ SameDisk(p) /\ Starting(p) /\ ps'[p].state = "up"
      /\ UNCHANGED <<row, op, requests, storageVars, bounds>>
      /\ generation' = Max({generation, g})
      /\ ps'[p].part = IF g = 0 THEN NoIndex ELSE download_index_part(g)
      /\ ps'[p].pending = DeletionList(n, 0, {})
      /\ ps'[p].channel = {RecoveredList(l, disk[p].header, g) : l \in disk[p].lists}
      /\ ps'[p].validator = IdleValidator(FALSE)
  BY ReAttachReplyFields
<1>3. g \in GenerationsOr0 /\ (g # 0 => g \in Generations)
  BY <1>1, SlotTypes, ConstTypes
<1>4. generation' \in Generations
  <2>1. generation \in Nat /\ generation \in Generations /\ g \in Nat /\ generation > 0
    BY <1>1, <1>3, ConstTypes DEF Types, ServiceType, Generations
  <2>2. (generation' = generation \/ generation' = g) /\ generation' >= generation
    BY <1>2, <2>1, MaxTwo
  <2>. QED  BY <1>3, <2>1, <2>2
<1>5. Types'
  <2>1. ServiceType'
    BY <1>1, <1>2, <1>4 DEF Types, ServiceType
  <2>2. StorageType' /\ BoundTypes'
    BY <1>1, <1>2 DEF Types, StorageType, BoundTypes, bounds, storageVars
  <2>. QED  BY <1>2, <2>1, <2>2, FrameTypes
<1>6. CountInv'
  BY <1>2, FrameCount DEF TypeInv, Starting, bounds
<1>7. LsnInv'
  <2>1. ps'[p].part.lsn <= uploads
    <3>1. CASE g = 0
      BY <1>1, <1>2, <3>1 DEF NoIndex, Types
    <3>2. CASE g # 0
      BY <1>2, <1>3, <3>2, DownloadLsn
    <3>. QED  BY <3>1, <3>2
  <2>. QED  BY <1>1, <1>2, <2>1, FrameLsn DEF bounds, storageVars
<1>8. SequenceOK(p)'
  <2>1. ~Up(p)
    BY <1>2 DEF Up, Starting
  <2>2. /\ n \in Nat \ {0} /\ disk[p].header < n /\ disk[p].header \in Nat
        /\ \A l \in disk[p].lists : l.sequence < n
    BY <1>1, <2>1, NextSequenceIs, SlotTypes
  <2>3. \A l \in disk[p].lists : RecoveredList(l, disk[p].header, g).sequence = l.sequence
    <3>1. \A l \in disk[p].lists : l \in List
      BY <1>1, SlotTypes
    <3>. QED  BY <1>3, <2>2, <3>1, RecoveredListIs
  <2>4. ps'[p].pending.sequence = n /\ ~ps'[p].pending.validated
    BY <1>2 DEF DeletionList
  <2>5. Handed(p)' = ps'[p].channel /\ ps'[p].validator.pending = {} /\ ps'[p].validator.validated = {}
    BY <1>2 DEF Handed, IdleValidator
  <2>6. \A l \in Handed(p)' \cup disk'[p].lists : l.sequence < n
    BY <1>2, <2>2, <2>3, <2>5 DEF SameDisk
  <2>. QED  BY <1>2, <2>2, <2>4, <2>5, <2>6 DEF SequenceOK, Up, SameDisk
<1>9. SequenceInv'
  BY <1>2, <1>8, FrameSequence DEF TypeInv
<1>. QED  BY <1>5, <1>6, <1>7, <1>9 DEF TypeInv

-----------------------------------------------------------------------------
(* The service.                                                            *)

ServiceOnly == UNCHANGED <<storageVars, ps, disk, bounds>>

LEMMA ServiceStepTypes ==
  ASSUME TypeInv, ServiceOnly, ServiceType',
         row'.generation + Cardinality(DownSet) <= MaxGeneration + crashes
  PROVE  TypeInv'
<1>1. /\ ps' = ps /\ disk' = disk /\ index' = index /\ objects' = objects /\ visible' = visible
      /\ uploads' = uploads /\ crashes' = crashes /\ failures' = failures
  BY DEF ServiceOnly, storageVars, bounds
<1>2. Types'
  BY <1>1 DEF TypeInv, Types, StorageType
<1>3. CountInv'
  BY <1>1 DEF TypeInv, CountInv, DownSet
<1>4. LsnInv'
  BY <1>1 DEF TypeInv, LsnInv
<1>5. SequenceInv'
  BY <1>1 DEF TypeInv, SequenceInv, SequenceOK, Up, Handed
<1>. QED  BY <1>2, <1>3, <1>4, <1>5 DEF TypeInv

LEMMA IssueTypes ==
  ASSUME TypeInv, NEW n \in Pageservers, AttachHook(n) \/ Reconcile(n), ServiceOnly
  PROVE  TypeInv'
<1>1. Types /\ CountInv
  BY DEF TypeInv
<1>2. /\ row.generation < MaxGeneration /\ generation' = generation
      /\ row' = [generation |-> row.generation + 1, node |-> n]
      /\ op' \in [kind : {"attach_hook", "reconcile"}, node : {n},
                  generation : {row.generation + 1}]
      /\ requests' \subseteq requests \cup {[node |-> n, generation |-> row.generation + 1]}
  BY DEF AttachHook, Reconcile, increment_generation
<1>3. row.generation \in Nat /\ row.generation + 1 \in Generations
  <2>1. row.generation \in Generations /\ MaxGeneration \in Nat /\ MaxCrashes \in Nat
    BY <1>1, ServiceAssumption, QueueAssumption DEF Types, ServiceType
  <2>. QED  BY <1>2, <2>1 DEF Generations
<1>4. ServiceType'
  <2>1. row' \in [generation : Generations, node : Pageservers]
    BY <1>2, <1>3
  <2>2. op' \in [kind : {"attach_hook", "reconcile"}, node : Pageservers, generation : Generations]
    BY <1>2, <1>3
  <2>3. requests' \subseteq [node : Pageservers, generation : Generations]
    BY <1>1, <1>2, <1>3 DEF Types, ServiceType
  <2>4. generation' \in Generations
    BY <1>1, <1>2 DEF Types, ServiceType
  <2>. QED  BY <2>1, <2>2, <2>3, <2>4 DEF ServiceType
<1>5. row'.generation + Cardinality(DownSet) <= MaxGeneration + crashes
  <2>1. /\ Cardinality(DownSet) \in Nat /\ MaxGeneration \in Nat /\ crashes \in Nat
        /\ Cardinality(DownSet) <= crashes /\ row'.generation = row.generation + 1
    BY <1>1, <1>2, DownSetIs, ServiceAssumption DEF Types, CountInv
  <2>. QED  BY <1>2, <1>3, <2>1
<1>. QED  BY <1>4, <1>5, ServiceStepTypes

LEMMA FinishTypes ==
  ASSUME TypeInv, AttachHookReply \/ process_result \/ RestartService, ServiceOnly
  PROVE  TypeInv'
<1>1. Types /\ CountInv
  BY DEF TypeInv
<1>2. row' = row /\ op' = NoOp
  BY DEF AttachHookReply, process_result, RestartService
<1>3. row'.generation + Cardinality(DownSet) <= MaxGeneration + crashes
  BY <1>1, <1>2 DEF CountInv
<1>4. generation' \in Generations /\ requests' \subseteq [node : Pageservers, generation : Generations]
  <2>1. CASE AttachHookReply
    <3>1. op.kind # "none"
      BY <2>1 DEF AttachHookReply
    <3>2. op.node \in Pageservers /\ op.generation \in Generations
      BY <1>1, <3>1 DEF Types, ServiceType, NoOp
    <3>. QED  BY <1>1, <2>1, <3>2 DEF AttachHookReply, Types, ServiceType
  <2>2. CASE process_result
    <3>1. op.kind # "none"
      BY <2>2 DEF process_result
    <3>2. op.generation \in Generations /\ generation \in Generations
      BY <1>1, <3>1 DEF Types, ServiceType, NoOp
    <3>3. op.generation \in Nat /\ generation \in Nat
      BY <3>2, ConstTypes
    <3>4. Max({generation, op.generation}) = generation \/ Max({generation, op.generation}) = op.generation
      BY <3>3, MaxTwo
    <3>. QED  BY <1>1, <2>2, <3>2, <3>4 DEF process_result, Types, ServiceType
  <2>3. CASE RestartService
    BY <1>1, <2>3 DEF RestartService, Types, ServiceType
  <2>. QED  BY <2>1, <2>2, <2>3
<1>5. ServiceType'
  BY <1>1, <1>2, <1>4 DEF Types, ServiceType
<1>. QED  BY <1>3, <1>5, ServiceStepTypes

LEMMA RequestFailsTypes ==
  ASSUME TypeInv, NEW p \in Pageservers, RequestFails(p)
  PROVE  TypeInv'
<1>1. ServiceOnly /\ row' = row /\ generation' = generation /\ op' = op /\ requests' \subseteq requests
  BY DEF RequestFails, ServiceOnly
<1>2. ServiceType'
  BY <1>1 DEF TypeInv, Types, ServiceType
<1>3. row'.generation + Cardinality(DownSet) <= MaxGeneration + crashes
  BY <1>1 DEF TypeInv, CountInv
<1>. QED  BY <1>1, <1>2, <1>3, ServiceStepTypes

-----------------------------------------------------------------------------
LEMMA TypeInit == Init => TypeInv
<1>. SUFFICES ASSUME Init PROVE TypeInv
  OBVIOUS
<1>1. PICK p0 \in Pageservers :
        row = [generation |-> 1, node |-> p0] /\ generation = 1 /\ op = NoOp /\ requests = {}
  BY DEF Init, ServiceInit
<1>2. /\ 1 \in Generations /\ 1 \in GenerationsOr0 /\ NoIndex \in IndexPart
      /\ FirstIndex \in IndexPart /\ FirstIndex # NoIndex /\ Down \in Slot
      /\ MaxUploads \in Nat
  BY ConstTypes
<1>. DEFINE fresh == [Down EXCEPT !.state = "up"]
            first == [Down EXCEPT !.state = "up", !.generation = 1, !.part = FirstIndex]
<1>3. ps = [p \in Pageservers |-> IF p = row.node THEN first ELSE fresh]
  BY DEF Init
<1>4. fresh \in Slot /\ first \in Slot
  BY <1>2 DEF Slot
<1>5. \A p \in Pageservers : ps[p] = first \/ ps[p] = fresh
  <2>. HIDE DEF first, fresh
  <2>. QED  BY <1>3
<1>6. \A p \in Pageservers :
        /\ ps[p].state = "up" /\ ps[p].part.lsn = 0 /\ ps[p].channel = {}
        /\ ps[p].validator = IdleValidator(FALSE) /\ ps[p].pending = DeletionList(1, 0, {})
  <2>1. /\ fresh.state = "up" /\ fresh.part.lsn = 0 /\ fresh.channel = {}
        /\ fresh.validator = IdleValidator(FALSE) /\ fresh.pending = DeletionList(1, 0, {})
    BY DEF Down, NoIndex
  <2>2. /\ first.state = "up" /\ first.part.lsn = 0 /\ first.channel = {}
        /\ first.validator = IdleValidator(FALSE) /\ first.pending = DeletionList(1, 0, {})
    BY DEF Down, FirstIndex
  <2>. HIDE DEF first, fresh
  <2>. QED  BY <1>5, <2>1, <2>2
<1>7. disk = [p \in Pageservers |-> [lists |-> {}, header |-> 0]]
  BY DEF Init
<1>8. /\ index = [g \in Generations |-> IF g = 1 THEN FirstIndex ELSE NoIndex]
      /\ objects = FirstIndex.layers /\ visible = 0 /\ uploads = 0 /\ crashes = 0 /\ failures = 0
  BY DEF Init
<1>9. Types
  <2>1. ServiceType
    BY <1>1, <1>2 DEF ServiceType
  <2>2. StorageType
    BY <1>2, <1>8 DEF StorageType, IndexPart
  <2>3. ps \in [Pageservers -> Slot]
    <3>. HIDE DEF first, fresh
    <3>. QED  BY <1>3, <1>4
  <2>4. disk \in [Pageservers -> [lists : SUBSET List, header : Nat]]
    BY <1>7
  <2>5. uploads \in 0 .. MaxUploads /\ crashes \in 0 .. MaxCrashes /\ failures \in 0 .. MaxFailures
    BY <1>8, QueueAssumption
  <2>. QED  BY <2>1, <2>2, <2>3, <2>4, <2>5 DEF Types
<1>10. CountInv
  <2>1. DownSet = {}
    BY <1>6 DEF DownSet
  <2>2. Cardinality(DownSet) = 0
    BY <2>1, FS_EmptySet
  <2>. QED  BY <1>1, <1>8, <2>2, ServiceAssumption DEF CountInv
<1>11. LsnInv
  <2>1. FirstIndex.lsn = 0 /\ NoIndex.lsn = 0
    BY DEF FirstIndex, NoIndex
  <2>2. \A g \in Generations : index[g] = FirstIndex \/ index[g] = NoIndex
    BY <1>8
  <2>3. index[1] = FirstIndex
    BY <1>2, <1>8
  <2>4. /\ index[1] # NoIndex /\ \A g \in Generations : index[g].lsn = 0
        /\ \A p \in Pageservers : ps[p].part.lsn = 0
    BY <1>2, <1>6, <2>1, <2>2, <2>3
  <2>5. uploads = 0 /\ 0 <= 0
    BY <1>8
  <2>. QED  BY <2>4, <2>5 DEF LsnInv
<1>12. SequenceInv
  <2>. SUFFICES ASSUME NEW p \in Pageservers PROVE SequenceOK(p)
    BY DEF SequenceInv
  <2>1. disk[p].lists = {} /\ disk[p].header = 0
    BY <1>7
  <2>2. Up(p) /\ Handed(p) = {} /\ ps[p].pending.sequence = 1 /\ ~ps[p].pending.validated
    BY <1>6 DEF Up, Handed, IdleValidator, DeletionList
  <2>3. ps[p].channel = {}
    BY <1>6
  <2>4. disk[p].header < ps[p].pending.sequence
    BY <2>1, <2>2
  <2>. QED  BY <2>1, <2>2, <2>3, <2>4 DEF SequenceOK
<1>. QED  BY <1>9, <1>10, <1>11, <1>12 DEF TypeInv

LEMMA TypeStep == TypeInv /\ [Next]_vars => TypeInv'
<1>. SUFFICES ASSUME TypeInv, [Next]_vars PROVE TypeInv'
  OBVIOUS
<1>1. ASSUME NEW p \in Pageservers, LocalStep(p) PROVE TypeInv'
  BY <1>1, SaveListTypes, SaveHeaderTypes, CleanupTypes DEF LocalStep
<1>2. ASSUME NEW p \in Pageservers, Crash(p) PROVE TypeInv'
  BY <1>2, CrashTypes
<1>3. CASE StartAttach
  <2>1. PICK n \in Pageservers : AttachHook(n) \/ Reconcile(n)
    BY <1>3 DEF StartAttach
  <2>2. ServiceOnly
    BY <1>3 DEF StartAttach, ServiceOnly
  <2>. QED  BY <2>1, <2>2, IssueTypes
<1>4. CASE FinishAttach
  <2>1. ServiceOnly /\ (AttachHookReply \/ process_result \/ RestartService)
    BY <1>4 DEF FinishAttach, ServiceOnly
  <2>. QED  BY <2>1, FinishTypes
<1>5. ASSUME NEW p \in Pageservers,
             \/ upsert_location(p) \/ RequestFails(p) \/ DetachTenant(p)
             \/ UploadIndex(p) \/ FlushList(p)
      PROVE TypeInv'
  BY <1>5, UpsertTypes, RequestFailsTypes, DetachTypes, UploadTypes, FlushListTypes
<1>6. ASSUME NEW p \in Pageservers, RemoteStep(p) PROVE TypeInv'
  BY <1>6, ValidatorFlushTypes, ValidateAnswerTypes, ApplyLsnTypes, ExecuteTypes DEF RemoteStep
<1>7. ASSUME NEW p \in Pageservers, Restart(p) PROVE TypeInv'
  BY <1>7, ReAttachTypes, ReAttachReplyTypes DEF Restart
<1>8. CASE UNCHANGED vars
  <2>1. ServiceOnly /\ UNCHANGED serviceVars
    BY <1>8 DEF vars, ServiceOnly
  <2>2. ServiceType' /\ row'.generation + Cardinality(DownSet) <= MaxGeneration + crashes
    BY <2>1 DEF serviceVars, TypeInv, Types, ServiceType, CountInv
  <2>. QED  BY <2>1, <2>2, ServiceStepTypes
<1>. QED  BY <1>1, <1>2, <1>3, <1>4, <1>5, <1>6, <1>7, <1>8 DEF Next

LEMMA TypeAlways == Spec => []TypeInv
BY TypeInit, TypeStep, PTL DEF Spec

\* Every generation, LSN and layer key stays within its bounds, and every
\* list in memory and on disk is one, whatever crashes, fails or restarts.
THEOREM QueueTypeCorrect == Spec => []TypeOK
<1>1. TypeInv => TypeOK
  <2>. SUFFICES ASSUME TypeInv PROVE TypeOK
    OBVIOUS
  <2>1. Types
    BY DEF TypeInv
  <2>2. /\ row.generation \in Generations /\ row.node \in Pageservers /\ generation \in Generations
        /\ index \in [Generations -> IndexPart \cup {NoIndex}]
        /\ objects \subseteq Object /\ visible \in 0 .. MaxUploads
    BY <2>1 DEF Types, ServiceType, StorageType
  <2>3. ASSUME NEW p \in Pageservers
        PROVE  /\ ps[p].state \in {"down", "starting", "up"}
               /\ ps[p].generation \in Generations \cup {0}
               /\ ps[p].pending \in List
               /\ \A l \in ps[p].channel \cup disk[p].lists : l \in List
               /\ disk[p].header \in Nat
    <3>1. ps[p].state \in {"down", "starting", "up"}
      BY <2>1, SlotTypes DEF Slot
    <3>2. ps[p].generation \in Generations \cup {0}
      BY <2>1, SlotTypes, ConstTypes
    <3>3. /\ ps[p].pending \in List /\ disk[p].header \in Nat
          /\ ps[p].channel \subseteq List /\ disk[p].lists \subseteq List
      BY <2>1, SlotTypes
    <3>. QED  BY <3>1, <3>2, <3>3
  <2>. QED  BY <2>2, <2>3 DEF TypeOK
<1>. QED  BY <1>1, TypeAlways, PTL

\* After any crash and recovery the list writer's next number is above the
\* header's and above those of all lists on disk: no list that was never
\* executed is overwritten, none passes for validated by the header.
THEOREM NextSequenceIsFresh == Spec => []SequencesAreFresh
<1>1. TypeInv => SequencesAreFresh
  BY DEF TypeInv, SequenceInv, SequenceOK, SequencesAreFresh
<1>. QED  BY <1>1, TypeAlways, PTL
=============================================================================
