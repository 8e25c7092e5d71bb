-------------------------- MODULE DeletionSafetyProofs --------------------------
(***************************************************************************)
(* That deletion queues and generations keep a tenant whole: no layer that *)
(* its index names is deleted, and DurableTenant is implemented, for any   *)
(* number of pageservers and all bounds.                                   *)
(***************************************************************************)
EXTENDS DeletionQueueProofs

(***************************************************************************)
(* Generations.  One that was issued is on its way to a pageserver for a   *)
(* while, and then at most one pageserver has it.                          *)
(***************************************************************************)
Pending(g) ==
    \/ \E r \in requests : r.generation = g
    \/ op.kind = "attach_hook" /\ op.generation = g
    \/ \E p \in Pageservers : Starting(p) /\ ps[p].generation = g

Unused(g) == g > row.generation \/ Pending(g)

IssueInv ==
    /\ \A r \in requests : r.generation <= row.generation
    /\ op.generation <= row.generation
    /\ \A p \in Pageservers : ps[p].generation <= row.generation
    /\ \A r, q \in requests : r.generation = q.generation => r = q
    /\ \A p, q \in Pageservers :
          ps[p].generation = ps[q].generation /\ ps[p].generation # 0 => p = q
    /\ \A r \in requests, p \in Pageservers : r.generation # ps[p].generation
    /\ op.kind = "attach_hook" =>
          /\ \A r \in requests : r.generation # op.generation
          /\ \A p \in Pageservers : ps[p].generation # op.generation
    /\ \A g \in Generations : Unused(g) => index[g] = NoIndex
    /\ \A p \in Pageservers : ps[p].state = "down" => ps[p].generation = 0

\* A layer's key belongs to a generation that is in use, and is not ahead of it.
KeyOK(o) ==
    /\ ~Unused(o[1])
    /\ \A p \in Pageservers : ps[p].generation = o[1] => o[2] <= ps[p].part.lsn

KeyInv ==
    /\ \A g \in Generations : \A o \in index[g].layers : KeyOK(o)
    /\ \A p \in Pageservers : \A o \in ps[p].part.layers : KeyOK(o)
    /\ \A p \in Pageservers : \A l \in Lists(p) : \A o \in l.objects : KeyOK(o)

(***************************************************************************)
(* Objects are dead when no index that the tenant could be loaded from     *)
(* names them, and none will.                                              *)
(***************************************************************************)
DeadFrom(k, O) ==
    /\ index[k] # NoIndex
    /\ \A g \in Generations : g >= k => index[g].layers \cap O = {}
    /\ \A p \in Pageservers : Up(p) /\ ps[p].generation >= k => ps[p].part.layers \cap O = {}

Dead(O) == \E k \in Generations : DeadFrom(k, O)

\* A list was made when its pageserver had superseded the objects in it, and
\* nobody else came between.
OwnedFrom(k, p, l) ==
    /\ index[k] # NoIndex
    /\ \A g \in k .. l.generation :
          /\ ~Unused(g) /\ index[g].layers \cap l.objects = {}
          /\ \A q \in Pageservers : ps[q].generation = g =>
                q = p /\ g = l.generation /\ ps[q].part.layers \cap l.objects = {}

Owned(p, l) == l.objects # {} => \E k \in 1 .. l.generation : OwnedFrom(k, p, l)

ListOK(p, l) ==
    /\ Owned(p, l)
    /\ l.generation <= row.generation

ListInv == \A p \in Pageservers : \A l \in Lists(p) : ListOK(p, l)

(***************************************************************************)
(* The validator.  What it has found valid, and what it is going to find   *)
(* valid from the answer it has, is dead; so is what the disk says is.     *)
(***************************************************************************)
PhaseOK(p) ==
    LET v == ps[p].validator
    IN  /\ v.at = "idle" => v.pending = {} /\ v.validated = {}
        /\ v.at \in {"execute", "cleanup"} => v.pending = {}
        /\ \A l \in v.validated : l.validated
        /\ v.at \in {"asked", "answered"} => \A l \in v.pending : ~l.validated

DeadOK(p) ==
    LET v == ps[p].validator
    IN  /\ PhaseOK(p)
        /\ \A l \in Handed(p) : l.validated => Dead(l.objects)
        /\ v.at \in {"answered", "saving"} =>
              \A l \in v.pending : ListValid(l, v) => Dead(l.objects)
        /\ \A l \in disk[p].lists :
              l.validated \/ l.sequence <= disk[p].header => Dead(l.objects)
        /\ \A l \in ps[p].channel \cup disk[p].lists : l.validated \/ l.objects # {}
        /\ Up(p) /\ ~v.writeFailed =>
              \A d \in disk[p].lists : \E l \in Handed(p) :
                  l.sequence = d.sequence /\ l.objects = d.objects

DeadInv == \A p \in Pageservers : DeadOK(p)

\* An LSN that every index covers that the tenant could be loaded from.
CoversFrom(k, lsn) ==
    /\ index[k] # NoIndex
    /\ \A g \in Generations : g >= k /\ index[g] # NoIndex => index[g].lsn >= lsn
    /\ \A p \in Pageservers : Up(p) /\ ps[p].generation >= k => ps[p].part.lsn >= lsn

Covered(lsn) == \E k \in Generations : CoversFrom(k, lsn)

\* An update has the LSN of an index that its generation has written.
UpdateOK(u) ==
    u.generation # 0 =>
        /\ index[u.generation] # NoIndex /\ index[u.generation].lsn >= u.lsn
        /\ \A p \in Pageservers : ps[p].generation = u.generation => ps[p].part.lsn >= u.lsn

CoverOK(p) ==
    LET v == ps[p].validator
    IN  /\ UpdateOK(ps[p].lsnTable) /\ UpdateOK(v.update)
        /\ v.at = "answered" /\ LsnValid(v) => Covered(v.update.lsn)

CoverInv == Covered(visible) /\ \A p \in Pageservers : CoverOK(p)

\* Every index that the tenant could be loaded from is there with its layers.
StoredFrom(k) ==
    /\ index[k].layers \subseteq objects
    /\ \A p \in Pageservers : Up(p) /\ ps[p].generation >= k => ps[p].part.layers \subseteq objects

StoreInv ==
    \A k \in Generations :
        index[k] # NoIndex /\ (\A g \in Generations : g > k => index[g] = NoIndex) => StoredFrom(k)

IInv ==
    /\ TypeInv /\ IssueInv /\ KeyInv
    /\ ListInv /\ DeadInv /\ CoverInv /\ StoreInv


-----------------------------------------------------------------------------
(***************************************************************************)
(* Two kinds of steps.  In a view step no index is written: a pageserver   *)
(* keeps what it has, drops the tenant, is issued a generation at startup, *)
(* or loads one that was on its way.  The other kind is an upload.         *)
(***************************************************************************)
Keeps(q) ==
    /\ ps'[q].generation = ps[q].generation /\ ps'[q].part = ps[q].part
    /\ Up(q)' => Up(q)

Drops(q) ==
    ps'[q].generation = 0 /\ (ps'[q].part = ps[q].part \/ ps'[q].part = NoIndex)

Starts(q) ==
    /\ ~Up(q)' /\ ps'[q].generation > row.generation
    /\ ps'[q].part = ps[q].part

Loads(q) ==
    \E g \in Generations :
        /\ Pending(g) /\ ps'[q].generation = g
        /\ ps'[q].part = download_index_part(g)

ViewStep ==
    /\ index' = index
    /\ \A q \in Pageservers : Keeps(q) \/ Drops(q) \/ Starts(q) \/ Loads(q)
    /\ \A g \in Generations : Unused(g)' => Unused(g)
    /\ row'.generation >= row.generation

Uploads(p, kept) ==
    /\ Holds(p) /\ ps[p].generation \in Generations /\ kept \subseteq ps[p].part.layers
    /\ ps'[p].part = NewPart(p, kept) /\ Up(p)' /\ ps'[p].generation = ps[p].generation
    /\ index' = [index EXCEPT ![ps[p].generation] = NewPart(p, kept)]
    /\ \A q \in Pageservers : q # p => ps'[q] = ps[q]
    /\ UNCHANGED <<row, generation, op, requests>>

LEMMA ViewTypes ==
  ASSUME TypeInv
  PROVE  /\ index \in [Generations -> IndexPart] /\ index[1] # NoIndex
         /\ row.generation \in Nat /\ generation \in Nat /\ generation > 0
         /\ op.generation \in Nat
         /\ \A g \in Generations : g \in Nat /\ g > 0
         /\ \A p \in Pageservers :
              /\ ps[p].generation \in Nat /\ ps[p].part \in IndexPart
              /\ ps[p].generation # 0 => ps[p].generation \in Generations
              /\ ps[p].part.lsn \in Nat /\ ps[p].part.layers \subseteq Object
         /\ \A g \in Generations : index[g].lsn \in Nat /\ index[g].layers \subseteq Object
         /\ \A r \in requests : r.generation \in Nat /\ r.generation \in Generations
                                /\ r.node \in Pageservers
<1>1. Types
  BY DEF TypeInv
<1>2. \A g \in Generations : g \in Nat /\ g > 0
  BY DEF Generations
<1>3. \A x \in IndexPart : x.lsn \in Nat /\ x.layers \subseteq Object
  BY ConstTypes DEF IndexPart
<1>4. /\ index \in [Generations -> IndexPart] /\ index[1] # NoIndex
      /\ row.generation \in Generations /\ generation \in Generations
  BY <1>1 DEF Types, ServiceType, StorageType, TypeInv, LsnInv
<1>5. \A p \in Pageservers :
         /\ ps[p].generation \in Nat /\ ps[p].part \in IndexPart
         /\ ps[p].generation # 0 => ps[p].generation \in Generations
  BY <1>1, SlotTypes, ConstTypes
<1>6. op.generation \in Nat
  <2>1. op.generation = 0 \/ op.generation \in Generations
    BY <1>1 DEF Types, ServiceType, NoOp
  <2>. QED  BY <1>2, <2>1
<1>7. \A r \in requests : r.generation \in Generations /\ r.node \in Pageservers
  BY <1>1 DEF Types, ServiceType
<1>8. \A g \in Generations : index[g] \in IndexPart
  BY <1>4
<1>9. \A g \in Generations : index[g].lsn \in Nat /\ index[g].layers \subseteq Object
  BY <1>3, <1>8
<1>10. \A p \in Pageservers : ps[p].part.lsn \in Nat /\ ps[p].part.layers \subseteq Object
  BY <1>3, <1>5
<1>11. row.generation \in Nat /\ generation \in Nat /\ generation > 0
  BY <1>2, <1>4
<1>12. \A r \in requests : r.generation \in Nat
  BY <1>2, <1>7
<1>. QED  BY <1>2, <1>4, <1>5, <1>6, <1>7, <1>9, <1>10, <1>11, <1>12

LEMMA DownloadFacts ==
  ASSUME TypeInv, NEW g \in Generations
  PROVE  \E m \in Generations :
            /\ m <= g /\ index[m] # NoIndex /\ download_index_part(g) = index[m]
            /\ \A h \in Generations : h <= g /\ index[h] # NoIndex => h <= m
<1>1. Types /\ index[1] # NoIndex
  BY DEF TypeInv, LsnInv
<1>. QED  BY <1>1, DownloadIs

\* A pageserver that has generation h up after a view step had it before, or
\* loaded an index that is at least as new as any it could have found.
LEMMA ViewPart ==
  ASSUME TypeInv, ViewStep, NEW q \in Pageservers, Up(q)',
         NEW k \in Generations, ps'[q].generation >= k, index[k] # NoIndex
  PROVE  \/ Up(q) /\ ps[q].generation >= k /\ ps'[q].part = ps[q].part
         \/ \E m \in Generations : m >= k /\ index[m] # NoIndex /\ ps'[q].part = index[m]
<1>1. k \in Nat /\ k > 0
  BY ViewTypes
<1>2. Keeps(q) \/ Drops(q) \/ Starts(q) \/ Loads(q)
  BY DEF ViewStep
<1>3. CASE Keeps(q)
  BY <1>3 DEF Keeps
<1>4. CASE Drops(q)
  BY <1>1, <1>4 DEF Drops
<1>5. CASE Starts(q)
  BY <1>5 DEF Starts
<1>6. CASE Loads(q)
  <2>1. PICK g \in Generations : ps'[q].generation = g /\ ps'[q].part = download_index_part(g)
    BY <1>6 DEF Loads
  <2>2. PICK m \in Generations :
            /\ m <= g /\ index[m] # NoIndex /\ download_index_part(g) = index[m]
            /\ \A h \in Generations : h <= g /\ index[h] # NoIndex => h <= m
    BY DownloadFacts
  <2>3. g \in Nat /\ m \in Nat
    BY ViewTypes
  <2>4. k <= g
    BY <1>1, <2>1, <2>3
  <2>5. k <= m
    BY <2>2, <2>4
  <2>. QED  BY <1>1, <2>1, <2>2, <2>3, <2>5
<1>. QED  BY <1>2, <1>3, <1>4, <1>5, <1>6

LEMMA ViewDead ==
  ASSUME TypeInv, ViewStep, NEW O, Dead(O)
  PROVE  Dead(O)'
<1>1. PICK k \in Generations : DeadFrom(k, O)
  BY DEF Dead
<1>2. index' = index
  BY DEF ViewStep
<1>3. ASSUME NEW q \in Pageservers, Up(q)', ps'[q].generation >= k
      PROVE  ps'[q].part.layers \cap O = {}
  <2>1. index[k] # NoIndex
    BY <1>1 DEF DeadFrom
  <2>2. \/ Up(q) /\ ps[q].generation >= k /\ ps'[q].part = ps[q].part
        \/ \E m \in Generations : m >= k /\ index[m] # NoIndex /\ ps'[q].part = index[m]
    BY <1>3, <2>1, ViewPart
  <2>. QED  BY <1>1, <2>2 DEF DeadFrom
<1>4. DeadFrom(k, O)'
  BY <1>1, <1>2, <1>3 DEF DeadFrom
<1>. QED  BY <1>4 DEF Dead

LEMMA ViewCovered ==
  ASSUME TypeInv, ViewStep, NEW n, Covered(n)
  PROVE  Covered(n)'
<1>1. PICK k \in Generations : CoversFrom(k, n)
  BY DEF Covered
<1>2. index' = index
  BY DEF ViewStep
<1>3. ASSUME NEW q \in Pageservers, Up(q)', ps'[q].generation >= k
      PROVE  ps'[q].part.lsn >= n
  <2>1. index[k] # NoIndex
    BY <1>1 DEF CoversFrom
  <2>2. \/ Up(q) /\ ps[q].generation >= k /\ ps'[q].part = ps[q].part
        \/ \E m \in Generations : m >= k /\ index[m] # NoIndex /\ ps'[q].part = index[m]
    BY <1>3, <2>1, ViewPart
  <2>. QED  BY <1>1, <2>2 DEF CoversFrom
<1>4. CoversFrom(k, n)'
  BY <1>1, <1>2, <1>3 DEF CoversFrom
<1>. QED  BY <1>4 DEF Covered

\* Nobody has a generation that was in use, unless it is kept.
LEMMA ViewHolder ==
  ASSUME TypeInv, ViewStep, NEW g \in Generations, ~Unused(g),
         NEW q \in Pageservers, ps'[q].generation = g
  PROVE  ps[q].generation = g /\ ps'[q].part = ps[q].part
<1>1. g # 0 /\ ~Pending(g) /\ ~(g > row.generation)
  BY ViewTypes DEF Unused
<1>. QED  BY <1>1 DEF ViewStep, Keeps, Drops, Starts, Loads

LEMMA ViewKey ==
  ASSUME TypeInv, ViewStep, NEW o \in Object, KeyOK(o)
  PROVE  KeyOK(o)'
<1>1. o[1] \in Generations
  BY DEF Object
<1>2. ~Unused(o[1]) /\ ~Unused(o[1])'
  BY <1>1 DEF KeyOK, ViewStep
<1>3. ASSUME NEW q \in Pageservers, ps'[q].generation = o[1] PROVE o[2] <= ps'[q].part.lsn
  <2>1. ps[q].generation = o[1] /\ ps'[q].part = ps[q].part
    BY <1>1, <1>2, <1>3, ViewHolder
  <2>. QED  BY <2>1 DEF KeyOK
<1>. QED  BY <1>2, <1>3 DEF KeyOK

LEMMA ViewOwned ==
  ASSUME TypeInv, ViewStep, NEW p \in Pageservers, NEW l \in List,
         l.generation <= row.generation, Owned(p, l)
  PROVE  Owned(p, l)'
<1>. SUFFICES ASSUME l.objects # {} PROVE \E k \in 1 .. l.generation : OwnedFrom(k, p, l)'
  BY DEF Owned
<1>1. PICK k \in 1 .. l.generation : OwnedFrom(k, p, l)
  BY DEF Owned
<1>2. index' = index
  BY DEF ViewStep
<1>3. ASSUME NEW g \in k .. l.generation
      PROVE  /\ ~Unused(g)' /\ index'[g].layers \cap l.objects = {}
             /\ \A q \in Pageservers : ps'[q].generation = g =>
                   q = p /\ g = l.generation /\ ps'[q].part.layers \cap l.objects = {}
  <2>1. /\ ~Unused(g) /\ index[g].layers \cap l.objects = {}
        /\ \A q \in Pageservers : ps[q].generation = g =>
              q = p /\ g = l.generation /\ ps[q].part.layers \cap l.objects = {}
    BY <1>1, <1>3 DEF OwnedFrom
  <2>2. g \in Generations
    BY <1>1, <1>3, ConstTypes DEF List, Generations
  <2>3. ~Unused(g)'
    BY <2>1, <2>2 DEF ViewStep
  <2>4. ASSUME NEW q \in Pageservers, ps'[q].generation = g
        PROVE  q = p /\ g = l.generation /\ ps'[q].part.layers \cap l.objects = {}
    <3>1. ps[q].generation = g /\ ps'[q].part = ps[q].part
      BY <2>1, <2>2, <2>4, ViewHolder
    <3>. QED  BY <2>1, <3>1
  <2>. QED  BY <1>2, <2>1, <2>3, <2>4
<1>4. OwnedFrom(k, p, l)'
  BY <1>1, <1>2, <1>3 DEF OwnedFrom
<1>. QED  BY <1>4

-----------------------------------------------------------------------------
(***************************************************************************)
(* The same for an upload: what is dead stays dead because the new layer's *)
(* key is new.                                                             *)
(***************************************************************************)
LEMMA UploadFacts ==
  ASSUME TypeInv, NEW p \in Pageservers, NEW kept, Uploads(p, kept)
  PROVE  /\ index'[ps[p].generation] = NewPart(p, kept)
         /\ \A g \in Generations : g # ps[p].generation => index'[g] = index[g]
         /\ NewPart(p, kept) # NoIndex
         /\ NewPart(p, kept).lsn = ps[p].part.lsn + 1
         /\ NewPart(p, kept).layers = kept \cup {NewLayer(p)}
         /\ NewLayer(p)[1] = ps[p].generation /\ NewLayer(p)[2] = ps[p].part.lsn + 1
         /\ \A q \in Pageservers : /\ ps'[q].generation = ps[q].generation
                                   /\ ps'[q].state = ps[q].state
                                   /\ q # p => ps'[q].part = ps[q].part
<1>1. index \in [Generations -> IndexPart]
  BY ViewTypes
<1>2. /\ NewPart(p, kept) # NoIndex /\ NewPart(p, kept).lsn = ps[p].part.lsn + 1
      /\ NewPart(p, kept).layers = kept \cup {NewLayer(p)}
  BY DEF NewPart, NoIndex
<1>3. /\ NewLayer(p)[1] = ps[p].generation /\ NewLayer(p)[2] = ps[p].part.lsn + 1
  BY DEF NewLayer
<1>4. \A q \in Pageservers : /\ ps'[q].generation = ps[q].generation
                             /\ ps'[q].state = ps[q].state
                             /\ q # p => ps'[q].part = ps[q].part
  BY DEF Uploads, Holds, Up
<1>5. /\ ps[p].generation \in Generations
      /\ index' = [index EXCEPT ![ps[p].generation] = NewPart(p, kept)]
  BY DEF Uploads
<1>6. /\ index'[ps[p].generation] = NewPart(p, kept)
      /\ \A g \in Generations : g # ps[p].generation => index'[g] = index[g]
  BY <1>1, <1>5
<1>. QED  BY <1>2, <1>3, <1>4, <1>6

LEMMA UploadUnused ==
  ASSUME TypeInv, NEW p \in Pageservers, NEW kept, Uploads(p, kept), NEW g
  PROVE  Unused(g)' <=> Unused(g)
<1>1. \A q \in Pageservers : ps'[q].generation = ps[q].generation /\ ps'[q].state = ps[q].state
  BY UploadFacts
<1>2. row' = row /\ op' = op /\ requests' = requests
  BY DEF Uploads
<1>. QED  BY <1>1, <1>2 DEF Unused, Pending, Starting

\* The key of the new layer is not that of any other object.
LEMMA UploadNewKey ==
  ASSUME TypeInv, NEW p \in Pageservers, NEW o, KeyOK(o)
  PROVE  o # NewLayer(p)
<1>. SUFFICES ASSUME o = NewLayer(p) PROVE FALSE
  OBVIOUS
<1>1. o[1] = ps[p].generation /\ o[2] = ps[p].part.lsn + 1
  BY DEF NewLayer
<1>2. ps[p].part.lsn \in Nat
  BY ViewTypes
<1>. QED  BY <1>1, <1>2 DEF KeyOK

LEMMA UploadDead ==
  ASSUME TypeInv, NEW p \in Pageservers, NEW kept, Uploads(p, kept),
         NEW O, \A o \in O : KeyOK(o), Dead(O)
  PROVE  Dead(O)'
<1>1. PICK k \in Generations : DeadFrom(k, O)
  BY DEF Dead
<1>. DEFINE g == ps[p].generation
            new == NewPart(p, kept)
<1>2. /\ index'[g] = new /\ \A h \in Generations : h # g => index'[h] = index[h]
      /\ new # NoIndex /\ new.layers = kept \cup {NewLayer(p)}
      /\ \A q \in Pageservers : /\ ps'[q].generation = ps[q].generation
                                /\ ps'[q].state = ps[q].state
                                /\ q # p => ps'[q].part = ps[q].part
  BY UploadFacts
<1>3. Up(p) /\ g \in Generations /\ kept \subseteq ps[p].part.layers /\ ps'[p].part = new
  BY DEF Uploads, Holds
<1>4. NewLayer(p) \notin O
  BY UploadNewKey
<1>5. g >= k => new.layers \cap O = {}
  BY <1>1, <1>2, <1>3, <1>4 DEF DeadFrom
<1>6. index'[k] # NoIndex
  BY <1>1, <1>2 DEF DeadFrom
<1>. HIDE DEF new
<1>7. \A h \in Generations : h >= k => index'[h].layers \cap O = {}
  BY <1>1, <1>2, <1>5 DEF DeadFrom
<1>8. \A q \in Pageservers : Up(q)' /\ ps'[q].generation >= k => ps'[q].part.layers \cap O = {}
  BY <1>1, <1>2, <1>3, <1>5 DEF DeadFrom, Up
<1>9. DeadFrom(k, O)'
  BY <1>6, <1>7, <1>8 DEF DeadFrom
<1>. QED  BY <1>9 DEF Dead

LEMMA UploadCovered ==
  ASSUME TypeInv, NEW p \in Pageservers, NEW kept, Uploads(p, kept),
         NEW n \in Nat, Covered(n)
  PROVE  Covered(n)'
<1>1. PICK k \in Generations : CoversFrom(k, n)
  BY DEF Covered
<1>. DEFINE g == ps[p].generation
            new == NewPart(p, kept)
<1>2. /\ index'[g] = new /\ \A h \in Generations : h # g => index'[h] = index[h]
      /\ new # NoIndex /\ new.lsn = ps[p].part.lsn + 1
      /\ \A q \in Pageservers : /\ ps'[q].generation = ps[q].generation
                                /\ ps'[q].state = ps[q].state
                                /\ q # p => ps'[q].part = ps[q].part
  BY UploadFacts
<1>3. Up(p) /\ g \in Generations /\ ps'[p].part = new /\ ps[p].part.lsn \in Nat
  BY ViewTypes DEF Uploads, Holds
<1>. HIDE DEF new
<1>5. g >= k => new.lsn >= n
  <2>1. g >= k => ps[p].part.lsn >= n
    BY <1>1, <1>3 DEF CoversFrom
  <2>. QED  BY <1>2, <1>3, <2>1
<1>6. index'[k] # NoIndex
  BY <1>1, <1>2 DEF CoversFrom
<1>7. \A h \in Generations : h >= k /\ index'[h] # NoIndex => index'[h].lsn >= n
  BY <1>1, <1>2, <1>5 DEF CoversFrom
<1>8. \A q \in Pageservers : Up(q)' /\ ps'[q].generation >= k => ps'[q].part.lsn >= n
  BY <1>1, <1>2, <1>3, <1>5 DEF CoversFrom, Up
<1>9. CoversFrom(k, n)'
  BY <1>6, <1>7, <1>8 DEF CoversFrom
<1>. QED  BY <1>9 DEF Covered

LEMMA UploadKey ==
  ASSUME TypeInv, NEW p \in Pageservers, NEW kept, Uploads(p, kept), NEW o \in Object, KeyOK(o)
  PROVE  KeyOK(o)'
<1>1. ~Unused(o[1])'
  BY UploadUnused DEF KeyOK
<1>2. ASSUME NEW q \in Pageservers, ps'[q].generation = o[1] PROVE o[2] <= ps'[q].part.lsn
  <2>1. ps[q].generation = o[1] /\ (q # p => ps'[q].part = ps[q].part)
    BY <1>2, UploadFacts
  <2>2. o[2] <= ps[q].part.lsn /\ ps[q].part.lsn \in Nat /\ o[2] \in Nat
    BY <2>1, ViewTypes, ConstTypes DEF KeyOK, Object
  <2>3. q = p => ps'[q].part.lsn = ps[q].part.lsn + 1
    <3>1. NewPart(p, kept).lsn = ps[p].part.lsn + 1
      BY UploadFacts
    <3>. QED  BY <3>1 DEF Uploads
  <2>. QED  BY <2>1, <2>2, <2>3
<1>. QED  BY <1>1, <1>2 DEF KeyOK

\* The generation of whoever holds the tenant is in use.
LEMMA HeldIsUsed ==
  ASSUME TypeInv, IssueInv, NEW p \in Pageservers, Holds(p)
  PROVE  ~Unused(ps[p].generation)
<1>. DEFINE g == ps[p].generation
<1>1. Up(p) /\ g # 0 /\ g <= row.generation /\ g \in Nat /\ row.generation \in Nat
  BY ViewTypes DEF Holds, IssueInv
<1>2. ~(g > row.generation)
  BY <1>1
<1>3. ~\E r \in requests : r.generation = g
  BY DEF IssueInv
<1>4. ~(op.kind = "attach_hook" /\ op.generation = g)
  BY DEF IssueInv
<1>5. ~\E q \in Pageservers : Starting(q) /\ ps[q].generation = g
  BY <1>1 DEF IssueInv, Starting, Up
<1>. QED  BY <1>2, <1>3, <1>4, <1>5 DEF Unused, Pending

LEMMA UploadNewKeyOK ==
  ASSUME TypeInv, IssueInv, NEW p \in Pageservers, NEW kept, Uploads(p, kept),
         NEW o, o = NewLayer(p)
  PROVE  KeyOK(o)'
<1>. DEFINE n == ps[p].part.lsn
<1>1. /\ o[1] = ps[p].generation /\ o[2] = n + 1 /\ NewPart(p, kept).lsn = n + 1
      /\ \A q \in Pageservers : ps'[q].generation = ps[q].generation
  BY UploadFacts
<1>2. ps'[p].part.lsn = n + 1 /\ Holds(p)
  BY <1>1 DEF Uploads
<1>3. ~Unused(o[1])'
  <2>1. ~Unused(o[1])
    BY <1>1, <1>2, HeldIsUsed
  <2>. QED  BY <2>1, UploadUnused
<1>4. n \in Nat /\ ps[p].generation # 0
  BY <1>2, ViewTypes DEF Holds
<1>5. ASSUME NEW q \in Pageservers, ps'[q].generation = o[1] PROVE o[2] <= ps'[q].part.lsn
  <2>1. q = p
    BY <1>1, <1>4, <1>5 DEF IssueInv
  <2>. QED  BY <1>1, <1>2, <1>4, <2>1
<1>. QED  BY <1>3, <1>5 DEF KeyOK

LEMMA UploadOwned ==
  ASSUME TypeInv, NEW p \in Pageservers, NEW kept, Uploads(p, kept),
         NEW q \in Pageservers, NEW l \in List, \A o \in l.objects : KeyOK(o), Owned(q, l)
  PROVE  Owned(q, l)'
<1>. SUFFICES ASSUME l.objects # {} PROVE \E k \in 1 .. l.generation : OwnedFrom(k, q, l)'
  BY DEF Owned
<1>1. PICK k \in 1 .. l.generation : OwnedFrom(k, q, l)
  BY DEF Owned
<1>. DEFINE h == ps[p].generation
            new == NewPart(p, kept)
<1>2. /\ index'[h] = new /\ \A g \in Generations : g # h => index'[g] = index[g]
      /\ new # NoIndex /\ new.layers = kept \cup {NewLayer(p)}
      /\ \A s \in Pageservers : /\ ps'[s].generation = ps[s].generation
                                /\ s # p => ps'[s].part = ps[s].part
  BY UploadFacts
<1>3. kept \subseteq ps[p].part.layers /\ ps'[p].part = new
  BY DEF Uploads
<1>4. NewLayer(p) \notin l.objects
  BY UploadNewKey
<1>. HIDE DEF new
<1>5. \A g \in k .. l.generation : g \in Generations
  BY ConstTypes DEF List, Generations
<1>6. ASSUME NEW g \in k .. l.generation
      PROVE  /\ ~Unused(g)' /\ index'[g].layers \cap l.objects = {}
             /\ \A s \in Pageservers : ps'[s].generation = g =>
                   s = q /\ g = l.generation /\ ps'[s].part.layers \cap l.objects = {}
  <2>1. /\ ~Unused(g) /\ index[g].layers \cap l.objects = {}
        /\ \A s \in Pageservers : ps[s].generation = g =>
              s = q /\ g = l.generation /\ ps[s].part.layers \cap l.objects = {}
    BY <1>1, <1>6 DEF OwnedFrom
  <2>2. ~Unused(g)'
    BY <2>1, UploadUnused
  <2>3. g = h => new.layers \cap l.objects = {}
    BY <1>2, <1>3, <1>4, <2>1
  <2>4. index'[g].layers \cap l.objects = {}
    BY <1>2, <1>5, <2>1, <2>3
  <2>5. ASSUME NEW s \in Pageservers, ps'[s].generation = g
        PROVE  s = q /\ g = l.generation /\ ps'[s].part.layers \cap l.objects = {}
    BY <1>2, <1>3, <2>1, <2>3, <2>5
  <2>. QED  BY <2>2, <2>4, <2>5
<1>7. index'[k] # NoIndex
  <2>1. k \in Generations
    BY ConstTypes DEF List, Generations
  <2>. QED  BY <1>1, <1>2, <2>1 DEF OwnedFrom
<1>8. OwnedFrom(k, q, l)'
  BY <1>6, <1>7 DEF OwnedFrom
<1>. QED  BY <1>8

-----------------------------------------------------------------------------
(***************************************************************************)
(* Generations: the service's steps.                                       *)
(***************************************************************************)
LEMMA ServiceView ==
  ASSUME TypeInv, ServiceOnly, \A g \in Generations : Unused(g)' => Unused(g),
         row'.generation >= row.generation
  PROVE  ViewStep
<1>1. index' = index /\ ps' = ps
  BY DEF ServiceOnly, storageVars
<1>2. \A q \in Pageservers : Keeps(q)
  BY <1>1 DEF Keeps, Up
<1>. QED  BY <1>1, <1>2 DEF ViewStep

LEMMA AttachHookView ==
  ASSUME TypeInv, IssueInv,
         NEW n \in Pageservers, AttachHook(n), ServiceOnly
  PROVE  ViewStep /\ IssueInv'
<1>1. /\ op.kind = "none" /\ row'.generation = row.generation + 1 /\ row'.node = n
      /\ op'.kind = "attach_hook" /\ op'.generation = row.generation + 1
      /\ requests' = requests /\ generation' = generation
  BY DEF AttachHook, increment_generation, NoOp
<1>2. ps' = ps /\ index' = index
  BY DEF ServiceOnly, storageVars
<1>3. row.generation \in Nat /\ generation \in Nat /\ \A g \in Generations : g \in Nat
  BY ViewTypes
<1>4. /\ \A r \in requests : r.generation \in Nat
      /\ \A p \in Pageservers : ps[p].generation \in Nat
  BY ViewTypes
<1>5. \A g \in Generations : Unused(g)' => Unused(g)
  BY <1>1, <1>2, <1>3 DEF Unused, Pending, Starting
<1>6. ViewStep
  BY <1>1, <1>3, <1>5, ServiceView
<1>7. IssueInv'
  <2>1. /\ \A r \in requests : r.generation < row.generation + 1
        /\ \A p \in Pageservers : ps[p].generation < row.generation + 1
    BY <1>3, <1>4 DEF IssueInv
  <2>2. /\ \A r \in requests : r.generation <= row.generation + 1 /\ r.generation # row.generation + 1
        /\ \A p \in Pageservers : ps[p].generation <= row.generation + 1
                                  /\ ps[p].generation # row.generation + 1
    BY <1>3, <1>4, <2>1
  <2>3. \A g \in Generations : Unused(g)' => index'[g] = NoIndex
    BY <1>2, <1>5 DEF IssueInv
  <2>. QED  BY <1>1, <1>2, <1>3, <2>2, <2>3 DEF IssueInv
<1>. QED  BY <1>6, <1>7

LEMMA ReconcileView ==
  ASSUME TypeInv, IssueInv,
         NEW n \in Pageservers, Reconcile(n), ServiceOnly
  PROVE  ViewStep /\ IssueInv'
<1>. DEFINE new == [node |-> n, generation |-> row.generation + 1]
<1>1. /\ op.kind = "none" /\ row'.generation = row.generation + 1 /\ row'.node = n
      /\ op'.kind = "reconcile" /\ op'.generation = row.generation + 1 /\ op'.node = n
      /\ requests' = requests \cup {new} /\ generation' = generation
  BY DEF Reconcile, increment_generation, NoOp
<1>2. ps' = ps /\ index' = index
  BY DEF ServiceOnly, storageVars
<1>3. row.generation \in Nat /\ generation \in Nat /\ \A g \in Generations : g \in Nat
  BY ViewTypes
<1>4. /\ \A r \in requests : r.generation \in Nat
      /\ \A p \in Pageservers : ps[p].generation \in Nat
  BY ViewTypes
<1>0. new.node = n /\ new.generation = row.generation + 1
  OBVIOUS
<1>. HIDE DEF new
<1>5. \A g \in Generations : Unused(g)' => Unused(g)
  BY <1>0, <1>1, <1>2, <1>3 DEF Unused, Pending, Starting
<1>6. ViewStep
  BY <1>1, <1>3, <1>5, ServiceView
<1>7. IssueInv'
  <2>1. /\ \A r \in requests : r.generation < row.generation + 1
        /\ \A p \in Pageservers : ps[p].generation < row.generation + 1
    BY <1>3, <1>4 DEF IssueInv
  <2>2. /\ \A r \in requests : r.generation <= row.generation + 1 /\ r.generation # row.generation + 1
        /\ \A p \in Pageservers : ps[p].generation <= row.generation + 1
                                  /\ ps[p].generation # row.generation + 1
    BY <1>3, <1>4, <2>1
  <2>3. \A g \in Generations : Unused(g)' => index'[g] = NoIndex
    BY <1>2, <1>5 DEF IssueInv
  <2>4. row.generation + 1 <= row.generation + 1
    BY <1>3
  <2>5. \A r, q \in requests' : r.generation = q.generation => r = q
    BY <1>0, <1>1, <2>2 DEF IssueInv
  <2>6. \A r \in requests', p \in Pageservers : r.generation # ps[p].generation
    BY <1>0, <1>1, <2>2 DEF IssueInv
  <2>7. \A r \in requests' : r.generation <= row.generation + 1
    BY <1>0, <1>1, <2>2, <2>4
  <2>. QED  BY <1>1, <1>2, <2>2, <2>3, <2>4, <2>5, <2>6, <2>7 DEF IssueInv
<1>. QED  BY <1>6, <1>7

\* A call of the service ends: what it issued is on its way, or lost.
LEMMA CallEnds ==
  ASSUME TypeInv, IssueInv, ServiceOnly,
         row' = row, op'.kind = "none", op'.generation = 0,
         \A g \in Generations : Unused(g)' => Unused(g),
         \A r \in requests' : r.generation <= row.generation,
         \A r, q \in requests' : r.generation = q.generation => r = q,
         \A r \in requests', p \in Pageservers : r.generation # ps[p].generation
  PROVE  ViewStep /\ IssueInv'
<1>1. ps' = ps /\ index' = index
  BY DEF ServiceOnly, storageVars
<1>2. row.generation \in Nat /\ row.generation >= row.generation /\ 0 <= row.generation
  BY ViewTypes
<1>3. ViewStep
  BY <1>2, ServiceView
<1>4. IssueInv'
  <2>1. \A g \in Generations : Unused(g)' => index'[g] = NoIndex
    BY <1>1 DEF IssueInv
  <2>. QED  BY <1>1, <1>2, <2>1 DEF IssueInv
<1>. QED  BY <1>3, <1>4

LEMMA AttachHookReplyView ==
  ASSUME TypeInv, IssueInv, AttachHookReply, ServiceOnly
  PROVE  ViewStep /\ IssueInv'
<1>. DEFINE new == [node |-> op.node, generation |-> op.generation]
<1>0. new.generation = op.generation
  OBVIOUS
<1>. HIDE DEF new
<1>1. /\ op.kind = "attach_hook" /\ requests' = requests \cup {new}
      /\ op'.kind = "none" /\ op'.generation = 0 /\ row' = row
  BY DEF AttachHookReply, new, NoOp
<1>2. ps' = ps /\ index' = index
  BY DEF ServiceOnly, storageVars
<1>3. \A r \in requests' : r.generation <= row.generation
  BY <1>0, <1>1 DEF IssueInv
<1>4. \A g \in Generations : Unused(g)' => Unused(g)
  BY <1>0, <1>1, <1>2 DEF Unused, Pending, Starting
<1>5. /\ \A r, q \in requests' : r.generation = q.generation => r = q
      /\ \A r \in requests', p \in Pageservers : r.generation # ps[p].generation
  BY <1>0, <1>1 DEF IssueInv
<1>. QED  BY <1>1, <1>3, <1>4, <1>5, CallEnds

LEMMA CallForgotten ==
  ASSUME TypeInv, IssueInv, process_result \/ RestartService, ServiceOnly
  PROVE  ViewStep /\ IssueInv'
<1>1. requests' = requests /\ op'.kind = "none" /\ op'.generation = 0 /\ row' = row
  BY DEF process_result, RestartService, NoOp
<1>2. ps' = ps /\ index' = index
  BY DEF ServiceOnly, storageVars
<1>3. \A g \in Generations : Unused(g)' => Unused(g)
  BY <1>1, <1>2 DEF Unused, Pending, Starting
<1>4. /\ \A r \in requests : r.generation <= row.generation
      /\ \A r, q \in requests : r.generation = q.generation => r = q
      /\ \A r \in requests, p \in Pageservers : r.generation # ps[p].generation
  BY DEF IssueInv
<1>. QED  BY <1>1, <1>3, <1>4, CallEnds

LEMMA RequestFailsView ==
  ASSUME TypeInv, IssueInv, NEW p \in Pageservers, RequestFails(p)
  PROVE  ServiceOnly /\ ViewStep /\ IssueInv'
<1>1. /\ ServiceOnly /\ row' = row /\ generation' = generation /\ op' = op
      /\ requests' \subseteq requests
  BY DEF RequestFails, ServiceOnly
<1>2. ps' = ps /\ index' = index
  BY <1>1 DEF ServiceOnly, storageVars
<1>3. \A g \in Generations : Unused(g)' => Unused(g)
  BY <1>1, <1>2 DEF Unused, Pending, Starting
<1>4. row.generation >= row.generation
  BY ViewTypes
<1>5. ViewStep
  BY <1>1, <1>3, <1>4, ServiceView
<1>6. IssueInv'
  BY <1>1, <1>2, <1>3 DEF IssueInv
<1>. QED  BY <1>1, <1>5, <1>6

-----------------------------------------------------------------------------
(***************************************************************************)
(* Generations: the pageservers' steps.                                    *)
(***************************************************************************)
LEMMA QueueView ==
  ASSUME TypeInv, IssueInv, NEW p \in Pageservers, Frame(p), SameHolder(p),
         UNCHANGED <<serviceVars, index>>
  PROVE  ViewStep /\ IssueInv'
<1>1. \A q \in Pageservers :
        ps'[q].state = ps[q].state /\ ps'[q].generation = ps[q].generation /\ ps'[q].part = ps[q].part
  BY DEF Frame, SameHolder
<1>2. row' = row /\ generation' = generation /\ op' = op /\ requests' = requests /\ index' = index
  BY DEF serviceVars
<1>3. \A q \in Pageservers : Keeps(q)
  BY <1>1 DEF Keeps, Up
<1>4. \A g : Unused(g)' <=> Unused(g)
  BY <1>1, <1>2 DEF Unused, Pending, Starting
<1>6. row.generation >= row.generation
  BY ViewTypes
<1>7. ViewStep
  BY <1>2, <1>3, <1>4, <1>6 DEF ViewStep
<1>8. IssueInv'
  BY <1>1, <1>2, <1>4 DEF IssueInv
<1>. QED  BY <1>7, <1>8

LEMMA FrameView ==
  ASSUME TypeInv, NEW p \in Pageservers, Frame(p), index' = index,
         Keeps(p) \/ Drops(p) \/ Starts(p) \/ Loads(p),
         \A g \in Generations : Unused(g)' => Unused(g),
         row'.generation >= row.generation
  PROVE  ViewStep
<1>1. \A q \in Pageservers : q # p => Keeps(q)
  BY DEF Frame, Keeps, Up
<1>. QED  BY <1>1 DEF ViewStep

LEMMA UpsertView ==
  ASSUME TypeInv, IssueInv, NEW p \in Pageservers, upsert_location(p)
  PROVE  ViewStep /\ IssueInv'
<1>1. /\ Frame(p) /\ Up(p) /\ ps'[p].state = "up"
      /\ UNCHANGED <<row, generation, op, index>>
  BY UpsertFields
<1>2. PICK r \in requests :
              /\ r.node = p /\ requests' = requests \ {r}
              /\ \/ SameHolder(p)
                 \/ /\ r.generation > ps[p].generation
                    /\ ps'[p].generation = r.generation
                    /\ ps'[p].part = download_index_part(r.generation)
  BY UpsertFields
<1>3. /\ r.generation \in Generations /\ r.generation \in Nat /\ r.generation # 0
      /\ row.generation \in Nat /\ generation \in Nat /\ op.generation \in Nat
      /\ \A q \in Pageservers : ps[q].generation \in Nat
      /\ \A g \in Generations : g \in Nat
  <2>1. r.generation \in Generations
    BY ViewTypes
  <2>2. \A g \in Generations : g \in Nat /\ g # 0
    BY ViewTypes
  <2>. QED  BY <2>1, <2>2, ViewTypes
<1>4. \A q \in Pageservers : q # p => ps'[q] = ps[q]
  BY <1>1 DEF Frame
<1>5. /\ \A q \in Pageservers : Starting(q)' => Starting(q) /\ ps'[q].generation = ps[q].generation
      /\ \A q \in Pageservers : ps'[q].state = ps[q].state
  BY <1>1, <1>4 DEF Starting, Up
<1>6. \A g \in Generations : Unused(g)' => Unused(g)
  BY <1>1, <1>2, <1>5 DEF Unused, Pending
<1>7. ViewStep
  <2>1. Keeps(p) \/ Loads(p)
    <3>1. CASE SameHolder(p)
      BY <1>1, <3>1 DEF SameHolder, Keeps, Up
    <3>2. CASE ~SameHolder(p)
      <4>1. Pending(r.generation)
        BY DEF Pending
      <4>. QED  BY <1>2, <1>3, <3>2, <4>1 DEF Loads
    <3>. QED  BY <3>1, <3>2
  <2>2. row.generation >= row.generation
    BY <1>3
  <2>. QED  BY <1>1, <1>6, <2>1, <2>2, FrameView
<1>8. ps'[p].generation = ps[p].generation \/ (ps'[p].generation = r.generation /\ r.generation > ps[p].generation)
  BY <1>2 DEF SameHolder
<1>9. IssueInv'
  <2>1. \A g \in Generations : Unused(g)' => index'[g] = NoIndex
    BY <1>1, <1>6 DEF IssueInv
  <2>2. \A s \in requests' : s \in requests /\ s.generation # r.generation
    BY <1>2 DEF IssueInv
  <2>3. \A q \in Pageservers : ps[q].generation # r.generation
    BY DEF IssueInv
  <2>4. \A q \in Pageservers : ps'[q].generation <= row.generation
    BY <1>4, <1>8 DEF IssueInv
  <2>5. \A q, s \in Pageservers :
          ps'[q].generation = ps'[s].generation /\ ps'[q].generation # 0 => q = s
    BY <1>4, <1>8, <2>3 DEF IssueInv
  <2>6. \A s \in requests', q \in Pageservers : s.generation # ps'[q].generation
    BY <1>4, <1>8, <2>2 DEF IssueInv
  <2>7. op.kind = "attach_hook" =>
          /\ \A s \in requests' : s.generation # op.generation
          /\ \A q \in Pageservers : ps'[q].generation # op.generation
    BY <1>4, <1>8, <2>2 DEF IssueInv
  <2>8. \A q \in Pageservers : ps'[q].state = "down" => ps'[q].generation = 0
    BY <1>1, <1>4 DEF IssueInv
  <2>. QED  BY <1>1, <2>1, <2>2, <2>4, <2>5, <2>6, <2>7, <2>8 DEF IssueInv
<1>. QED  BY <1>7, <1>9

\* A pageserver stops holding the tenant.
LEMMA DropView ==
  ASSUME TypeInv, IssueInv, NEW p \in Pageservers, Frame(p), index' = index,
         UNCHANGED serviceVars, Drops(p), ~Starting(p)'
  PROVE  ViewStep /\ IssueInv'
<1>1. row' = row /\ generation' = generation /\ op' = op /\ requests' = requests
  BY DEF serviceVars
<1>2. ps'[p].generation = 0 /\ \A q \in Pageservers : q # p => ps'[q] = ps[q]
  BY DEF Drops, Frame
<1>3. \A g \in Generations : Unused(g)' => Unused(g)
  BY <1>1, <1>2 DEF Unused, Pending, Starting
<1>4. ViewStep
  <2>1. row.generation >= row.generation
    BY ViewTypes
  <2>. QED  BY <1>1, <1>3, <2>1, FrameView
<1>5. 0 <= row.generation /\ (\A r \in requests : r.generation # 0) /\ \A g \in Generations : g # 0
  BY ViewTypes
<1>6. IssueInv'
  <2>1. op.kind = "attach_hook" => op.generation # 0
    <3>1. op.kind = "attach_hook" => op.generation \in Generations
      BY DEF TypeInv, Types, ServiceType, NoOp
    <3>. QED  BY <1>5, <3>1
  <2>2. \A g \in Generations : Unused(g)' => index'[g] = NoIndex
    BY <1>3 DEF IssueInv
  <2>. QED  BY <1>1, <1>2, <1>5, <2>1, <2>2 DEF IssueInv
<1>. QED  BY <1>4, <1>6

LEMMA DetachView ==
  ASSUME TypeInv, IssueInv, NEW p \in Pageservers, DetachTenant(p)
  PROVE  ViewStep /\ IssueInv'
<1>1. /\ Frame(p) /\ ps'[p].state = "up" /\ UNCHANGED <<serviceVars, storageVars>>
      /\ row.node # p /\ ps'[p].generation = 0 /\ ps'[p].part = NoIndex
  BY DetachFields DEF TypeInv
<1>2. index' = index /\ Drops(p) /\ ~Starting(p)'
  BY <1>1 DEF storageVars, Drops, Starting
<1>. QED  BY <1>1, <1>2, DropView

LEMMA CrashView ==
  ASSUME TypeInv, IssueInv, NEW p \in Pageservers, Crash(p)
  PROVE  ViewStep /\ IssueInv'
<1>1. /\ Frame(p) /\ ps'[p] = Down /\ UNCHANGED <<serviceVars, storageVars>>
  BY CrashFields DEF TypeInv
<1>2. index' = index /\ Drops(p) /\ ~Starting(p)' /\ ps'[p].state = "down"
  BY <1>1 DEF storageVars, Drops, Starting, Down
<1>. QED  BY <1>1, <1>2, DropView

LEMMA ReAttachView ==
  ASSUME TypeInv, IssueInv, NEW p \in Pageservers, ReAttach(p)
  PROVE  ViewStep /\ IssueInv'
<1>1. /\ Frame(p) /\ ps'[p].part = ps[p].part
      /\ ps[p].state = "down" /\ ps'[p].state = "starting"
      /\ UNCHANGED <<storageVars, generation, op, requests>>
      /\ row'.node = row.node
      /\ \/ /\ row.node = p /\ row'.generation = row.generation + 1
            /\ ps'[p].generation = row.generation + 1
         \/ row.node # p /\ row'.generation = row.generation /\ ps'[p].generation = 0
  BY ReAttachFields
<1>2. /\ row.generation \in Nat /\ generation \in Nat
      /\ \A q \in Pageservers : ps[q].generation \in Nat
      /\ \A r \in requests : r.generation \in Nat /\ r.generation # 0
      /\ \A g \in Generations : g \in Nat /\ g # 0
  <2>1. \A g \in Generations : g \in Nat /\ g # 0
    BY ViewTypes
  <2>2. \A r \in requests : r.generation \in Generations
    BY ViewTypes
  <2>. QED  BY <2>1, <2>2, ViewTypes
<1>3. index' = index /\ \A q \in Pageservers : q # p => ps'[q] = ps[q]
  BY <1>1 DEF Frame, storageVars
<1>4. row'.generation >= row.generation /\ row'.generation \in Nat
  BY <1>1, <1>2
<1>5. ps'[p].generation = 0 \/ (row.node = p /\ ps'[p].generation > row.generation
                                /\ ps'[p].generation = row'.generation)
  BY <1>1, <1>2
<1>6. \A g \in Generations : Unused(g)' => Unused(g)
  <2>. SUFFICES ASSUME NEW g \in Generations, Unused(g)', ~Unused(g) PROVE FALSE
    OBVIOUS
  <2>1. ~(g > row.generation) /\ ~Pending(g)
    BY DEF Unused
  <2>2. ~(g > row'.generation)
    BY <1>2, <1>4, <2>1
  <2>3. Pending(g)'
    BY <2>2 DEF Unused
  <2>4. PICK q \in Pageservers : Starting(q)' /\ ps'[q].generation = g
    BY <1>1, <2>1, <2>3 DEF Pending
  <2>5. q = p
    BY <1>3, <2>1, <2>4 DEF Pending, Starting
  <2>. QED  BY <1>2, <1>5, <2>1, <2>4, <2>5
<1>7. ViewStep
  <2>1. Drops(p) \/ Starts(p)
    BY <1>1, <1>5 DEF Drops, Starts, Up
  <2>. QED  BY <1>1, <1>3, <1>4, <1>6, <2>1, FrameView
<1>8. IssueInv'
  <2>1. /\ \A r \in requests : r.generation <= row'.generation
        /\ op.generation <= row'.generation
        /\ \A q \in Pageservers : q # p => ps[q].generation <= row'.generation
    <3>1. op.generation \in Nat
      BY ViewTypes
    <3>. QED  BY <1>2, <1>4, <3>1 DEF IssueInv
  <2>2. ps'[p].generation <= row'.generation
    BY <1>4, <1>5
  <2>3. \A q \in Pageservers : q # p => ps[q].generation # ps'[p].generation \/ ps[q].generation = 0
    BY <1>2, <1>5 DEF IssueInv
  <2>4. \A r \in requests : r.generation # ps'[p].generation
    BY <1>2, <1>5 DEF IssueInv
  <2>5. \A g \in Generations : Unused(g)' => index'[g] = NoIndex
    BY <1>3, <1>6 DEF IssueInv
  <2>6. \A q, s \in Pageservers :
          ps'[q].generation = ps'[s].generation /\ ps'[q].generation # 0 => q = s
    BY <1>3, <2>3 DEF IssueInv
  <2>7. /\ \A q \in Pageservers : ps'[q].generation <= row'.generation
        /\ \A r \in requests, q \in Pageservers : r.generation # ps'[q].generation
        /\ \A q \in Pageservers : ps'[q].state = "down" => ps'[q].generation = 0
    BY <1>1, <1>3, <2>1, <2>2, <2>4 DEF IssueInv
  <2>8. op.kind = "attach_hook" =>
          /\ \A r \in requests : r.generation # op.generation
          /\ \A q \in Pageservers : ps'[q].generation # op.generation
    <3>1. op.kind = "attach_hook" => op.generation \in Generations
      BY DEF TypeInv, Types, ServiceType, NoOp
    <3>2. op.kind = "attach_hook" => ps'[p].generation # op.generation
      BY <1>2, <1>5, <3>1 DEF IssueInv
    <3>. QED  BY <1>3, <3>2 DEF IssueInv
  <2>. QED  BY <1>1, <2>1, <2>5, <2>6, <2>7, <2>8 DEF IssueInv
<1>. QED  BY <1>7, <1>8

LEMMA ReAttachReplyView ==
  ASSUME TypeInv, IssueInv, NEW p \in Pageservers, ReAttachReply(p)
  PROVE  ViewStep /\ IssueInv'
<1>. DEFINE g == ps[p].generation
<1>1. /\ Frame(p) /\ Starting(p) /\ ps'[p].state = "up"
      /\ UNCHANGED <<row, op, requests, storageVars>>
      /\ generation' = Max({generation, g}) /\ ps'[p].generation = g
      /\ ps'[p].part = IF g = 0 THEN NoIndex ELSE download_index_part(g)
  BY ReAttachReplyFields
<1>2. /\ row.generation \in Nat /\ generation \in Nat /\ g \in Nat
      /\ \A h \in Generations : h \in Nat
      /\ \A r \in requests : r.generation \in Nat
      /\ g # 0 => g \in Generations
  BY ViewTypes
<1>3. index' = index /\ \A q \in Pageservers : q # p => ps'[q] = ps[q]
  BY <1>1 DEF Frame, storageVars
<1>6. \A q \in Pageservers : Starting(q)' => Starting(q) /\ ps'[q].generation = ps[q].generation
  BY <1>1, <1>3 DEF Starting
<1>7. \A h \in Generations : Unused(h)' => Unused(h)
  BY <1>1, <1>6 DEF Unused, Pending
<1>8. ViewStep
  <2>1. Drops(p) \/ Loads(p)
    <3>1. CASE g = 0
      BY <1>1, <3>1 DEF Drops
    <3>2. CASE g # 0
      <4>1. Pending(g)
        BY <1>1 DEF Pending
      <4>. QED  BY <1>1, <1>2, <3>2, <4>1 DEF Loads
    <3>. QED  BY <3>1, <3>2
  <2>2. row'.generation >= row.generation
    BY <1>1, <1>2
  <2>. QED  BY <1>1, <1>3, <1>7, <2>1, <2>2, FrameView
<1>9. \A q \in Pageservers : ps'[q].generation = ps[q].generation
  BY <1>1, <1>3
<1>10. IssueInv'
  <2>1. \A h \in Generations : Unused(h)' => index'[h] = NoIndex
    BY <1>3, <1>7 DEF IssueInv
  <2>2. \A q \in Pageservers : ps'[q].state = "down" => ps'[q].generation = 0
    BY <1>1, <1>3 DEF IssueInv
  <2>. QED  BY <1>1, <1>9, <2>1, <2>2 DEF IssueInv
<1>. QED  BY <1>8, <1>10

LEMMA UploadIs ==
  ASSUME TypeInv, NEW p \in Pageservers, UploadIndex(p)
  PROVE  \E kept \in SUBSET Object :
           /\ Uploads(p, kept)
           /\ \/ Kept(p)
              \/ kept = {} /\ (PushedDirectly(p, ps[p].part.layers)
                               \/ PushedAfterFlush(p, ps[p].part.layers))
<1>1. /\ Frame(p) /\ Holds(p) /\ ps'[p].state = "up"
      /\ ps[p].generation \in Generations /\ ps'[p].generation = ps[p].generation
      /\ UNCHANGED serviceVars
  BY UploadFields
<1>2. PICK kept \in SUBSET Object :
              /\ kept \subseteq ps[p].part.layers
              /\ index' = [index EXCEPT ![ps[p].generation] = NewPart(p, kept)]
              /\ ps'[p].part = NewPart(p, kept)
              /\ \/ Kept(p)
                 \/ /\ kept = {}
                    /\ \/ PushedDirectly(p, ps[p].part.layers)
                       \/ PushedAfterFlush(p, ps[p].part.layers)
  BY UploadFields
<1>3. Uploads(p, kept)
  BY <1>1, <1>2 DEF Uploads, Up, Frame, serviceVars
<1>. QED  BY <1>2, <1>3

LEMMA UploadView ==
  ASSUME TypeInv, IssueInv, NEW p \in Pageservers, NEW kept, Uploads(p, kept)
  PROVE  IssueInv'
<1>. DEFINE g == ps[p].generation
<1>1. /\ index'[g] # NoIndex
      /\ \A h \in Generations : h # g => index'[h] = index[h]
      /\ \A q \in Pageservers : ps'[q].generation = ps[q].generation /\ ps'[q].state = ps[q].state
  BY UploadFacts
<1>2. row' = row /\ generation' = generation /\ op' = op /\ requests' = requests /\ Holds(p)
  BY DEF Uploads
<1>3. \A h : Unused(h)' <=> Unused(h)
  BY UploadUnused
<1>4. ~Unused(g)
  BY <1>2, HeldIsUsed
<1>5. IssueInv'
  <2>1. \A h \in Generations : Unused(h)' => index'[h] = NoIndex
    BY <1>1, <1>3, <1>4 DEF IssueInv
  <2>. QED  BY <1>1, <1>2, <2>1 DEF IssueInv
<1>. QED  BY <1>5

-----------------------------------------------------------------------------
(***************************************************************************)
(* Lists.                                                                  *)
(***************************************************************************)
LEMMA ListTypes == TypeInv => \A p \in Pageservers : Lists(p) \subseteq List
<1>. SUFFICES ASSUME TypeInv, NEW p \in Pageservers PROVE Lists(p) \subseteq List
  OBVIOUS
<1>1. Types
  BY DEF TypeInv
<1>2. /\ ps[p].pending \in List /\ ps[p].channel \subseteq List
      /\ ps[p].validator.pending \subseteq List /\ ps[p].validator.validated \subseteq List
      /\ disk[p].lists \subseteq List
  BY <1>1, SlotTypes
<1>. QED  BY <1>2 DEF Lists, Handed

LEMMA ListTypesNext == TypeInv' => \A p \in Pageservers : Lists(p)' \subseteq List
<1>1. TypeInv' => (\A p \in Pageservers : Lists(p) \subseteq List)'
  BY ListTypes, PTL
<1>. QED  BY <1>1

LEMMA GenerationPositive == TypeInv => row.generation \in Nat /\ index[1] # NoIndex
BY ViewTypes

LEMMA GenerationPositiveNext ==
  TypeInv' => row'.generation \in Nat /\ index'[1] # NoIndex
<1>1. TypeInv' => (row.generation \in Nat /\ index[1] # NoIndex)'
  BY GenerationPositive, PTL
<1>. QED  BY <1>1

LEMMA OwnedSubset ==
  ASSUME NEW p, NEW l, NEW m, Owned(p, m), l.objects \subseteq m.objects, l.generation = m.generation
  PROVE  Owned(p, l)
<1>. SUFFICES ASSUME l.objects # {} PROVE \E k \in 1 .. l.generation : OwnedFrom(k, p, l)
  BY DEF Owned
<1>1. PICK k \in 1 .. m.generation : OwnedFrom(k, p, m)
  BY DEF Owned
<1>2. OwnedFrom(k, p, l)
  BY <1>1 DEF OwnedFrom
<1>. QED  BY <1>2

LEMMA ListOKSubset ==
  ASSUME NEW p, NEW l, NEW m, ListOK(p, m), l.objects \subseteq m.objects, l.generation = m.generation
  PROVE  ListOK(p, l)
<1>1. Owned(p, l)
  BY OwnedSubset DEF ListOK
<1>. QED  BY <1>1 DEF ListOK

LEMMA ViewListOK ==
  ASSUME TypeInv, TypeInv', ViewStep, NEW p \in Pageservers, NEW l \in List, ListOK(p, l)
  PROVE  ListOK(p, l)'
<1>1. l.generation \in Nat /\ row.generation \in Nat /\ row'.generation \in Nat
  BY GenerationPositive, GenerationPositiveNext, ConstTypes DEF List
<1>2. l.generation <= row.generation /\ row'.generation >= row.generation
  BY DEF ListOK, ViewStep
<1>3. Owned(p, l)'
  BY <1>2, ViewOwned DEF ListOK
<1>4. l.generation <= row'.generation
  BY <1>1, <1>2
<1>. QED  BY <1>3, <1>4 DEF ListOK

LEMMA UploadListOK ==
  ASSUME TypeInv, NEW p \in Pageservers, NEW kept, Uploads(p, kept),
         NEW q \in Pageservers, NEW l \in List, \A o \in l.objects : KeyOK(o), ListOK(q, l)
  PROVE  ListOK(q, l)'
<1>1. Owned(q, l)'
  BY UploadOwned DEF ListOK
<1>2. row' = row
  BY DEF Uploads
<1>. QED  BY <1>1, <1>2 DEF ListOK

LEMMA EmptyListOK ==
  ASSUME TypeInv', NEW p \in Pageservers, NEW l, l.objects = {}, l.generation = 0
  PROVE  ListOK(p, l)'
<1>1. 0 <= row'.generation
  BY GenerationPositiveNext
<1>. QED  BY <1>1 DEF ListOK, Owned

\* The lists of p after the step are those it had, or emptied ones, or new.
Derived(p) ==
    \A l \in Lists(p)' :
        \/ l.objects = {} /\ l.generation = 0
        \/ \E m \in Lists(p) : l.objects \subseteq m.objects /\ l.generation = m.generation

LEMMA ViewLists ==
  ASSUME TypeInv, TypeInv', KeyInv, ListInv, ViewStep, \A p \in Pageservers : Derived(p)
  PROVE  ListInv'
<1>. SUFFICES ASSUME NEW p \in Pageservers, NEW l \in Lists(p)' PROVE ListOK(p, l)'
  BY DEF ListInv
<1>1. l \in List
  BY ListTypesNext
<1>2. CASE l.objects = {} /\ l.generation = 0
  BY <1>2, EmptyListOK
<1>3. CASE ~(l.objects = {} /\ l.generation = 0)
  <2>1. PICK m \in Lists(p) : l.objects \subseteq m.objects /\ l.generation = m.generation
    BY <1>3 DEF Derived
  <2>2. ListOK(p, m)
    BY DEF ListInv
  <2>3. ListOK(p, l)
    BY <2>1, <2>2, ListOKSubset
  <2>. QED  BY <1>1, <2>3, ViewListOK
<1>. QED  BY <1>2, <1>3

\* No object is named that was not named before.
SameNames(p) ==
    \A l \in Lists(p)' : \A o \in l.objects : \E m \in Lists(p) : o \in m.objects

LEMMA ViewKeys ==
  ASSUME TypeInv, TypeInv', KeyInv, ViewStep, \A p \in Pageservers : SameNames(p)
  PROVE  KeyInv'
<1>1. \A o \in Object : KeyOK(o) => KeyOK(o)'
  BY ViewKey
<1>2. ASSUME NEW g \in Generations, NEW o \in index'[g].layers PROVE KeyOK(o)'
  <2>1. o \in index[g].layers /\ o \in Object
    BY <1>2, ViewTypes DEF ViewStep
  <2>. QED  BY <1>1, <2>1 DEF KeyInv
<1>3. ASSUME NEW p \in Pageservers, NEW o \in ps'[p].part.layers PROVE KeyOK(o)'
  <2>1. Keeps(p) \/ Drops(p) \/ Starts(p) \/ Loads(p)
    BY DEF ViewStep
  <2>2. \/ ps'[p].part = ps[p].part \/ ps'[p].part = NoIndex
        \/ \E g \in Generations : ps'[p].part = index[g]
    <3>1. CASE Loads(p)
      <4>1. PICK g \in Generations : ps'[p].part = download_index_part(g)
        BY <3>1 DEF Loads
      <4>. QED  BY <4>1, DownloadFacts
    <3>. QED  BY <2>1, <3>1 DEF Keeps, Drops, Starts
  <2>3. NoIndex.layers = {}
    BY DEF NoIndex
  <2>4. \/ o \in ps[p].part.layers
        \/ \E g \in Generations : o \in index[g].layers
    BY <1>3, <2>2, <2>3
  <2>5. o \in Object /\ KeyOK(o)
    BY <2>4, ViewTypes DEF KeyInv
  <2>. QED  BY <1>1, <2>5
<1>4. ASSUME NEW p \in Pageservers, NEW l \in Lists(p)', NEW o \in l.objects PROVE KeyOK(o)'
  <2>1. PICK m \in Lists(p) : o \in m.objects
    BY <1>4 DEF SameNames
  <2>2. m \in List
    BY <2>1, ListTypes
  <2>3. o \in Object /\ KeyOK(o)
    BY <2>1, <2>2 DEF List, KeyInv
  <2>. QED  BY <1>1, <2>3
<1>. QED  BY <1>2, <1>3, <1>4 DEF KeyInv

LEMMA DerivedNames ==
  ASSUME NEW p \in Pageservers, Derived(p)
  PROVE  SameNames(p)
BY DEF Derived, SameNames

-----------------------------------------------------------------------------
(***************************************************************************)
(* A list is dead if nobody has loaded a generation above its own: that is *)
(* what an answer of the service is worth.                                 *)
(***************************************************************************)
LEMMA DeadEmpty ==
  ASSUME index[1] # NoIndex
  PROVE  Dead({})
<1>1. DeadFrom(1, {})
  BY DEF DeadFrom
<1>. QED  BY <1>1, ConstTypes DEF Dead

LEMMA DeadEmptyAlways == TypeInv => Dead({})
BY DeadEmpty, GenerationPositive

LEMMA DeadEmptyNext ==
  ASSUME TypeInv'
  PROVE  Dead({})'
<1>1. TypeInv' => Dead({})'
  BY DeadEmptyAlways, PTL
<1>. QED  BY <1>1

LEMMA OwnedDead ==
  ASSUME TypeInv, NEW p \in Pageservers, NEW l \in List, Owned(p, l),
         \A g \in Generations : g > l.generation => ~Loaded(g)
  PROVE  Dead(l.objects)
<1>1. CASE l.objects = {}
  BY <1>1, DeadEmptyAlways
<1>2. CASE l.objects # {}
  <2>1. PICK k \in 1 .. l.generation : OwnedFrom(k, p, l)
    BY <1>2 DEF Owned
  <2>2. /\ l.generation \in Nat /\ k \in Nat /\ k > 0 /\ k \in Generations
        /\ \A g \in Generations : g \in Nat
        /\ \A q \in Pageservers : ps[q].generation \in Nat
    BY <2>1, ViewTypes, ConstTypes DEF List, Generations
  <2>3. \A g \in Generations : g >= k => g \in k .. l.generation \/ ~Loaded(g)
    BY <2>2
  <2>4. \A g \in Generations : g >= k => index[g].layers \cap l.objects = {}
    <3>1. NoIndex.layers = {}
      BY DEF NoIndex
    <3>. QED  BY <2>1, <2>3, <3>1 DEF OwnedFrom, Loaded
  <2>5. ASSUME NEW q \in Pageservers, Up(q), ps[q].generation >= k
        PROVE  ps[q].part.layers \cap l.objects = {}
    <3>1. ps[q].generation # 0
      BY <2>2, <2>5
    <3>2. ps[q].generation \in Generations
      BY <3>1, ViewTypes
    <3>3. Loaded(ps[q].generation)
      BY <2>5 DEF Loaded
    <3>4. ps[q].generation \in k .. l.generation
      BY <2>3, <2>5, <3>2, <3>3
    <3>. QED  BY <2>1, <3>4 DEF OwnedFrom
  <2>6. index[k] # NoIndex
    BY <2>1 DEF OwnedFrom
  <2>7. DeadFrom(k, l.objects)
    BY <2>4, <2>5, <2>6 DEF DeadFrom
  <2>. QED  BY <2>2, <2>7 DEF Dead
<1>. QED  BY <1>1, <1>2

\* A pageserver that restarts in the next generation takes a list over:
\* nobody was in between.
LEMMA TakeOver ==
  ASSUME TypeInv, TypeInv', IssueInv, IssueInv', ViewStep,
         NEW p \in Pageservers, ReAttachReply(p), ps[p].generation # 0,
         NEW l \in List, ListOK(p, l), l.generation = ps[p].generation - 1,
         NEW m \in List, m.objects = l.objects, m.generation = ps[p].generation
  PROVE  ListOK(p, m)'
<1>0. PICK g \in Generations : g = ps[p].generation
  BY ViewTypes
<1>1. /\ Frame(p) /\ Starting(p) /\ ps'[p].state = "up"
      /\ UNCHANGED <<row, storageVars>> /\ ps'[p].generation = g
      /\ ps'[p].part = download_index_part(g)
  BY <1>0, ReAttachReplyFields
<1>2. /\ g \in Nat /\ g > 0 /\ row.generation \in Nat /\ l.generation = g - 1 /\ m.generation = g
      /\ \A h \in Generations : h \in Nat
  BY <1>0, ViewTypes
<1>3. index' = index
  BY <1>1 DEF storageVars
<1>4. index[g] = NoIndex
  <2>1. Unused(g)
    BY <1>0, <1>1 DEF Unused, Pending
  <2>. QED  BY <2>1 DEF IssueInv
<1>5. Owned(p, m)'
  <2>. SUFFICES ASSUME m.objects # {}
                PROVE  \E k \in 1 .. m.generation : OwnedFrom(k, p, m)'
    BY DEF Owned
  <2>1. PICK k \in 1 .. l.generation : OwnedFrom(k, p, l)
    BY DEF ListOK, Owned
  <2>2. k \in Generations /\ k \in 1 .. m.generation /\ k \in Nat /\ k <= g - 1
    BY <1>2, ConstTypes DEF Generations
  <2>3. PICK n \in Generations :
            /\ n <= g /\ index[n] # NoIndex /\ download_index_part(g) = index[n]
            /\ \A h \in Generations : h <= g /\ index[h] # NoIndex => h <= n
    BY <1>2, DownloadFacts
  <2>4. n \in k .. l.generation
    <3>1. k <= n
      BY <1>2, <2>1, <2>2, <2>3 DEF OwnedFrom
    <3>2. n # g
      BY <1>4, <2>3
    <3>3. n \in Nat
      BY <1>2
    <3>4. n <= g - 1
      BY <1>2, <2>3, <3>2, <3>3
    <3>. QED  BY <1>2, <2>2, <3>1, <3>3, <3>4
  <2>5. ps'[p].part.layers \cap m.objects = {}
    BY <1>1, <2>1, <2>3, <2>4 DEF OwnedFrom
  <2>6. ~Unused(g)'
    <3>1. \A q \in Pageservers : q # p => ps'[q].generation # g
      BY <1>1, <1>2 DEF IssueInv
    <3>2. g <= row'.generation /\ row'.generation \in Nat
      BY <1>1, <1>2 DEF IssueInv
    <3>3. ~(g > row'.generation)
      BY <1>2, <3>2
    <3>4. ~Pending(g)'
      BY <1>1, <3>1 DEF IssueInv, Pending, Starting
    <3>. QED  BY <3>3, <3>4 DEF Unused
  <2>7. ASSUME NEW h \in k .. m.generation
        PROVE  /\ ~Unused(h)' /\ index'[h].layers \cap m.objects = {}
               /\ \A q \in Pageservers : ps'[q].generation = h =>
                     q = p /\ h = m.generation /\ ps'[q].part.layers \cap m.objects = {}
    <3>1. h \in Generations
      <4>1. h \in k .. g
        BY <1>2, <2>7
      <4>. QED  BY <2>2, <4>1, ConstTypes DEF Generations
    <3>2. CASE h = g
      <4>1. index'[h].layers = {}
        BY <1>3, <1>4, <3>2 DEF NoIndex
      <4>2. \A q \in Pageservers : ps'[q].generation = g => q = p
        BY <1>1, <1>2 DEF IssueInv
      <4>. QED  BY <1>2, <2>5, <2>6, <3>2, <4>1, <4>2
    <3>3. CASE h # g
      <4>1. h \in k .. l.generation
        BY <1>2, <2>2, <2>7, <3>3
      <4>2. ~Unused(h) /\ index[h].layers \cap m.objects = {}
        BY <2>1, <4>1 DEF OwnedFrom
      <4>3. ASSUME NEW q \in Pageservers, ps'[q].generation = h PROVE FALSE
        <5>1. q # p
          BY <1>1, <3>3, <4>3
        <5>2. ps[q].generation = h
          BY <1>1, <4>3, <5>1 DEF Frame
        <5>. QED  BY <2>1, <4>1, <5>1, <5>2 DEF OwnedFrom
      <4>4. ~Unused(h)'
        BY <3>1, <4>2 DEF ViewStep
      <4>. QED  BY <1>3, <4>2, <4>3, <4>4
    <3>. QED  BY <3>2, <3>3
  <2>8. index'[k] # NoIndex
    BY <1>3, <2>1 DEF OwnedFrom
  <2>9. OwnedFrom(k, p, m)'
    BY <2>7, <2>8 DEF OwnedFrom
  <2>. QED  BY <2>2, <2>9
<1>6. m.generation <= row'.generation
  BY <1>1 DEF IssueInv
<1>. QED  BY <1>5, <1>6 DEF ListOK

LEMMA ReplyLists ==
  ASSUME TypeInv, TypeInv', IssueInv, IssueInv', KeyInv, ListInv, ViewStep,
         NEW p \in Pageservers, ReAttachReply(p)
  PROVE  ListInv' /\ KeyInv'
<1>1. PICK g \in GenerationsOr0 : g = ps[p].generation
  <2>1. Types
    BY DEF TypeInv
  <2>. QED  BY <2>1, SlotTypes
<1>2. /\ Frame(p) /\ SameDisk(p)
      /\ ps'[p].pending = DeletionList(NextSequence(disk[p]), 0, {})
      /\ ps'[p].channel = {RecoveredList(l, disk[p].header, g) : l \in disk[p].lists}
      /\ ps'[p].validator = IdleValidator(FALSE)
  BY <1>1, ReAttachReplyFields
<1>3. /\ disk[p].header \in Nat /\ disk[p].lists \subseteq List /\ g \in Nat
  <2>1. Types
    BY DEF TypeInv
  <2>. QED  BY <2>1, SlotTypes, ConstTypes
<1>4. Lists(p)' = ps'[p].channel \cup disk[p].lists \cup {ps'[p].pending}
  BY <1>2 DEF Lists, Handed, IdleValidator, SameDisk
<1>5. ASSUME NEW l \in Lists(p)'
      PROVE  \/ l.objects = {} /\ l.generation = 0
             \/ \E m \in disk[p].lists :
                   /\ l.objects = m.objects
                   /\ \/ l.generation = m.generation
                      \/ l.generation = g /\ m.generation = g - 1 /\ g # 0
  <2>1. CASE l = ps'[p].pending
    BY <1>2, <2>1 DEF DeletionList
  <2>2. CASE l \in disk[p].lists
    BY <2>2
  <2>3. CASE l \in ps'[p].channel
    <3>1. PICK m \in disk[p].lists : l = RecoveredList(m, disk[p].header, g)
      BY <1>2, <2>3
    <3>2. m \in List
      BY <1>3
    <3>3. /\ l.objects = m.objects
          /\ l.generation = m.generation \/ (m.generation = g - 1 /\ l.generation = g /\ g # 0)
      BY <1>3, <3>1, <3>2, RecoveredListIs
    <3>. QED  BY <3>3
  <2>. QED  BY <1>4, <1>5, <2>1, <2>2, <2>3
<1>6. \A m \in disk[p].lists : m \in Lists(p) /\ m \in List /\ ListOK(p, m)
  BY <1>3 DEF Lists, ListInv
<1>7. \A q \in Pageservers : q # p => Lists(q)' = Lists(q)
  BY <1>2 DEF Frame, Lists, Handed
<1>8. KeyInv'
  <2>1. SameNames(p)
    BY <1>5, <1>6 DEF SameNames
  <2>2. \A q \in Pageservers : q # p => SameNames(q)
    BY <1>7 DEF SameNames
  <2>. QED  BY <2>1, <2>2, ViewKeys
<1>9. ASSUME NEW l \in Lists(p)' PROVE ListOK(p, l)'
  <2>0. l \in List
    BY <1>9, ListTypesNext
  <2>1. CASE l.objects = {} /\ l.generation = 0
    BY <2>1, EmptyListOK
  <2>2. CASE ~(l.objects = {} /\ l.generation = 0)
    <3>1. PICK m \in disk[p].lists :
                   /\ l.objects = m.objects
                   /\ \/ l.generation = m.generation
                      \/ l.generation = g /\ m.generation = g - 1 /\ g # 0
      BY <1>5, <1>9, <2>2
    <3>2. m \in List /\ ListOK(p, m)
      BY <1>6
    <3>3. CASE l.generation = m.generation
      <4>1. ListOK(p, l)
        BY <3>1, <3>2, <3>3, ListOKSubset
      <4>. QED  BY <2>0, <4>1, ViewListOK
    <3>4. CASE l.generation = g /\ m.generation = g - 1 /\ g # 0
      <4>1. /\ ps[p].generation # 0 /\ m.generation = ps[p].generation - 1
            /\ l.generation = ps[p].generation
        BY <1>1, <3>4
      <4>. QED  BY <2>0, <3>1, <3>2, <4>1, TakeOver
    <3>. QED  BY <3>1, <3>3, <3>4
  <2>. QED  BY <2>1, <2>2
<1>10. ASSUME NEW q \in Pageservers, q # p, NEW l \in Lists(q)' PROVE ListOK(q, l)'
  <2>1. l \in List /\ ListOK(q, l)
    BY <1>7, <1>10, ListTypes DEF ListInv
  <2>. QED  BY <2>1, ViewListOK
<1>. QED  BY <1>8, <1>9, <1>10 DEF ListInv

\* What an upload supersedes is handed to the list writer.
LEMMA UploadLists ==
  ASSUME TypeInv, TypeInv', IssueInv, KeyInv, ListInv,
         NEW p \in Pageservers, UploadIndex(p), NEW kept \in SUBSET Object, Uploads(p, kept),
         \/ Kept(p)
         \/ kept = {} /\ (PushedDirectly(p, ps[p].part.layers) \/ PushedAfterFlush(p, ps[p].part.layers))
  PROVE  ListInv' /\ KeyInv'
<1>1. /\ Frame(p) /\ ps'[p].validator = ps[p].validator
  BY UploadFields
<1>2. \A q \in Pageservers : q # p => Lists(q)' = Lists(q)
  BY <1>1 DEF Frame, Lists, Handed
<1>. DEFINE new == ps'[p].pending
            Fresh == /\ new.generation = ps[p].generation /\ kept = {} /\ new \in List
                     /\ \A o \in new.objects : o \in ps[p].part.layers \/ o \in ps[p].pending.objects
<1>3. \A l \in Lists(p)' : l \in Lists(p) \/ (l = new /\ Fresh)
  <2>1. CASE Kept(p)
    <3>1. Lists(p)' = Lists(p)
      BY <1>1, <2>1 DEF Kept, SameWriter, Lists, Handed
    <3>. QED  BY <3>1
  <2>2. CASE kept = {} /\ PushedDirectly(p, ps[p].part.layers)
    <3>1. /\ ps'[p].channel = ps[p].channel /\ disk'[p].lists = disk[p].lists
          /\ new.generation = ps[p].generation /\ new \in List
          /\ new.objects = ps[p].pending.objects \cup ps[p].part.layers
      BY <2>2 DEF PushedDirectly, PushedTo
    <3>2. Fresh
      BY <2>2, <3>1
    <3>3. \A l \in Lists(p)' : l \in Lists(p) \/ l = new
      BY <1>1, <3>1 DEF Lists, Handed
    <3>. HIDE DEF new, Fresh
    <3>. QED  BY <3>2, <3>3
  <2>3. CASE kept = {} /\ PushedAfterFlush(p, ps[p].part.layers)
    <3>1. /\ ps'[p].channel = ps[p].channel \cup {ps[p].pending}
          /\ disk'[p].lists = disk[p].lists \cup {ps[p].pending}
          /\ new.generation = ps[p].generation /\ new \in List
          /\ new.objects = ps[p].part.layers
      BY <2>3 DEF PushedAfterFlush, PushedTo, DeletionList
    <3>2. Fresh
      BY <2>3, <3>1
    <3>3. \A l \in Lists(p)' : l \in Lists(p) \/ l = new
      BY <1>1, <3>1 DEF Lists, Handed
    <3>. HIDE DEF new, Fresh
    <3>. QED  BY <3>2, <3>3
  <2>. HIDE DEF new, Fresh
  <2>. QED  BY <2>1, <2>2, <2>3
<1>4. \A q \in Pageservers : \A l \in Lists(q) : l \in List /\ ListOK(q, l) /\ \A o \in l.objects : KeyOK(o)
  BY ListTypes DEF ListInv, KeyInv
<1>5. \A o \in Object : KeyOK(o) => KeyOK(o)'
  BY UploadKey
<1>6. Fresh => \A o \in new.objects : o \in Object /\ KeyOK(o)
  <2>1. ps[p].pending \in Lists(p) /\ ps[p].pending \in List
    BY <1>4 DEF Lists
  <2>2. \A o \in ps[p].pending.objects : o \in Object /\ KeyOK(o)
    BY <1>4, <2>1 DEF List
  <2>3. \A o \in ps[p].part.layers : o \in Object /\ KeyOK(o)
    BY ViewTypes DEF KeyInv
  <2>. QED  BY <2>2, <2>3
<1>7. KeyInv'
  <2>1. ASSUME NEW o, (o \in Object /\ KeyOK(o)) \/ o = NewLayer(p) PROVE KeyOK(o)'
    BY <1>5, <2>1, UploadNewKeyOK
  <2>2. \A o \in NewPart(p, kept).layers : (o \in Object /\ KeyOK(o)) \/ o = NewLayer(p)
    <3>1. NewPart(p, kept).layers = kept \cup {NewLayer(p)} /\ kept \subseteq ps[p].part.layers
      BY UploadFacts DEF Uploads
    <3>. QED  BY <3>1, ViewTypes DEF KeyInv
  <2>3. ASSUME NEW g \in Generations, NEW o \in index'[g].layers PROVE KeyOK(o)'
    <3>1. index'[g] = index[g] \/ index'[g] = NewPart(p, kept)
      BY UploadFacts
    <3>2. o \in index[g].layers => o \in Object /\ KeyOK(o)
      BY ViewTypes DEF KeyInv
    <3>. QED  BY <2>1, <2>2, <2>3, <3>1, <3>2
  <2>4. ASSUME NEW q \in Pageservers, NEW o \in ps'[q].part.layers PROVE KeyOK(o)'
    <3>1. ps'[q].part = ps[q].part \/ ps'[q].part = NewPart(p, kept)
      BY UploadFacts DEF Uploads
    <3>2. o \in ps[q].part.layers => o \in Object /\ KeyOK(o)
      BY ViewTypes DEF KeyInv
    <3>. QED  BY <2>1, <2>2, <2>4, <3>1, <3>2
  <2>5. ASSUME NEW q \in Pageservers, NEW l \in Lists(q)', NEW o \in l.objects PROVE KeyOK(o)'
    <3>1. l \in Lists(q) \/ (l = new /\ Fresh)
      BY <1>2, <1>3, <2>5
    <3>2. o \in Object /\ KeyOK(o)
      <4>. HIDE DEF new, Fresh
      <4>1. l \in Lists(q) => l \in List /\ KeyOK(o)
        BY <1>4, <2>5
      <4>2. l \in List => o \in Object
        BY <2>5 DEF List
      <4>. QED  BY <1>6, <2>5, <3>1, <4>1, <4>2
    <3>. QED  BY <2>1, <3>2
  <2>. QED  BY <2>3, <2>4, <2>5 DEF KeyInv
<1>8. ASSUME Fresh, NEW l, l = new PROVE ListOK(p, l)'
  <2>1. PICK g \in Generations : g = ps[p].generation
    BY DEF Uploads
  <2>2. /\ l \in List /\ l.generation = g /\ g \in Nat /\ g > 0
    BY <1>8, <2>1, ViewTypes
  <2>3. /\ index'[g] # NoIndex /\ index'[g].layers = {NewLayer(p)}
        /\ \A q \in Pageservers : ps'[q].generation = ps[q].generation /\ ps'[q].state = ps[q].state
    BY <1>8, <2>1, UploadFacts
  <2>4. ps'[p].part = index'[g] /\ Holds(p) /\ row' = row /\ generation' = generation
    <3>1. index'[ps[p].generation] = NewPart(p, kept)
      BY UploadFacts
    <3>. QED  BY <2>1, <3>1 DEF Uploads
  <2>5. ~Unused(g)'
    <3>1. ~Unused(g)
      BY <2>1, <2>4, HeldIsUsed
    <3>. QED  BY <3>1, UploadUnused
  <2>6. NewLayer(p) \notin l.objects
    BY <1>6, <1>8, UploadNewKey
  <2>7. \A q \in Pageservers : ps'[q].generation = g => q = p
    BY <2>1, <2>2, <2>3 DEF IssueInv
  <2>8. \A h \in g .. l.generation : h = g
    BY <2>2
  <2>9. OwnedFrom(g, p, l)'
    BY <2>2, <2>3, <2>4, <2>5, <2>6, <2>7, <2>8 DEF OwnedFrom
  <2>10. Owned(p, l)'
    <3>1. g \in 1 .. l.generation
      BY <2>2
    <3>. QED  BY <2>9, <3>1 DEF Owned
  <2>11. l.generation <= row'.generation
    BY <2>1, <2>2, <2>4 DEF IssueInv
  <2>. QED  BY <2>10, <2>11 DEF ListOK
<1>9. ASSUME NEW q \in Pageservers, NEW l \in Lists(q)' PROVE ListOK(q, l)'
  <2>1. CASE l \in Lists(q)
    <3>1. l \in List /\ ListOK(q, l) /\ \A o \in l.objects : KeyOK(o)
      BY <1>4, <2>1
    <3>. QED  BY <3>1, UploadListOK
  <2>2. CASE l \notin Lists(q)
    <3>1. q = p /\ l = new /\ Fresh
      BY <1>2, <1>3, <1>9, <2>2
    <3>. QED  BY <1>8, <3>1
  <2>. QED  BY <2>1, <2>2
<1>. QED  BY <1>7, <1>9 DEF ListInv

-----------------------------------------------------------------------------
(***************************************************************************)
(* The validator and its files.                                            *)
(***************************************************************************)
DeadStays == \A q \in Pageservers : \A l \in Lists(q) : Dead(l.objects) => Dead(l.objects)'

LEMMA ViewDeadStays ==
  ASSUME TypeInv, ViewStep
  PROVE  DeadStays
BY ViewDead DEF DeadStays

LEMMA UploadDeadStays ==
  ASSUME TypeInv, KeyInv, NEW p \in Pageservers, NEW kept, Uploads(p, kept)
  PROVE  DeadStays
<1>1. ASSUME NEW q \in Pageservers, NEW l \in Lists(q), Dead(l.objects) PROVE Dead(l.objects)'
  <2>1. \A o \in l.objects : KeyOK(o)
    BY <1>1 DEF KeyInv
  <2>. QED  BY <1>1, <2>1, UploadDead
<1>. QED  BY <1>1 DEF DeadStays

LEMMA KeptDead ==
  ASSUME NEW q \in Pageservers, DeadOK(q), DeadStays,
         ps'[q].channel = ps[q].channel, ps'[q].validator = ps[q].validator,
         disk'[q].lists = disk[q].lists, disk'[q].header = disk[q].header, Up(q)' => Up(q)
  PROVE  DeadOK(q)'
<1>. DEFINE v == ps[q].validator
<1>1. Handed(q)' = Handed(q)
  BY DEF Handed
<1>2. \A l \in Handed(q) \cup disk[q].lists : Dead(l.objects) => Dead(l.objects)'
  BY DEF DeadStays, Lists
<1>3. \A l \in v.pending : l \in Handed(q)
  BY DEF Handed
<1>4. PhaseOK(q)'
  BY DEF DeadOK, PhaseOK
<1>5. \A l \in Handed(q) : l.validated => Dead(l.objects)'
  BY <1>2 DEF DeadOK
<1>6. v.at \in {"answered", "saving"} => \A l \in v.pending : ListValid(l, v) => Dead(l.objects)'
  BY <1>2, <1>3 DEF DeadOK
<1>7. \A l \in disk[q].lists : l.validated \/ l.sequence <= disk[q].header => Dead(l.objects)'
  BY <1>2 DEF DeadOK
<1>8. \A l \in ps[q].channel \cup disk[q].lists : l.validated \/ l.objects # {}
  BY DEF DeadOK
<1>9. Up(q) /\ ~v.writeFailed =>
         \A d \in disk[q].lists : \E l \in Handed(q) :
             l.sequence = d.sequence /\ l.objects = d.objects
  BY DEF DeadOK
<1>10. \A l \in v.pending : ListValid(l, v)' <=> ListValid(l, v)
  BY DEF ListValid
<1>11. ps'[q].validator = v
  OBVIOUS
<1>. HIDE DEF v
<1>. QED  BY <1>1, <1>4, <1>5, <1>6, <1>7, <1>8, <1>9, <1>10, <1>11 DEF DeadOK, ListValid

LEMMA FrameDead ==
  ASSUME DeadInv, DeadStays, NEW p \in Pageservers, Frame(p), DeadOK(p)'
  PROVE  DeadInv'
<1>1. ASSUME NEW q \in Pageservers, q # p PROVE DeadOK(q)'
  <2>1. DeadOK(q) /\ ps'[q] = ps[q] /\ disk'[q] = disk[q]
    BY <1>1 DEF DeadInv, Frame
  <2>2. Up(q)' => Up(q)
    BY <2>1 DEF Up
  <2>. QED  BY <2>1, <2>2, KeptDead
<1>. QED  BY <1>1 DEF DeadInv

\* The pending list is handed over: it is not validated, and not empty.
LEMMA HandOver ==
  ASSUME TypeInv, DeadInv, DeadStays, NEW p \in Pageservers, Up(p),
         ps[p].pending.objects # {},
         ps'[p].channel = ps[p].channel \cup {ps[p].pending},
         disk'[p].lists = disk[p].lists \cup {ps[p].pending},
         disk'[p].header = disk[p].header, ps'[p].validator = ps[p].validator
  PROVE  DeadOK(p)'
<1>. DEFINE v == ps[p].validator
            n == ps[p].pending
<1>0. DeadOK(p)
  BY DEF DeadInv
<1>1. Handed(p)' = Handed(p) \cup {n}
  BY DEF Handed
<1>2. \A l \in Handed(p) \cup disk[p].lists : Dead(l.objects) => Dead(l.objects)'
  BY DEF DeadStays, Lists
<1>3. ~n.validated /\ ~(n.sequence <= disk[p].header)
  <2>1. SequenceOK(p) /\ Types
    BY DEF TypeInv, SequenceInv
  <2>2. ~n.validated /\ disk[p].header < n.sequence
    BY <2>1 DEF SequenceOK
  <2>3. disk[p].header \in Nat /\ n.sequence \in Nat
    BY <2>1, SlotTypes
  <2>4. ~(n.sequence <= disk[p].header)
    BY <2>2, <2>3
  <2>. QED  BY <2>2, <2>4
<1>4. PhaseOK(p)'
  BY <1>0 DEF DeadOK, PhaseOK
<1>5. \A l \in Handed(p)' : l.validated => Dead(l.objects)'
  BY <1>0, <1>1, <1>2, <1>3 DEF DeadOK
<1>6. v.at \in {"answered", "saving"} => \A l \in v.pending : ListValid(l, v) => Dead(l.objects)'
  BY <1>0, <1>2 DEF DeadOK, Handed
<1>7. \A l \in disk'[p].lists : l.validated \/ l.sequence <= disk[p].header => Dead(l.objects)'
  BY <1>0, <1>2, <1>3 DEF DeadOK
<1>8. \A l \in ps'[p].channel \cup disk'[p].lists : l.validated \/ l.objects # {}
  BY <1>0 DEF DeadOK
<1>9. ~v.writeFailed =>
         \A d \in disk'[p].lists : \E l \in Handed(p)' :
             l.sequence = d.sequence /\ l.objects = d.objects
  BY <1>0, <1>1 DEF DeadOK
<1>10. ps'[p].validator = v
  OBVIOUS
<1>. HIDE DEF v, n
<1>. QED  BY <1>4, <1>5, <1>6, <1>7, <1>8, <1>9, <1>10 DEF DeadOK, ListValid

LEMMA FlushListDead ==
  ASSUME TypeInv, DeadInv, DeadStays, NEW p \in Pageservers, FlushList(p)
  PROVE  DeadInv'
<1>1. ps[p].pending.objects # {}
  BY DEF FlushList
<1>2. /\ Frame(p) /\ Up(p)
      /\ ps'[p].validator = ps[p].validator
      /\ ps'[p].channel = ps[p].channel \cup {ps[p].pending}
      /\ disk'[p].lists = disk[p].lists \cup {ps[p].pending}
      /\ disk'[p].header = disk[p].header
  BY FlushListFields DEF TypeInv
<1>3. DeadOK(p)'
  BY <1>1, <1>2, HandOver
<1>. QED  BY <1>2, <1>3, FrameDead

LEMMA UploadQueueDead ==
  ASSUME TypeInv, DeadInv, DeadStays, NEW p \in Pageservers, UploadIndex(p)
  PROVE  DeadInv'
<1>1. /\ Frame(p) /\ Up(p)
      /\ ps'[p].validator = ps[p].validator /\ disk'[p].header = disk[p].header
  BY UploadFields DEF Holds
<1>2. Kept(p) \/ PushedDirectly(p, ps[p].part.layers) \/ PushedAfterFlush(p, ps[p].part.layers)
  BY UploadFields
<1>3. DeadOK(p)'
  <2>1. DeadOK(p)
    BY DEF DeadInv
  <2>2. CASE PushedAfterFlush(p, ps[p].part.layers)
    BY <1>1, <2>2, HandOver DEF PushedAfterFlush
  <2>3. CASE Kept(p) \/ PushedDirectly(p, ps[p].part.layers)
    <3>1. ps'[p].channel = ps[p].channel /\ disk'[p].lists = disk[p].lists
      BY <2>3 DEF Kept, SameWriter, PushedDirectly
    <3>. QED  BY <1>1, <2>1, <3>1, KeptDead
  <2>. QED  BY <1>2, <2>2, <2>3
<1>. QED  BY <1>1, <1>3, FrameDead

LEMMA ValidatorFlushDead ==
  ASSUME TypeInv, ListInv, DeadInv, DeadStays, NEW p \in Pageservers, ValidatorFlush(p)
  PROVE  DeadInv'
<1>. DEFINE pending == {l \in ps[p].channel : ~l.validated}
            asked == TenantGeneration(pending, ps[p].lsnTable)
<1>1. /\ Frame(p) /\ Up(p) /\ SameDisk(p)
      /\ ps[p].validator.at = "idle"
      /\ ps'[p].channel = {}
      /\ ps'[p].validator.pending = pending
      /\ ps'[p].validator.validated = {l \in ps[p].channel : l.validated}
      /\ ps'[p].validator.at = IF asked # 0 THEN "asked" ELSE "execute"
      /\ ps'[p].validator.writeFailed = ps[p].validator.writeFailed
  BY ValidatorFlushFields
<1>2. DeadOK(p) /\ Types /\ SequenceOK(p)
  BY DEF DeadInv, TypeInv, SequenceInv
<1>3. asked = 0 => pending = {}
  <2>. SUFFICES ASSUME pending # {} PROVE asked # 0
    OBVIOUS
  <2>1. /\ pending \in SUBSET List /\ ps[p].pending.sequence \in Nat
        /\ \A l \in pending : l.sequence < ps[p].pending.sequence
    BY <1>1, <1>2, SlotTypes DEF SequenceOK, Handed
  <2>2. LastOf(pending) \in pending
    <3>. HIDE DEF pending
    <3>. QED  BY <2>1, LastIs
  <2>. DEFINE m == LastOf(pending)
  <2>3. m \in List /\ m.objects # {} /\ ListOK(p, m)
    BY <1>2, <2>1, <2>2 DEF DeadOK, ListInv, Lists, Handed
  <2>4. m.generation \in Nat /\ m.generation > 0
    BY <2>3, ConstTypes DEF ListOK, Owned, List
  <2>5. ps[p].lsnTable.generation \in Nat
    BY <1>2, SlotTypes, ConstTypes DEF Update
  <2>6. asked = Max({ps[p].lsnTable.generation, m.generation})
    BY DEF TenantGeneration
  <2>7. asked >= m.generation /\ asked \in Nat
    <3>. HIDE DEF asked, m
    <3>. QED  BY <2>4, <2>5, <2>6, MaxTwo
  <2>. HIDE DEF asked, m
  <2>. QED  BY <2>4, <2>7
<1>4. PhaseOK(p)'
  <2>. HIDE DEF asked
  <2>. QED  BY <1>1, <1>3 DEF PhaseOK
<1>5. Handed(p)' = Handed(p)
  BY <1>1, <1>2 DEF Handed, DeadOK, PhaseOK
<1>6. \A l \in Handed(p) \cup disk[p].lists : Dead(l.objects) => Dead(l.objects)'
  BY DEF DeadStays, Lists
<1>7. \A l \in Handed(p)' : l.validated => Dead(l.objects)'
  BY <1>2, <1>5, <1>6 DEF DeadOK
<1>8. ps'[p].validator.at \notin {"answered", "saving"}
  BY <1>1
<1>9. \A l \in disk'[p].lists : l.validated \/ l.sequence <= disk'[p].header => Dead(l.objects)'
  BY <1>1, <1>2, <1>6 DEF DeadOK, SameDisk
<1>10. \A l \in ps'[p].channel \cup disk'[p].lists : l.validated \/ l.objects # {}
  BY <1>1, <1>2 DEF DeadOK, SameDisk
<1>11. ~ps'[p].validator.writeFailed =>
         \A d \in disk'[p].lists : \E l \in Handed(p)' :
             l.sequence = d.sequence /\ l.objects = d.objects
  BY <1>1, <1>2, <1>5 DEF DeadOK, SameDisk
<1>12. DeadOK(p)'
  BY <1>4, <1>7, <1>8, <1>9, <1>10, <1>11 DEF DeadOK
<1>. QED  BY <1>1, <1>12, FrameDead

\* Steps of the validator that leave its lists and its files alone.
LEMMA PhaseStepDead ==
  ASSUME DeadInv, DeadStays, NEW p \in Pageservers, ValidatorOnly(p), SameDisk(p),
         ps'[p].validator.pending = ps[p].validator.pending,
         ps'[p].validator.validated = ps[p].validator.validated,
         ps'[p].validator.writeFailed = ps[p].validator.writeFailed,
         PhaseOK(p)',
         ps'[p].validator.at \in {"answered", "saving"} =>
            \A l \in ps[p].validator.pending :
               ListValid(l, ps'[p].validator) => Dead(l.objects)'
  PROVE  DeadInv'
<1>1. DeadOK(p)
  BY DEF DeadInv
<1>2. /\ ps'[p].channel = ps[p].channel /\ Handed(p)' = Handed(p) /\ (Up(p)' => Up(p))
      /\ Frame(p)
  BY DEF ValidatorOnly, SameWriter, SameHolder, Handed, Up
<1>3. \A l \in Handed(p) \cup disk[p].lists : Dead(l.objects) => Dead(l.objects)'
  BY DEF DeadStays, Lists
<1>4. \A l \in Handed(p)' : l.validated => Dead(l.objects)'
  BY <1>1, <1>2, <1>3 DEF DeadOK
<1>5. \A l \in disk'[p].lists : l.validated \/ l.sequence <= disk'[p].header => Dead(l.objects)'
  BY <1>1, <1>3 DEF DeadOK, SameDisk
<1>6. \A l \in ps'[p].channel \cup disk'[p].lists : l.validated \/ l.objects # {}
  BY <1>1, <1>2 DEF DeadOK, SameDisk
<1>7. Up(p)' /\ ~ps'[p].validator.writeFailed =>
         \A d \in disk'[p].lists : \E l \in Handed(p)' :
             l.sequence = d.sequence /\ l.objects = d.objects
  BY <1>1, <1>2 DEF DeadOK, SameDisk
<1>8. DeadOK(p)'
  BY <1>4, <1>5, <1>6, <1>7 DEF DeadOK, ListValid
<1>. QED  BY <1>2, <1>8, FrameDead

LEMMA ValidateAnswerDead ==
  ASSUME TypeInv, ListInv, DeadInv, DeadStays, ValidateIsTruthful,
         NEW p \in Pageservers, ValidateAnswer(p)
  PROVE  DeadInv'
<1>. DEFINE v == ps[p].validator
<1>1. /\ ValidatorOnly(p) /\ SameDisk(p) /\ v.at = "asked"
      /\ ps'[p].validator = [v EXCEPT !.at = "answered", !.valid = (generation = v.asked)]
  BY ValidateAnswerFields DEF TypeInv
<1>2. v \in ValidatorType /\ DeadOK(p)
  BY SlotTypes DEF TypeInv, DeadInv
<1>3. /\ ps'[p].validator.pending = v.pending /\ ps'[p].validator.validated = v.validated
      /\ ps'[p].validator.writeFailed = v.writeFailed /\ ps'[p].validator.at = "answered"
      /\ ps'[p].validator.asked = v.asked /\ ps'[p].validator.valid = (generation = v.asked)
  <2>. HIDE DEF v
  <2>. QED  BY <1>1, <1>2 DEF ValidatorType
<1>4. PhaseOK(p)'
  BY <1>1, <1>2, <1>3 DEF PhaseOK, DeadOK
<1>5. ASSUME NEW l \in v.pending, ListValid(l, ps'[p].validator) PROVE Dead(l.objects)'
  <2>1. l \in Lists(p) /\ l \in List
    BY <1>5, ListTypes DEF Lists, Handed
  <2>2. ps'[p].validator.valid /\ l.generation = v.asked
    BY <1>3, <1>5 DEF ListValid
  <2>3. \A g \in Generations : g > l.generation => ~Loaded(g)
    BY <1>1, <1>3, <2>2 DEF ValidateIsTruthful
  <2>4. Dead(l.objects)
    BY <2>1, <2>3, OwnedDead DEF ListInv, ListOK
  <2>. QED  BY <2>1, <2>4 DEF DeadStays
<1>. QED  BY <1>1, <1>3, <1>4, <1>5, PhaseStepDead

LEMMA ApplyLsnDead ==
  ASSUME TypeInv, DeadInv, DeadStays, NEW p \in Pageservers, ApplyLsn(p)
  PROVE  DeadInv'
<1>. DEFINE v == ps[p].validator
<1>1. /\ ValidatorOnly(p) /\ SameDisk(p) /\ v.at = "answered"
      /\ ps'[p].validator = [v EXCEPT !.at = "saving"]
  BY ApplyLsnFields DEF TypeInv
<1>2. v \in ValidatorType /\ DeadOK(p)
  BY SlotTypes DEF TypeInv, DeadInv
<1>3. /\ ps'[p].validator.pending = v.pending /\ ps'[p].validator.validated = v.validated
      /\ ps'[p].validator.writeFailed = v.writeFailed /\ ps'[p].validator.at = "saving"
      /\ ps'[p].validator.asked = v.asked /\ ps'[p].validator.valid = v.valid
  <2>. HIDE DEF v
  <2>. QED  BY <1>1, <1>2 DEF ValidatorType
<1>4. PhaseOK(p)'
  BY <1>1, <1>2, <1>3 DEF PhaseOK, DeadOK
<1>5. ASSUME NEW l \in v.pending, ListValid(l, ps'[p].validator) PROVE Dead(l.objects)'
  <2>1. ListValid(l, v) /\ l \in Lists(p)
    BY <1>3, <1>5 DEF ListValid, Lists, Handed
  <2>2. Dead(l.objects)
    BY <1>1, <1>2, <1>5, <2>1 DEF DeadOK
  <2>. QED  BY <2>1, <2>2 DEF DeadStays
<1>. QED  BY <1>1, <1>3, <1>4, <1>5, PhaseStepDead

LEMMA ExecuteDead ==
  ASSUME TypeInv, DeadInv, DeadStays, NEW p \in Pageservers, Execute(p)
  PROVE  DeadInv'
<1>. DEFINE v == ps[p].validator
<1>1. /\ ValidatorOnly(p) /\ SameDisk(p) /\ v.at = "execute"
      /\ ps'[p].validator = [v EXCEPT !.at = "cleanup"]
  BY ExecuteFields DEF TypeInv
<1>2. v \in ValidatorType /\ DeadOK(p)
  BY SlotTypes DEF TypeInv, DeadInv
<1>3. /\ ps'[p].validator.pending = v.pending /\ ps'[p].validator.validated = v.validated
      /\ ps'[p].validator.writeFailed = v.writeFailed /\ ps'[p].validator.at = "cleanup"
  <2>. HIDE DEF v
  <2>. QED  BY <1>1, <1>2 DEF ValidatorType
<1>4. PhaseOK(p)'
  BY <1>1, <1>2, <1>3 DEF PhaseOK, DeadOK
<1>. QED  BY <1>1, <1>3, <1>4, PhaseStepDead

LEMMA SaveListDead ==
  ASSUME TypeInv, TypeInv', DeadInv, DeadStays, NEW p \in Pageservers, SaveList(p)
  PROVE  DeadInv'
<1>. DEFINE v == ps[p].validator
<1>1. /\ ValidatorOnly(p) /\ v.at = "saving" /\ disk'[p].header = disk[p].header
  BY SaveListFields DEF TypeInv
<1>2. PICK l \in v.pending, w \in BOOLEAN :
        /\ KeptList(l, v) \in List
        /\ ps'[p].validator = [v EXCEPT !.pending = (@ \ {l}) \cup {KeptList(l, v)}, !.writeFailed = w]
        /\ \/ ListValid(l, v) /\ disk'[p].lists = disk[p].lists /\ w = v.writeFailed
           \/ /\ ~ListValid(l, v) /\ w = v.writeFailed
              /\ disk'[p].lists = {d \in disk[p].lists : d.sequence # l.sequence}
                                     \cup {KeptList(l, v)}
           \/ ~ListValid(l, v) /\ disk'[p].lists = disk[p].lists /\ w = TRUE
  BY SaveListFields DEF TypeInv
<1>3. v \in ValidatorType /\ DeadOK(p) /\ l \in List
  BY SlotTypes DEF TypeInv, DeadInv
<1>4. PICK k \in List : k = KeptList(l, v)
  BY <1>2
<1>5. /\ k.sequence = l.sequence /\ k.generation = l.generation /\ k.validated
      /\ k.objects = IF ListValid(l, v) THEN l.objects ELSE {}
  BY <1>3, <1>4 DEF KeptList, List
<1>6. /\ ps'[p].validator.pending = (v.pending \ {l}) \cup {k}
      /\ ps'[p].validator.validated = v.validated
      /\ ps'[p].validator.writeFailed = w /\ ps'[p].validator.at = v.at
      /\ ps'[p].validator.asked = v.asked /\ ps'[p].validator.valid = v.valid
  <2>. HIDE DEF v
  <2>. QED  BY <1>2, <1>3, <1>4 DEF ValidatorType
<1>7. /\ ps'[p].channel = ps[p].channel /\ (Up(p)' => Up(p)) /\ Frame(p)
  BY <1>1 DEF ValidatorOnly, SameWriter, SameHolder, Up
<1>8. \A m \in Handed(p) \cup disk[p].lists : Dead(m.objects) => Dead(m.objects)'
  BY DEF DeadStays, Lists
<1>9. Dead(k.objects)'
  <2>1. CASE ListValid(l, v)
    <3>1. Dead(l.objects)
      BY <1>1, <1>2, <1>3, <2>1 DEF DeadOK
    <3>2. Dead(l.objects)'
      BY <1>2, <1>8, <3>1 DEF Handed
    <3>. QED  BY <1>5, <2>1, <3>2
  <2>2. CASE ~ListValid(l, v)
    <3>1. k.objects = {}
      BY <1>5, <2>2
    <3>. QED  BY <3>1, DeadEmptyNext
  <2>. QED  BY <2>1, <2>2
<1>10. /\ \A m \in Handed(p)' : m = k \/ m \in Handed(p)
       /\ \A m \in Handed(p) : m # l => m \in Handed(p)'
       /\ k \in Handed(p)'
  BY <1>6, <1>7 DEF Handed
<1>11. PhaseOK(p)'
  BY <1>1, <1>3, <1>6 DEF PhaseOK, DeadOK
<1>12. \A m \in Handed(p)' : m.validated => Dead(m.objects)'
  BY <1>3, <1>8, <1>9, <1>10 DEF DeadOK
<1>13. \A m \in ps'[p].validator.pending : ListValid(m, ps'[p].validator) => Dead(m.objects)'
  <2>1. ASSUME NEW m \in v.pending, ListValid(m, ps'[p].validator) PROVE Dead(m.objects)'
    <3>1. ListValid(m, v)
      BY <1>6, <2>1 DEF ListValid
    <3>2. Dead(m.objects)
      BY <1>1, <1>3, <2>1, <3>1 DEF DeadOK
    <3>. QED  BY <1>8, <2>1, <3>2 DEF Handed
  <2>. QED  BY <1>6, <1>9, <2>1
<1>. HIDE DEF v
<1>14. \A d \in disk'[p].lists : d = k \/ d \in disk[p].lists
  BY <1>2, <1>4
<1>15. \A d \in disk'[p].lists : d.validated \/ d.sequence <= disk'[p].header => Dead(d.objects)'
  BY <1>1, <1>3, <1>8, <1>9, <1>14 DEF DeadOK
<1>16. \A d \in ps'[p].channel \cup disk'[p].lists : d.validated \/ d.objects # {}
  BY <1>3, <1>5, <1>7, <1>14 DEF DeadOK
<1>17. ASSUME Up(p)', ~ps'[p].validator.writeFailed, NEW d \in disk'[p].lists
       PROVE  \E m \in Handed(p)' : m.sequence = d.sequence /\ m.objects = d.objects
  <2>1. ~w /\ w = v.writeFailed
    BY <1>2, <1>6, <1>17
  <2>2. CASE d = k
    BY <1>10, <2>2
  <2>3. CASE d # k
    <3>1. d \in disk[p].lists /\ (ListValid(l, v) \/ d.sequence # l.sequence)
      BY <1>2, <1>4, <1>17, <2>1, <2>3
    <3>2. PICK m \in Handed(p) : m.sequence = d.sequence /\ m.objects = d.objects
      BY <1>3, <1>7, <1>17, <2>1, <3>1 DEF DeadOK, v
    <3>3. CASE m # l
      BY <1>10, <3>2, <3>3
    <3>4. CASE m = l
      BY <1>5, <1>10, <3>1, <3>2, <3>4
    <3>. QED  BY <3>3, <3>4
  <2>. QED  BY <2>2, <2>3
<1>18. DeadOK(p)'
  BY <1>11, <1>12, <1>13, <1>15, <1>16, <1>17 DEF DeadOK, ListValid
<1>. QED  BY <1>7, <1>18, FrameDead

\* All lists up to the last one of this round are validated, and their files
\* say what is in memory.
LEMMA SaveHeaderDead ==
  ASSUME TypeInv, DeadInv, DeadStays, NEW p \in Pageservers, SaveHeader(p)
  PROVE  DeadInv'
<1>. DEFINE v == ps[p].validator
            last == LastOf(v.pending)
<1>1. /\ ValidatorOnly(p) /\ v.at = "saving" /\ (\A l \in v.pending : l.validated)
      /\ ps'[p].validator = Validated(v)
      /\ disk'[p].lists = disk[p].lists
      /\ \/ disk'[p].header = disk[p].header
         \/ /\ HeaderAllowed(v) /\ last \in v.pending
            /\ disk'[p].header = last.sequence
  BY SaveHeaderFields
<1>2. v \in ValidatorType /\ DeadOK(p) /\ SequenceOK(p) /\ Types
  BY SlotTypes DEF TypeInv, DeadInv, SequenceInv
<1>3. /\ ps'[p].validator.pending = {} /\ ps'[p].validator.validated = v.validated \cup v.pending
      /\ ps'[p].validator.writeFailed = v.writeFailed
      /\ \/ ps'[p].validator.at = "execute"
         \/ ps'[p].validator.at = "idle" /\ ps'[p].validator.validated = {}
  BY <1>1, <1>2, ValidatedIs
<1>4. /\ ps'[p].channel = ps[p].channel /\ (Up(p)' => Up(p)) /\ Frame(p)
  BY <1>1 DEF ValidatorOnly, SameWriter, SameHolder, Up
<1>5. \A m \in Handed(p) \cup disk[p].lists : Dead(m.objects) => Dead(m.objects)'
  BY DEF DeadStays, Lists
<1>6. Handed(p)' = Handed(p)
  BY <1>3, <1>4 DEF Handed
<1>7. PhaseOK(p)'
  BY <1>1, <1>2, <1>3 DEF PhaseOK, DeadOK
<1>8. \A m \in Handed(p)' : m.validated => Dead(m.objects)'
  BY <1>2, <1>5, <1>6 DEF DeadOK
<1>9. ps'[p].validator.at \notin {"answered", "saving"}
  BY <1>3
<1>10. Up(p)
  BY <1>1, BusyIsUp
<1>11. ASSUME NEW d \in disk[p].lists, d.validated \/ d.sequence <= disk'[p].header
       PROVE  Dead(d.objects)'
  <2>1. CASE d.validated \/ d.sequence <= disk[p].header
    BY <1>2, <1>5, <2>1 DEF DeadOK
  <2>2. CASE ~(d.validated \/ d.sequence <= disk[p].header)
    <3>1. HeaderAllowed(v) /\ last \in v.pending /\ d.sequence <= last.sequence
      BY <1>1, <1>11, <2>2
    <3>2. PICK m \in Handed(p) : m.sequence = d.sequence /\ m.objects = d.objects
      BY <1>2, <1>10, <3>1 DEF DeadOK, HeaderAllowed
    <3>3. m \notin ps[p].channel
      <4>1. m \in List /\ last \in List
        BY <1>2, <3>1, <3>2, SlotTypes DEF Handed
      <4>2. m.sequence \in Nat /\ last.sequence \in Nat
        BY <4>1 DEF List
      <4>3. m \in ps[p].channel => last.sequence < m.sequence
        BY <1>2, <3>1 DEF SequenceOK
      <4>. HIDE DEF last
      <4>. QED  BY <3>1, <3>2, <4>2, <4>3
    <3>4. m.validated
      BY <1>1, <1>2, <3>2, <3>3 DEF Handed, DeadOK, PhaseOK
    <3>5. Dead(m.objects)'
      BY <1>2, <1>5, <3>2, <3>4 DEF DeadOK
    <3>. QED  BY <3>2, <3>5
  <2>. QED  BY <2>1, <2>2
<1>12. \A d \in disk'[p].lists : d.validated \/ d.sequence <= disk'[p].header => Dead(d.objects)'
  BY <1>1, <1>11
<1>13. \A d \in ps'[p].channel \cup disk'[p].lists : d.validated \/ d.objects # {}
  BY <1>1, <1>2, <1>4 DEF DeadOK
<1>14. Up(p)' /\ ~ps'[p].validator.writeFailed =>
         \A d \in disk'[p].lists : \E m \in Handed(p)' :
             m.sequence = d.sequence /\ m.objects = d.objects
  BY <1>1, <1>2, <1>3, <1>4, <1>6 DEF DeadOK
<1>15. DeadOK(p)'
  BY <1>7, <1>8, <1>9, <1>12, <1>13, <1>14 DEF DeadOK
<1>. QED  BY <1>4, <1>15, FrameDead

LEMMA CleanupDead ==
  ASSUME TypeInv, DeadInv, DeadStays, NEW p \in Pageservers, cleanup_lists(p)
  PROVE  DeadInv'
<1>. DEFINE v == ps[p].validator
<1>1. /\ ValidatorOnly(p) /\ v.at = "cleanup" /\ disk'[p].header = disk[p].header
  BY CleanupFields DEF TypeInv
<1>2. PICK l \in v.validated :
        /\ disk'[p].lists = {d \in disk[p].lists : d.sequence # l.sequence}
        /\ \/ v.validated = {l} /\ ps'[p].validator = IdleValidator(v.writeFailed)
           \/ ps'[p].validator = [v EXCEPT !.validated = @ \ {l}]
  BY CleanupFields DEF TypeInv
<1>3. v \in ValidatorType /\ DeadOK(p) /\ v.pending = {}
  BY <1>1, SlotTypes DEF TypeInv, DeadInv, DeadOK, PhaseOK
<1>4. /\ ps'[p].validator.pending = {} /\ ps'[p].validator.validated = v.validated \ {l}
      /\ ps'[p].validator.writeFailed = v.writeFailed
      /\ \/ ps'[p].validator.at = "cleanup"
         \/ ps'[p].validator.at = "idle" /\ ps'[p].validator.validated = {}
  <2>1. CASE v.validated = {l} /\ ps'[p].validator = IdleValidator(v.writeFailed)
    BY <2>1 DEF IdleValidator
  <2>2. CASE ps'[p].validator = [v EXCEPT !.validated = @ \ {l}]
    <3>. HIDE DEF v
    <3>1. v.at = "cleanup"
      BY <1>1
    <3>. QED  BY <1>3, <2>2, <3>1 DEF ValidatorType
  <2>. QED  BY <1>2, <2>1, <2>2
<1>5. /\ ps'[p].channel = ps[p].channel /\ (Up(p)' => Up(p)) /\ Frame(p)
  BY <1>1 DEF ValidatorOnly, SameWriter, SameHolder, Up
<1>6. \A m \in Handed(p) \cup disk[p].lists : Dead(m.objects) => Dead(m.objects)'
  BY DEF DeadStays, Lists
<1>7. /\ Handed(p)' \subseteq Handed(p)
      /\ \A m \in Handed(p) : m # l => m \in Handed(p)'
  BY <1>3, <1>4, <1>5 DEF Handed
<1>8. PhaseOK(p)'
  BY <1>3, <1>4 DEF PhaseOK, DeadOK
<1>9. \A m \in Handed(p)' : m.validated => Dead(m.objects)'
  BY <1>3, <1>6, <1>7 DEF DeadOK
<1>10. ps'[p].validator.at \notin {"answered", "saving"}
  BY <1>4
<1>11. \A d \in disk'[p].lists : d.validated \/ d.sequence <= disk'[p].header => Dead(d.objects)'
  BY <1>1, <1>2, <1>3, <1>6 DEF DeadOK
<1>12. \A d \in ps'[p].channel \cup disk'[p].lists : d.validated \/ d.objects # {}
  BY <1>2, <1>3, <1>5 DEF DeadOK
<1>13. ASSUME Up(p)', ~ps'[p].validator.writeFailed, NEW d \in disk'[p].lists
       PROVE  \E m \in Handed(p)' : m.sequence = d.sequence /\ m.objects = d.objects
  <2>1. d \in disk[p].lists /\ d.sequence # l.sequence
    BY <1>2, <1>13
  <2>2. PICK m \in Handed(p) : m.sequence = d.sequence /\ m.objects = d.objects
    BY <1>3, <1>4, <1>5, <1>13, <2>1 DEF DeadOK
  <2>. QED  BY <1>7, <2>1, <2>2
<1>14. DeadOK(p)'
  BY <1>8, <1>9, <1>10, <1>11, <1>12, <1>13 DEF DeadOK
<1>. QED  BY <1>5, <1>14, FrameDead

LEMMA CrashDead ==
  ASSUME TypeInv, DeadInv, DeadStays, NEW p \in Pageservers, Crash(p)
  PROVE  DeadInv'
<1>1. Frame(p) /\ SameDisk(p) /\ ps'[p] = Down
  BY CrashFields DEF TypeInv
<1>2. DeadOK(p)
  BY DEF DeadInv
<1>3. /\ ps'[p].channel = {} /\ ps'[p].validator = IdleValidator(FALSE) /\ ~Up(p)'
  BY <1>1 DEF Down, Up
<1>4. /\ ps'[p].validator.pending = {} /\ ps'[p].validator.validated = {}
      /\ ps'[p].validator.at = "idle"
  BY <1>3 DEF IdleValidator
<1>5. Handed(p)' = {} /\ PhaseOK(p)'
  BY <1>3, <1>4 DEF Handed, PhaseOK
<1>6. \A d \in disk'[p].lists : d.validated \/ d.sequence <= disk'[p].header => Dead(d.objects)'
  BY <1>1, <1>2 DEF DeadOK, SameDisk, DeadStays, Lists
<1>7. \A d \in ps'[p].channel \cup disk'[p].lists : d.validated \/ d.objects # {}
  BY <1>1, <1>2, <1>3 DEF DeadOK, SameDisk
<1>8. DeadOK(p)'
  BY <1>3, <1>4, <1>5, <1>6, <1>7 DEF DeadOK
<1>. QED  BY <1>1, <1>8, FrameDead

\* A list that the disk says was validated is one that is dead.
LEMMA ReplyDead ==
  ASSUME TypeInv, DeadInv, DeadStays, NEW p \in Pageservers, ReAttachReply(p)
  PROVE  DeadInv'
<1>1. PICK g \in GenerationsOr0 : g = ps[p].generation
  <2>1. Types
    BY DEF TypeInv
  <2>. QED  BY <2>1, SlotTypes
<1>2. /\ Frame(p) /\ SameDisk(p)
      /\ ps'[p].channel = {RecoveredList(l, disk[p].header, g) : l \in disk[p].lists}
      /\ ps'[p].validator = IdleValidator(FALSE)
  BY <1>1, ReAttachReplyFields
<1>3. /\ disk[p].header \in Nat /\ disk[p].lists \subseteq List /\ DeadOK(p)
  BY SlotTypes DEF TypeInv, DeadInv
<1>4. /\ ps'[p].validator.pending = {} /\ ps'[p].validator.validated = {}
      /\ ps'[p].validator.at = "idle"
  BY <1>2 DEF IdleValidator
<1>5. Handed(p)' = ps'[p].channel /\ PhaseOK(p)'
  BY <1>4 DEF Handed, PhaseOK
<1>6. \A l \in disk[p].lists :
        LET r == RecoveredList(l, disk[p].header, g)
        IN  /\ r \in ps'[p].channel /\ r.sequence = l.sequence /\ r.objects = l.objects
            /\ r.validated <=> l.validated \/ l.sequence <= disk[p].header
  BY <1>2, <1>3, RecoveredListIs
<1>7. \A l \in disk[p].lists : Dead(l.objects) => Dead(l.objects)'
  BY DEF DeadStays, Lists
<1>8. \A d \in disk[p].lists : d.validated \/ d.sequence <= disk[p].header => Dead(d.objects)'
  BY <1>3, <1>7 DEF DeadOK
<1>9. \A m \in ps'[p].channel : \E l \in disk[p].lists : m = RecoveredList(l, disk[p].header, g)
  BY <1>2
<1>10. \A m \in Handed(p)' : m.validated => Dead(m.objects)'
  <2>. SUFFICES ASSUME NEW m \in ps'[p].channel, m.validated PROVE Dead(m.objects)'
    BY <1>5
  <2>1. PICK l \in disk[p].lists : m = RecoveredList(l, disk[p].header, g)
    BY <1>9
  <2>2. (l.validated \/ l.sequence <= disk[p].header) /\ m.objects = l.objects
    BY <1>6, <2>1
  <2>. QED  BY <1>8, <2>2
<1>11. \A m \in ps'[p].channel \cup disk'[p].lists : m.validated \/ m.objects # {}
  <2>1. \A l \in disk[p].lists : l.validated \/ l.objects # {}
    BY <1>3 DEF DeadOK
  <2>2. ASSUME NEW m \in ps'[p].channel PROVE m.validated \/ m.objects # {}
    <3>1. PICK l \in disk[p].lists : m = RecoveredList(l, disk[p].header, g)
      BY <1>9
    <3>2. m.objects = l.objects /\ (l.validated => m.validated)
      BY <1>6, <3>1
    <3>. QED  BY <2>1, <3>2
  <2>. QED  BY <1>2, <2>1, <2>2 DEF SameDisk
<1>12. \A d \in disk'[p].lists : \E m \in Handed(p)' : m.sequence = d.sequence /\ m.objects = d.objects
  BY <1>2, <1>5, <1>6 DEF SameDisk
<1>13. \A d \in disk'[p].lists : d.validated \/ d.sequence <= disk'[p].header => Dead(d.objects)'
  BY <1>2, <1>8 DEF SameDisk
<1>14. DeadOK(p)'
  BY <1>4, <1>5, <1>10, <1>11, <1>12, <1>13 DEF DeadOK
<1>. QED  BY <1>2, <1>14, FrameDead

LEMMA ServiceDead ==
  ASSUME DeadInv, DeadStays, ServiceOnly
  PROVE  DeadInv'
<1>1. SUFFICES ASSUME NEW q \in Pageservers PROVE DeadOK(q)'
  BY DEF DeadInv
<1>2. DeadOK(q) /\ ps' = ps /\ disk' = disk
  BY DEF DeadInv, ServiceOnly
<1> QED
  BY <1>2, KeptDead DEF Up

\* Steps of p that concern only what it holds.
LEMMA HolderDead ==
  ASSUME DeadInv, DeadStays, NEW p \in Pageservers, Frame(p), SameDisk(p), SameQueue(p),
         Up(p)' => Up(p)
  PROVE  DeadInv'
<1>1. DeadOK(p)
  BY DEF DeadInv
<1>2. DeadOK(p)'
  BY <1>1, KeptDead DEF SameDisk, SameQueue, SameWriter
<1> QED
  BY <1>2, FrameDead

-----------------------------------------------------------------------------
(***************************************************************************)
(* Where the lists of a step come from.                                    *)
(***************************************************************************)
LEMMA SameListsDerived ==
  ASSUME NEW q \in Pageservers, Lists(q)' \subseteq Lists(q)
  PROVE  Derived(q)
  BY DEF Derived

LEMMA FrameDerived ==
  ASSUME NEW p \in Pageservers, Frame(p), Derived(p)
  PROVE  \A q \in Pageservers : Derived(q)
<1>1. SUFFICES ASSUME NEW q \in Pageservers, q # p PROVE Derived(q)
  OBVIOUS
<1>2. Lists(q)' = Lists(q)
  BY <1>1 DEF Frame, Lists, Handed
<1> QED
  BY <1>2, SameListsDerived

LEMMA ServiceDerived ==
  ASSUME ServiceOnly
  PROVE  \A q \in Pageservers : Derived(q)
<1>1. SUFFICES ASSUME NEW q \in Pageservers PROVE Derived(q)
  OBVIOUS
<1>2. Lists(q)' = Lists(q)
  BY DEF ServiceOnly, Lists, Handed
<1> QED
  BY <1>2, SameListsDerived

LEMMA HolderDerived ==
  ASSUME NEW p \in Pageservers, Frame(p), SameDisk(p), SameQueue(p)
  PROVE  \A q \in Pageservers : Derived(q)
<1>1. Lists(p)' = Lists(p)
  BY DEF SameDisk, SameQueue, SameWriter, Lists, Handed
<1> QED
  BY <1>1, SameListsDerived, FrameDerived

LEMMA EmptyList ==
  ASSUME NEW s, NEW l, l = DeletionList(s, 0, {})
  PROVE  l.objects = {} /\ l.generation = 0
  BY DEF DeletionList

LEMMA FlushListDerived ==
  ASSUME TypeInv, NEW p \in Pageservers, FlushList(p)
  PROVE  \A q \in Pageservers : Derived(q)
<1>1. Types
  BY DEF TypeInv
<1>2. /\ Frame(p) /\ ps'[p].validator = ps[p].validator
      /\ ps'[p].channel = ps[p].channel \cup {ps[p].pending}
      /\ disk'[p].lists = disk[p].lists \cup {ps[p].pending}
  BY <1>1, FlushListFields
<1>3. ps'[p].pending.objects = {} /\ ps'[p].pending.generation = 0
  <2>1. ps'[p].pending = DeletionList(ps[p].pending.sequence + 1, 0, {})
    BY <1>1, FlushListFields
  <2> QED
    BY <2>1, EmptyList
<1>4. \A l \in Lists(p)' : l \in Lists(p) \/ l = ps'[p].pending
  BY <1>2 DEF Lists, Handed
<1>5. Derived(p)
  BY <1>3, <1>4 DEF Derived
<1> QED
  BY <1>2, <1>5, FrameDerived

LEMMA CrashDerived ==
  ASSUME TypeInv, NEW p \in Pageservers, Crash(p)
  PROVE  \A q \in Pageservers : Derived(q)
<1>1. Types
  BY DEF TypeInv
<1>2. Frame(p) /\ SameDisk(p) /\ ps'[p] = Down
  BY <1>1, CrashFields
<1>3. /\ ps'[p].channel = {} /\ ps'[p].validator.pending = {} /\ ps'[p].validator.validated = {}
      /\ ps'[p].pending = DeletionList(1, 0, {})
  BY <1>2 DEF Down, IdleValidator
<1>4. ps'[p].pending.objects = {} /\ ps'[p].pending.generation = 0
  BY <1>3, EmptyList
<1>5. \A l \in Lists(p)' : l \in Lists(p) \/ l = ps'[p].pending
  BY <1>2, <1>3 DEF Lists, Handed, SameDisk
<1>6. Derived(p)
  BY <1>4, <1>5 DEF Derived
<1> QED
  BY <1>2, <1>6, FrameDerived

\* The validator sorts, saves, passes on and forgets lists.
LEMMA ValidatorDerived ==
  ASSUME NEW p \in Pageservers, Frame(p), ps'[p].pending = ps[p].pending,
         Handed(p)' \subseteq Handed(p), disk'[p].lists \subseteq disk[p].lists
  PROVE  \A q \in Pageservers : Derived(q)
<1>1. Lists(p)' \subseteq Lists(p)
  BY DEF Lists
<1> QED
  BY <1>1, SameListsDerived, FrameDerived

LEMMA ValidatorFlushDerived ==
  ASSUME TypeInv, NEW p \in Pageservers, ValidatorFlush(p)
  PROVE  \A q \in Pageservers : Derived(q)
<1>1. /\ Frame(p) /\ SameDisk(p) /\ ps'[p].pending = ps[p].pending /\ ps'[p].channel = {}
      /\ ps'[p].validator.pending = {l \in ps[p].channel : ~l.validated}
      /\ ps'[p].validator.validated = {l \in ps[p].channel : l.validated}
  BY ValidatorFlushFields
<1>2. Handed(p)' \subseteq Handed(p)
  BY <1>1 DEF Handed
<1> QED
  BY <1>1, <1>2, ValidatorDerived DEF SameDisk

LEMMA PhaseDerived ==
  ASSUME NEW p \in Pageservers, ValidatorOnly(p), disk'[p].lists \subseteq disk[p].lists,
         ps'[p].validator.pending \subseteq ps[p].validator.pending,
         ps'[p].validator.validated \subseteq ps[p].validator.validated \cup ps[p].validator.pending
  PROVE  \A q \in Pageservers : Derived(q)
<1>1. Handed(p)' \subseteq Handed(p)
  BY DEF Handed, ValidatorOnly, SameWriter
<1> QED
  BY <1>1, ValidatorDerived DEF ValidatorOnly, SameWriter

LEMMA ValidateAnswerDerived ==
  ASSUME TypeInv, NEW p \in Pageservers, ValidateAnswer(p)
  PROVE  \A q \in Pageservers : Derived(q)
<1>1. Types
  BY DEF TypeInv
<1>2. ps[p].validator \in ValidatorType
  BY <1>1, SlotTypes
<1>3. ValidatorOnly(p) /\ SameDisk(p)
  BY <1>1, ValidateAnswerFields
<1>4. ps'[p].validator = [ps[p].validator EXCEPT
               !.at = "answered", !.valid = (generation = ps[p].validator.asked)]
  BY <1>1, ValidateAnswerFields
<1>5. /\ ps'[p].validator.pending = ps[p].validator.pending
      /\ ps'[p].validator.validated = ps[p].validator.validated
  BY <1>2, <1>4 DEF ValidatorType
<1> QED
  BY <1>3, <1>5, PhaseDerived DEF SameDisk

LEMMA ApplyLsnDerived ==
  ASSUME TypeInv, NEW p \in Pageservers, ApplyLsn(p)
  PROVE  \A q \in Pageservers : Derived(q)
<1>1. Types
  BY DEF TypeInv
<1>2. ps[p].validator \in ValidatorType
  BY <1>1, SlotTypes
<1>3. ValidatorOnly(p) /\ SameDisk(p) /\ ps'[p].validator = [ps[p].validator EXCEPT !.at = "saving"]
  BY <1>1, ApplyLsnFields
<1>5. /\ ps'[p].validator.pending = ps[p].validator.pending
      /\ ps'[p].validator.validated = ps[p].validator.validated
  BY <1>2, <1>3 DEF ValidatorType
<1> QED
  BY <1>3, <1>5, PhaseDerived DEF SameDisk

LEMMA ExecuteDerived ==
  ASSUME TypeInv, NEW p \in Pageservers, Execute(p)
  PROVE  \A q \in Pageservers : Derived(q)
<1>1. Types
  BY DEF TypeInv
<1>2. ps[p].validator \in ValidatorType
  BY <1>1, SlotTypes
<1>3. ValidatorOnly(p) /\ SameDisk(p) /\ ps'[p].validator = [ps[p].validator EXCEPT !.at = "cleanup"]
  BY <1>1, ExecuteFields
<1>5. /\ ps'[p].validator.pending = ps[p].validator.pending
      /\ ps'[p].validator.validated = ps[p].validator.validated
  BY <1>2, <1>3 DEF ValidatorType
<1> QED
  BY <1>3, <1>5, PhaseDerived DEF SameDisk

LEMMA SaveHeaderDerived ==
  ASSUME TypeInv, NEW p \in Pageservers, SaveHeader(p)
  PROVE  \A q \in Pageservers : Derived(q)
<1>1. Types
  BY DEF TypeInv
<1>2. ps[p].validator \in ValidatorType
  BY <1>1, SlotTypes
<1>3. /\ ValidatorOnly(p) /\ disk'[p].lists = disk[p].lists
      /\ ps'[p].validator = Validated(ps[p].validator)
  BY SaveHeaderFields
<1>4. /\ ps'[p].validator.pending = {}
      /\ ps'[p].validator.validated = ps[p].validator.validated \cup ps[p].validator.pending
  BY <1>2, <1>3, ValidatedIs
<1> QED
  BY <1>3, <1>4, PhaseDerived

LEMMA CleanupDerived ==
  ASSUME TypeInv, NEW p \in Pageservers, cleanup_lists(p)
  PROVE  \A q \in Pageservers : Derived(q)
<1>1. Types
  BY DEF TypeInv
<1>2. ps[p].validator \in ValidatorType
  BY <1>1, SlotTypes
<1>3. ValidatorOnly(p)
  BY <1>1, CleanupFields
<1>4. PICK l \in ps[p].validator.validated :
               /\ disk'[p].lists = {d \in disk[p].lists : d.sequence # l.sequence}
               /\ \/ /\ ps[p].validator.validated = {l}
                     /\ ps'[p].validator = IdleValidator(ps[p].validator.writeFailed)
                  \/ ps'[p].validator = [ps[p].validator EXCEPT !.validated = @ \ {l}]
  BY <1>1, CleanupFields
<1>5. CASE ps'[p].validator = IdleValidator(ps[p].validator.writeFailed)
  <2>1. ps'[p].validator.pending = {} /\ ps'[p].validator.validated = {}
    BY <1>5 DEF IdleValidator
  <2> QED
    BY <1>3, <1>4, <2>1, PhaseDerived
<1>6. CASE ps'[p].validator = [ps[p].validator EXCEPT !.validated = @ \ {l}]
  <2>1. /\ ps'[p].validator.pending = ps[p].validator.pending
        /\ ps'[p].validator.validated = ps[p].validator.validated \ {l}
    BY <1>2, <1>6 DEF ValidatorType
  <2> QED
    BY <1>3, <1>4, <2>1, PhaseDerived
<1> QED
  BY <1>4, <1>5, <1>6

LEMMA SaveListDerived ==
  ASSUME TypeInv, NEW p \in Pageservers, SaveList(p)
  PROVE  \A q \in Pageservers : Derived(q)
<1>1. Types
  BY DEF TypeInv
<1>2. ps[p].validator \in ValidatorType /\ ps[p].validator.pending \subseteq List
  BY <1>1, SlotTypes
<1>3. ValidatorOnly(p)
  BY <1>1, SaveListFields
<1>4. PICK l \in ps[p].validator.pending, w \in BOOLEAN :
          LET v == ps[p].validator
              k == KeptList(l, v)
          IN  /\ k \in List
              /\ ps'[p].validator =
                    [v EXCEPT !.pending = (@ \ {l}) \cup {k}, !.writeFailed = w]
              /\ \/ ListValid(l, v) /\ disk'[p].lists = disk[p].lists /\ w = v.writeFailed
                 \/ /\ ~ListValid(l, v) /\ w = v.writeFailed
                    /\ disk'[p].lists = {d \in disk[p].lists : d.sequence # l.sequence}
                                           \cup {k}
                 \/ ~ListValid(l, v) /\ disk'[p].lists = disk[p].lists /\ w = TRUE
  BY <1>1, SaveListFields
<1>5. PICK k \in List : k = KeptList(l, ps[p].validator)
  BY <1>4
<1>6. k.objects \subseteq l.objects /\ k.generation = l.generation
  <2>1. l \in List
    BY <1>2
  <2> QED
    BY <1>5, <2>1 DEF KeptList, List
<1>7. /\ ps'[p].validator.pending = (ps[p].validator.pending \ {l}) \cup {k}
      /\ ps'[p].validator.validated = ps[p].validator.validated
  BY <1>2, <1>4, <1>5 DEF ValidatorType
<1>8. disk'[p].lists \subseteq disk[p].lists \cup {k}
  BY <1>4, <1>5
<1>9. \A d \in Lists(p)' : d \in Lists(p) \/ d = k
  BY <1>3, <1>7, <1>8 DEF Lists, Handed, ValidatorOnly, SameWriter
<1>10. l \in Lists(p)
  BY DEF Lists, Handed
<1>11. Derived(p)
  BY <1>6, <1>9, <1>10 DEF Derived
<1> QED
  BY <1>3, <1>11, FrameDerived DEF ValidatorOnly

LEMMA DerivedInv ==
  ASSUME TypeInv, TypeInv', KeyInv, ListInv, ViewStep, \A p \in Pageservers : Derived(p)
  PROVE  ListInv' /\ KeyInv'
  BY ViewLists, ViewKeys, DerivedNames

-----------------------------------------------------------------------------
(***************************************************************************)
(* LSNs on their way to safekeepers.                                       *)
(***************************************************************************)
CoverStays ==
    /\ \A n \in Nat : Covered(n) => Covered(n)'
    /\ \A u \in Update : UpdateOK(u) => UpdateOK(u)'

LEMMA UpdateTypes ==
  ASSUME TypeInv, NEW p \in Pageservers
  PROVE  ps[p].lsnTable \in Update /\ ps[p].validator.update \in Update
<1>1. Types
  BY DEF TypeInv
<1>2. ps[p].lsnTable \in Update /\ ps[p].validator \in ValidatorType
  BY <1>1, SlotTypes
<1> QED
  BY <1>2 DEF ValidatorType

LEMMA UpdateFields ==
  ASSUME NEW u \in Update
  PROVE  u.generation \in Nat /\ u.lsn \in Nat
<1>1. u.generation \in GenerationsOr0 /\ u.lsn \in 0 .. MaxUploads
  BY DEF Update
<1> QED
  BY <1>1, ConstTypes

LEMMA ViewCoverStays ==
  ASSUME TypeInv, IssueInv, ViewStep
  PROVE  CoverStays
<1>1. \A n \in Nat : Covered(n) => Covered(n)'
  BY ViewCovered
<1>2. ASSUME NEW u \in Update, UpdateOK(u), u.generation # 0 PROVE UpdateOK(u)'
  <2>1. PICK g \in Generations : g = u.generation
    BY <1>2, ConstTypes DEF Update
  <2>2. index[g] # NoIndex /\ index[g].lsn >= u.lsn /\ index' = index
    BY <1>2, <2>1 DEF UpdateOK, ViewStep
  <2>3. ~Unused(g)
    BY <2>2 DEF IssueInv
  <2>4. ASSUME NEW q \in Pageservers, ps'[q].generation = g PROVE ps'[q].part.lsn >= u.lsn
    <3>1. ps[q].generation = g /\ ps'[q].part = ps[q].part
      BY <2>3, <2>4, ViewHolder
    <3>. QED  BY <1>2, <2>1, <3>1 DEF UpdateOK
  <2>. QED  BY <2>1, <2>2, <2>4 DEF UpdateOK
<1>3. \A u \in Update : u.generation = 0 => UpdateOK(u)'
  BY DEF UpdateOK
<1>. QED  BY <1>1, <1>2, <1>3 DEF CoverStays

LEMMA UploadCoverStays ==
  ASSUME TypeInv, NEW p \in Pageservers, NEW kept, Uploads(p, kept)
  PROVE  CoverStays
<1>1. \A n \in Nat : Covered(n) => Covered(n)'
  BY UploadCovered
<1>2. ASSUME NEW u \in Update, UpdateOK(u), u.generation # 0 PROVE UpdateOK(u)'
  <2>1. PICK g \in Generations : g = u.generation
    BY <1>2, ConstTypes DEF Update
  <2>2. /\ index[g] # NoIndex /\ index[g].lsn >= u.lsn
        /\ \A q \in Pageservers : ps[q].generation = g => ps[q].part.lsn >= u.lsn
    BY <1>2, <2>1 DEF UpdateOK
  <2>3. u.lsn \in Nat /\ ps[p].part.lsn \in Nat
    BY UpdateFields, ViewTypes
  <2>4. /\ \A q \in Pageservers : ps'[q].generation = ps[q].generation
        /\ \A q \in Pageservers : q # p => ps'[q].part = ps[q].part
        /\ ps'[p].part = NewPart(p, kept) /\ NewPart(p, kept) # NoIndex
        /\ NewPart(p, kept).lsn = ps[p].part.lsn + 1
        /\ index'[ps[p].generation] = NewPart(p, kept)
        /\ g # ps[p].generation => index'[g] = index[g]
    BY UploadFacts DEF Uploads
  <2>5. ps[p].generation = g => NewPart(p, kept).lsn >= u.lsn
    BY <2>2, <2>3, <2>4
  <2>6. index'[g] # NoIndex /\ index'[g].lsn >= u.lsn
    BY <2>2, <2>4, <2>5
  <2>7. \A q \in Pageservers : ps'[q].generation = g => ps'[q].part.lsn >= u.lsn
    BY <2>2, <2>4, <2>5
  <2>. QED  BY <2>1, <2>6, <2>7 DEF UpdateOK
<1>3. \A u \in Update : u.generation = 0 => UpdateOK(u)'
  BY DEF UpdateOK
<1>. QED  BY <1>1, <1>2, <1>3 DEF CoverStays

LEMMA NoUpdateOK == UpdateOK(NoUpdate)'
BY DEF UpdateOK, NoUpdate

LEMMA CoverOKFrom ==
  ASSUME NEW q \in Pageservers, NEW u, u = ps'[q].lsnTable, NEW w, w = ps'[q].validator.update,
         UpdateOK(u)', UpdateOK(w)',
         ps'[q].validator.at = "answered" /\ LsnValid(ps'[q].validator) => Covered(w.lsn)'
  PROVE  CoverOK(q)'
<1>1. UpdateOK(ps[q].lsnTable)'
  BY DEF UpdateOK, Covered, CoversFrom
<1>2. UpdateOK(ps[q].validator.update)'
  BY DEF UpdateOK, Covered, CoversFrom
<1>3. ASSUME ps'[q].validator.at = "answered", LsnValid(ps'[q].validator)
      PROVE  Covered(ps[q].validator.update.lsn)'
  <2>1. Covered(w.lsn)'
    BY <1>3
  <2> QED
    BY <2>1 DEF Covered, CoversFrom
<1>4. LsnValid(ps[q].validator)' => LsnValid(ps'[q].validator)
  BY DEF LsnValid
<1> QED
  BY <1>1, <1>2, <1>3, <1>4 DEF CoverOK

\* Updates are kept, taken by the validator, or gone.
LEMMA CoverKept ==
  ASSUME TypeInv, TypeInv', CoverInv, CoverStays,
         NEW q \in Pageservers,
         ps'[q].lsnTable = ps[q].lsnTable \/ ps'[q].lsnTable = NoUpdate,
         \/ ps'[q].validator.update = ps[q].validator.update
         \/ ps'[q].validator.update = ps[q].lsnTable
         \/ ps'[q].validator.update = NoUpdate,
         ps'[q].validator.at = "answered" => ps'[q].validator = ps[q].validator
  PROVE  CoverOK(q)'
<1>1. PICK u \in Update : u = ps[q].lsnTable
  BY UpdateTypes
<1>2. PICK w \in Update : w = ps[q].validator.update
  BY UpdateTypes
<1>3. /\ UpdateOK(u) /\ UpdateOK(w)
      /\ ps[q].validator.at = "answered" /\ LsnValid(ps[q].validator) => Covered(w.lsn)
  BY <1>1, <1>2 DEF CoverInv, CoverOK
<1>4. UpdateOK(u)' /\ UpdateOK(w)' /\ UpdateOK(NoUpdate)'
  BY <1>3, NoUpdateOK DEF CoverStays
<1>5. PICK a : a = ps'[q].lsnTable /\ UpdateOK(a)'
  BY <1>1, <1>4
<1>6. PICK b : b = ps'[q].validator.update /\ UpdateOK(b)'
  BY <1>1, <1>2, <1>4
<1>7. ASSUME ps'[q].validator.at = "answered", LsnValid(ps'[q].validator)
      PROVE  Covered(b.lsn)'
  <2>1. b = w /\ Covered(w.lsn)
    BY <1>2, <1>3, <1>6, <1>7
  <2>2. w.lsn \in Nat
    BY UpdateFields
  <2> QED
    BY <2>1, <2>2 DEF CoverStays
<1> QED
  BY <1>5, <1>6, <1>7, CoverOKFrom

LEMMA VisibleCovered ==
  ASSUME TypeInv, CoverStays, NEW n \in Nat, Covered(n), visible' = n
  PROVE  Covered(visible)'
<1>1. Covered(n)'
  BY DEF CoverStays
<1> QED
  BY <1>1 DEF Covered, CoversFrom

LEMMA SameVisible ==
  ASSUME TypeInv, CoverInv, CoverStays, visible' = visible
  PROVE  Covered(visible)'
<1>1. visible \in Nat
  BY ConstTypes DEF TypeInv, Types, StorageType
<1> QED
  BY <1>1, VisibleCovered DEF CoverInv

LEMMA ServiceCover ==
  ASSUME TypeInv, TypeInv', CoverInv, CoverStays, ServiceOnly
  PROVE  CoverInv'
<1>1. visible' = visible /\ ps' = ps
  BY DEF ServiceOnly, storageVars
<1>2. Covered(visible)'
  BY <1>1, SameVisible
<1>3. \A q \in Pageservers : CoverOK(q)'
  BY <1>1, CoverKept
<1> QED
  BY <1>2, <1>3 DEF CoverInv

LEMMA FrameCover ==
  ASSUME TypeInv, TypeInv', CoverInv, CoverStays,
         NEW p \in Pageservers, Frame(p), CoverOK(p)', Covered(visible)'
  PROVE  CoverInv'
<1>1. ASSUME NEW q \in Pageservers, q # p PROVE CoverOK(q)'
  <2>1. ps'[q] = ps[q]
    BY <1>1 DEF Frame
  <2> QED
    BY <2>1, CoverKept
<1> QED
  BY <1>1 DEF CoverInv

\* Steps of p that leave LSNs alone, or take or drop its updates.
LEMMA QueueCover ==
  ASSUME TypeInv, TypeInv', CoverInv, CoverStays, visible' = visible,
         NEW p \in Pageservers, Frame(p),
         ps'[p].lsnTable = ps[p].lsnTable \/ ps'[p].lsnTable = NoUpdate,
         \/ ps'[p].validator.update = ps[p].validator.update
         \/ ps'[p].validator.update = ps[p].lsnTable
         \/ ps'[p].validator.update = NoUpdate,
         ps'[p].validator.at = "answered" => ps'[p].validator = ps[p].validator
  PROVE  CoverInv'
<1>1. CoverOK(p)'
  BY CoverKept
<1>2. Covered(visible)'
  BY SameVisible
<1> QED
  BY <1>1, <1>2, FrameCover

\* The last generation anybody loaded covers what it has written.
LEMMA UpdateCovers ==
  ASSUME TypeInv, NEW u \in Update, UpdateOK(u), NEW k \in Generations, k = u.generation,
         \A g \in Generations : g > k => ~Loaded(g)
  PROVE  Covered(u.lsn)
<1>1. /\ \A g \in Generations : g \in Nat /\ g > 0
      /\ \A q \in Pageservers : ps[q].generation \in Nat
      /\ \A q \in Pageservers : ps[q].generation # 0 => ps[q].generation \in Generations
  BY ViewTypes
<1>2. /\ index[k] # NoIndex /\ index[k].lsn >= u.lsn
      /\ \A q \in Pageservers : ps[q].generation = k => ps[q].part.lsn >= u.lsn
  <2>1. u.generation # 0
    BY <1>1
  <2>. QED  BY <2>1 DEF UpdateOK
<1>3. \A g \in Generations : g >= k => g = k \/ ~Loaded(g)
  BY <1>1
<1>4. \A g \in Generations : g >= k /\ index[g] # NoIndex => index[g].lsn >= u.lsn
  BY <1>2, <1>3 DEF Loaded
<1>5. ASSUME NEW q \in Pageservers, Up(q), ps[q].generation >= k PROVE ps[q].part.lsn >= u.lsn
  <2>1. ps[q].generation \in Generations
    BY <1>1, <1>5
  <2>2. Loaded(ps[q].generation)
    BY <1>5 DEF Loaded
  <2>3. ps[q].generation = k
    BY <1>3, <1>5, <2>1, <2>2
  <2>. QED  BY <1>2, <2>3
<1>6. CoversFrom(k, u.lsn)
  BY <1>2, <1>4, <1>5 DEF CoversFrom
<1>. QED  BY <1>6 DEF Covered

LEMMA ValidateAnswerCover ==
  ASSUME TypeInv, TypeInv', CoverInv, CoverStays, ValidateIsTruthful,
         NEW p \in Pageservers, ValidateAnswer(p)
  PROVE  CoverInv'
<1>1. Types
  BY DEF TypeInv
<1>2. ps[p].validator \in ValidatorType
  BY <1>1, SlotTypes
<1>3. ValidatorOnly(p) /\ UNCHANGED <<serviceVars, storageVars, bounds>>
  BY <1>1, ValidateAnswerFields
<1>4. ps'[p].validator = [ps[p].validator EXCEPT
               !.at = "answered", !.valid = (generation = ps[p].validator.asked)]
  BY <1>1, ValidateAnswerFields
<1>5. PICK u \in Update : u = ps[p].lsnTable
  BY UpdateTypes
<1>6. PICK w \in Update : w = ps[p].validator.update
  BY UpdateTypes
<1>7. UpdateOK(u) /\ UpdateOK(w)
  BY <1>5, <1>6 DEF CoverInv, CoverOK
<1>8. visible' = visible /\ ps'[p].lsnTable = ps[p].lsnTable /\ ps[p].validator.at = "asked"
  BY <1>1, <1>3, ValidateAnswerFields DEF ValidatorOnly, storageVars
<1>9. /\ ps'[p].validator.update = w /\ ps'[p].validator.asked = ps[p].validator.asked
      /\ ps'[p].validator.valid <=> generation = ps[p].validator.asked
      /\ ps'[p].validator.at = "answered"
  BY <1>2, <1>4, <1>6 DEF ValidatorType
<1>10. w.generation \in Nat /\ w.lsn \in Nat
  BY UpdateFields
<1>11. ASSUME LsnValid(ps'[p].validator) PROVE Covered(w.lsn)
  <2>1. w.generation = ps[p].validator.asked /\ w.generation = generation /\ ps'[p].validator.valid
    BY <1>9, <1>11 DEF LsnValid
  <2>2. PICK k \in Generations : k = w.generation
    BY <1>1, <2>1 DEF Types, ServiceType
  <2>3. \A g \in Generations : g > k => ~Loaded(g)
    BY <1>8, <1>9, <2>1, <2>2 DEF ValidateIsTruthful
  <2>. QED  BY <1>7, <2>2, <2>3, UpdateCovers
<1>12. LsnValid(ps'[p].validator) => Covered(w.lsn)'
  BY <1>10, <1>11 DEF CoverStays
<1>13. UpdateOK(u)' /\ UpdateOK(w)'
  BY <1>7 DEF CoverStays
<1>14. u = ps'[p].lsnTable
  BY <1>5, <1>8
<1>15. CoverOK(p)'
  BY <1>9, <1>12, <1>13, <1>14, CoverOKFrom
<1>16. Covered(visible)'
  BY <1>8, SameVisible
<1> QED
  BY <1>3, <1>15, <1>16, FrameCover DEF ValidatorOnly

LEMMA ApplyLsnCover ==
  ASSUME TypeInv, TypeInv', CoverInv, CoverStays, NEW p \in Pageservers, ApplyLsn(p)
  PROVE  CoverInv'
<1>1. Types
  BY DEF TypeInv
<1>2. ps[p].validator \in ValidatorType
  BY <1>1, SlotTypes
<1>3. /\ ValidatorOnly(p) /\ UNCHANGED <<serviceVars, index, objects, bounds>>
      /\ ps[p].validator.at = "answered"
      /\ ps'[p].validator = [ps[p].validator EXCEPT !.at = "saving"]
      /\ \/ visible' = visible
         \/ LsnValid(ps[p].validator) /\ visible' = ps[p].validator.update.lsn
  BY <1>1, ApplyLsnFields
<1>5. PICK w \in Update : w = ps[p].validator.update
  BY UpdateTypes
<1>6. ps'[p].validator.at = "saving" /\ ps'[p].validator.update = ps[p].validator.update
  BY <1>2, <1>3 DEF ValidatorType
<1>7. CoverOK(p)'
  BY <1>3, <1>6, CoverKept DEF ValidatorOnly
<1>8. Covered(visible)'
  <2>1. CASE visible' = visible
    BY <2>1, SameVisible
  <2>2. CASE LsnValid(ps[p].validator) /\ visible' = ps[p].validator.update.lsn
    <3>1. Covered(w.lsn)
      BY <1>3, <1>5, <2>2 DEF CoverInv, CoverOK
    <3>2. w.lsn \in Nat /\ visible' = w.lsn
      BY <1>5, <2>2, UpdateFields
    <3> QED
      BY <3>1, <3>2, VisibleCovered
  <2> QED
    BY <1>3, <2>1, <2>2
<1> QED
  BY <1>3, <1>7, <1>8, FrameCover DEF ValidatorOnly

LEMMA UploadCover ==
  ASSUME TypeInv, TypeInv', IssueInv', CoverInv,
         NEW p \in Pageservers, UploadIndex(p), NEW kept, Uploads(p, kept)
  PROVE  CoverInv'
<1>1. CoverStays
  BY UploadCoverStays
<1>2. /\ Frame(p) /\ UNCHANGED <<serviceVars, visible>> /\ ps[p].generation \in Generations
      /\ ps'[p].validator = ps[p].validator
      /\ ps'[p].lsnTable = [generation |-> ps[p].generation, lsn |-> ps[p].part.lsn + 1]
  BY UploadFields
<1>4. Covered(visible)'
  BY <1>1, <1>2, SameVisible
<1>5. PICK g \in Generations : g = ps[p].generation
  BY <1>2
<1>6. PICK n \in Nat : n = ps[p].part.lsn + 1
  BY ViewTypes
<1>7. PICK u : u = ps'[p].lsnTable
  OBVIOUS
<1>8. UpdateOK(u)'
  <2>1. u.generation = g /\ u.lsn = n
    BY <1>2, <1>5, <1>6, <1>7
  <2>2. /\ index'[g] = NewPart(p, kept) /\ NewPart(p, kept) # NoIndex
        /\ NewPart(p, kept).lsn = n /\ ps'[p].part = NewPart(p, kept) /\ ps'[p].generation = g
    <3>1. /\ index'[ps[p].generation] = NewPart(p, kept) /\ NewPart(p, kept) # NoIndex
          /\ NewPart(p, kept).lsn = ps[p].part.lsn + 1
      BY UploadFacts
    <3>2. ps'[p].part = NewPart(p, kept) /\ ps'[p].generation = ps[p].generation
      BY DEF Uploads
    <3>. QED  BY <1>5, <1>6, <3>1, <3>2
  <2>3. g # 0 /\ n >= n
    BY <1>5, ViewTypes
  <2>4. \A q \in Pageservers : ps'[q].generation = g => q = p
    BY <2>2, <2>3 DEF IssueInv
  <2> QED
    BY <2>1, <2>2, <2>3, <2>4 DEF UpdateOK
<1>9. PICK w \in Update : w = ps[p].validator.update
  BY UpdateTypes
<1>10. /\ UpdateOK(w)
       /\ ps[p].validator.at = "answered" /\ LsnValid(ps[p].validator) => Covered(w.lsn)
  BY <1>9 DEF CoverInv, CoverOK
<1>11. UpdateOK(w)'
  BY <1>1, <1>10 DEF CoverStays
<1>12. ASSUME ps'[p].validator.at = "answered", LsnValid(ps'[p].validator) PROVE Covered(w.lsn)'
  <2>1. Covered(w.lsn) /\ w.lsn \in Nat
    BY <1>2, <1>10, <1>12, UpdateFields
  <2> QED
    BY <1>1, <2>1 DEF CoverStays
<1>13. w = ps'[p].validator.update
  BY <1>2, <1>9
<1>14. CoverOK(p)'
  BY <1>7, <1>8, <1>11, <1>12, <1>13, CoverOKFrom
<1> QED
  BY <1>1, <1>2, <1>4, <1>14, FrameCover

-----------------------------------------------------------------------------
(***************************************************************************)
(* Layers in object storage.                                               *)
(***************************************************************************)
LEMMA ViewStore ==
  ASSUME TypeInv, StoreInv, ViewStep, objects \subseteq objects'
  PROVE  StoreInv'
<1>1. SUFFICES ASSUME NEW k \in Generations, index'[k] # NoIndex,
                      \A g \in Generations : g > k => index'[g] = NoIndex
               PROVE  StoredFrom(k)'
  BY DEF StoreInv
<1>2. index' = index
  BY DEF ViewStep
<1>3. StoredFrom(k)
  BY <1>1, <1>2 DEF StoreInv
<1>4. index'[k].layers \subseteq objects'
  BY <1>2, <1>3 DEF StoredFrom
<1>5. ASSUME NEW q \in Pageservers, Up(q)', ps'[q].generation >= k
      PROVE  ps'[q].part.layers \subseteq objects'
  <2>1. \/ Up(q) /\ ps[q].generation >= k /\ ps'[q].part = ps[q].part
        \/ \E m \in Generations : m >= k /\ index[m] # NoIndex /\ ps'[q].part = index[m]
    BY <1>1, <1>2, <1>5, ViewPart
  <2>2. CASE Up(q) /\ ps[q].generation >= k /\ ps'[q].part = ps[q].part
    BY <1>3, <2>2 DEF StoredFrom
  <2>3. ASSUME NEW m \in Generations, m >= k, index[m] # NoIndex, ps'[q].part = index[m]
        PROVE  ps'[q].part.layers \subseteq objects'
    <3>1. m \in Nat /\ k \in Nat
      BY ConstTypes
    <3>2. m = k
      BY <1>1, <1>2, <2>3, <3>1
    <3> QED
      BY <1>2, <1>4, <2>3, <3>2
  <2> QED
    BY <2>1, <2>2, <2>3
<1> QED
  BY <1>4, <1>5 DEF StoredFrom

\* There is a newest index.
LEMMA Newest ==
  ASSUME TypeInv
  PROVE  \E k \in Generations :
            index[k] # NoIndex /\ \A g \in Generations : index[g] # NoIndex => g <= k
<1> DEFINE S == {g \in Generations : index[g] # NoIndex}
<1>1. S \in SUBSET Nat /\ 1 \in S
  BY ConstTypes, ViewTypes
<1>2. \A g \in S : g <= MaxGeneration + MaxCrashes
  BY DEF Generations
<1>3. MaxGeneration + MaxCrashes \in Nat
  BY ConstTypes
<1>4. PICK k \in S : \A g \in S : k >= g
  <2> HIDE DEF S
  <2> QED
    BY <1>1, <1>2, <1>3, GreatestNat
<1>5. \A g \in S : g <= k
  BY <1>1, <1>4
<1> QED
  BY <1>4, <1>5

LEMMA UploadStore ==
  ASSUME TypeInv, StoreInv, NEW p \in Pageservers, NEW kept, Uploads(p, kept),
         objects' = objects \cup {NewLayer(p)}
  PROVE  StoreInv'
<1>1. SUFFICES ASSUME NEW k \in Generations, index'[k] # NoIndex,
                      \A g \in Generations : g > k => index'[g] = NoIndex
               PROVE  StoredFrom(k)'
  BY DEF StoreInv
<1>2. PICK g \in Generations : g = ps[p].generation
  BY DEF Uploads
<1>3. /\ index'[g] = NewPart(p, kept) /\ NewPart(p, kept) # NoIndex
      /\ NewPart(p, kept).layers = kept \cup {NewLayer(p)}
      /\ \A h \in Generations : h # g => index'[h] = index[h]
      /\ \A q \in Pageservers : /\ ps'[q].generation = ps[q].generation
                                /\ ps'[q].state = ps[q].state
                                /\ q # p => ps'[q].part = ps[q].part
  BY <1>2, UploadFacts
<1>4. Up(p) /\ kept \subseteq ps[p].part.layers /\ ps'[p].part = NewPart(p, kept)
  BY DEF Uploads, Holds
<1>5. \A h \in Generations : h \in Nat
  BY ConstTypes
<1>6. PICK t \in Generations :
          index[t] # NoIndex /\ \A h \in Generations : index[h] # NoIndex => h <= t
  BY Newest
<1>7. StoredFrom(t)
  <2>1. \A h \in Generations : h > t => index[h] = NoIndex
    BY <1>5, <1>6
  <2> QED
    BY <1>6, <2>1 DEF StoreInv
<1>8. t <= k /\ g <= k
  BY <1>1, <1>3, <1>5, <1>6
<1>9. k # g => k = t
  BY <1>1, <1>3, <1>5, <1>6, <1>8
<1>10. \A q \in Pageservers : ps[q].generation \in Nat
  BY ViewTypes
<1>11. index'[k].layers \subseteq objects'
  <2>1. CASE k = g
    <3>1. ps[p].generation >= t
      BY <1>2, <1>5, <1>8, <2>1
    <3>2. ps[p].part.layers \subseteq objects
      BY <1>4, <1>7, <3>1 DEF StoredFrom
    <3> QED
      BY <1>3, <1>4, <2>1, <3>2
  <2>2. CASE k # g
    BY <1>3, <1>7, <1>9, <2>2 DEF StoredFrom
  <2> QED
    BY <2>1, <2>2
<1>12. ASSUME NEW q \in Pageservers, Up(q)', ps'[q].generation >= k
       PROVE  ps'[q].part.layers \subseteq objects'
  <2>1. Up(q) /\ ps[q].generation >= t
    BY <1>3, <1>5, <1>8, <1>10, <1>12 DEF Up
  <2>2. ps[q].part.layers \subseteq objects
    BY <1>7, <2>1 DEF StoredFrom
  <2>3. CASE q = p
    BY <1>3, <1>4, <2>2, <2>3
  <2>4. CASE q # p
    BY <1>3, <2>2, <2>4
  <2> QED
    BY <2>3, <2>4
<1> QED
  BY <1>11, <1>12 DEF StoredFrom

\* The deleter deletes nothing that the newest index, or a holder of it, names.
LEMMA ExecuteStore ==
  ASSUME TypeInv, DeadInv, StoreInv, NEW p \in Pageservers, Execute(p)
  PROVE  StoreInv'
<1>0. Types
  BY DEF TypeInv
<1>1. /\ ValidatorOnly(p) /\ UNCHANGED index
      /\ \A o \in objects : o \in objects' \/ \E l \in ps[p].validator.validated : o \in l.objects
  BY <1>0, ExecuteFields
<1>2. ASSUME NEW l \in ps[p].validator.validated PROVE Dead(l.objects)
  BY <1>2 DEF DeadInv, DeadOK, PhaseOK, Handed
<1>3. SUFFICES ASSUME NEW k \in Generations, index'[k] # NoIndex,
                      \A g \in Generations : g > k => index'[g] = NoIndex
               PROVE  StoredFrom(k)'
  BY DEF StoreInv
<1>4. StoredFrom(k)
  BY <1>1, <1>3 DEF StoreInv
<1>5. \A g \in Generations : g \in Nat
  BY ConstTypes
<1>6. ASSUME NEW l \in ps[p].validator.validated
      PROVE  /\ index[k].layers \cap l.objects = {}
             /\ \A q \in Pageservers : Up(q) /\ ps[q].generation >= k =>
                   ps[q].part.layers \cap l.objects = {}
  <2>1. PICK j \in Generations : DeadFrom(j, l.objects)
    BY <1>2 DEF Dead
  <2>2. j <= k
    BY <1>1, <1>3, <1>5, <2>1 DEF DeadFrom
  <2>3. \A q \in Pageservers : ps[q].generation \in Nat
    BY ViewTypes
  <2>4. \A q \in Pageservers : ps[q].generation >= k => ps[q].generation >= j
    BY <1>5, <2>2, <2>3
  <2>5. k >= j
    BY <1>5, <2>2
  <2> QED
    BY <2>1, <2>4, <2>5 DEF DeadFrom
<1>7. index'[k].layers \subseteq objects'
  BY <1>1, <1>4, <1>6 DEF StoredFrom
<1>8. ASSUME NEW q \in Pageservers, Up(q)', ps'[q].generation >= k
      PROVE  ps'[q].part.layers \subseteq objects'
  <2>1. Up(q) /\ ps'[q].generation = ps[q].generation /\ ps'[q].part = ps[q].part
    BY <1>1, <1>8 DEF ValidatorOnly, Frame, SameHolder, Up
  <2> QED
    BY <1>1, <1>4, <1>6, <1>8, <2>1 DEF StoredFrom
<1> QED
  BY <1>7, <1>8 DEF StoredFrom

-----------------------------------------------------------------------------
(***************************************************************************)
(* The invariant: it holds initially.                                      *)
(***************************************************************************)
LEMMA InitFacts ==
  ASSUME Init
  PROVE  /\ row.generation = 1 /\ generation = 1 /\ requests = {}
         /\ op.kind = "none" /\ op.generation = 0
         /\ \A g \in Generations : index[g] = IF g = 1 THEN FirstIndex ELSE NoIndex
         /\ objects = FirstIndex.layers /\ visible = 0
         /\ \A p \in Pageservers :
              /\ Up(p) /\ ps[p].channel = {} /\ ps[p].lsnTable = NoUpdate
              /\ ps[p].validator = IdleValidator(FALSE) /\ ps[p].pending = DeletionList(1, 0, {})
              /\ disk[p].lists = {}
              /\ \/ p = row.node /\ ps[p].generation = 1 /\ ps[p].part = FirstIndex
                 \/ p # row.node /\ ps[p].generation = 0 /\ ps[p].part = NoIndex
<1>1. PICK n \in Pageservers :
        row = [generation |-> 1, node |-> n] /\ generation = 1 /\ op = NoOp /\ requests = {}
  BY DEF Init, ServiceInit
<1>2. row.generation = 1 /\ op.kind = "none" /\ op.generation = 0
  BY <1>1 DEF NoOp
<1> DEFINE fresh == [Down EXCEPT !.state = "up"]
           first == [Down EXCEPT !.state = "up", !.generation = 1, !.part = FirstIndex]
<1>3. ps = [p \in Pageservers |-> IF p = row.node THEN first ELSE fresh]
  BY DEF Init
<1>4. /\ fresh.state = "up" /\ fresh.channel = {} /\ fresh.lsnTable = NoUpdate
      /\ fresh.validator = IdleValidator(FALSE) /\ fresh.pending = DeletionList(1, 0, {})
      /\ fresh.generation = 0 /\ fresh.part = NoIndex
  BY DEF Down
<1>5. /\ first.state = "up" /\ first.channel = {} /\ first.lsnTable = NoUpdate
      /\ first.validator = IdleValidator(FALSE) /\ first.pending = DeletionList(1, 0, {})
      /\ first.generation = 1 /\ first.part = FirstIndex
  BY DEF Down
<1> HIDE DEF first, fresh
<1>6. ASSUME NEW p \in Pageservers
      PROVE  /\ Up(p) /\ ps[p].channel = {} /\ ps[p].lsnTable = NoUpdate
             /\ ps[p].validator = IdleValidator(FALSE) /\ ps[p].pending = DeletionList(1, 0, {})
             /\ \/ p = row.node /\ ps[p].generation = 1 /\ ps[p].part = FirstIndex
                \/ p # row.node /\ ps[p].generation = 0 /\ ps[p].part = NoIndex
  <2>1. p = row.node => ps[p] = first
    BY <1>3
  <2>2. p # row.node => ps[p] = fresh
    BY <1>3
  <2> QED
    BY <1>4, <1>5, <2>1, <2>2 DEF Up
<1>7. \A p \in Pageservers : disk[p].lists = {}
  BY DEF Init
<1>8. /\ \A g \in Generations : index[g] = IF g = 1 THEN FirstIndex ELSE NoIndex
      /\ objects = FirstIndex.layers /\ visible = 0
  BY DEF Init
<1> QED
  BY <1>1, <1>2, <1>6, <1>7, <1>8

LEMMA SafetyInit == Init => IInv
<1> SUFFICES ASSUME Init PROVE IInv
  OBVIOUS
<1>1. TypeInv
  BY TypeInit
<1>2. /\ row.generation = 1 /\ generation = 1 /\ requests = {}
      /\ op.kind = "none" /\ op.generation = 0
      /\ \A g \in Generations : index[g] = IF g = 1 THEN FirstIndex ELSE NoIndex
      /\ objects = FirstIndex.layers /\ visible = 0
  BY InitFacts
<1>3. \A p \in Pageservers :
         /\ Up(p) /\ ps[p].channel = {} /\ ps[p].lsnTable = NoUpdate
         /\ ps[p].validator = IdleValidator(FALSE) /\ ps[p].pending = DeletionList(1, 0, {})
         /\ disk[p].lists = {}
  BY InitFacts
<1>4. \A p \in Pageservers :
         \/ p = row.node /\ ps[p].generation = 1 /\ ps[p].part = FirstIndex
         \/ p # row.node /\ ps[p].generation = 0 /\ ps[p].part = NoIndex
  BY InitFacts
<1>5. \A p \in Pageservers : ~Starting(p) /\ ps[p].state # "down"
  BY <1>3 DEF Up, Starting
<1>6. /\ 1 \in Generations /\ \A g \in Generations : g \in Nat /\ g # 0
      /\ FirstIndex # NoIndex
  BY ConstTypes
<1>7. \A g \in Generations : Unused(g) <=> g > 1
  BY <1>2, <1>5 DEF Unused, Pending
<1>8. index[1] = FirstIndex /\ \A g \in Generations : g > 1 => index[g] = NoIndex
  BY <1>2, <1>6
<1>9. IssueInv
  <2>1. \A p \in Pageservers : ps[p].generation = 1 \/ ps[p].generation = 0
    BY <1>4
  <2>2. \A p \in Pageservers : ps[p].generation <= row.generation
    BY <1>2, <2>1
  <2>3. \A p, q \in Pageservers :
          ps[p].generation = ps[q].generation /\ ps[p].generation # 0 => p = q
    BY <1>4
  <2> QED
    BY <1>2, <1>5, <1>7, <1>8, <2>2, <2>3 DEF IssueInv
<1>11. FirstIndex.layers = {<<1, 0>>} /\ FirstIndex.lsn = 0 /\ NoIndex.layers = {} /\ NoIndex.lsn = 0
  BY DEF FirstIndex, NoIndex
<1>12. \A p \in Pageservers : Handed(p) = {} /\ Lists(p) = {DeletionList(1, 0, {})}
  BY <1>3 DEF Handed, Lists, IdleValidator
<1>13. DeletionList(1, 0, {}).objects = {} /\ DeletionList(1, 0, {}).generation = 0
  BY DEF DeletionList
<1>14. KeyInv
  <2>1. ~Unused(1)
    BY <1>6, <1>7
  <2>2. \A o : o = <<1, 0>> => o[1] = 1 /\ o[2] = 0
    OBVIOUS
  <2>3. \A p \in Pageservers : ps[p].generation = 1 => 0 <= ps[p].part.lsn
    BY <1>4, <1>11
  <2>4. \A o : o = <<1, 0>> => KeyOK(o)
    BY <2>1, <2>2, <2>3 DEF KeyOK
  <2>5. \A g \in Generations : \A o \in index[g].layers : KeyOK(o)
    <3>1. \A g \in Generations : index[g] = FirstIndex \/ index[g] = NoIndex
      BY <1>2
    <3> QED
      BY <1>11, <2>4, <3>1
  <2>6. \A p \in Pageservers : \A o \in ps[p].part.layers : KeyOK(o)
    BY <1>4, <1>11, <2>4
  <2>7. \A p \in Pageservers : \A l \in Lists(p) : \A o \in l.objects : KeyOK(o)
    BY <1>12, <1>13
  <2> QED
    BY <2>5, <2>6, <2>7 DEF KeyInv
<1>15. ListInv
  <2>1. ASSUME NEW p \in Pageservers, NEW l \in Lists(p) PROVE ListOK(p, l)
    <3>1. l.objects = {} /\ l.generation = 0
      BY <1>12, <1>13, <2>1
    <3>2. Owned(p, l)
      BY <3>1 DEF Owned
    <3>3. l.generation <= row.generation
      BY <1>2, <3>1
    <3> QED
      BY <3>2, <3>3 DEF ListOK
  <2> QED
    BY <2>1 DEF ListInv
<1>16. DeadInv
  <2>1. ASSUME NEW p \in Pageservers PROVE DeadOK(p)
    <3>1. /\ ps[p].validator.at = "idle" /\ ps[p].validator.pending = {}
          /\ ps[p].validator.validated = {}
      BY <1>3 DEF IdleValidator
    <3>2. PhaseOK(p)
      BY <3>1 DEF PhaseOK
    <3> QED
      BY <1>3, <1>12, <3>1, <3>2 DEF DeadOK
  <2> QED
    BY <2>1 DEF DeadInv
<1>17. CoverInv
  <2>1. CoversFrom(1, 0)
    <3>1. \A g \in Generations : index[g].lsn >= 0
      BY <1>2, <1>11
    <3>2. \A p \in Pageservers : ps[p].part.lsn >= 0
      BY <1>4, <1>11
    <3> QED
      BY <1>6, <1>8, <3>1, <3>2 DEF CoversFrom
  <2>2. Covered(visible)
    BY <1>2, <1>6, <2>1 DEF Covered
  <2>3. UpdateOK(NoUpdate)
    BY DEF UpdateOK, NoUpdate
  <2>4. ASSUME NEW p \in Pageservers PROVE CoverOK(p)
    <3>1. /\ ps[p].lsnTable = NoUpdate /\ ps[p].validator.update = NoUpdate
          /\ ps[p].validator.at = "idle"
      BY <1>3 DEF IdleValidator
    <3> QED
      BY <2>3, <3>1 DEF CoverOK
  <2> QED
    BY <2>2, <2>4 DEF CoverInv
<1>18. StoreInv
  <2>1. \A g \in Generations : index[g].layers \subseteq objects
    BY <1>2, <1>11
  <2>2. \A p \in Pageservers : ps[p].part.layers \subseteq objects
    BY <1>2, <1>4, <1>11
  <2> QED
    BY <2>1, <2>2 DEF StoreInv, StoredFrom
<1> QED
  BY <1>1, <1>9, <1>14, <1>15, <1>16, <1>17, <1>18 DEF IInv

-----------------------------------------------------------------------------
(***************************************************************************)
(* The invariant: every step preserves it.                                 *)
(***************************************************************************)
LEMMA ViewInv ==
  ASSUME IInv, TypeInv', ViewStep, IssueInv', \A p \in Pageservers : Derived(p),
         DeadInv', CoverInv', objects \subseteq objects'
  PROVE  IInv'
<1>1. TypeInv /\ KeyInv /\ ListInv /\ StoreInv
  BY DEF IInv
<1>2. ListInv' /\ KeyInv'
  BY <1>1, DerivedInv
<1>3. StoreInv'
  BY <1>1, ViewStore
<1> QED
  BY <1>2, <1>3 DEF IInv

LEMMA ServiceInv ==
  ASSUME IInv, TypeInv', ViewStep, IssueInv', ServiceOnly
  PROVE  IInv'
<1>1. TypeInv /\ IssueInv /\ DeadInv /\ CoverInv
  BY DEF IInv
<1>2. DeadInv'
  BY <1>1, ViewDeadStays, ServiceDead
<1>4. CoverInv'
  BY <1>1, ViewCoverStays, ServiceCover
<1>5. \A p \in Pageservers : Derived(p)
  BY ServiceDerived
<1>6. objects \subseteq objects'
  BY DEF ServiceOnly, storageVars
<1> QED
  BY <1>2, <1>4, <1>5, <1>6, ViewInv

LEMMA StartAttachInv ==
  ASSUME IInv, TypeInv', StartAttach
  PROVE  IInv'
<1>1. TypeInv /\ IssueInv
  BY DEF IInv
<1>2. ServiceOnly
  BY DEF StartAttach, ServiceOnly
<1>3. CASE \E n \in Pageservers : AttachHook(n)
  BY <1>1, <1>2, <1>3, AttachHookView, ServiceInv
<1>4. CASE \E n \in Pageservers : Reconcile(n)
  BY <1>1, <1>2, <1>4, ReconcileView, ServiceInv
<1> QED
  BY <1>3, <1>4 DEF StartAttach

LEMMA FinishAttachInv ==
  ASSUME IInv, TypeInv', FinishAttach
  PROVE  IInv'
<1>1. TypeInv /\ IssueInv
  BY DEF IInv
<1>2. ServiceOnly
  BY DEF FinishAttach, ServiceOnly
<1>3. CASE AttachHookReply
  BY <1>1, <1>2, <1>3, AttachHookReplyView, ServiceInv
<1>4. CASE process_result \/ RestartService
  BY <1>1, <1>2, <1>4, CallForgotten, ServiceInv
<1> QED
  BY <1>3, <1>4 DEF FinishAttach

LEMMA RequestFailsInv ==
  ASSUME IInv, TypeInv', NEW p \in Pageservers, RequestFails(p)
  PROVE  IInv'
<1>1. TypeInv /\ IssueInv
  BY DEF IInv
<1> QED
  BY <1>1, RequestFailsView, ServiceInv

\* Steps that concern what p holds of the tenant, not its deletion queue.
LEMMA HolderInv ==
  ASSUME IInv, TypeInv', ViewStep, IssueInv', NEW p \in Pageservers,
         Frame(p), SameDisk(p), SameQueue(p), Up(p)' => Up(p), UNCHANGED <<objects, visible>>
  PROVE  IInv'
<1>1. TypeInv /\ IssueInv /\ DeadInv /\ CoverInv
  BY DEF IInv
<1>2. DeadInv'
  BY <1>1, ViewDeadStays, HolderDead
<1>4. ps'[p].lsnTable = ps[p].lsnTable /\ ps'[p].validator = ps[p].validator
  BY DEF SameQueue
<1>5. CoverInv'
  BY <1>1, <1>4, ViewCoverStays, QueueCover
<1>6. \A q \in Pageservers : Derived(q)
  BY HolderDerived
<1> QED
  BY <1>2, <1>5, <1>6, ViewInv

LEMMA UpsertInv ==
  ASSUME IInv, TypeInv', NEW p \in Pageservers, upsert_location(p)
  PROVE  IInv'
<1>1. TypeInv /\ IssueInv
  BY DEF IInv
<1>2. ViewStep /\ IssueInv'
  BY <1>1, UpsertView
<1>3. Frame(p) /\ SameDisk(p) /\ SameQueue(p) /\ Up(p) /\ UNCHANGED <<objects, visible>>
  BY <1>1, UpsertFields
<1> QED
  BY <1>2, <1>3, HolderInv

LEMMA DetachInv ==
  ASSUME IInv, TypeInv', NEW p \in Pageservers, DetachTenant(p)
  PROVE  IInv'
<1>1. TypeInv /\ IssueInv /\ Types
  BY DEF IInv, TypeInv
<1>2. ViewStep /\ IssueInv'
  BY <1>1, DetachView
<1>3. Frame(p) /\ SameDisk(p) /\ SameQueue(p) /\ Up(p) /\ UNCHANGED storageVars
  BY <1>1, DetachFields
<1>4. UNCHANGED <<objects, visible>>
  BY <1>3 DEF storageVars
<1> QED
  BY <1>2, <1>3, <1>4, HolderInv

LEMMA ReAttachInv ==
  ASSUME IInv, TypeInv', NEW p \in Pageservers, ReAttach(p)
  PROVE  IInv'
<1>1. TypeInv /\ IssueInv
  BY DEF IInv
<1>2. ViewStep /\ IssueInv'
  BY <1>1, ReAttachView
<1>3. /\ Frame(p) /\ SameDisk(p) /\ SameQueue(p) /\ UNCHANGED storageVars
      /\ ps'[p].state = "starting"
  BY <1>1, ReAttachFields
<1>4. UNCHANGED <<objects, visible>> /\ ~Up(p)'
  BY <1>3 DEF storageVars, Up
<1> QED
  BY <1>2, <1>3, <1>4, HolderInv

LEMMA ReAttachReplyInv ==
  ASSUME IInv, TypeInv', NEW p \in Pageservers, ReAttachReply(p)
  PROVE  IInv'
<1>1. TypeInv /\ IssueInv /\ KeyInv /\ ListInv /\ DeadInv /\ CoverInv /\ StoreInv
  BY DEF IInv
<1>2. ViewStep /\ IssueInv'
  BY <1>1, ReAttachReplyView
<1>3. /\ Frame(p) /\ UNCHANGED storageVars
      /\ ps'[p].lsnTable = NoUpdate /\ ps'[p].validator = IdleValidator(FALSE)
  BY <1>1, ReAttachReplyFields
<1>4. ListInv' /\ KeyInv'
  BY <1>1, <1>2, ReplyLists
<1>5. DeadInv'
  BY <1>1, <1>2, ViewDeadStays, ReplyDead
<1>7. /\ ps'[p].validator.update = NoUpdate /\ ps'[p].validator.at = "idle"
      /\ visible' = visible /\ objects \subseteq objects'
  BY <1>3 DEF IdleValidator, storageVars
<1>8. CoverInv'
  BY <1>1, <1>2, <1>3, <1>7, ViewCoverStays, QueueCover
<1>9. StoreInv'
  BY <1>1, <1>2, <1>7, ViewStore
<1> QED
  BY <1>2, <1>4, <1>5, <1>8, <1>9 DEF IInv

LEMMA CrashInv ==
  ASSUME IInv, TypeInv', NEW p \in Pageservers, Crash(p)
  PROVE  IInv'
<1>1. TypeInv /\ IssueInv /\ DeadInv /\ CoverInv /\ Types
  BY DEF IInv, TypeInv
<1>2. ViewStep /\ IssueInv'
  BY <1>1, CrashView
<1>3. Frame(p) /\ UNCHANGED storageVars /\ ps'[p] = Down
  BY <1>1, CrashFields
<1>4. DeadInv'
  BY <1>1, <1>2, ViewDeadStays, CrashDead
<1>6. /\ ps'[p].lsnTable = NoUpdate /\ ps'[p].validator.update = NoUpdate
      /\ ps'[p].validator.at = "idle"
      /\ visible' = visible /\ objects \subseteq objects'
  BY <1>3 DEF Down, IdleValidator, storageVars
<1>7. CoverInv'
  BY <1>1, <1>2, <1>3, <1>6, ViewCoverStays, QueueCover
<1>8. \A q \in Pageservers : Derived(q)
  BY <1>1, CrashDerived
<1> QED
  BY <1>2, <1>4, <1>6, <1>7, <1>8, ViewInv

LEMMA UploadInv ==
  ASSUME IInv, TypeInv', NEW p \in Pageservers, UploadIndex(p)
  PROVE  IInv'
<1>1. TypeInv /\ IssueInv /\ KeyInv /\ ListInv /\ DeadInv /\ CoverInv /\ StoreInv
  BY DEF IInv
<1>2. PICK kept \in SUBSET Object :
           /\ Uploads(p, kept)
           /\ \/ Kept(p)
              \/ kept = {} /\ (PushedDirectly(p, ps[p].part.layers)
                               \/ PushedAfterFlush(p, ps[p].part.layers))
  BY <1>1, UploadIs
<1>3. IssueInv'
  BY <1>1, <1>2, UploadView
<1>4. ListInv' /\ KeyInv'
  BY <1>1, <1>2, <1>3, UploadLists
<1>5. DeadInv'
  BY <1>1, <1>2, UploadDeadStays, UploadQueueDead
<1>6. CoverInv'
  BY <1>1, <1>2, <1>3, UploadCover
<1>7. objects' = objects \cup {NewLayer(p)}
  BY <1>1, UploadFields
<1>8. StoreInv'
  BY <1>1, <1>2, <1>7, UploadStore
<1> QED
  BY <1>3, <1>4, <1>5, <1>6, <1>8 DEF IInv

\* Steps of the deletion queue that leave object storage alone.
LEMMA QueueInv ==
  ASSUME IInv, TypeInv', NEW p \in Pageservers, Frame(p), SameHolder(p),
         UNCHANGED <<serviceVars, index, objects>>,
         TypeInv /\ ViewStep => \A q \in Pageservers : Derived(q),
         TypeInv /\ DeadStays => DeadInv', TypeInv /\ CoverStays => CoverInv'
  PROVE  IInv'
<1>1. TypeInv /\ IssueInv
  BY DEF IInv
<1>2. UNCHANGED <<serviceVars, index>>
  OBVIOUS
<1>3. ViewStep /\ IssueInv'
  BY <1>1, <1>2, QueueView
<1>4. \A q \in Pageservers : Derived(q)
  BY <1>1, <1>3
<1>5. DeadInv' /\ CoverInv'
  BY <1>1, <1>3, ViewDeadStays, ViewCoverStays
<1> QED
  BY <1>3, <1>4, <1>5, ViewInv

LEMMA FlushListInv ==
  ASSUME IInv, TypeInv', NEW p \in Pageservers, FlushList(p)
  PROVE  IInv'
<1>1. TypeInv /\ Types /\ DeadInv /\ CoverInv
  BY DEF IInv, TypeInv
<1>2. /\ Frame(p) /\ SameHolder(p) /\ UNCHANGED <<serviceVars, storageVars>>
      /\ ps'[p].lsnTable = ps[p].lsnTable /\ ps'[p].validator = ps[p].validator
  BY <1>1, FlushListFields
<1>3. UNCHANGED <<serviceVars, index, objects>> /\ visible' = visible
  BY <1>2 DEF storageVars
<1>4. \A q \in Pageservers : Derived(q)
  BY <1>1, FlushListDerived
<1>5. DeadStays => DeadInv'
  BY <1>1, FlushListDead
<1>6. CoverStays => CoverInv'
  BY <1>1, <1>2, <1>3, QueueCover
<1> QED
  BY <1>2, <1>3, <1>4, <1>5, <1>6, QueueInv

LEMMA ValidatorFlushInv ==
  ASSUME IInv, TypeInv', NEW p \in Pageservers, ValidatorFlush(p)
  PROVE  IInv'
<1>1. TypeInv /\ ListInv /\ DeadInv /\ CoverInv
  BY DEF IInv
<1>2. /\ Frame(p) /\ SameHolder(p) /\ UNCHANGED <<serviceVars, storageVars>>
      /\ ps'[p].lsnTable = NoUpdate /\ ps'[p].validator.update = ps[p].lsnTable
  BY <1>1, ValidatorFlushFields
<1>3. ps'[p].validator.at # "answered"
  <2>1. ps'[p].validator.at = IF TenantGeneration({l \in ps[p].channel : ~l.validated}, ps[p].lsnTable) # 0
                              THEN "asked" ELSE "execute"
    BY <1>1, ValidatorFlushFields
  <2> QED
    BY <2>1
<1>4. UNCHANGED <<serviceVars, index, objects>> /\ visible' = visible
  BY <1>2 DEF storageVars
<1>5. \A q \in Pageservers : Derived(q)
  BY <1>1, ValidatorFlushDerived
<1>6. DeadStays => DeadInv'
  BY <1>1, ValidatorFlushDead
<1>7. CoverStays => CoverInv'
  BY <1>1, <1>2, <1>3, <1>4, QueueCover
<1> QED
  BY <1>2, <1>4, <1>5, <1>6, <1>7, QueueInv

LEMMA ValidateAnswerInv ==
  ASSUME IInv, TypeInv', ValidateIsTruthful, NEW p \in Pageservers, ValidateAnswer(p)
  PROVE  IInv'
<1>1. TypeInv /\ Types /\ ListInv /\ DeadInv /\ CoverInv
  BY DEF IInv, TypeInv
<1>2. ValidatorOnly(p) /\ UNCHANGED <<serviceVars, storageVars>>
  BY <1>1, ValidateAnswerFields
<1>3. Frame(p) /\ SameHolder(p) /\ UNCHANGED <<serviceVars, index, objects>>
  BY <1>2 DEF storageVars, ValidatorOnly
<1>4. \A q \in Pageservers : Derived(q)
  BY <1>1, ValidateAnswerDerived
<1>5. DeadStays => DeadInv'
  BY <1>1, ValidateAnswerDead
<1>6. CoverStays => CoverInv'
  BY <1>1, ValidateAnswerCover
<1> QED
  BY <1>3, <1>4, <1>5, <1>6, QueueInv

LEMMA ApplyLsnInv ==
  ASSUME IInv, TypeInv', NEW p \in Pageservers, ApplyLsn(p)
  PROVE  IInv'
<1>1. TypeInv /\ Types /\ DeadInv /\ CoverInv
  BY DEF IInv, TypeInv
<1>2. ValidatorOnly(p) /\ UNCHANGED <<serviceVars, index, objects>>
  BY <1>1, ApplyLsnFields
<1>3. Frame(p) /\ SameHolder(p)
  BY <1>2 DEF ValidatorOnly
<1>4. \A q \in Pageservers : Derived(q)
  BY <1>1, ApplyLsnDerived
<1>5. DeadStays => DeadInv'
  BY <1>1, ApplyLsnDead
<1>6. CoverStays => CoverInv'
  BY <1>1, ApplyLsnCover
<1> QED
  BY <1>2, <1>3, <1>4, <1>5, <1>6, QueueInv

LEMMA SaveListInv ==
  ASSUME IInv, TypeInv', NEW p \in Pageservers, SaveList(p)
  PROVE  IInv'
<1>1. TypeInv /\ Types /\ DeadInv /\ CoverInv /\ ps[p].validator \in ValidatorType
  BY SlotTypes DEF IInv, TypeInv
<1>2. /\ ValidatorOnly(p) /\ UNCHANGED <<serviceVars, storageVars>>
      /\ ps[p].validator.at = "saving"
  BY <1>1, SaveListFields
<1>2a. PICK l \in ps[p].validator.pending, w \in BOOLEAN :
          LET v == ps[p].validator
              k == KeptList(l, v)
          IN  /\ k \in List
              /\ ps'[p].validator =
                    [v EXCEPT !.pending = (@ \ {l}) \cup {k}, !.writeFailed = w]
              /\ \/ ListValid(l, v) /\ disk'[p].lists = disk[p].lists /\ w = v.writeFailed
                 \/ /\ ~ListValid(l, v) /\ w = v.writeFailed
                    /\ disk'[p].lists = {d \in disk[p].lists : d.sequence # l.sequence}
                                           \cup {k}
                 \/ ~ListValid(l, v) /\ disk'[p].lists = disk[p].lists /\ w = TRUE
  BY <1>1, SaveListFields
<1>3. ps'[p].validator.at = "saving" /\ ps'[p].validator.update = ps[p].validator.update
  BY <1>1, <1>2, <1>2a DEF ValidatorType
<1>4. /\ Frame(p) /\ SameHolder(p) /\ UNCHANGED <<serviceVars, index, objects>>
      /\ visible' = visible /\ ps'[p].lsnTable = ps[p].lsnTable
  BY <1>2 DEF storageVars, ValidatorOnly
<1>5. \A q \in Pageservers : Derived(q)
  BY <1>1, SaveListDerived
<1>6. DeadStays => DeadInv'
  BY <1>1, SaveListDead
<1>7. CoverStays => CoverInv'
  BY <1>1, <1>3, <1>4, QueueCover
<1> QED
  BY <1>4, <1>5, <1>6, <1>7, QueueInv

LEMMA SaveHeaderInv ==
  ASSUME IInv, TypeInv', NEW p \in Pageservers, SaveHeader(p)
  PROVE  IInv'
<1>1. TypeInv /\ DeadInv /\ CoverInv /\ ps[p].validator \in ValidatorType
  BY SlotTypes DEF IInv, TypeInv
<1>2. /\ ValidatorOnly(p) /\ UNCHANGED <<serviceVars, storageVars>>
      /\ ps'[p].validator = Validated(ps[p].validator)
  BY <1>1, SaveHeaderFields
<1>3. ps'[p].validator.at # "answered" /\ ps'[p].validator.update = NoUpdate
  BY <1>1, <1>2, ValidatedIs
<1>4. /\ Frame(p) /\ SameHolder(p) /\ UNCHANGED <<serviceVars, index, objects>>
      /\ visible' = visible /\ ps'[p].lsnTable = ps[p].lsnTable
  BY <1>2 DEF storageVars, ValidatorOnly
<1>5. \A q \in Pageservers : Derived(q)
  BY <1>1, SaveHeaderDerived
<1>6. DeadStays => DeadInv'
  BY <1>1, SaveHeaderDead
<1>7. CoverStays => CoverInv'
  BY <1>1, <1>3, <1>4, QueueCover
<1> QED
  BY <1>4, <1>5, <1>6, <1>7, QueueInv

LEMMA CleanupInv ==
  ASSUME IInv, TypeInv', NEW p \in Pageservers, cleanup_lists(p)
  PROVE  IInv'
<1>1. TypeInv /\ Types /\ DeadInv /\ CoverInv /\ ps[p].validator \in ValidatorType
  BY SlotTypes DEF IInv, TypeInv
<1>2. /\ ValidatorOnly(p) /\ UNCHANGED <<serviceVars, storageVars>>
      /\ ps[p].validator.at = "cleanup"
      /\ \/ ps'[p].validator = IdleValidator(ps[p].validator.writeFailed)
         \/ \E l \in ps[p].validator.validated :
               ps'[p].validator = [ps[p].validator EXCEPT !.validated = @ \ {l}]
  BY <1>1, CleanupFields
<1>3. /\ ps'[p].validator.at # "answered"
      /\ \/ ps'[p].validator.update = NoUpdate
         \/ ps'[p].validator.update = ps[p].validator.update
  <2>1. CASE ps'[p].validator = IdleValidator(ps[p].validator.writeFailed)
    BY <2>1 DEF IdleValidator
  <2>2. ASSUME NEW l, ps'[p].validator = [ps[p].validator EXCEPT !.validated = @ \ {l}]
        PROVE  ps'[p].validator.at = "cleanup" /\ ps'[p].validator.update = ps[p].validator.update
    BY <1>1, <1>2, <2>2 DEF ValidatorType
  <2> QED
    BY <1>2, <2>1, <2>2
<1>4. /\ Frame(p) /\ SameHolder(p) /\ UNCHANGED <<serviceVars, index, objects>>
      /\ visible' = visible /\ ps'[p].lsnTable = ps[p].lsnTable
  BY <1>2 DEF storageVars, ValidatorOnly
<1>5. \A q \in Pageservers : Derived(q)
  BY <1>1, CleanupDerived
<1>6. DeadStays => DeadInv'
  BY <1>1, CleanupDead
<1>7. CoverStays => CoverInv'
  BY <1>1, <1>3, <1>4, QueueCover
<1> QED
  BY <1>4, <1>5, <1>6, <1>7, QueueInv

LEMMA ExecuteInv ==
  ASSUME IInv, TypeInv', NEW p \in Pageservers, Execute(p)
  PROVE  IInv'
<1>1. /\ TypeInv /\ Types /\ IssueInv /\ KeyInv /\ ListInv /\ DeadInv /\ CoverInv
      /\ StoreInv /\ ps[p].validator \in ValidatorType
  BY SlotTypes DEF IInv, TypeInv
<1>2. /\ ValidatorOnly(p) /\ UNCHANGED <<serviceVars, index, visible>>
      /\ ps'[p].validator = [ps[p].validator EXCEPT !.at = "cleanup"]
  BY <1>1, ExecuteFields
<1>3. /\ Frame(p) /\ SameHolder(p) /\ UNCHANGED <<serviceVars, index>>
      /\ visible' = visible /\ ps'[p].lsnTable = ps[p].lsnTable
  BY <1>2 DEF ValidatorOnly
<1>4. ps'[p].validator.at = "cleanup" /\ ps'[p].validator.update = ps[p].validator.update
  BY <1>1, <1>2 DEF ValidatorType
<1>5. ViewStep /\ IssueInv'
  BY <1>1, <1>3, QueueView
<1>6. \A q \in Pageservers : Derived(q)
  BY <1>1, ExecuteDerived
<1>7. ListInv' /\ KeyInv'
  BY <1>1, <1>5, <1>6, DerivedInv
<1>8. DeadInv'
  BY <1>1, <1>5, ViewDeadStays, ExecuteDead
<1>9. CoverInv'
  BY <1>1, <1>3, <1>4, <1>5, ViewCoverStays, QueueCover
<1>10. StoreInv'
  BY <1>1, ExecuteStore
<1> QED
  BY <1>5, <1>7, <1>8, <1>9, <1>10 DEF IInv

LEMMA StutterInv ==
  ASSUME IInv, UNCHANGED vars
  PROVE  IInv'
<1>1. UNCHANGED <<row, generation, op, requests, index, objects, visible, ps, disk>>
  BY DEF vars, serviceVars, storageVars
<1>2. TypeInv /\ IssueInv
  BY DEF IInv
<1>3. ServiceOnly
  BY DEF vars, ServiceOnly
<1>4. TypeInv'
  BY <1>2, TypeStep
<1>5. IssueInv'
  BY <1>1, <1>2 DEF IssueInv, Unused, Pending, Starting
<1>7. \A g \in Generations : Unused(g)' => Unused(g)
  BY <1>1 DEF Unused, Pending, Starting
<1>8. row'.generation >= row.generation
  BY <1>1, <1>2, GenerationPositive
<1>9. ViewStep
  BY <1>2, <1>3, <1>7, <1>8, ServiceView
<1> QED
  BY <1>3, <1>4, <1>5, <1>9, ServiceInv

LEMMA SafetyStep == IInv /\ [Next /\ ValidateIsTruthful]_vars => IInv'
<1> SUFFICES ASSUME IInv, [Next /\ ValidateIsTruthful]_vars PROVE IInv'
  OBVIOUS
<1>0. [Next]_vars
  OBVIOUS
<1>1. TypeInv'
  BY <1>0, TypeStep DEF IInv
<1>2. CASE UNCHANGED vars
  BY <1>2, StutterInv
<1>3. ASSUME NEW p \in Pageservers, LocalStep(p) \/ Crash(p) PROVE IInv'
  BY <1>1, <1>3, SaveListInv, SaveHeaderInv, CleanupInv, CrashInv DEF LocalStep
<1>4. CASE StartAttach
  BY <1>1, <1>4, StartAttachInv
<1>5. CASE FinishAttach
  BY <1>1, <1>5, FinishAttachInv
<1>6. ASSUME NEW p \in Pageservers, upsert_location(p) \/ RequestFails(p) \/ DetachTenant(p)
      PROVE  IInv'
  BY <1>1, <1>6, UpsertInv, RequestFailsInv, DetachInv
<1>7. ASSUME NEW p \in Pageservers, UploadIndex(p) \/ FlushList(p) PROVE IInv'
  BY <1>1, <1>7, UploadInv, FlushListInv
<1>8. ASSUME NEW p \in Pageservers, RemoteStep(p), ValidateIsTruthful PROVE IInv'
  BY <1>1, <1>8, ValidatorFlushInv, ValidateAnswerInv, ApplyLsnInv, ExecuteInv DEF RemoteStep
<1>9. ASSUME NEW p \in Pageservers, Restart(p) PROVE IInv'
  BY <1>1, <1>9, ReAttachInv, ReAttachReplyInv DEF Restart
<1> QED
  BY <1>2, <1>3, <1>4, <1>5, <1>6, <1>7, <1>8, <1>9 DEF Next

LEMMA SafetyAlways == TruthfulSpec => []IInv
<1>1. Init => IInv
  BY SafetyInit
<1>2. IInv /\ [Next /\ ValidateIsTruthful]_vars => IInv'
  BY SafetyStep
<1> QED
  BY <1>1, <1>2, PTL DEF TruthfulSpec

-----------------------------------------------------------------------------
(***************************************************************************)
(* The index the tenant is served from.                                    *)
(***************************************************************************)
Serves(p) == Holds(p) /\ ps[p].generation = row.generation

LEMMA CurrentIs ==
  IInv => /\ \A p \in Pageservers : Serves(p) => Current = ps[p].part
          /\ (\A p \in Pageservers : ~Serves(p)) => Current = download_index_part(row.generation)
<1> SUFFICES ASSUME IInv
             PROVE  /\ \A p \in Pageservers : Serves(p) => Current = ps[p].part
                    /\ (\A p \in Pageservers : ~Serves(p)) =>
                          Current = download_index_part(row.generation)
  OBVIOUS
<1>1. ASSUME NEW p \in Pageservers, Serves(p) PROVE Current = ps[p].part
  <2> DEFINE c == CHOOSE q \in Pageservers : Holds(q) /\ ps[q].generation = row.generation
  <2>1. c \in Pageservers /\ Holds(c) /\ ps[c].generation = row.generation
    BY <1>1 DEF Serves
  <2>2. Current = ps[c].part
    BY <1>1 DEF Serves, Current
  <2> HIDE DEF c
  <2>3. c = p
    BY <1>1, <2>1 DEF Serves, Holds, IInv, IssueInv
  <2> QED
    BY <2>2, <2>3
<1>2. ASSUME \A p \in Pageservers : ~Serves(p)
      PROVE  Current = download_index_part(row.generation)
  BY <1>2 DEF Serves, Current
<1> QED
  BY <1>1, <1>2

\* It is the newest index, or what a holder of a generation not below it has.
LEMMA CurrentIsNewest ==
  ASSUME IInv
  PROVE  \E k \in Generations :
            /\ index[k] # NoIndex /\ \A g \in Generations : index[g] # NoIndex => g <= k
            /\ \/ Current = index[k]
               \/ \E p \in Pageservers : Up(p) /\ ps[p].generation >= k /\ Current = ps[p].part
<1>1. TypeInv /\ IssueInv
  BY DEF IInv
<1>2. PICK k \in Generations :
          index[k] # NoIndex /\ \A g \in Generations : index[g] # NoIndex => g <= k
  BY <1>1, Newest
<1>3. row.generation \in Nat /\ row.generation \in Generations
  BY <1>1, GenerationPositive DEF TypeInv, Types, ServiceType
<1>4. \A g \in Generations : g \in Nat
  BY ConstTypes
<1>5. k <= row.generation
  BY <1>1, <1>2, <1>3, <1>4 DEF IssueInv, Unused
<1>6. CASE \E p \in Pageservers : Serves(p)
  <2>1. PICK p \in Pageservers : Serves(p)
    BY <1>6
  <2>2. Current = ps[p].part
    BY <2>1, CurrentIs
  <2>3. Up(p) /\ ps[p].generation >= k
    BY <1>3, <1>4, <1>5, <2>1 DEF Serves, Holds
  <2> QED
    BY <1>2, <2>2, <2>3
<1>7. CASE \A p \in Pageservers : ~Serves(p)
  <2>1. Current = download_index_part(row.generation)
    BY <1>7, CurrentIs
  <2>2. PICK m \in Generations :
            /\ m <= row.generation /\ index[m] # NoIndex
            /\ download_index_part(row.generation) = index[m]
            /\ \A h \in Generations : h <= row.generation /\ index[h] # NoIndex => h <= m
    BY <1>1, <1>3, DownloadFacts
  <2>3. m = k
    BY <1>2, <1>4, <1>5, <2>2
  <2> QED
    BY <1>2, <2>1, <2>2, <2>3
<1> QED
  BY <1>6, <1>7

TenantIndex == [layers : SUBSET Object, lsn : Nat]

LEMMA CurrentIndex ==
  IInv => Current \in TenantIndex /\ Current.layers \subseteq objects /\ Current.lsn >= visible
<1> SUFFICES ASSUME IInv
             PROVE  /\ Current \in TenantIndex /\ Current.layers \subseteq objects
                    /\ Current.lsn >= visible
  OBVIOUS
<1>1. TypeInv /\ StoreInv /\ Covered(visible)
  BY DEF IInv, CoverInv
<1>2. PICK k \in Generations :
            /\ index[k] # NoIndex /\ \A g \in Generations : index[g] # NoIndex => g <= k
            /\ \/ Current = index[k]
               \/ \E p \in Pageservers : Up(p) /\ ps[p].generation >= k /\ Current = ps[p].part
  BY CurrentIsNewest
<1>3. \A g \in Generations : g \in Nat
  BY ConstTypes
<1>4. StoredFrom(k)
  <2>1. \A g \in Generations : g > k => index[g] = NoIndex
    BY <1>2, <1>3
  <2> QED
    BY <1>1, <1>2, <2>1 DEF StoreInv
<1>5. PICK j \in Generations : CoversFrom(j, visible)
  BY <1>1 DEF Covered
<1>6. j <= k
  BY <1>2, <1>5 DEF CoversFrom
<1>7. \A g \in Generations : index[g] \in IndexPart
  BY <1>1, ViewTypes
<1>8. \A p \in Pageservers : ps[p].part \in IndexPart /\ ps[p].generation \in Nat
  BY <1>1, ViewTypes
<1>9. IndexPart \subseteq TenantIndex
  BY ConstTypes DEF IndexPart, TenantIndex
<1>10. CASE Current = index[k]
  <2>1. k >= j
    BY <1>3, <1>6
  <2> QED
    BY <1>2, <1>4, <1>5, <1>7, <1>9, <1>10, <2>1 DEF StoredFrom, CoversFrom
<1>11. ASSUME NEW p \in Pageservers, Up(p), ps[p].generation >= k, Current = ps[p].part
       PROVE  /\ Current \in TenantIndex /\ Current.layers \subseteq objects
              /\ Current.lsn >= visible
  <2>1. ps[p].generation >= j
    BY <1>3, <1>6, <1>8, <1>11
  <2> QED
    BY <1>4, <1>5, <1>8, <1>9, <1>11, <2>1 DEF StoredFrom, CoversFrom
<1> QED
  BY <1>2, <1>10, <1>11

LEMMA CurrentNamesNoDead ==
  ASSUME IInv, NEW O, Dead(O)
  PROVE  Current.layers \cap O = {}
<1>1. TypeInv
  BY DEF IInv
<1>2. PICK k \in Generations :
            /\ index[k] # NoIndex /\ \A g \in Generations : index[g] # NoIndex => g <= k
            /\ \/ Current = index[k]
               \/ \E p \in Pageservers : Up(p) /\ ps[p].generation >= k /\ Current = ps[p].part
  BY CurrentIsNewest
<1>3. PICK j \in Generations : DeadFrom(j, O)
  BY DEF Dead
<1>4. j <= k
  BY <1>2, <1>3 DEF DeadFrom
<1>5. k \in Nat /\ j \in Nat /\ k >= j
  BY <1>4, ConstTypes
<1>6. CASE Current = index[k]
  BY <1>3, <1>5, <1>6 DEF DeadFrom
<1>7. ASSUME NEW p \in Pageservers, Up(p), ps[p].generation >= k, Current = ps[p].part
      PROVE  Current.layers \cap O = {}
  <2>1. ps[p].generation \in Nat
    BY <1>1, ViewTypes
  <2>2. ps[p].generation >= j
    BY <1>5, <1>7, <2>1
  <2> QED
    BY <1>3, <1>7, <2>2 DEF DeadFrom
<1> QED
  BY <1>2, <1>6, <1>7

-----------------------------------------------------------------------------
\* Deletion queues are safe to the extent that the service tells the truth:
\* if it says yes to a generation only while nobody has loaded a later one,
\* then, whatever pageservers hold the tenant, stale or not, however late a
\* yes is acted upon, and whenever they, their deletion queues and the service
\* crash and restart, every layer that the tenant's index names is in object
\* storage.
THEOREM NoLayerIsLost == TruthfulSpec => []DeletionsAreSafe
<1>1. IInv => DeletionsAreSafe
  BY CurrentIndex DEF DeletionsAreSafe
<1>2. TruthfulSpec => []IInv
  BY SafetyAlways
<1> QED
  BY <1>1, <1>2, PTL

\* On the same condition a list on disk that recovery will execute without
\* asking the control plane, by its own mark or by the header's sequence,
\* names no layer of the tenant's index.
THEOREM RecoveryExecutesSafely == TruthfulSpec => []PrevalidatedListsAreSafe
<1>1. IInv => PrevalidatedListsAreSafe
  <2> SUFFICES ASSUME IInv, NEW p \in Pageservers, NEW l \in disk[p].lists,
                      l.validated \/ l.sequence <= disk[p].header
               PROVE  Current.layers \cap l.objects = {}
    BY DEF PrevalidatedListsAreSafe
  <2>1. Dead(l.objects)
    BY DEF IInv, DeadInv, DeadOK
  <2> QED
    BY <2>1, CurrentNamesNoDead
<1>2. TruthfulSpec => []IInv
  BY SafetyAlways
<1> QED
  BY <1>1, <1>2, PTL

-----------------------------------------------------------------------------
(***************************************************************************)
(* DurableTenant is implemented.                                           *)
(***************************************************************************)
Served ==
    /\ \A p \in Pageservers : Serves(p) => Current = ps[p].part
    /\ (\A p \in Pageservers : ~Serves(p)) => Current = download_index_part(row.generation)

LEMMA ServedNext == IInv' => Served'
<1>1. IInv => Served
  BY CurrentIs DEF Served
<1> QED
  BY <1>1, PTL

LEMMA CurrentIsNext ==
  IInv' => /\ \A p \in Pageservers : Serves(p)' => Current' = ps'[p].part
           /\ (\A p \in Pageservers : ~Serves(p)') =>
                 Current' = download_index_part(row.generation)'
  BY ServedNext DEF Served

Whole ==
    Current \in TenantIndex /\ Current.layers \subseteq objects /\ Current.lsn >= visible

LEMMA WholeNext == IInv' => Whole'
<1>1. IInv => Whole
  BY CurrentIndex DEF Whole
<1> QED
  BY <1>1, PTL

LEMMA CurrentIndexNext ==
  IInv' => /\ Current' \in TenantIndex /\ Current'.layers \subseteq objects'
           /\ Current'.lsn >= visible'
  BY WholeNext DEF Whole, TenantIndex

\* The validator's steps leave the tenant's index alone.
LEMMA SameCurrent ==
  ASSUME IInv, IInv', NEW p \in Pageservers, ValidatorOnly(p), UNCHANGED <<serviceVars, index>>
  PROVE  Current' = Current
<1>1. row' = row /\ index' = index
  BY DEF serviceVars
<1>2. \A q \in Pageservers : /\ ps'[q].state = ps[q].state /\ ps'[q].part = ps[q].part
                             /\ ps'[q].generation = ps[q].generation
  BY DEF ValidatorOnly, Frame, SameHolder
<1>3. \A q \in Pageservers : Serves(q)' <=> Serves(q)
  BY <1>1, <1>2 DEF Serves, Holds, Up
<1>4. CASE \E q \in Pageservers : Serves(q)
  <2>1. PICK q \in Pageservers : Serves(q)
    BY <1>4
  <2>2. Current = ps[q].part
    BY <2>1, CurrentIs
  <2>3. Current' = ps'[q].part
    BY <1>3, <2>1, CurrentIsNext
  <2> QED
    BY <1>2, <2>2, <2>3
<1>5. CASE \A q \in Pageservers : ~Serves(q)
  <2>1. Current = download_index_part(row.generation)
    BY <1>5, CurrentIs
  <2>2. Current' = download_index_part(row.generation)'
    BY <1>3, <1>5, CurrentIsNext
  <2>3. download_index_part(row.generation)' = download_index_part(row.generation)
    BY <1>1 DEF download_index_part
  <2> QED
    BY <2>1, <2>2, <2>3
<1> QED
  BY <1>4, <1>5

\* A step that deletes nothing and shows nothing publishes, or leaves, an index.
LEMMA PublishStep ==
  ASSUME IInv', objects \subseteq objects', visible' = visible
  PROVE  Durable!Publish
  BY CurrentIndexNext DEF Durable!Publish, Durable!Index, TenantIndex

LEMMA ServiceOnlyPublishes ==
  ASSUME IInv', UNCHANGED storageVars
  PROVE  Durable!Publish
<1>1. objects \subseteq objects' /\ visible' = visible
  BY DEF storageVars
<1> QED
  BY <1>1, PublishStep

LEMMA ExecuteDeletes ==
  ASSUME IInv, IInv', NEW p \in Pageservers, Execute(p)
  PROVE  Durable!Delete
<1>1. Types
  BY DEF IInv, TypeInv
<1>2. /\ ValidatorOnly(p) /\ UNCHANGED <<serviceVars, index>> /\ visible' = visible
      /\ objects' \subseteq objects
  BY <1>1, ExecuteFields
<1>3. Current' = Current
  BY <1>2, SameCurrent
<1>4. Current'.layers \subseteq objects'
  BY CurrentIndexNext
<1> QED
  BY <1>2, <1>3, <1>4 DEF Durable!Delete

LEMMA ApplyLsnExposes ==
  ASSUME IInv, IInv', NEW p \in Pageservers, ApplyLsn(p)
  PROVE  Durable!Next
<1>1. Types
  BY DEF IInv, TypeInv
<1>2. /\ ValidatorOnly(p) /\ UNCHANGED <<serviceVars, index>> /\ objects' = objects
      /\ visible' \in 0 .. MaxUploads /\ (visible' = visible \/ visible' >= visible)
  BY <1>1, ApplyLsnFields
<1>3. visible \in 0 .. MaxUploads /\ MaxUploads \in Nat
  BY <1>1, ConstTypes DEF Types, StorageType
<1>4. CASE visible' = visible
  BY <1>2, <1>4, PublishStep DEF Durable!Next
<1>5. CASE visible' # visible
  <2>1. visible' > visible /\ visible' \in Nat
    BY <1>2, <1>3, <1>5
  <2>2. Current' = Current
    BY <1>2, SameCurrent
  <2>3. Current'.lsn >= visible' /\ Current' \in TenantIndex
    BY CurrentIndexNext
  <2>4. Current.lsn \in Nat
    BY <2>2, <2>3 DEF TenantIndex
  <2>5. visible' <= Current.lsn
    BY <2>1, <2>2, <2>3, <2>4
  <2> QED
    BY <1>2, <2>1, <2>2, <2>5 DEF Durable!Next, Durable!Expose
<1> QED
  BY <1>4, <1>5

LEMMA DurableStep ==
  IInv /\ IInv' /\ [Next /\ ValidateIsTruthful]_vars => Durable!Next
<1> SUFFICES ASSUME IInv, IInv', [Next /\ ValidateIsTruthful]_vars PROVE Durable!Next
  OBVIOUS
<1>0. Types /\ TypeInv
  BY DEF IInv, TypeInv
<1>1. CASE UNCHANGED vars
  <2>1. UNCHANGED storageVars
    BY <1>1 DEF vars
  <2> QED
    BY <2>1, ServiceOnlyPublishes DEF Durable!Next
<1>2. ASSUME NEW p \in Pageservers, LocalStep(p) \/ Crash(p) PROVE Durable!Next
  <2>1. UNCHANGED storageVars
    BY <1>2 DEF LocalStep, SaveList, SaveHeader, cleanup_lists, Crash
  <2> QED
    BY <2>1, ServiceOnlyPublishes DEF Durable!Next
<1>3. CASE StartAttach \/ FinishAttach
  <2>1. UNCHANGED storageVars
    BY <1>3 DEF StartAttach, FinishAttach
  <2> QED
    BY <2>1, ServiceOnlyPublishes DEF Durable!Next
<1>4. ASSUME NEW p \in Pageservers,
             upsert_location(p) \/ RequestFails(p) \/ DetachTenant(p) \/ FlushList(p)
      PROVE  Durable!Next
  <2>1. UNCHANGED storageVars
    BY <1>4 DEF upsert_location, RequestFails, DetachTenant, FlushList, storageVars
  <2> QED
    BY <2>1, ServiceOnlyPublishes DEF Durable!Next
<1>5. ASSUME NEW p \in Pageservers, UploadIndex(p) PROVE Durable!Next
  <2>1. objects' = objects \cup {NewLayer(p)} /\ visible' = visible
    BY <1>0, <1>5, UploadFields
  <2>2. objects \subseteq objects'
    BY <2>1
  <2> QED
    BY <2>1, <2>2, PublishStep DEF Durable!Next
<1>6. ASSUME NEW p \in Pageservers, ValidatorFlush(p) \/ ValidateAnswer(p) \/ Restart(p)
      PROVE  Durable!Next
  <2>1. UNCHANGED storageVars
    BY <1>6 DEF ValidatorFlush, ValidateAnswer, Restart, ReAttach, ReAttachReply, storageVars
  <2> QED
    BY <2>1, ServiceOnlyPublishes DEF Durable!Next
<1>7. ASSUME NEW p \in Pageservers, ApplyLsn(p) \/ Execute(p) PROVE Durable!Next
  BY <1>7, ApplyLsnExposes, ExecuteDeletes DEF Durable!Next
<1> QED
  BY <1>1, <1>2, <1>3, <1>4, <1>5, <1>6, <1>7 DEF Next, RemoteStep

LEMMA DurableInit == Init => Durable!Init
<1> SUFFICES ASSUME Init PROVE Durable!Init
  OBVIOUS
<1>1. IInv
  BY SafetyInit
<1>2. /\ row.generation = 1 /\ objects = FirstIndex.layers /\ visible = 0
      /\ \A p \in Pageservers :
           \/ p = row.node /\ ps[p].generation = 1 /\ ps[p].part = FirstIndex
           \/ p # row.node /\ ps[p].generation = 0 /\ ps[p].part = NoIndex
      /\ \A p \in Pageservers : Up(p)
  BY InitFacts
<1>3. row.node \in Pageservers
  BY <1>1 DEF IInv, TypeInv, Types, ServiceType
<1>4. Serves(row.node)
  BY <1>2, <1>3 DEF Serves, Holds
<1>5. Current = FirstIndex
  BY <1>1, <1>2, <1>3, <1>4, CurrentIs
<1>6. Current \in TenantIndex
  BY <1>1, CurrentIndex
<1>7. FirstIndex.lsn = 0
  BY DEF FirstIndex
<1> QED
  BY <1>2, <1>5, <1>6, <1>7 DEF Durable!Init, Durable!Index, TenantIndex

\* On the same condition pageservers, deletion queues and the service
\* together behave as one durable tenant: every step uploads, deletes what
\* the tenant's index does not name, or shows an LSN that this index covers,
\* and the index never falls behind that LSN.
THEOREM TenantIsDurable == TruthfulSpec => ImplementsDurableTenant
<1>1. Init => Durable!Init
  BY DurableInit
<1>2. IInv /\ IInv' /\ [Next /\ ValidateIsTruthful]_vars => [Durable!Next]_(Durable!durableVars)
  BY DurableStep
<1>3. TruthfulSpec => []IInv
  BY SafetyAlways
<1> QED
  BY <1>1, <1>2, <1>3, PTL DEF TruthfulSpec, ImplementsDurableTenant, Durable!Spec
=============================================================================
