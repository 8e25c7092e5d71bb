------------------------- MODULE RemoteTimelineProofs -------------------------
(***************************************************************************)
(* RemoteTimeline for all bounds and, but for one restriction, whoever     *)
(* acts: its types, the index in object storage names layers that exist,   *)
(* no LSN is made visible before it is durable, what was waited for and    *)
(* what was drained is uploaded, and a deleted timeline stays deleted.     *)
(***************************************************************************)
EXTENDS RemoteTimeline, SequenceTheorems, WellFoundedInduction, TLAPS

(***************************************************************************)
(* Types.                                                                  *)
(***************************************************************************)
Metas == [lsn : Lsns, cutoff : Lsns]
Ops == [type : {"layer", "index", "delete", "barrier", "shutdown"}, objs : SUBSET Objects,
        meta : Metas, waited : BOOLEAN]
Queues == [state : {"Uninitialized", "Initialized", "Stopped"}, files : SUBSET Objects,
           changes : BOOLEAN, meta : Metas, queued : Seq(Ops), shuttingDown : BOOLEAN]
Tasks == [op : Ops, phase : {"run", "done", "publish"}, joiner : {"none", "tenant", "deletion"}]
IndexParts == [files : SUBSET Objects, meta : Metas, deleted : BOOLEAN]

\* The client and object storage.
ClientType ==
    /\ uq \in Queues /\ tasks \in Seq(Tasks) /\ shutdownReady \in BOOLEAN
    /\ waiter \in {"none", "done", "aborted"}

StorageType ==
    /\ store \subseteq Objects /\ deletions \subseteq Objects
    /\ index = [g \in DOMAIN index |-> index[g]]
    /\ DOMAIN index \subseteq Gens /\ \A g \in DOMAIN index : index[g] \in IndexParts

\* The timeline: a compaction of level 0 has layers to compact.
TimelineType ==
    /\ lastLsn \in Lsns /\ diskLsn \in Lsns /\ gcCutoff \in Lsns
    /\ layerMap \subseteq Objects /\ dropping \subseteq Objects /\ collecting \subseteq Lsns
    /\ compaction \in [step : {"none", "L0", "images", "uploaded"}, layers : SUBSET Objects]
    /\ compaction.step = "L0" => compaction.layers # {}

FlowType ==
    /\ visible \in Lsns /\ advertised \in Lsns /\ pendingLsn \subseteq Lsns /\ waitLsn \in Lsns
    /\ tenant \in {"up", "draining", "joining", "down"}
    /\ deletion \in {"no", "joining", "joined", "flagging", "flagged", "listed", "gone"}
    /\ deletedAt \in {"NotRunning", "InProgress", "Successful"}
    /\ cancelled \in BOOLEAN /\ deleteAcked \in BOOLEAN
    /\ gen \in 1 .. MaxGen

TypeInv == ClientType /\ StorageType /\ TimelineType /\ FlowType

-----------------------------------------------------------------------------
(***************************************************************************)
(* Numbers and sequences.                                                  *)
(***************************************************************************)
LEMMA LeastNat ==
  ASSUME NEW T \in SUBSET Nat, T # {}
  PROVE  \E n \in T : \A k \in T : ~(k < n)
<1>1. PICK n \in T : \A k \in T : ~(<<k, n>> \in OpToRel(<, Nat))
  BY NatLessThanWellFounded, WFMin
<1>. QED  BY <1>1 DEF OpToRel

\* A bounded set of numbers has a greatest one.
LEMMA GreatestNat ==
  ASSUME NEW S \in SUBSET Nat, S # {}, NEW n \in Nat, \A x \in S : x <= n
  PROVE  \E x \in S : \A y \in S : y <= x
<1>. DEFINE T == {n - x : x \in S}
<1>1. T \in SUBSET Nat /\ T # {}
  <2>1. \A x \in S : n - x \in Nat
    OBVIOUS
  <2>. QED  BY <2>1
<1>2. PICK t \in T : \A k \in T : ~(k < t)
  <2>. HIDE DEF T
  <2>. QED  BY <1>1, LeastNat
<1>3. PICK x \in S : t = n - x
  BY <1>2
<1>4. \A y \in S : n - y \in T
  OBVIOUS
<1>5. ASSUME NEW y \in S PROVE y <= x
  <2>1. ~(n - y < n - x)
    BY <1>2, <1>3, <1>4
  <2>. QED  BY <2>1
<1>. QED  BY <1>5

\* How far the numbers from 1 on are in a set.
LEMMA Prefix ==
  ASSUME NEW n \in Nat, NEW S
  PROVE  \E b \in 0 .. n : (\A i \in 1 .. b : i \in S) /\ (b < n => b + 1 \notin S)
<1>. DEFINE T == {k \in 1 .. n : k \notin S}
<1>1. CASE T = {}
  <2>1. \A i \in 1 .. n : i \in S
    BY <1>1
  <2>. QED  BY <2>1
<1>2. CASE T # {}
  <2>1. T \in SUBSET Nat
    OBVIOUS
  <2>2. PICK k \in T : \A j \in T : ~(j < k)
    <3>. HIDE DEF T
    <3>. QED  BY <2>1, <1>2, LeastNat
  <2>3. k \in 1 .. n /\ k \notin S /\ \A i \in 1 .. k - 1 : i \in S
    <3>1. k \in 1 .. n /\ k \notin S
      BY <2>2
    <3>2. ASSUME NEW i \in 1 .. k - 1 PROVE i \in S
      BY <2>2, <3>1
    <3>. QED  BY <3>1, <3>2
  <2>4. k - 1 \in 0 .. n /\ (k - 1) + 1 = k
    BY <2>3
  <2>. QED  BY <2>3, <2>4
<1>. QED  BY <1>1, <1>2

\* Bounds as numbers.
LEMMA Bounds ==
  /\ MaxLsn \in Nat /\ MaxGen \in Nat /\ MaxGen >= 1 /\ Legacy \in BOOLEAN
  /\ 0 \in Lsns /\ Lsns \subseteq Nat /\ Gens \subseteq Nat /\ 0 \in Gens
  /\ \A n \in Lsns : n \in Nat /\ n <= MaxLsn
  /\ \A n \in Nat : n <= MaxLsn => n \in Lsns
BY BoundsAssumption DEF Lsns, Gens

LEMMA AppendOps ==
  ASSUME NEW s \in Seq(Ops), NEW e \in Ops
  PROVE  /\ Append(s, e) \in Seq(Ops) /\ Len(Append(s, e)) = Len(s) + 1
         /\ \A i \in 1 .. Len(s) : Append(s, e)[i] = s[i]
         /\ Append(s, e)[Len(s) + 1] = e
BY AppendProperties

LEMMA RestOps ==
  ASSUME NEW s \in Seq(Ops), NEW n \in 0 .. Len(s)
  PROVE  /\ SubSeq(s, n + 1, Len(s)) \in Seq(Ops)
         /\ Len(SubSeq(s, n + 1, Len(s))) = Len(s) - n
         /\ \A i \in 1 .. Len(s) - n : SubSeq(s, n + 1, Len(s))[i] = s[n + i]
<1>1. Len(s) \in Nat /\ n \in Nat
  BY LenProperties
<1>2. CASE n = Len(s)
  <2>1. SubSeq(s, n + 1, Len(s)) = << >>
    BY <1>1, <1>2, SubSeqEmpty
  <2>. QED  BY <1>1, <1>2, <2>1, EmptySeq
<1>3. CASE n < Len(s)
  <2>1. n + 1 \in 1 .. Len(s) /\ Len(s) \in n .. Len(s)
    BY <1>1, <1>3
  <2>2. /\ SubSeq(s, n + 1, Len(s)) \in Seq(Ops)
        /\ Len(SubSeq(s, n + 1, Len(s))) = Len(s) - (n + 1) + 1
        /\ \A i \in 1 .. Len(s) - (n + 1) + 1 : SubSeq(s, n + 1, Len(s))[i] = s[n + 1 + i - 1]
    BY <1>1, <2>1, SubSeqProperties
  <2>3. Len(s) - (n + 1) + 1 = Len(s) - n /\ \A i \in 1 .. Len(s) - n : n + 1 + i - 1 = n + i
    BY <1>1
  <2>. QED  BY <2>2, <2>3
<1>. QED  BY <1>1, <1>2, <1>3

\* The i-th task is taken out.
LEMMA WithoutTask ==
  ASSUME NEW ts \in Seq(Tasks), NEW i \in 1 .. Len(ts)
  PROVE  /\ Without(ts, i) \in Seq(Tasks) /\ Len(Without(ts, i)) = Len(ts) - 1
         /\ \A k \in 1 .. Len(ts) - 1 :
               Without(ts, i)[k] = ts[IF k < i THEN k ELSE k + 1]
<1>. DEFINE a == SubSeq(ts, 1, i - 1)
            c == SubSeq(ts, i + 1, Len(ts))
<1>1. Len(ts) \in Nat /\ i \in Nat /\ 1 <= i /\ i <= Len(ts)
  BY LenProperties
<1>2. /\ a \in Seq(Tasks) /\ Len(a) = i - 1 /\ \A k \in 1 .. i - 1 : a[k] = ts[k]
  <2>1. 1 \in 1 .. Len(ts) + 1 /\ i - 1 \in 0 .. Len(ts)
    BY <1>1
  <2>. QED  BY <1>1, <2>1, SubSeqProperties
<1>3. /\ c \in Seq(Tasks) /\ Len(c) = Len(ts) - i /\ \A k \in 1 .. Len(ts) - i : c[k] = ts[i + k]
  <2>1. i + 1 \in 1 .. Len(ts) + 1 /\ Len(ts) \in i .. Len(ts)
    BY <1>1
  <2>. QED  BY <1>1, <2>1, SubSeqProperties
<1>4. Without(ts, i) = a \o c
  BY DEF Without
<1>. HIDE DEF a, c
<1>5. /\ a \o c \in Seq(Tasks) /\ Len(a \o c) = Len(a) + Len(c)
      /\ \A k \in 1 .. Len(a) + Len(c) : (a \o c)[k] = IF k <= Len(a) THEN a[k] ELSE c[k - Len(a)]
  BY <1>2, <1>3, ConcatProperties
<1>6. ASSUME NEW k \in 1 .. Len(ts) - 1
      PROVE  Without(ts, i)[k] = ts[IF k < i THEN k ELSE k + 1]
  <2>1. CASE k < i
    BY <1>1, <1>2, <1>3, <1>4, <1>5, <2>1
  <2>2. CASE ~(k < i)
    <3>1. k - (i - 1) \in 1 .. Len(ts) - i /\ i + (k - (i - 1)) = k + 1 /\ ~(k <= i - 1)
      BY <1>1, <2>2
    <3>2. k \in 1 .. Len(a) + Len(c)
      BY <1>1, <1>2, <1>3
    <3>3. (a \o c)[k] = c[k - (i - 1)]
      BY <1>2, <1>5, <3>1, <3>2
    <3>. QED  BY <1>3, <1>4, <2>2, <3>1, <3>3
  <2>. QED  BY <2>1, <2>2
<1>. QED  BY <1>1, <1>2, <1>3, <1>4, <1>5, <1>6

-----------------------------------------------------------------------------
(***************************************************************************)
(* launch_queued_tasks.                                                    *)
(***************************************************************************)

\* The tasks that are in inprogress_tasks.
Active(ts) == {i \in 1 .. Len(ts) : ts[i].phase # "publish"}

\* What is known of the first n operations, b of them barriers, that are
\* taken off the queue while the tasks ts run: a barrier and an upload of
\* the index are alone when they are taken, a deletion runs beside
\* deletions only.
Takes(queued, ts, n, b) ==
    /\ n \in 0 .. Len(queued) /\ b \in 0 .. n
    /\ \A i \in 1 .. b : queued[i].type = "barrier"
    /\ \A i \in b + 1 .. n : queued[i].type \in {"layer", "index", "delete"}
    /\ b > 0 => Active(ts) = {}
    /\ \A j \in b + 1 .. n : queued[j].type = "index" => Active(ts) = {} /\ j = b + 1
    /\ \A j \in b + 1 .. n : queued[j].type = "delete" =>
          /\ \A a \in Active(ts) : ts[a].op.type = "delete"
          /\ \A i \in b + 1 .. j : queued[i].type = "delete"

\* The loop has come to the shutdown operation.
AtShutdown(queued, ts, n) ==
    /\ n < Len(queued) /\ queued[n + 1].type = "shutdown"
    /\ Active(ts) = {} /\ \A i \in 1 .. n : queued[i].type = "barrier"

\* launch_queued_tasks takes n operations, b of them barriers.
Launched(q, ts, n, b) ==
    /\ Takes(q.queued, ts, n, b)
    /\ uq' = [q EXCEPT !.queued = uq'.queued]
    /\ uq'.queued \in Seq(Ops) /\ Len(uq'.queued) = Len(q.queued) - n
    /\ \A i \in 1 .. Len(q.queued) - n : uq'.queued[i] = q.queued[n + i]
    /\ tasks' \in Seq(Tasks) /\ Len(tasks') = Len(ts) + (n - b)
    /\ \A i \in 1 .. Len(ts) : tasks'[i] = ts[i]
    /\ \A i \in 1 .. n - b : tasks'[Len(ts) + i] = Task(q.queued[b + i])
    /\ shutdownReady' = (shutdownReady \/ AtShutdown(q.queued, ts, n))
    /\ waiter' = IF \E i \in 1 .. n : q.queued[i].waited THEN "done" ELSE waiter

\* The number LaunchCount chooses exists.
LEMMA LaunchCountIs ==
  ASSUME NEW queued \in Seq(Ops), NEW kinds
  PROVE  /\ LaunchCount(queued, kinds) \in 0 .. Len(queued)
         /\ \A i \in 1 .. LaunchCount(queued, kinds) : Launches(queued, kinds, i)
<1>. DEFINE S == {i \in Nat : Launches(queued, kinds, i)}
<1>1. Len(queued) \in Nat
  BY LenProperties
<1>2. PICK n \in 0 .. Len(queued) : (\A i \in 1 .. n : i \in S) /\ (n < Len(queued) => n + 1 \notin S)
  <2>. HIDE DEF S
  <2>. QED  BY <1>1, Prefix
<1>3. \E m \in 0 .. Len(queued) : /\ \A i \in 1 .. m : Launches(queued, kinds, i)
                                  /\ m < Len(queued) => ~Launches(queued, kinds, m + 1)
  <2>1. n + 1 \in Nat /\ n \in Nat
    BY <1>1
  <2>. QED  BY <1>2, <2>1
<1>. QED  BY <1>3 DEF LaunchCount

LEMMA BarriersAmongIs ==
  ASSUME NEW queued \in Seq(Ops), NEW n \in 0 .. Len(queued)
  PROVE  /\ BarriersAmong(queued, n) \in 0 .. n
         /\ \A i \in 1 .. BarriersAmong(queued, n) : queued[i].type = "barrier"
         /\ BarriersAmong(queued, n) < n => queued[BarriersAmong(queued, n) + 1].type # "barrier"
<1>. DEFINE S == {i \in Nat : queued[i].type = "barrier"}
<1>1. Len(queued) \in Nat /\ n \in Nat
  BY LenProperties
<1>2. PICK b \in 0 .. n : (\A i \in 1 .. b : i \in S) /\ (b < n => b + 1 \notin S)
  <2>. HIDE DEF S
  <2>. QED  BY <1>1, Prefix
<1>3. \E m \in 0 .. n : /\ \A i \in 1 .. m : queued[i].type = "barrier"
                        /\ m < n => queued[m + 1].type # "barrier"
  <2>1. b + 1 \in Nat /\ b \in Nat
    BY <1>1
  <2>. QED  BY <1>2, <2>1
<1>. QED  BY <1>3 DEF BarriersAmong

\* Nothing is in progress, and nothing but barriers was taken.
LEMMA NoKinds ==
  ASSUME NEW queued \in Seq(Ops), NEW ts \in Seq(Tasks), NEW n \in 0 .. Len(queued)
  PROVE  /\ KindsAfter(queued, KindsInProgress(ts), n) = {} =>
               Active(ts) = {} /\ \A i \in 1 .. n : queued[i].type = "barrier"
         /\ KindsAfter(queued, KindsInProgress(ts), n) \subseteq {"delete"} =>
               /\ \A a \in Active(ts) : ts[a].op.type = "delete"
               /\ \A i \in 1 .. n : queued[i].type \in {"barrier", "delete"}
         /\ Active(ts) = {} /\ (\A i \in 1 .. n : queued[i].type = "barrier") =>
               KindsAfter(queued, KindsInProgress(ts), n) = {}
<1>1. KindsInProgress(ts) = {ts[i].op.type : i \in Active(ts)}
  BY DEF KindsInProgress, Active
<1>2. KindsAfter(queued, KindsInProgress(ts), n) =
        {ts[i].op.type : i \in Active(ts)} \cup ({queued[i].type : i \in 1..n} \ {"barrier"})
  BY <1>1 DEF KindsAfter
<1>. QED  BY <1>2, Zenon

LEMMA TakesIs ==
  ASSUME NEW queued \in Seq(Ops), NEW ts \in Seq(Tasks), NEW n \in 0 .. Len(queued), NEW b \in 0 .. n,
         \A i \in 1 .. n : Launches(queued, KindsInProgress(ts), i),
         \A i \in 1 .. b : queued[i].type = "barrier",
         b < n => queued[b + 1].type # "barrier"
  PROVE  Takes(queued, ts, n, b)
<1>. DEFINE K == KindsInProgress(ts)
<1>0. Len(queued) \in Nat /\ n \in Nat /\ b \in Nat /\ n <= Len(queued)
  BY LenProperties
<1>1. ASSUME NEW i \in 1 .. n
      PROVE  /\ queued[i].type \in {"layer", "index", "delete", "barrier"}
             /\ queued[i].type = "delete" => KindsAfter(queued, K, i - 1) \subseteq {"delete"}
             /\ queued[i].type \in {"index", "barrier"} => KindsAfter(queued, K, i - 1) = {}
  <2>1. queued[i] \in Ops
    BY <1>0, ElementOfSeq
  <2>2. queued[i].type \in {"layer", "index", "delete", "barrier", "shutdown"}
    BY <2>1 DEF Ops
  <2>. QED  BY <2>2 DEF Launches, CanRunNow
<1>2. ASSUME NEW i \in 1 .. n
      PROVE  /\ queued[i].type = "delete" =>
                  /\ \A a \in Active(ts) : ts[a].op.type = "delete"
                  /\ \A j \in 1 .. i - 1 : queued[j].type \in {"barrier", "delete"}
             /\ queued[i].type \in {"index", "barrier"} =>
                  Active(ts) = {} /\ \A j \in 1 .. i - 1 : queued[j].type = "barrier"
  <2>1. i - 1 \in 0 .. Len(queued)
    BY <1>0
  <2>. QED  BY <1>1, <2>1, NoKinds
<1>3. ASSUME NEW i \in b + 1 .. n PROVE queued[i].type # "barrier"
  <2>1. i \in 1 .. n /\ b + 1 \in 1 .. n /\ b < n
    BY <1>0
  <2>2. CASE i = b + 1
    BY <2>1, <2>2
  <2>3. CASE i # b + 1
    <3>1. b + 1 \in 1 .. i - 1
      BY <1>0, <2>3
    <3>. QED  BY <1>2, <2>1, <3>1
  <2>. QED  BY <2>2, <2>3
<1>4. ASSUME NEW i \in b + 1 .. n PROVE queued[i].type \in {"layer", "index", "delete"}
  <2>1. i \in 1 .. n
    BY <1>0
  <2>. QED  BY <1>1, <1>3, <2>1
<1>5. b > 0 => Active(ts) = {}
  <2>1. b > 0 => b \in 1 .. n /\ b \in 1 .. b
    BY <1>0
  <2>. QED  BY <1>2, <2>1
<1>6. ASSUME NEW j \in b + 1 .. n, queued[j].type = "index"
      PROVE  Active(ts) = {} /\ j = b + 1
  <2>1. j \in 1 .. n /\ (j # b + 1 => b + 1 \in 1 .. j - 1 /\ b + 1 \in b + 1 .. n)
    BY <1>0
  <2>. QED  BY <1>2, <1>3, <1>6, <2>1
<1>7. ASSUME NEW j \in b + 1 .. n, queued[j].type = "delete"
      PROVE  /\ \A a \in Active(ts) : ts[a].op.type = "delete"
             /\ \A i \in b + 1 .. j : queued[i].type = "delete"
  <2>1. j \in 1 .. n /\ \A i \in b + 1 .. j : i \in b + 1 .. n /\ (i = j \/ i \in 1 .. j - 1)
    BY <1>0
  <2>. QED  BY <1>2, <1>3, <1>7, <2>1
<1>. QED  BY <1>0, <1>4, <1>5, <1>6, <1>7 DEF Takes

\* A task of an operation.
LEMMA TaskType ==
  ASSUME NEW op \in Ops
  PROVE  Task(op) \in Tasks /\ Task(op).op = op /\ Task(op).phase = "run" /\ Task(op).joiner = "none"
BY DEF Task, Tasks

LEMMA LaunchEffect ==
  ASSUME NEW q \in Queues, NEW ts \in Seq(Tasks), LaunchQueuedTasks(q, ts)
  PROVE  \E n, b \in Nat : Launched(q, ts, n, b)
<1>. DEFINE K == KindsInProgress(ts)
            n == LaunchCount(q.queued, K)
            b == BarriersAmong(q.queued, n)
            launched == SubSeq(q.queued, b + 1, n)
            new == [i \in 1 .. Len(launched) |-> Task(launched[i])]
<1>1. q.queued \in Seq(Ops) /\ Len(q.queued) \in Nat
  BY LenProperties DEF Queues
<1>2. n \in 0 .. Len(q.queued) /\ \A i \in 1 .. n : Launches(q.queued, K, i)
  BY <1>1, LaunchCountIs
<1>3. /\ b \in 0 .. n /\ \A i \in 1 .. b : q.queued[i].type = "barrier"
      /\ b < n => q.queued[b + 1].type # "barrier"
  <2>. HIDE DEF n
  <2>. QED  BY <1>1, <1>2, BarriersAmongIs
<1>4. Takes(q.queued, ts, n, b)
  <2>. HIDE DEF n, b
  <2>. QED  BY <1>1, <1>2, <1>3, TakesIs
<1>5. /\ uq' = [q EXCEPT !.queued = SubSeq(q.queued, n + 1, Len(q.queued))]
      /\ tasks' = ts \o new
      /\ shutdownReady' = (shutdownReady \/ ReachesShutdown(q.queued, K))
      /\ waiter' = IF \E i \in 1 .. n : q.queued[i].waited THEN "done" ELSE waiter
  BY DEF LaunchQueuedTasks
<1>6. ReachesShutdown(q.queued, K) <=> AtShutdown(q.queued, ts, n)
  <2>1. ReachesShutdown(q.queued, K) <=>
          /\ n < Len(q.queued) /\ q.queued[n + 1].type = "shutdown" /\ CanRunNow(q.queued, K, n + 1)
    BY DEF ReachesShutdown
  <2>. HIDE DEF n
  <2>2. (n + 1) - 1 = n
    BY <1>1, <1>2
  <2>3. q.queued[n + 1].type = "shutdown" =>
          (CanRunNow(q.queued, K, n + 1) <=> KindsAfter(q.queued, K, n) = {})
    BY <2>2 DEF CanRunNow
  <2>4. KindsAfter(q.queued, K, n) = {} <=>
          Active(ts) = {} /\ \A i \in 1 .. n : q.queued[i].type = "barrier"
    BY <1>1, <1>2, NoKinds
  <2>. QED  BY <2>1, <2>3, <2>4 DEF AtShutdown
<1>. HIDE DEF n, b
<1>7. /\ launched \in Seq(Ops) /\ Len(launched) = n - b
      /\ \A i \in 1 .. n - b : launched[i] = q.queued[b + i] /\ launched[i] \in Ops
  <2>0. n \in Nat /\ b \in Nat /\ b <= n /\ n <= Len(q.queued)
    BY <1>1, <1>2, <1>3
  <2>1. b + 1 \in 1 .. Len(q.queued) + 1 /\ n \in (b + 1) - 1 .. Len(q.queued)
    BY <1>1, <2>0
  <2>2. /\ launched \in Seq(Ops) /\ Len(launched) = n - b
        /\ \A i \in 1 .. n - b : launched[i] = q.queued[b + i]
    BY <1>1, <2>0, <2>1, SubSeqProperties
  <2>3. \A i \in 1 .. n - b : launched[i] \in Ops
    <3>. HIDE DEF launched
    <3>. QED  BY <2>2, ElementOfSeq
  <2>. QED  BY <2>2, <2>3
<1>. HIDE DEF launched
<1>8. /\ new \in Seq(Tasks) /\ Len(new) = n - b
      /\ \A i \in 1 .. n - b : new[i] = Task(q.queued[b + i])
  <2>1. \A i \in 1 .. n - b : Task(launched[i]) \in Tasks
    BY <1>7, TaskType
  <2>2. n - b \in Nat
    BY <1>1, <1>2, <1>3
  <2>. QED  BY <1>7, <2>1, <2>2, IsASeq
<1>. HIDE DEF new
<1>9. /\ tasks' \in Seq(Tasks) /\ Len(tasks') = Len(ts) + (n - b)
      /\ \A i \in 1 .. Len(ts) : tasks'[i] = ts[i]
      /\ \A i \in 1 .. n - b : tasks'[Len(ts) + i] = Task(q.queued[b + i])
  <2>0. Len(ts) \in Nat /\ n - b \in Nat
    BY <1>1, <1>2, <1>3, LenProperties
  <2>1. /\ ts \o new \in Seq(Tasks) /\ Len(ts \o new) = Len(ts) + (n - b)
        /\ \A i \in 1 .. Len(ts) + (n - b) :
              (ts \o new)[i] = IF i <= Len(ts) THEN ts[i] ELSE new[i - Len(ts)]
    <3>1. ts \in Seq(Tasks) /\ new \in Seq(Tasks) /\ Len(new) = n - b
      BY <1>8
    <3>2. /\ ts \o new \in Seq(Tasks) /\ Len(ts \o new) = Len(ts) + Len(new)
          /\ \A i \in 1 .. Len(ts) + Len(new) :
                (ts \o new)[i] = IF i <= Len(ts) THEN ts[i] ELSE new[i - Len(ts)]
      BY <3>1, ConcatProperties, Zenon
    <3>. QED  BY <3>1, <3>2
  <2>2. \A i \in 1 .. n - b : /\ Len(ts) + i \in 1 .. Len(ts) + (n - b) /\ ~(Len(ts) + i <= Len(ts))
                              /\ (Len(ts) + i) - Len(ts) = i
    BY <2>0
  <2>3. \A i \in 1 .. Len(ts) : i \in 1 .. Len(ts) + (n - b) /\ i <= Len(ts)
    BY <2>0
  <2>. QED  BY <1>5, <1>8, <2>1, <2>2, <2>3
<1>10. /\ uq' = [q EXCEPT !.queued = uq'.queued]
       /\ uq'.queued \in Seq(Ops) /\ Len(uq'.queued) = Len(q.queued) - n
       /\ \A i \in 1 .. Len(q.queued) - n : uq'.queued[i] = q.queued[n + i]
  <2>1. uq'.queued = SubSeq(q.queued, n + 1, Len(q.queued))
    BY <1>5 DEF Queues
  <2>. QED  BY <1>1, <1>2, <1>5, <2>1, RestOps
<1>11. n \in Nat /\ b \in Nat
  BY <1>1, <1>2, <1>3
<1>. QED  BY <1>4, <1>5, <1>6, <1>9, <1>10, <1>11 DEF Launched

-----------------------------------------------------------------------------
(***************************************************************************)
(* What the schedule functions do to the fields of a queue.                *)
(***************************************************************************)
LEMMA MetaType ==
  ASSUME NEW l \in Lsns, NEW c \in Lsns
  PROVE  Meta(l, c) \in Metas /\ Meta(l, c).lsn = l /\ Meta(l, c).cutoff = c
BY DEF Meta, Metas

LEMMA OpTypes ==
  /\ \A o \in Objects : LayerOp(o) \in Ops /\ LayerOp(o).type = "layer" /\ LayerOp(o).objs = {o}
                        /\ LayerOp(o).waited = FALSE
  /\ \A f \in SUBSET Objects : \A m \in Metas :
        /\ IndexOp(f, m) \in Ops /\ IndexOp(f, m).type = "index" /\ IndexOp(f, m).objs = f
        /\ IndexOp(f, m).meta = m /\ IndexOp(f, m).waited = FALSE
  /\ \A s \in SUBSET Objects : DeleteOp(s) \in Ops /\ DeleteOp(s).type = "delete" /\ DeleteOp(s).objs = s
                               /\ DeleteOp(s).waited = FALSE
  /\ \A w \in BOOLEAN : BarrierOp(w) \in Ops /\ BarrierOp(w).type = "barrier" /\ BarrierOp(w).objs = {}
                        /\ BarrierOp(w).waited = w
  /\ ShutdownOp \in Ops /\ ShutdownOp.type = "shutdown" /\ ShutdownOp.objs = {} /\ ShutdownOp.waited = FALSE
<1>1. Meta(0, 0) \in Metas
  BY MetaType, Bounds
<1>. QED  BY <1>1 DEF LayerOp, IndexOp, DeleteOp, BarrierOp, ShutdownOp, Op, Ops

\* A queue with an operation appended and other fields changed.
LEMMA QueueType ==
  ASSUME NEW q \in Queues
  PROVE  /\ q.state \in {"Uninitialized", "Initialized", "Stopped"} /\ q.files \subseteq Objects
         /\ q.changes \in BOOLEAN /\ q.meta \in Metas /\ q.queued \in Seq(Ops)
         /\ q.shuttingDown \in BOOLEAN /\ q.meta.lsn \in Lsns /\ q.meta.lsn \in Nat
<1>1. q.meta \in Metas
  BY DEF Queues
<1>. QED  BY <1>1, Bounds DEF Queues, Metas

\* The fields of r, by name.
Fields(r, state, files, changes, meta, queued, down) ==
    /\ r \in Queues /\ r.state = state /\ r.files = files /\ r.changes = changes
    /\ r.meta = meta /\ r.queued = queued /\ r.shuttingDown = down

LEMMA IndexUploadFields ==
  ASSUME NEW q \in Queues
  PROVE  Fields(ScheduleIndexUpload(q), q.state, q.files, FALSE, q.meta,
                Append(q.queued, IndexOp(q.files, q.meta)), q.shuttingDown)
<1>1. IndexOp(q.files, q.meta) \in Ops
  BY QueueType, OpTypes
<1>2. Append(q.queued, IndexOp(q.files, q.meta)) \in Seq(Ops)
  BY <1>1, QueueType, AppendOps
<1>. QED  BY <1>2 DEF ScheduleIndexUpload, Fields, Queues

LEMMA LayerUploadFields ==
  ASSUME NEW q \in Queues, NEW o \in Objects
  PROVE  Fields(ScheduleLayerFileUpload0(q, o), q.state,
                {f \in q.files : f.name # o.name} \cup {o}, TRUE, q.meta,
                Append(q.queued, LayerOp(o)), q.shuttingDown)
<1>1. LayerOp(o) \in Ops
  BY OpTypes
<1>2. Append(q.queued, LayerOp(o)) \in Seq(Ops)
  BY <1>1, QueueType, AppendOps
<1>3. {f \in q.files : f.name # o.name} \cup {o} \in SUBSET Objects
  BY QueueType
<1>. QED  BY <1>2, <1>3 DEF ScheduleLayerFileUpload0, Fields, Queues

LEMMA MetaFields ==
  ASSUME NEW q \in Queues, NEW m \in Metas
  PROVE  Fields([q EXCEPT !.meta = m], q.state, q.files, q.changes, m, q.queued, q.shuttingDown)
BY DEF Fields, Queues

LEMMA UnlinkFields ==
  ASSUME NEW q \in Queues, NEW objs \in SUBSET Objects
  PROVE  LET r == [q EXCEPT !.files = @ \ Unlinked(q, objs), !.changes = @ \/ Unlinked(q, objs) # {}]
         IN Fields(r, q.state, q.files \ Unlinked(q, objs), q.changes \/ Unlinked(q, objs) # {},
                   q.meta, q.queued, q.shuttingDown)
<1>1. q.files \ Unlinked(q, objs) \in SUBSET Objects
  BY QueueType
<1>2. (q.changes \/ Unlinked(q, objs) # {}) \in BOOLEAN
  BY QueueType
<1>. QED  BY <1>1, <1>2 DEF Fields, Queues

LEMMA DeletionFields ==
  ASSUME NEW q \in Queues, NEW objs \in SUBSET Objects
  PROVE  LET r == [q EXCEPT !.queued = Append(@, DeleteOp(objs))]
         IN Fields(r, q.state, q.files, q.changes, q.meta, Append(q.queued, DeleteOp(objs)), q.shuttingDown)
<1>1. Append(q.queued, DeleteOp(objs)) \in Seq(Ops)
  BY OpTypes, QueueType, AppendOps
<1>. QED  BY <1>1 DEF Fields, Queues

LEMMA BarrierFields ==
  ASSUME NEW q \in Queues, NEW w \in BOOLEAN
  PROVE  Fields(ScheduleBarrier0(q, w), q.state, q.files, q.changes, q.meta,
                Append(q.queued, BarrierOp(w)), q.shuttingDown)
<1>1. Append(q.queued, BarrierOp(w)) \in Seq(Ops)
  BY OpTypes, QueueType, AppendOps
<1>. QED  BY <1>1 DEF ScheduleBarrier0, Fields, Queues

LEMMA ShutdownFields ==
  ASSUME NEW q \in Queues
  PROVE  Fields(ScheduleShutdown(q), q.state, q.files, q.changes, q.meta,
                Append(q.queued, ShutdownOp), TRUE)
<1>1. Append(q.queued, ShutdownOp) \in Seq(Ops)
  BY OpTypes, QueueType, AppendOps
<1>. QED  BY <1>1 DEF ScheduleShutdown, Fields, Queues

LEMMA InitializedFields ==
  ASSUME NEW f \in SUBSET Objects, NEW m \in Metas
  PROVE  /\ Fields(Initialized(f, m), "Initialized", f, FALSE, m, << >>, FALSE)
         /\ Fields(Uninitialized, "Uninitialized", {}, FALSE, Meta(0, 0), << >>, FALSE)
<1>1. << >> \in Seq(Ops)
  BY EmptySeq
<1>2. Meta(0, 0) \in Metas
  BY MetaType, Bounds
<1>3. Uninitialized \in Queues
  BY <1>1, <1>2 DEF Uninitialized, Queues
<1>. QED  BY <1>1, <1>2, <1>3 DEF Initialized, Uninitialized, Fields, Queues

LEMMA StoppedFields ==
  ASSUME NEW q \in Queues
  PROVE  /\ Stopped(q) \in Queues /\ Stopped(q).state = "Stopped"
         /\ Stopped(q).files = q.files /\ Stopped(q).meta = q.meta
         /\ q.state # "Stopped" => /\ Stopped(q).queued = << >> /\ Stopped(q).changes = FALSE
                                   /\ Stopped(q).shuttingDown = FALSE
         /\ q.state = "Stopped" => Stopped(q) = q
<1>1. << >> \in Seq(Ops)
  BY EmptySeq
<1>. QED  BY <1>1 DEF Stopped, Queues

-----------------------------------------------------------------------------
(***************************************************************************)
(* The schedule functions that are put together from these.                *)
(***************************************************************************)
LEMMA UnlinkingType ==
  ASSUME NEW q \in Queues, NEW objs \in SUBSET Objects
  PROVE  ScheduleUnlinking0(q, objs) \in Queues
<1>. DEFINE r == [q EXCEPT !.files = @ \ Unlinked(q, objs), !.changes = @ \/ Unlinked(q, objs) # {}]
<1>1. r \in Queues
  BY UnlinkFields DEF Fields
<1>2. ScheduleUnlinking0(q, objs) = IF r.changes THEN ScheduleIndexUpload(r) ELSE r
  BY DEF ScheduleUnlinking0, ScheduleIndexUploadForFileChanges
<1>. HIDE DEF r
<1>. QED  BY <1>1, <1>2, IndexUploadFields DEF Fields

LEMMA ScheduleTypes ==
  ASSUME NEW q \in Queues
  PROVE  /\ \A m \in Metas : ScheduleIndexUploadForMetadataUpdate(q, m) \in Queues
         /\ ScheduleIndexUploadForFileChanges(q) \in Queues
         /\ \A o \in Objects : ScheduleLayerFileUpload0(q, o) \in Queues
         /\ \A objs \in SUBSET Objects : ScheduleDeletionOfUnlinked0(q, objs) \in Queues
         /\ \A objs \in SUBSET Objects : Unlinked(q, objs) \in SUBSET Objects
         /\ \A w \in BOOLEAN : ScheduleBarrier0(q, w) \in Queues
         /\ ScheduleShutdown(q) \in Queues /\ Stopped(q) \in Queues
<1>1. \A m \in Metas : ScheduleIndexUploadForMetadataUpdate(q, m) \in Queues
  <2>. TAKE m \in Metas
  <2>1. [q EXCEPT !.meta = m] \in Queues
    BY MetaFields DEF Fields
  <2>. QED  BY <2>1, IndexUploadFields DEF ScheduleIndexUploadForMetadataUpdate, Fields
<1>2. ScheduleIndexUploadForFileChanges(q) \in Queues
  BY IndexUploadFields DEF ScheduleIndexUploadForFileChanges, Fields
<1>3. \A o \in Objects : ScheduleLayerFileUpload0(q, o) \in Queues
  BY LayerUploadFields DEF Fields
<1>4. \A objs \in SUBSET Objects : ScheduleDeletionOfUnlinked0(q, objs) \in Queues
  <2>. TAKE objs \in SUBSET Objects
  <2>1. [q EXCEPT !.queued = Append(@, DeleteOp(objs))] \in Queues
    BY DeletionFields DEF Fields
  <2>. QED  BY <2>1 DEF ScheduleDeletionOfUnlinked0
<1>5. \A objs \in SUBSET Objects : Unlinked(q, objs) \in SUBSET Objects
  BY QueueType DEF Unlinked
<1>6. \A w \in BOOLEAN : ScheduleBarrier0(q, w) \in Queues
  BY BarrierFields DEF Fields
<1>7. ScheduleShutdown(q) \in Queues /\ Stopped(q) \in Queues
  BY ShutdownFields, StoppedFields DEF Fields
<1>. QED  BY <1>1, <1>2, <1>3, <1>4, <1>5, <1>6, <1>7

LEMMA ComposedTypes ==
  ASSUME NEW q \in Queues
  PROVE  /\ \A objs \in SUBSET Objects : ScheduleLayerFileDeletion(q, objs) \in Queues
         /\ \A objs \in SUBSET Objects : \A o \in Objects : ScheduleCompactionUpdate(q, objs, o) \in Queues
<1>1. \A objs \in SUBSET Objects : ScheduleLayerFileDeletion(q, objs) \in Queues
  BY UnlinkingType, ScheduleTypes DEF ScheduleLayerFileDeletion
<1>2. \A objs \in SUBSET Objects : \A o \in Objects : ScheduleCompactionUpdate(q, objs, o) \in Queues
  BY UnlinkingType, ScheduleTypes DEF ScheduleCompactionUpdate
<1>. QED  BY <1>1, <1>2

-----------------------------------------------------------------------------
(***************************************************************************)
(* Objects and indices.                                                    *)
(***************************************************************************)
LEMMA ObjectType ==
  ASSUME gen \in 1 .. MaxGen
  PROVE  /\ KeyGen \in Gens
         /\ \A kind \in Kinds : \A lo, hi \in Lsns :
               /\ LayerName(kind, lo, hi) \in LayerNames
               /\ Object(LayerName(kind, lo, hi)) \in Objects
         /\ \A n \in Lsns : Image(n) \in LayerNames /\ Object(Image(n)) \in Objects
<1>1. KeyGen \in Gens
  BY Bounds DEF KeyGen, Gens
<1>2. \A kind \in Kinds : \A lo, hi \in Lsns : LayerName(kind, lo, hi) \in LayerNames
  BY DEF LayerName, LayerNames
<1>3. \A n \in Lsns : Image(n) \in LayerNames
  BY <1>2 DEF Image, Kinds
<1>. QED  BY <1>1, <1>2, <1>3 DEF Object, Objects

LEMMA ObjectFields ==
  ASSUME NEW o \in Objects
  PROVE  /\ o.name \in LayerNames /\ o.gen \in Gens /\ o.gen \in Nat
         /\ o.name.kind \in Kinds /\ o.name.lo \in Lsns /\ o.name.hi \in Lsns
         /\ o.name.lo \in Nat /\ o.name.hi \in Nat
         /\ o = [name |-> o.name, gen |-> o.gen]
         /\ o.name = [kind |-> o.name.kind, lo |-> o.name.lo, hi |-> o.name.hi]
<1>1. o.name \in LayerNames /\ o.gen \in Gens /\ o = [name |-> o.name, gen |-> o.gen]
  BY DEF Objects
<1>. QED  BY <1>1, Bounds DEF LayerNames

\* The newest index.
LEMMA LatestIs ==
  ASSUME StorageType
  PROVE  /\ HasIndex => /\ LatestGen \in DOMAIN index /\ \A h \in DOMAIN index : h <= LatestGen
                        /\ LatestIndex = index[LatestGen]
         /\ ~HasIndex => LatestIndex = NoIndex
         /\ LatestIndex \in IndexParts
<1>1. NoIndex \in IndexParts
  BY MetaType, Bounds DEF NoIndex, IndexPart, IndexParts
<1>2. ASSUME HasIndex
      PROVE  LatestGen \in DOMAIN index /\ \A h \in DOMAIN index : h <= LatestGen
  <2>1. DOMAIN index \in SUBSET Nat /\ DOMAIN index # {} /\ \A h \in DOMAIN index : h <= MaxGen
    BY <1>2, Bounds DEF HasIndex, StorageType, Gens
  <2>2. \E g \in DOMAIN index : \A h \in DOMAIN index : h <= g
    BY <2>1, Bounds, GreatestNat
  <2>. QED  BY <2>2 DEF LatestGen
<1>. QED  BY <1>1, <1>2 DEF LatestIndex, StorageType

LEMMA LatestFields ==
  ASSUME StorageType
  PROVE  /\ LatestIndex.files \subseteq Objects /\ LatestIndex.meta \in Metas
         /\ LatestIndex.deleted \in BOOLEAN
         /\ LatestIndex.meta.lsn \in Lsns /\ LatestIndex.meta.cutoff \in Lsns
         /\ LatestIndex.meta.lsn \in Nat
<1>1. LatestIndex.files \subseteq Objects /\ LatestIndex.meta \in Metas
         /\ LatestIndex.deleted \in BOOLEAN
  BY LatestIs DEF IndexParts
<1>. QED  BY <1>1, Bounds DEF Metas

\* An index written under a key as new as any is the newest.
LEMMA LatestWritten ==
  ASSUME NEW g \in Nat, DOMAIN index \subseteq 0 .. g, NEW part,
         index' = [h \in DOMAIN index \cup {g} |-> IF h = g THEN part ELSE index[h]]
  PROVE  HasIndex' /\ LatestIndex' = part
<1>1. DOMAIN index' = DOMAIN index \cup {g} /\ index'[g] = part
  OBVIOUS
<1>2. LatestGen' = g
  <2>1. g \in DOMAIN index' /\ \A h \in DOMAIN index' : h <= g
    BY <1>1
  <2>2. \A x \in DOMAIN index' : (\A h \in DOMAIN index' : h <= x) => x = g
    <3>. TAKE x \in DOMAIN index'
    <3>1. x \in Nat
      BY <1>1
    <3>. QED  BY <2>1, <3>1
  <2>. QED  BY <2>1, <2>2, Zenon DEF LatestGen
<1>. QED  BY <1>1, <1>2 DEF LatestIndex, HasIndex

LEMMA LatestUnchanged ==
  ASSUME index' = index
  PROVE  LatestIndex' = LatestIndex /\ HasIndex' = HasIndex
<1>1. HasIndex' = HasIndex
  BY DEF HasIndex
<1>2. LatestGen' = LatestGen
  BY DEF LatestGen
<1>. QED  BY <1>1, <1>2 DEF LatestIndex

-----------------------------------------------------------------------------
(***************************************************************************)
(* Types are preserved.                                                    *)
(***************************************************************************)
LEMMA LaunchType ==
  ASSUME NEW q \in Queues, NEW ts \in Seq(Tasks), LaunchQueuedTasks(q, ts),
         shutdownReady \in BOOLEAN, waiter \in {"none", "done", "aborted"}
  PROVE  ClientType'
<1>1. PICK n, b \in Nat : Launched(q, ts, n, b)
  BY LaunchEffect
<1>2. uq' \in Queues
  <2>1. uq' = [q EXCEPT !.queued = uq'.queued] /\ uq'.queued \in Seq(Ops)
    BY <1>1 DEF Launched
  <2>2. PICK s \in Seq(Ops) : s = uq'.queued
    BY <2>1
  <2>. QED  BY <2>1, <2>2 DEF Queues
<1>3. tasks' \in Seq(Tasks)
  BY <1>1 DEF Launched
<1>4. shutdownReady' \in BOOLEAN
  BY <1>1 DEF Launched
<1>5. waiter' \in {"none", "done", "aborted"}
  BY <1>1 DEF Launched
<1>. QED  BY <1>2, <1>3, <1>4, <1>5 DEF ClientType

LEMMA StopType ==
  ASSUME ClientType, NEW ts \in Seq(Tasks), StopQueue(ts)
  PROVE  ClientType'
BY ScheduleTypes DEF StopQueue, ClientType

LEMMA TaskFields ==
  ASSUME NEW ts \in Seq(Tasks), NEW i \in 1 .. Len(ts)
  PROVE  /\ ts[i] \in Tasks /\ ts[i].op \in Ops
         /\ ts[i].phase \in {"run", "done", "publish"}
         /\ ts[i].joiner \in {"none", "tenant", "deletion"}
         /\ ts[i].op.objs \subseteq Objects /\ ts[i].op.meta \in Metas
         /\ ts[i].op.type \in {"layer", "index", "delete", "barrier", "shutdown"}
         /\ ts[i].op.meta.lsn \in Lsns /\ ts[i].op.meta.lsn \in Nat
<1>1. ts[i] \in Tasks
  BY ElementOfSeq
<1>2. ts[i].op \in Ops
  BY <1>1 DEF Tasks
<1>3. ts[i].op.meta \in Metas
  BY <1>2 DEF Ops
<1>. QED  BY <1>1, <1>2, <1>3, Bounds DEF Tasks, Ops, Metas

LEMMA OpFields ==
  ASSUME NEW s \in Seq(Ops), NEW i \in 1 .. Len(s)
  PROVE  /\ s[i] \in Ops /\ s[i].objs \subseteq Objects /\ s[i].meta \in Metas
         /\ s[i].type \in {"layer", "index", "delete", "barrier", "shutdown"}
         /\ s[i].waited \in BOOLEAN
         /\ s[i].meta.lsn \in Lsns /\ s[i].meta.lsn \in Nat
<1>1. s[i] \in Ops
  BY ElementOfSeq
<1>2. s[i].meta \in Metas
  BY <1>1 DEF Ops
<1>. QED  BY <1>1, <1>2, Bounds DEF Ops, Metas

\* The phase, or the joiner, of one task changes.
LEMMA TaskChanged ==
  ASSUME NEW ts \in Seq(Tasks), NEW i \in 1 .. Len(ts)
  PROVE  /\ \A p \in {"run", "done", "publish"} :
               /\ [ts EXCEPT ![i].phase = p] \in Seq(Tasks) /\ Len([ts EXCEPT ![i].phase = p]) = Len(ts)
               /\ \A k \in 1 .. Len(ts) :
                     [ts EXCEPT ![i].phase = p][k] = IF k = i THEN [ts[i] EXCEPT !.phase = p] ELSE ts[k]
         /\ \A c \in {"none", "tenant", "deletion"} :
               /\ [ts EXCEPT ![i].joiner = c] \in Seq(Tasks) /\ Len([ts EXCEPT ![i].joiner = c]) = Len(ts)
               /\ \A k \in 1 .. Len(ts) :
                     [ts EXCEPT ![i].joiner = c][k] = IF k = i THEN [ts[i] EXCEPT !.joiner = c] ELSE ts[k]
<1>1. ts[i] \in Tasks
  BY ElementOfSeq
<1>2. DOMAIN ts = 1 .. Len(ts)
  BY LenProperties
<1>3. ASSUME NEW p \in {"run", "done", "publish"}
      PROVE  /\ [ts EXCEPT ![i].phase = p] \in Seq(Tasks) /\ Len([ts EXCEPT ![i].phase = p]) = Len(ts)
             /\ \A k \in 1 .. Len(ts) :
                   [ts EXCEPT ![i].phase = p][k] = IF k = i THEN [ts[i] EXCEPT !.phase = p] ELSE ts[k]
  <2>1. [ts[i] EXCEPT !.phase = p] \in Tasks
    BY <1>1 DEF Tasks
  <2>. QED  BY <1>2, <2>1, ExceptSeq
<1>4. ASSUME NEW c \in {"none", "tenant", "deletion"}
      PROVE  /\ [ts EXCEPT ![i].joiner = c] \in Seq(Tasks) /\ Len([ts EXCEPT ![i].joiner = c]) = Len(ts)
             /\ \A k \in 1 .. Len(ts) :
                   [ts EXCEPT ![i].joiner = c][k] = IF k = i THEN [ts[i] EXCEPT !.joiner = c] ELSE ts[k]
  <2>1. [ts[i] EXCEPT !.joiner = c] \in Tasks
    BY <1>1 DEF Tasks
  <2>. QED  BY <1>2, <2>1, ExceptSeq
<1>. QED  BY <1>3, <1>4

LEMMA InitType == Init => TypeInv
<1>. SUFFICES ASSUME Init PROVE TypeInv
  OBVIOUS
<1>1. Meta(0, 0) \in Metas
  BY MetaType, Bounds
<1>2. ClientType
  <2>1. Initialized({}, Meta(0, 0)) \in Queues
    BY <1>1, InitializedFields DEF Fields
  <2>. QED  BY <2>1, EmptySeq DEF Init, ClientType
<1>3. gen \in 1 .. MaxGen
  BY Bounds DEF Init
<1>4. StorageType
  <2>1. KeyGen \in Gens
    BY <1>3, ObjectType
  <2>2. IndexPart({}, Meta(0, 0), FALSE) \in IndexParts
    BY <1>1 DEF IndexPart, IndexParts
  <2>3. /\ store = {} /\ deletions = {} /\ DOMAIN index = {KeyGen}
        /\ index[KeyGen] = IndexPart({}, Meta(0, 0), FALSE)
        /\ index = [g \in DOMAIN index |-> index[g]]
    BY DEF Init
  <2>. QED  BY <2>1, <2>2, <2>3 DEF StorageType
<1>5. TimelineType
  BY Bounds DEF Init, TimelineType, NoCompaction
<1>6. FlowType
  BY <1>3, Bounds DEF Init, FlowType
<1>. QED  BY <1>2, <1>4, <1>5, <1>6 DEF TypeInv

\* The range of the level 1 layer that compaction writes.
SpanLo(from) == CHOOSE n \in {o.name.lo : o \in from} : \A o \in from : n <= o.name.lo
SpanHi(from) == CHOOSE n \in {o.name.hi : o \in from} : \A o \in from : n >= o.name.hi

LEMMA Span ==
  ASSUME NEW from \in SUBSET Objects, from # {}
  PROVE  /\ SpanLo(from) \in Lsns /\ SpanHi(from) \in Lsns
         /\ \E o \in from : o.name.lo = SpanLo(from)
         /\ \E o \in from : o.name.hi = SpanHi(from)
         /\ \A o \in from : SpanLo(from) <= o.name.lo /\ o.name.hi <= SpanHi(from)
<1>. DEFINE L == {o.name.lo : o \in from}
            H == {o.name.hi : o \in from}
<1>0. \A o \in from : /\ o.name.lo \in Lsns /\ o.name.hi \in Lsns /\ o.name.lo \in Nat /\ o.name.hi \in Nat
                      /\ o.name.hi <= MaxLsn
  BY ObjectFields, Bounds
<1>1. PICK l \in L : \A k \in L : ~(k < l)
  <2>1. L \in SUBSET Nat /\ L # {}
    BY <1>0
  <2>. HIDE DEF L
  <2>. QED  BY <2>1, LeastNat
<1>2. PICK h \in H : \A k \in H : k <= h
  <2>1. H \in SUBSET Nat /\ H # {} /\ \A x \in H : x <= MaxLsn
    BY <1>0
  <2>. HIDE DEF H
  <2>. QED  BY <2>1, Bounds, GreatestNat
<1>3. \A o \in from : l <= o.name.lo
  <2>. TAKE o \in from
  <2>1. ~(o.name.lo < l) /\ l \in Nat
    BY <1>0, <1>1
  <2>. QED  BY <1>0, <2>1
<1>4. \A o \in from : h >= o.name.hi
  <2>. TAKE o \in from
  <2>1. o.name.hi <= h /\ h \in Nat
    BY <1>0, <1>2
  <2>. QED  BY <1>0, <2>1
<1>5. SpanLo(from) \in L /\ \A o \in from : SpanLo(from) <= o.name.lo
  <2>1. \E n \in L : \A o \in from : n <= o.name.lo
    BY <1>1, <1>3
  <2>. QED  BY <2>1, Zenon DEF SpanLo
<1>6. SpanHi(from) \in H /\ \A o \in from : SpanHi(from) >= o.name.hi
  <2>1. \E n \in H : \A o \in from : n >= o.name.hi
    BY <1>2, <1>4
  <2>. QED  BY <2>1, Zenon DEF SpanHi
<1>7. (\E o \in from : o.name.lo = SpanLo(from)) /\ \E o \in from : o.name.hi = SpanHi(from)
  BY <1>5, <1>6
<1>8. SpanLo(from) \in Lsns /\ SpanHi(from) \in Lsns
  BY <1>0, <1>7
<1>9. \A o \in from : SpanLo(from) <= o.name.lo /\ o.name.hi <= SpanHi(from)
  <2>. TAKE o \in from
  <2>1. SpanHi(from) \in Nat /\ o.name.hi \in Nat
    BY <1>0, <1>8, Bounds
  <2>. QED  BY <1>5, <1>6, <2>1
<1>. QED  BY <1>7, <1>8, <1>9

\* The layers that a compaction of level 0 takes, from the oldest on.
Oldest(l0) == CHOOSE o \in l0 : \A p \in l0 : o.name.lo <= p.name.lo
Chain(l0) == {o \in l0 : \A k \in Oldest(l0).name.lo .. o.name.hi :
                            \E p \in l0 : k \in p.name.lo .. p.name.hi}

LEMMA ChainIs ==
  ASSUME NEW l0 \in SUBSET Objects, l0 # {}
  PROVE  /\ Oldest(l0) \in l0 /\ \A p \in l0 : Oldest(l0).name.lo <= p.name.lo
         /\ Oldest(l0) \in Chain(l0) /\ Chain(l0) \subseteq l0
<1>. DEFINE L == {o.name.lo : o \in l0}
<1>0. \A o \in l0 : o.name.lo \in Nat
  BY ObjectFields
<1>1. PICK l \in L : \A k \in L : ~(k < l)
  <2>1. L \in SUBSET Nat /\ L # {}
    BY <1>0
  <2>. HIDE DEF L
  <2>. QED  BY <2>1, LeastNat
<1>2. PICK o \in l0 : o.name.lo = l
  BY <1>1
<1>3. \A p \in l0 : o.name.lo <= p.name.lo
  <2>. TAKE p \in l0
  <2>1. ~(p.name.lo < l)
    BY <1>1
  <2>. QED  BY <1>0, <1>2, <2>1
<1>4. Oldest(l0) \in l0 /\ \A p \in l0 : Oldest(l0).name.lo <= p.name.lo
  BY <1>2, <1>3, Zenon DEF Oldest
<1>5. Oldest(l0) \in Chain(l0)
  BY <1>4, Zenon DEF Chain
<1>. QED  BY <1>4, <1>5 DEF Chain

LEMMA PhaseOne ==
  ASSUME CompactLevel0Phase1
  PROVE  LET l0 == {o \in layerMap : o.name.kind = "L0"}
         IN l0 # {} /\ compaction' = [step |-> "L0", layers |-> Chain(l0)]
BY DEF CompactLevel0Phase1, Chain, Oldest

LEMMA FinishCompact ==
  ASSUME FinishCompactL0
  PROVE  LET from == compaction.layers
             to == Object(LayerName("L1", SpanLo(from), SpanHi(from)))
             duplicate == \E o \in layerMap : o.name = to.name
         IN /\ compaction.step = "L0" /\ compaction' = NoCompaction
            /\ Schedule(ScheduleCompactionUpdate(uq, from, to))
            /\ layerMap' = (layerMap \ from) \cup (IF duplicate THEN {} ELSE {to})
            /\ dropping' = dropping \cup from
BY DEF FinishCompactL0, SpanLo, SpanHi

LEMMA TaskStepType == TypeInv /\ TaskStep => TypeInv'
<1>. SUFFICES ASSUME TypeInv, NEW i \in TaskIds,
                     \/ \E replied \in BOOLEAN : TaskAttempt(i, replied)
                     \/ TaskComplete(i) \/ TaskPublishLsn(i) \/ TaskCancelled(i)
              PROVE  TypeInv'
  BY DEF TaskStep
<1>0. /\ tasks \in Seq(Tasks) /\ i \in 1 .. Len(tasks) /\ ClientType /\ uq \in Queues
      /\ shutdownReady \in BOOLEAN /\ waiter \in {"none", "done", "aborted"}
      /\ StorageType /\ TimelineType /\ FlowType
  BY DEF TypeInv, ClientType, TaskIds
<1>00. Without(tasks, i) \in Seq(Tasks) /\ PublishedLsn(i) \in Lsns
  BY <1>0, WithoutTask, TaskFields DEF PublishedLsn
<1>1. ASSUME NEW replied \in BOOLEAN, TaskAttempt(i, replied) PROVE TypeInv'
  <2>. DEFINE op == tasks[i].op
  <2>0. op.objs \subseteq Objects /\ op.meta \in Metas
    BY <1>0, TaskFields
  <2>1. tasks' \in Seq(Tasks)
    BY <1>0, <1>1, TaskChanged DEF TaskAttempt
  <2>2. ClientType'
    BY <1>0, <1>1, <2>1 DEF TaskAttempt, ClientType
  <2>3. StorageType'
    <3>1. CASE UNCHANGED index /\ store' \subseteq Objects /\ deletions' \subseteq Objects
      BY <1>0, <3>1 DEF StorageType
    <3>2. CASE /\ UNCHANGED <<store, deletions>>
               /\ index' = [g \in DOMAIN index \cup {KeyGen} |->
                             IF g = KeyGen THEN IndexPart(op.objs, op.meta, FALSE) ELSE index[g]]
      <4>. HIDE DEF op
      <4>1. IndexPart(op.objs, op.meta, FALSE) \in IndexParts /\ KeyGen \in Gens
        BY <1>0, <2>0, ObjectType DEF IndexPart, IndexParts, FlowType
      <4>. QED  BY <1>0, <3>2, <4>1 DEF StorageType
    <3>. QED  BY <1>0, <1>1, <2>0, <3>1, <3>2 DEF TaskAttempt, StorageType
  <2>4. TimelineType' /\ FlowType'
    BY <1>0, <1>1 DEF TaskAttempt, timelineVars, flowVars, lsnVars, TimelineType, FlowType
  <2>. QED  BY <2>2, <2>3, <2>4 DEF TypeInv
<1>2. ASSUME TaskComplete(i) PROVE TypeInv'
  <2>1. ClientType'
    <3>1. CASE tasks' = Without(tasks, i) /\ UNCHANGED <<uq, shutdownReady, waiter>>
      BY <1>0, <1>00, <3>1 DEF ClientType
    <3>2. CASE LaunchQueuedTasks(uq, Without(tasks, i))
      BY <1>0, <1>00, <3>2, LaunchType
    <3>3. CASE LaunchQueuedTasks(uq, [tasks EXCEPT ![i].phase = "publish"])
      BY <1>0, <3>3, LaunchType, TaskChanged
    <3>. QED  BY <1>2, <3>1, <3>2, <3>3 DEF TaskComplete
  <2>2. visible' \in Lsns /\ advertised' \in Lsns /\ pendingLsn' \subseteq Lsns
    BY <1>0, <1>00, <1>2 DEF TaskComplete, FlowType, lsnVars
  <2>3. StorageType' /\ TimelineType' /\ FlowType'
    BY <1>0, <1>2, <2>2 DEF TaskComplete, storageVars, timelineVars, flowVars, StorageType,
       TimelineType, FlowType
  <2>. QED  BY <2>1, <2>3 DEF TypeInv
<1>3. ASSUME TaskPublishLsn(i) PROVE TypeInv'
  BY <1>0, <1>00, <1>3 DEF TaskPublishLsn, storageVars, timelineVars, flowVars, StorageType,
     TimelineType, FlowType, ClientType, TypeInv
<1>4. ASSUME TaskCancelled(i) PROVE TypeInv'
  <2>1. ClientType'
    BY <1>0, <1>00, <1>4, StopType DEF TaskCancelled
  <2>. QED  BY <1>0, <1>4, <2>1 DEF TaskCancelled, storageVars, timelineVars, flowVars, lsnVars,
     StorageType, TimelineType, FlowType, TypeInv
<1>. QED  BY <1>1, <1>2, <1>3, <1>4

LEMMA ScheduleType ==
  ASSUME TypeInv, NEW q \in Queues, Schedule(q)
  PROVE  ClientType'
BY LaunchType DEF Schedule, TypeInv, ClientType

LEMMA TimelineStepType == TypeInv /\ TimelineStep => TypeInv'
<1>. SUFFICES ASSUME TypeInv, TimelineStep PROVE TypeInv'
  OBVIOUS
<1>0. /\ uq \in Queues /\ ClientType /\ StorageType /\ TimelineType /\ FlowType
      /\ gen \in 1 .. MaxGen
  BY DEF TypeInv, ClientType, FlowType
<1>1. CASE Ingest
  <2>1. lastLsn' \in Lsns
    BY <1>0, <1>1, Bounds DEF Ingest, TimelineType
  <2>. QED  BY <1>0, <1>1, <2>1 DEF Ingest, queueVars, lsnVars, storageVars, flowVars, TypeInv,
            ClientType, StorageType, TimelineType, FlowType
<1>2. ASSUME NEW lsn \in 1 .. lastLsn, FlushFrozenLayer(lsn) PROVE TypeInv'
  <2>. DEFINE o == Object(LayerName("L0", diskLsn + 1, lsn))
              q == ScheduleIndexUploadForMetadataUpdate(ScheduleLayerFileUpload0(uq, o), Meta(lsn, gcCutoff))
  <2>0. lsn \in Lsns /\ diskLsn + 1 \in Lsns /\ gcCutoff \in Lsns
    <3>1. lastLsn \in Nat /\ lastLsn <= MaxLsn /\ diskLsn \in Nat /\ diskLsn < lsn
      BY <1>0, <1>2, Bounds DEF FlushFrozenLayer, TimelineType
    <3>2. lsn \in Nat /\ lsn <= MaxLsn /\ diskLsn + 1 \in Nat /\ diskLsn + 1 <= MaxLsn
      BY <3>1, Bounds
    <3>. QED  BY <1>0, <3>2, Bounds DEF TimelineType
  <2>1. o \in Objects
    BY <1>0, <2>0, ObjectType DEF Kinds
  <2>2. q \in Queues
    <3>. HIDE DEF o
    <3>. QED  BY <1>0, <2>0, <2>1, ScheduleTypes, MetaType
  <2>3. ClientType'
    <3>1. Schedule(q)
      BY <1>2 DEF FlushFrozenLayer
    <3>. HIDE DEF q
    <3>. QED  BY <2>2, <3>1, ScheduleType
  <2>4. layerMap' = layerMap \cup {o}
    BY <1>2 DEF FlushFrozenLayer
  <2>. HIDE DEF o, q
  <2>. QED  BY <1>0, <1>2, <2>0, <2>1, <2>3, <2>4 DEF FlushFrozenLayer, lsnVars, storageVars, flowVars,
            TypeInv, StorageType, TimelineType, FlowType
<1>3. ASSUME NEW lsn \in 1 .. lastLsn, CreateImageLayers(lsn) PROVE TypeInv'
  <2>1. lsn \in Lsns
    <3>1. lastLsn \in Nat /\ lastLsn <= MaxLsn
      BY <1>0, Bounds DEF TimelineType
    <3>. QED  BY <3>1, Bounds
  <2>2. Object(Image(lsn)) \in Objects
    BY <1>0, <2>1, ObjectType
  <2>. QED  BY <1>0, <1>3, <2>2 DEF CreateImageLayers, queueVars, lsnVars, storageVars, flowVars,
            TypeInv, ClientType, StorageType, TimelineType, FlowType
<1>4. CASE CompactLevel0Phase1
  <2>. DEFINE l0 == {o \in layerMap : o.name.kind = "L0"}
  <2>1. l0 # {} /\ compaction' = [step |-> "L0", layers |-> Chain(l0)]
    BY <1>4, PhaseOne
  <2>2. l0 \in SUBSET Objects
    BY <1>0 DEF TimelineType
  <2>. HIDE DEF l0
  <2>3. Chain(l0) # {} /\ Chain(l0) \subseteq Objects
    BY <2>1, <2>2, ChainIs
  <2>4. UNCHANGED <<queueVars, lsnVars, storageVars, lastLsn, diskLsn, gcCutoff, layerMap, collecting,
                    dropping, flowVars, gen, waitLsn>>
    BY <1>4 DEF CompactLevel0Phase1
  <2>5. TimelineType'
    BY <1>0, <2>1, <2>3, <2>4 DEF TimelineType
  <2>. QED  BY <1>0, <2>4, <2>5 DEF queueVars, lsnVars, storageVars, flowVars,
            TypeInv, ClientType, StorageType, FlowType
<1>5. CASE FinishCompactL0
  <2>. DEFINE from == compaction.layers
              to == Object(LayerName("L1", SpanLo(from), SpanHi(from)))
              duplicate == \E o \in layerMap : o.name = to.name
  <2>1. /\ compaction.step = "L0" /\ compaction' = NoCompaction
        /\ Schedule(ScheduleCompactionUpdate(uq, from, to))
        /\ layerMap' = (layerMap \ from) \cup (IF duplicate THEN {} ELSE {to})
        /\ dropping' = dropping \cup from
    BY <1>5, FinishCompact
  <2>2. from \in SUBSET Objects /\ from # {}
    BY <1>0, <2>1 DEF TimelineType
  <2>3. to \in Objects
    BY <1>0, <2>2, Span, ObjectType DEF Kinds
  <2>. HIDE DEF from, to, duplicate
  <2>4. ClientType'
    <3>1. ScheduleCompactionUpdate(uq, from, to) \in Queues
      BY <1>0, <2>2, <2>3, ComposedTypes
    <3>. QED  BY <2>1, <3>1, ScheduleType
  <2>5. UNCHANGED <<lsnVars, storageVars, lastLsn, diskLsn, gcCutoff, collecting, flowVars, gen, waitLsn>>
    BY <1>5 DEF FinishCompactL0
  <2>6. TimelineType'
    BY <1>0, <2>1, <2>2, <2>3, <2>5 DEF TimelineType, NoCompaction
  <2>. QED  BY <1>0, <2>4, <2>5, <2>6 DEF lsnVars, storageVars, flowVars, TypeInv, StorageType, FlowType
<1>6. CASE ScheduleImageUploads
  <2>1. ClientType'
    <3>1. PICK o \in compaction.layers : Schedule(ScheduleLayerFileUpload0(uq, o))
      BY <1>6 DEF ScheduleImageUploads
    <3>2. o \in Objects
      BY <1>0 DEF TimelineType
    <3>3. ScheduleLayerFileUpload0(uq, o) \in Queues
      BY <1>0, <3>2, ScheduleTypes
    <3>. QED  BY <3>1, <3>3, ScheduleType
  <2>. QED  BY <1>0, <1>6, <2>1 DEF ScheduleImageUploads, lsnVars, storageVars, flowVars,
            TypeInv, StorageType, TimelineType, FlowType
<1>i. CASE ScheduleImageIndex
  <2>1. ClientType'
    <3>1. Schedule(ScheduleIndexUploadForFileChanges(uq))
      BY <1>i DEF ScheduleImageIndex
    <3>2. ScheduleIndexUploadForFileChanges(uq) \in Queues
      BY <1>0, ScheduleTypes
    <3>. QED  BY <3>1, <3>2, ScheduleType
  <2>. QED  BY <1>0, <1>i, <2>1 DEF ScheduleImageIndex, NoCompaction, lsnVars, storageVars, flowVars,
            TypeInv, StorageType, TimelineType, FlowType
<1>7. ASSUME NEW cutoff \in 1 .. diskLsn, GcAdvanceCutoff(cutoff) PROVE TypeInv'
  <2>1. cutoff \in Lsns
    <3>1. diskLsn \in Nat /\ diskLsn <= MaxLsn
      BY <1>0, Bounds DEF TimelineType
    <3>. QED  BY <3>1, Bounds
  <2>. QED  BY <1>0, <1>7, <2>1 DEF GcAdvanceCutoff, queueVars, lsnVars, storageVars, flowVars,
            TypeInv, ClientType, StorageType, TimelineType, FlowType
<1>8. ASSUME NEW cutoff \in collecting, GcTimeline(cutoff) PROVE TypeInv'
  <2>0. Garbage(cutoff) \in SUBSET Objects /\ Meta(diskLsn, gcCutoff) \in Metas
    BY <1>0, MetaType DEF Garbage, TimelineType
  <2>1. ClientType'
    <3>1. CASE UNCHANGED queueVars
      BY <1>0, <3>1 DEF queueVars, ClientType
    <3>2. CASE Schedule(ScheduleUnlinking0(ScheduleIndexUploadForMetadataUpdate(uq, Meta(diskLsn, gcCutoff)),
                                           Garbage(cutoff)))
      <4>1. ScheduleUnlinking0(ScheduleIndexUploadForMetadataUpdate(uq, Meta(diskLsn, gcCutoff)),
                               Garbage(cutoff)) \in Queues
        BY <1>0, <2>0, ScheduleTypes, UnlinkingType
      <4>. QED  BY <3>2, <4>1, ScheduleType
    <3>. QED  BY <1>8, <3>1, <3>2 DEF GcTimeline
  <2>2. layerMap' \subseteq Objects /\ dropping' \subseteq Objects
    BY <1>0, <1>8, <2>0 DEF GcTimeline, TimelineType
  <2>. QED  BY <1>0, <1>8, <2>1, <2>2 DEF GcTimeline, lsnVars, storageVars, flowVars,
            TypeInv, StorageType, TimelineType, FlowType
<1>9. ASSUME NEW o \in dropping, DropLayer(o) PROVE TypeInv'
  <2>1. ClientType'
    <3>1. Schedule(ScheduleDeletionOfUnlinked0(uq, {o})) /\ {o} \in SUBSET Objects
      BY <1>0, <1>9 DEF DropLayer, TimelineType
    <3>2. ScheduleDeletionOfUnlinked0(uq, {o}) \in Queues
      BY <1>0, <3>1, ScheduleTypes
    <3>. QED  BY <3>1, <3>2, ScheduleType
  <2>. QED  BY <1>0, <1>9, <2>1 DEF DropLayer, lsnVars, storageVars, flowVars,
            TypeInv, StorageType, TimelineType, FlowType
<1>10. CASE WaitCompletion
  <2>1. ClientType'
    <3>1. ScheduleBarrier0(uq, TRUE) \in Queues /\ Schedule(ScheduleBarrier0(uq, TRUE))
      BY <1>0, <1>10, ScheduleTypes DEF WaitCompletion
    <3>. QED  BY <3>1, ScheduleType
  <2>2. waitLsn' \in Lsns
    BY <1>0, <1>10, QueueType DEF WaitCompletion
  <2>. QED  BY <1>0, <1>10, <2>1, <2>2 DEF WaitCompletion, lsnVars, storageVars, flowVars, timelineVars,
            TypeInv, StorageType, TimelineType, FlowType
<1>. QED  BY <1>1, <1>2, <1>3, <1>4, <1>5, <1>6, <1>i, <1>7, <1>8, <1>9, <1>10 DEF TimelineStep

LEMMA ShutdownStepType == TypeInv /\ ShutdownStep => TypeInv'
<1>. SUFFICES ASSUME TypeInv, ShutdownStep PROVE TypeInv'
  OBVIOUS
<1>0. /\ uq \in Queues /\ ClientType /\ StorageType /\ TimelineType /\ FlowType
      /\ gen \in 1 .. MaxGen /\ tasks \in Seq(Tasks)
  BY DEF TypeInv, ClientType, FlowType
<1>1. CASE ShutdownTimeline \/ ShutdownDrained \/ DeleteStopTasks
  <2>1. ClientType'
    BY <1>0, <1>1, StopType DEF ShutdownTimeline, ShutdownDrained, DeleteStopTasks
  <2>. QED  BY <1>0, <1>1, <2>1 DEF ShutdownTimeline, ShutdownDrained, DeleteStopTasks,
            lsnVars, storageVars, timelineVars, TypeInv, StorageType, TimelineType, FlowType
<1>2. CASE ShutdownBegin
  <2>1. ClientType'
    <3>1. CASE LaunchQueuedTasks(ScheduleShutdown(uq), tasks)
      BY <1>0, <3>1, ScheduleTypes, LaunchType DEF ClientType
    <3>2. CASE UNCHANGED queueVars
      BY <1>0, <3>2 DEF queueVars, ClientType
    <3>. QED  BY <1>2, <3>1, <3>2 DEF ShutdownBegin
  <2>. QED  BY <1>0, <1>2, <2>1 DEF ShutdownBegin, lsnVars, storageVars, timelineVars, TypeInv,
            StorageType, TimelineType, FlowType
<1>3. ASSUME NEW caller \in {"tenant", "deletion"}, JoinTask(caller) PROVE TypeInv'
  <2>1. PICK i \in 1 .. Len(tasks) : tasks' = [tasks EXCEPT ![i].joiner = caller]
    BY <1>3 DEF JoinTask, TaskIds
  <2>2. tasks' \in Seq(Tasks)
    BY <1>0, <2>1, TaskChanged
  <2>. QED  BY <1>0, <1>3, <2>2 DEF JoinTask, lsnVars, storageVars, timelineVars, flowVars, TypeInv, ClientType,
            StorageType, TimelineType, FlowType
<1>4. ASSUME NEW caller \in {"tenant", "deletion"}, JoinDone(caller) PROVE TypeInv'
  BY <1>0, <1>4 DEF JoinDone, queueVars, lsnVars, storageVars, timelineVars, TypeInv, ClientType,
     StorageType, TimelineType, FlowType
<1>5. CASE DeletedFlagBegin \/ DeletedFlagAlready \/ DeletionFails
  BY <1>0, <1>5 DEF DeletedFlagBegin, DeletedFlagAlready, DeletionFails, queueVars, lsnVars, storageVars,
     timelineVars, TypeInv, ClientType, StorageType, TimelineType, FlowType
<1>6. ASSUME NEW replied \in BOOLEAN, DeletedFlagUpload(replied) PROVE TypeInv'
  <2>1. IndexPart(uq.files, uq.meta, TRUE) \in IndexParts /\ KeyGen \in Gens
    BY <1>0, QueueType, ObjectType DEF IndexPart, IndexParts
  <2>2. index' = [g \in DOMAIN index \cup {KeyGen} |->
                    IF g = KeyGen THEN IndexPart(uq.files, uq.meta, TRUE) ELSE index[g]]
    BY <1>6 DEF DeletedFlagUpload
  <2>3. StorageType'
    BY <1>0, <1>6, <2>1, <2>2 DEF StorageType, DeletedFlagUpload
  <2>4. FlowType'
    BY <1>0, <1>6 DEF DeletedFlagUpload, FlowType, lsnVars
  <2>. QED  BY <1>0, <1>6, <2>3, <2>4 DEF DeletedFlagUpload, queueVars, timelineVars, TypeInv, ClientType,
            TimelineType
<1>7. CASE DeleteAllLayers
  <2>1. uq' \in Queues
    BY <1>0, <1>7 DEF DeleteAllLayers, Queues
  <2>. QED  BY <1>0, <1>7, <2>1 DEF DeleteAllLayers, lsnVars, timelineVars, TypeInv, ClientType,
     StorageType, TimelineType, FlowType
<1>8. CASE DeleteListed
  <2>1. StorageType'
    <3>1. CASE UNCHANGED index /\ store' = {}
      BY <1>0, <1>8, <3>1 DEF DeleteListed, StorageType
    <3>2. ASSUME NEW g \in DOMAIN index, index' = [h \in DOMAIN index \ {g} |-> index[h]], UNCHANGED store
          PROVE  StorageType'
      BY <1>0, <1>8, <3>2 DEF DeleteListed, StorageType
    <3>. QED  BY <1>8, <3>1, <3>2 DEF DeleteListed
  <2>2. FlowType'
    BY <1>0, <1>8 DEF DeleteListed, FlowType, lsnVars
  <2>. QED  BY <1>0, <1>8, <2>1, <2>2 DEF DeleteListed, queueVars, timelineVars, TypeInv, ClientType, TimelineType
<1>. QED  BY <1>1, <1>2, <1>3, <1>4, <1>5, <1>6, <1>7, <1>8 DEF ShutdownStep

\* What is loaded from the newest index.
LEMMA LoadedType ==
  ASSUME StorageType
  PROVE  LET part == LatestIndex
             future == {o \in part.files : IsInFuture(o, part.meta.lsn)}
         IN LoadedQueue(part, future) \in Queues /\ future \in SUBSET Objects
<1>. DEFINE part == LatestIndex
            future == {o \in part.files : IsInFuture(o, part.meta.lsn)}
<1>1. future \in SUBSET Objects /\ part.files \in SUBSET Objects /\ part.meta \in Metas
  BY LatestFields
<1>2. Initialized(part.files, part.meta) \in Queues
  BY <1>1, InitializedFields DEF Fields
<1>. HIDE DEF part, future
<1>3. ScheduleLayerFileDeletion(Initialized(part.files, part.meta), future) \in Queues
  BY <1>1, <1>2, ComposedTypes
<1>4. LoadedQueue(part, future) \in Queues
  BY <1>3, ScheduleTypes DEF LoadedQueue
<1>. QED  BY <1>1, <1>4 DEF part, future

LEMMA NextType == TypeInv /\ [Next]_vars => TypeInv'
<1>. SUFFICES ASSUME TypeInv, [Next]_vars PROVE TypeInv'
  OBVIOUS
<1>0. /\ uq \in Queues /\ ClientType /\ StorageType /\ TimelineType /\ FlowType
      /\ gen \in 1 .. MaxGen /\ shutdownReady \in BOOLEAN /\ waiter \in {"none", "done", "aborted"}
  BY DEF TypeInv, ClientType, FlowType
<1>1. CASE ValidateLsn
  BY <1>0, <1>1 DEF ValidateLsn, queueVars, storageVars, timelineVars, flowVars, TypeInv, ClientType,
     StorageType, TimelineType, FlowType
<1>2. CASE ExecuteDeletion
  BY <1>0, <1>2 DEF ExecuteDeletion, queueVars, lsnVars, timelineVars, flowVars, TypeInv, ClientType,
     StorageType, TimelineType, FlowType
<1>3. CASE Restart
  <2>1. Uninitialized \in Queues /\ << >> \in Seq(Tasks) /\ 0 \in Lsns
    BY InitializedFields, EmptySeq, Bounds, MetaType DEF Fields
  <2>2. ClientType'
    BY <1>3, <2>1 DEF Restart, ClientType
  <2>3. StorageType'
    BY <1>0, <1>3 DEF Restart, StorageType
  <2>4. TimelineType'
    BY <1>3, <2>1 DEF Restart, TimelineType, NoCompaction
  <2>5. gen' \in 1 .. MaxGen
    BY <1>0, <1>3, Bounds DEF Restart
  <2>6. FlowType'
    BY <1>0, <1>3, <2>1, <2>5 DEF Restart, FlowType
  <2>. QED  BY <2>2, <2>3, <2>4, <2>6 DEF TypeInv
<1>4. CASE LoadTimeline
  <2>. DEFINE part == LatestIndex
              future == {o \in part.files : IsInFuture(o, part.meta.lsn)}
  <2>1. /\ LaunchQueuedTasks(LoadedQueue(part, future), << >>)
        /\ visible' = part.meta.lsn
        /\ advertised' = IF visible' > advertised THEN visible' ELSE advertised
        /\ lastLsn' = part.meta.lsn /\ diskLsn' = part.meta.lsn /\ gcCutoff' = part.meta.cutoff
        /\ layerMap' = part.files \ future
    BY <1>4 DEF LoadTimeline
  <2>2. LoadedQueue(part, future) \in Queues /\ future \in SUBSET Objects
    BY <1>0, LoadedType
  <2>3. part.meta.lsn \in Lsns /\ part.meta.cutoff \in Lsns /\ part.files \subseteq Objects
    BY <1>0, LatestFields
  <2>. HIDE DEF part, future
  <2>4. ClientType'
    BY <1>0, <2>1, <2>2, LaunchType, EmptySeq
  <2>. QED  BY <1>0, <1>4, <2>1, <2>3, <2>4 DEF LoadTimeline, storageVars, flowVars, TypeInv,
            StorageType, TimelineType, FlowType
<1>5. CASE ResumeDeletion
  <2>1. Initialized(LatestIndex.files, LatestIndex.meta) \in Queues
    BY <1>0, LatestFields, InitializedFields DEF Fields
  <2>2. uq' \in Queues
    BY <1>5, <2>1, ScheduleTypes DEF ResumeDeletion
  <2>. QED  BY <1>0, <1>5, <2>2 DEF ResumeDeletion, lsnVars, storageVars, timelineVars, TypeInv, ClientType,
            StorageType, TimelineType, FlowType
<1>6. CASE UNCHANGED vars
  BY <1>0, <1>6 DEF vars, queueVars, lsnVars, storageVars, timelineVars, flowVars, TypeInv, ClientType,
     StorageType, TimelineType, FlowType
<1>. QED  BY <1>1, <1>2, <1>3, <1>4, <1>5, <1>6, TaskStepType, TimelineStepType, ShutdownStepType DEF Next

\* The types imply those that the runs check.
LEMMA TypeInvImplies == TypeInv => TypeOK
<1>. SUFFICES ASSUME TypeInv PROVE TypeOK
  OBVIOUS
<1>1. /\ uq.state \in {"Uninitialized", "Initialized", "Stopped"} /\ uq.files \subseteq Objects
      /\ uq.changes \in BOOLEAN /\ uq.shuttingDown \in BOOLEAN
      /\ uq.meta \in [lsn : Lsns, cutoff : Lsns]
  BY QueueType DEF TypeInv, ClientType, Metas
<1>2. \A i \in DOMAIN uq.queued : uq.queued[i].objs \subseteq Objects
  <2>1. uq.queued \in Seq(Ops) /\ DOMAIN uq.queued = 1 .. Len(uq.queued)
    BY QueueType, LenProperties DEF TypeInv, ClientType
  <2>. QED  BY <2>1, OpFields
<1>3. \A i \in TaskIds : /\ tasks[i].op.objs \subseteq Objects
                         /\ tasks[i].phase \in {"run", "done", "publish"}
                         /\ tasks[i].joiner \in {"none", "tenant", "deletion"}
  BY TaskFields DEF TypeInv, ClientType, TaskIds
<1>4. \A g \in DOMAIN index : /\ index[g].files \subseteq Objects
                              /\ index[g].meta \in [lsn : Lsns, cutoff : Lsns]
  BY DEF TypeInv, StorageType, IndexParts, Metas
<1>5. /\ store \subseteq Objects /\ deletions \subseteq Objects /\ DOMAIN index \subseteq Gens
      /\ {visible, advertised, lastLsn, diskLsn, gcCutoff, waitLsn} \subseteq Lsns
      /\ pendingLsn \subseteq Lsns /\ layerMap \subseteq Objects /\ dropping \subseteq Objects
      /\ collecting \subseteq Lsns /\ compaction.step \in {"none", "L0", "images", "uploaded"}
      /\ waiter \in {"none", "done", "aborted"}
      /\ tenant \in {"up", "draining", "joining", "down"}
      /\ deletion \in {"no", "joining", "joined", "flagging", "flagged", "listed", "gone"}
      /\ deletedAt \in {"NotRunning", "InProgress", "Successful"}
  BY DEF TypeInv, ClientType, StorageType, TimelineType, FlowType
<1>. QED  BY <1>1, <1>2, <1>3, <1>4, <1>5 DEF TypeOK

\* What the queue, the tasks, the timeline and object storage hold has its
\* type, whoever acts.
THEOREM TimelineTypeCorrect == Spec => []TypeOK
<1>1. Init => TypeInv
  BY InitType
<1>2. TypeInv /\ [Next]_vars => TypeInv'
  BY NextType
<1>3. TypeInv => TypeOK
  BY TypeInvImplies
<1>. QED  BY <1>1, <1>2, <1>3, PTL DEF Spec

-----------------------------------------------------------------------------
(***************************************************************************)
(* The invariant of the queue.  Between what is in progress, in any order, *)
(* and what is queued, in the order of the queue, an object is uploaded    *)
(* before an index names it, and is not named any more before it is        *)
(* deleted.                                                                *)
(***************************************************************************)

\* The tasks of a type that are in progress, and those on an object.
Running(ts, type) == {i \in Active(ts) : ts[i].op.type = type}
RunningOn(ts, type, o) == {i \in Running(ts, type) : o \in ts[i].op.objs}

\* The k-th operation is of a type, and on an object.
OnObject(queued, k, type, o) == queued[k].type = type /\ o \in queued[k].objs

\* The object is in object storage, or will be when the tasks are done, and
\* nobody is about to delete it.
PresentNow(ts, f) ==
    /\ f \in store \/ RunningOn(ts, "layer", f) # {}
    /\ f \notin deletions /\ RunningOn(ts, "delete", f) = {}

\* ... and will be when the operations before the j-th are done.
Present(queued, ts, f, j) ==
    \/ \E k \in 1 .. j - 1 : /\ OnObject(queued, k, "layer", f)
                             /\ \A m \in k + 1 .. j - 1 : ~OnObject(queued, m, "delete", f)
    \/ /\ PresentNow(ts, f)
       /\ \A m \in 1 .. j - 1 : ~OnObject(queued, m, "delete", f)

\* The newest index does not name the object, or will not when the one that
\* is being uploaded is.
AbsentNow(ts, o) ==
    /\ RunningOn(ts, "index", o) = {}
    /\ Running(ts, "index") = {} => o \notin LatestIndex.files

\* ... and will not when the operations before the j-th are done.
Absent(queued, ts, o, j) ==
    \/ \E m \in 1 .. j - 1 : /\ queued[m].type = "index" /\ o \notin queued[m].objs
                             /\ \A k \in m + 1 .. j - 1 : ~OnObject(queued, k, "index", o)
    \/ /\ AbsentNow(ts, o)
       /\ \A k \in 1 .. j - 1 : ~OnObject(queued, k, "index", o)

\* A deletion of the object is pending that an upload scheduled now would
\* not wait for.  Without generations the key of a layer is used again; the
\* barrier of load_layer_map is what such an upload waits for.
Doomed(queued, ts, o) ==
    \/ \E m \in 1 .. Len(queued) :
          /\ OnObject(queued, m, "delete", o)
          /\ Legacy => \A b \in m + 1 .. Len(queued) : queued[b].type # "barrier"
    \/ /\ RunningOn(ts, "delete", o) # {}
       /\ Legacy => \A b \in 1 .. Len(queued) : queued[b].type # "barrier"

\* The level 0 layers of a set do not overlap and are newer than those of
\* level 1; no two have the same name.
WellFormed(S) ==
    \A o, p \in S :
        /\ o.name = p.name => o = p
        /\ o.name.kind = "L0" /\ p.name.kind = "L0" /\ o # p =>
              o.name.hi < p.name.lo \/ p.name.hi < o.name.lo
        /\ o.name.kind = "L0" /\ p.name.kind = "L1" => p.name.hi < o.name.lo
        /\ o.name.kind # "image" => o.name.lo <= o.name.hi
        /\ o.name.kind = "image" => o.name.lo = o.name.hi

\* Objects of the current generation or of earlier ones.
Known(S) == \A o \in S : o.gen <= KeyGen

OpOK(op) == Known(op.objs) /\ (op.type = "index" => WellFormed(op.objs))

\* The tasks in progress.
TaskKinds(ts) ==
    /\ \A i \in 1 .. Len(ts) : ts[i].op.type \in {"layer", "index", "delete"} /\ OpOK(ts[i].op)
    /\ \A i \in 1 .. Len(ts) : ts[i].phase = "publish" =>
          ts[i].op.type = "index" /\ ~Legacy /\ ts[i].op.meta.lsn <= LatestIndex.meta.lsn
    /\ Len(ts) > 0 => HasIndex /\ ~LatestIndex.deleted

\* An index is uploaded beside uploads of layers only; no layer is uploaded
\* and deleted at the same time.
Exclusive(ts) ==
    /\ \A i \in Running(ts, "index") : \A j \in Active(ts) : i # j => ts[j].op.type = "layer"
    /\ \A o \in Objects : RunningOn(ts, "layer", o) # {} => RunningOn(ts, "delete", o) = {}

\* What the tasks have done and may do to object storage.
Effects(ts) ==
    /\ \A i \in Running(ts, "layer") :
          /\ ts[i].op.objs \cap deletions = {}
          /\ ts[i].phase = "done" => ts[i].op.objs \subseteq store
    /\ \A i \in Running(ts, "index") :
          /\ ts[i].op.objs \subseteq store \ deletions
          /\ LatestIndex.meta.lsn <= ts[i].op.meta.lsn
          /\ ts[i].phase = "done" =>
                LatestIndex.files = ts[i].op.objs /\ LatestIndex.meta = ts[i].op.meta
    /\ \A i \in Running(ts, "delete") : ts[i].op.objs \cap LatestIndex.files = {}

RunInv(ts) == TaskKinds(ts) /\ Exclusive(ts) /\ Effects(ts)

\* The order of the queue.
UploadedFirst(queued, ts) ==
    \A j \in 1 .. Len(queued) : queued[j].type = "index" =>
        \A f \in queued[j].objs : Present(queued, ts, f, j)

UnlinkedFirst(queued, ts) ==
    \A j \in 1 .. Len(queued) : queued[j].type = "delete" =>
        \A o \in queued[j].objs : Absent(queued, ts, o, j)

NotDoomed(queued, ts) ==
    /\ \A j \in 1 .. Len(queued) : queued[j].type = "layer" => queued[j].objs \cap deletions = {}
    /\ \A m, k \in 1 .. Len(queued) : \A o \in Objects :
          m < k /\ OnObject(queued, m, "delete", o) /\ OnObject(queued, k, "layer", o) =>
             Legacy /\ \E b \in m + 1 .. k - 1 : queued[b].type = "barrier"
    /\ \A k \in 1 .. Len(queued) : \A o \in Objects :
          RunningOn(ts, "delete", o) # {} /\ OnObject(queued, k, "layer", o) =>
             Legacy /\ \E b \in 1 .. k - 1 : queued[b].type = "barrier"

\* The LSNs of the indices do not go down.
LsnOrder(q, ts) ==
    /\ LatestIndex.meta.lsn <= q.meta.lsn
    /\ \A i \in Running(ts, "index") : ts[i].op.meta.lsn <= q.meta.lsn
    /\ \A j \in 1 .. Len(q.queued) : q.queued[j].type = "index" =>
          /\ LatestIndex.meta.lsn <= q.queued[j].meta.lsn
          /\ q.queued[j].meta.lsn <= q.meta.lsn
          /\ \A i \in Running(ts, "index") : ts[i].op.meta.lsn <= q.queued[j].meta.lsn
          /\ \A k \in 1 .. j : q.queued[k].type = "index" => q.queued[k].meta.lsn <= q.queued[j].meta.lsn

\* An index with this LSN, or a higher one, is uploaded before the j-th
\* operation is reached.
Covered(queued, ts, lsn, j) ==
    \/ \E k \in 1 .. j - 1 : queued[k].type = "index" /\ lsn <= queued[k].meta.lsn
    \/ \E i \in Running(ts, "index") : lsn <= ts[i].op.meta.lsn
    \/ lsn <= LatestIndex.meta.lsn

\* Somebody waits for a barrier; the shutdown operation is the last one.
Waits(q, ts, lsn) ==
    /\ \A j \in 1 .. Len(q.queued) : q.queued[j].waited =>
          q.queued[j].type = "barrier" /\ Covered(q.queued, ts, lsn, j)
    /\ \A j \in 1 .. Len(q.queued) : q.queued[j].type = "shutdown" => q.shuttingDown /\ j = Len(q.queued)

FilesPresent(q, ts) == \A f \in q.files : Present(q.queued, ts, f, Len(q.queued) + 1)

\* The queue may be in the middle of a schedule function.
Scheduling(q, ts, lsn) ==
    /\ RunInv(ts)
    /\ \A j \in 1 .. Len(q.queued) : OpOK(q.queued[j])
    /\ UploadedFirst(q.queued, ts) /\ UnlinkedFirst(q.queued, ts) /\ NotDoomed(q.queued, ts)
    /\ LsnOrder(q, ts) /\ Waits(q, ts, lsn) /\ FilesPresent(q, ts)
    /\ HasIndex /\ ~LatestIndex.deleted

\* An index that names the files of the desired state, but for an image
\* whose index upload is not scheduled yet.
Stands(objs, files, changes) ==
    \/ objs = files
    \/ changes /\ \E o \in files : o.name.kind = "image" /\ objs = files \ {o}

\* The last index that is scheduled, or uploaded, stands for the desired one.
Desired(q, ts) ==
    \/ \E m \in 1 .. Len(q.queued) :
          /\ q.queued[m].type = "index" /\ Stands(q.queued[m].objs, q.files, q.changes) /\ q.queued[m].meta = q.meta
          /\ \A k \in m + 1 .. Len(q.queued) : q.queued[k].type # "index"
    \/ /\ \A k \in 1 .. Len(q.queued) : q.queued[k].type # "index"
       /\ \E i \in Running(ts, "index") : Stands(ts[i].op.objs, q.files, q.changes) /\ ts[i].op.meta = q.meta
    \/ /\ \A k \in 1 .. Len(q.queued) : q.queued[k].type # "index"
       /\ Running(ts, "index") = {}
       /\ Stands(LatestIndex.files, q.files, q.changes) /\ LatestIndex.meta = q.meta

QueueInv(q, ts, lsn) == Scheduling(q, ts, lsn) /\ Desired(q, ts)

-----------------------------------------------------------------------------
(***************************************************************************)
(* The invariant of the timeline.                                          *)
(***************************************************************************)

\* The deletion of the timeline does not meet a shutdown of its tenant, and
\* there is one index: otherwise shutdown_tasks may leave a task behind, and
\* delete_all may delete the index with the deleted flag before another.
DeletionIsAlone ==
    "deletion" \in Activities => "tenant" \notin Activities /\ (Legacy \/ MaxGen = 1)

\* The client.  Once it may shut down nothing is in progress.
ClientInv ==
    /\ uq.changes => compaction.step = "uploaded"
    /\ WellFormed(uq.files) /\ Known(uq.files)
    /\ RunInv(tasks)
    /\ uq.state = "Initialized" => QueueInv(uq, tasks, waitLsn)
    /\ uq.state # "Initialized" => uq.queued = << >> /\ uq.changes = FALSE
    /\ uq.state = "Uninitialized" => tasks = << >> /\ compaction.step = "none" /\ dropping = {}
    /\ uq.shuttingDown \/ shutdownReady => "tenant" \in Activities

DrainInv ==
    shutdownReady =>
        /\ Active(tasks) = {} /\ uq.state # "Uninitialized"
        /\ uq.state = "Initialized" =>
              uq.shuttingDown /\ \A k \in 1 .. Len(uq.queued) : uq.queued[k].type # "index"
        /\ Stands(LatestIndex.files, uq.files, compaction.step = "uploaded")
        /\ LatestIndex.meta = uq.meta

\* The newest index, unless the timeline is deleted.
DurableInv ==
    ~LatestIndex.deleted =>
        /\ LatestIndex.files \subseteq store \ deletions
        /\ advertised <= LatestIndex.meta.lsn
        /\ \A l \in pendingLsn : l <= LatestIndex.meta.lsn
        /\ waiter = "done" => waitLsn <= LatestIndex.meta.lsn

\* Deletion of the timeline.
DeleteInv ==
    /\ "tenant" \notin Activities => tenant = "up" /\ \A i \in TaskIds : tasks[i].joiner # "tenant"
    /\ "deletion" \notin Activities => deletion = "no" /\ ~LatestIndex.deleted
    /\ deletion # "no" => uq.state = "Stopped"
    /\ deletion \notin {"no", "joining"} => tasks = << >>
    /\ \/ deletion \in {"flagged", "listed", "gone"} \/ deletedAt = "Successful" \/ deleteAcked
       => LatestIndex.deleted

\* Keys: nothing is of a later generation, and nothing of the generation of
\* an attachment that has not begun.
GenInv ==
    /\ DOMAIN index \subseteq IF Legacy THEN {0} ELSE 1 .. gen
    /\ Legacy => deletions = {}
    /\ \A g \in DOMAIN index : Known(index[g].files) /\ WellFormed(index[g].files)
    /\ Known(deletions)
    /\ uq.state = "Uninitialized" /\ ~Legacy =>
          /\ \A g \in DOMAIN index : g < gen /\ \A o \in index[g].files : o.gen < gen
          /\ \A o \in deletions : o.gen < gen

\* Objects that are deleted, or will be.
Spent(o) == o \in dropping \/ o \in deletions \/ Doomed(uq.queued, tasks, o)

\* Images that are not in the index yet.
NewImages == IF compaction.step = "images" THEN compaction.layers ELSE {}

\* A name that is used again is never that of an object that is spent: new
\* level 0 layers are above disk_consistent_lsn, level 1 layers come from
\* level 0, and images are newer than those there are.
Fresh ==
    \A o \in Objects : Spent(o) /\ o.gen = KeyGen =>
        /\ o.name.kind # "image" => o.name.hi <= diskLsn
        /\ o.name.kind = "L1" => \A p \in layerMap : p.name.kind = "L0" => o.name.hi < p.name.lo
        /\ o.name.kind = "image" =>
              \E p \in layerMap : p.name.kind = "image" /\ o.name.hi <= p.name.hi

\* The layer map, and what compaction is about to do to it.
MapInv ==
    /\ uq.files = layerMap \ NewImages
    /\ WellFormed(layerMap) /\ Known(layerMap)
    /\ uq.meta.lsn = diskLsn
    /\ \A o \in layerMap : o.name.kind # "image" => o.name.hi <= diskLsn
    /\ dropping \cap layerMap = {} /\ Known(dropping)

CompactionInv ==
    /\ compaction.step = "images" => \E o \in layerMap :
          /\ compaction.layers = {o} /\ o.name.kind = "image"
          /\ \A p \in layerMap : p.name.kind = "image" => p.name.hi <= o.name.hi
          /\ ~Spent(o)
    /\ compaction.step = "L0" =>
          /\ compaction.layers \subseteq layerMap
          /\ \A o \in compaction.layers : o.name.kind = "L0"
          /\ \A o \in compaction.layers : \A p \in layerMap \ compaction.layers :
                p.name.kind = "L0" => o.name.hi < p.name.lo

TimelineInv == uq.state = "Initialized" => MapInv /\ CompactionInv /\ Fresh

IInv ==
    /\ TypeInv
    /\ ClientInv /\ DrainInv /\ DurableInv /\ DeleteInv /\ GenInv /\ TimelineInv

-----------------------------------------------------------------------------
(***************************************************************************)
(* An operation is appended to the queue.                                  *)
(***************************************************************************)

\* Only the operations before the j-th count.
LEMMA SameBefore ==
  ASSUME NEW s \in Seq(Ops), NEW t \in Seq(Ops), NEW ts \in Seq(Tasks), NEW j \in Nat,
         \A k \in 1 .. j - 1 : t[k] = s[k], NEW o, NEW lsn
  PROVE  /\ Present(t, ts, o, j) <=> Present(s, ts, o, j)
         /\ Absent(t, ts, o, j) <=> Absent(s, ts, o, j)
         /\ Covered(t, ts, lsn, j) <=> Covered(s, ts, lsn, j)
<1>0. \A k \in 1 .. j - 1 : \A m \in k + 1 .. j - 1 : m \in 1 .. j - 1
  OBVIOUS
<1>1. \A k \in 1 .. j - 1 : \A type : OnObject(t, k, type, o) <=> OnObject(s, k, type, o)
  BY DEF OnObject
<1>2. Present(t, ts, o, j) <=> Present(s, ts, o, j)
  BY <1>0, <1>1 DEF Present
<1>3. Absent(t, ts, o, j) <=> Absent(s, ts, o, j)
  BY <1>0, <1>1 DEF Absent
<1>4. Covered(t, ts, lsn, j) <=> Covered(s, ts, lsn, j)
  BY DEF Covered
<1>. QED  BY <1>2, <1>3, <1>4

\* The last operation is one step later.
LEMMA PresentAfter ==
  ASSUME NEW s \in Seq(Ops), NEW e \in Ops, NEW ts \in Seq(Tasks), NEW f
  PROVE  LET t == Append(s, e)
         IN /\ Present(s, ts, f, Len(s) + 1) /\ ~(e.type = "delete" /\ f \in e.objs)
                  => Present(t, ts, f, Len(t) + 1)
            /\ e.type = "layer" /\ f \in e.objs => Present(t, ts, f, Len(t) + 1)
<1>. DEFINE t == Append(s, e)
            n == Len(s)
<1>1. n \in Nat /\ Len(t) = n + 1 /\ t[n + 1] = e /\ \A k \in 1 .. n : t[k] = s[k]
  BY AppendOps, LenProperties
<1>2. (n + 1) - 1 = n /\ (n + 1 + 1) - 1 = n + 1 /\ \A k \in 1 .. n + 1 : k \in 1 .. n \/ k = n + 1
  BY <1>1
<1>. HIDE DEF t, n
<1>3. \A k \in 1 .. n : \A type : OnObject(t, k, type, f) <=> OnObject(s, k, type, f)
  BY <1>1 DEF OnObject
<1>4. ASSUME Present(s, ts, f, n + 1), ~(e.type = "delete" /\ f \in e.objs)
      PROVE  Present(t, ts, f, n + 1 + 1)
  <2>0. ~OnObject(t, n + 1, "delete", f)
    BY <1>1, <1>4 DEF OnObject
  <2>1. CASE \E k \in 1 .. n : /\ OnObject(s, k, "layer", f)
                               /\ \A m \in k + 1 .. n : ~OnObject(s, m, "delete", f)
    <3>1. PICK k \in 1 .. n : /\ OnObject(s, k, "layer", f)
                              /\ \A m \in k + 1 .. n : ~OnObject(s, m, "delete", f)
      BY <2>1
    <3>2. k \in 1 .. n + 1 /\ OnObject(t, k, "layer", f)
      BY <1>1, <1>3, <3>1
    <3>3. ASSUME NEW m \in k + 1 .. n + 1 PROVE ~OnObject(t, m, "delete", f)
      <4>1. m = n + 1 \/ (m \in k + 1 .. n /\ m \in 1 .. n)
        BY <1>1
      <4>. QED  BY <1>3, <2>0, <3>1, <4>1
    <3>. QED  BY <1>2, <3>2, <3>3 DEF Present
  <2>2. CASE PresentNow(ts, f) /\ \A m \in 1 .. n : ~OnObject(s, m, "delete", f)
    <3>1. \A m \in 1 .. n + 1 : ~OnObject(t, m, "delete", f)
      BY <1>2, <1>3, <2>0, <2>2
    <3>. QED  BY <1>2, <2>2, <3>1 DEF Present
  <2>. QED  BY <1>2, <1>4, <2>1, <2>2 DEF Present
<1>5. ASSUME e.type = "layer", f \in e.objs PROVE Present(t, ts, f, n + 1 + 1)
  <2>1. OnObject(t, n + 1, "layer", f) /\ n + 1 \in 1 .. n + 1 /\ \A m \in n + 1 + 1 .. n + 1 : FALSE
    BY <1>1, <1>5 DEF OnObject
  <2>. QED  BY <1>2, <2>1 DEF Present
<1>. QED  BY <1>1, <1>4, <1>5 DEF n, t

\* What is appended finds the order as it needs it.
Appendable(q, ts, lsn, e) ==
    /\ OpOK(e)
    /\ e.type = "index" => /\ \A f \in e.objs : Present(q.queued, ts, f, Len(q.queued) + 1)
                           /\ e.meta.lsn = q.meta.lsn
    /\ e.type = "delete" => \A o \in e.objs : Absent(q.queued, ts, o, Len(q.queued) + 1)
    /\ e.type = "layer" => /\ e.objs \cap deletions = {}
                           /\ \A o \in e.objs : ~Doomed(q.queued, ts, o)
    /\ e.waited => e.type = "barrier" /\ Covered(q.queued, ts, lsn, Len(q.queued) + 1)
    /\ ~q.shuttingDown

LEMMA AppendOrder ==
  ASSUME NEW q \in Queues, NEW ts \in Seq(Tasks), NEW lsn, NEW e \in Ops,
         UploadedFirst(q.queued, ts), UnlinkedFirst(q.queued, ts), NotDoomed(q.queued, ts),
         \A j \in 1 .. Len(q.queued) : OpOK(q.queued[j]),
         Appendable(q, ts, lsn, e)
  PROVE  LET t == Append(q.queued, e)
         IN /\ UploadedFirst(t, ts) /\ UnlinkedFirst(t, ts) /\ NotDoomed(t, ts)
            /\ \A j \in 1 .. Len(t) : OpOK(t[j])
<1>. DEFINE s == q.queued
            t == Append(s, e)
            n == Len(s)
<1>0. s \in Seq(Ops)
  BY QueueType
<1>1. n \in Nat /\ Len(t) = n + 1 /\ t[n + 1] = e /\ (\A k \in 1 .. n : t[k] = s[k]) /\ t \in Seq(Ops)
  BY <1>0, AppendOps, LenProperties
<1>2. \A k \in 1 .. n + 1 : k \in 1 .. n \/ k = n + 1
  BY <1>1
<1>. HIDE DEF s, t, n
<1>3. \A j \in 1 .. n + 1 : \A k \in 1 .. j - 1 : t[k] = s[k]
  BY <1>1
<1>4. \A j \in 1 .. n + 1 : \A o : /\ Present(t, ts, o, j) <=> Present(s, ts, o, j)
                                   /\ Absent(t, ts, o, j) <=> Absent(s, ts, o, j)
  <2>. TAKE j \in 1 .. n + 1
  <2>1. j \in Nat
    BY <1>1
  <2>. QED  BY <1>0, <1>1, <1>3, <2>1, SameBefore
<1>5. UploadedFirst(t, ts)
  <2>1. ASSUME NEW j \in 1 .. n + 1, t[j].type = "index", NEW f \in t[j].objs PROVE Present(t, ts, f, j)
    <3>1. CASE j \in 1 .. n
      BY <1>1, <1>4, <2>1, <3>1 DEF UploadedFirst, s, n
    <3>2. CASE j = n + 1
      BY <1>1, <1>4, <2>1, <3>2 DEF Appendable, s, n
    <3>. QED  BY <1>2, <3>1, <3>2
  <2>. QED  BY <1>1, <2>1 DEF UploadedFirst
<1>6. UnlinkedFirst(t, ts)
  <2>1. ASSUME NEW j \in 1 .. n + 1, t[j].type = "delete", NEW f \in t[j].objs PROVE Absent(t, ts, f, j)
    <3>1. CASE j \in 1 .. n
      BY <1>1, <1>4, <2>1, <3>1 DEF UnlinkedFirst, s, n
    <3>2. CASE j = n + 1
      BY <1>1, <1>4, <2>1, <3>2 DEF Appendable, s, n
    <3>. QED  BY <1>2, <3>1, <3>2
  <2>. QED  BY <1>1, <2>1 DEF UnlinkedFirst
<1>7. \A k \in 1 .. n : \A type : \A o : OnObject(t, k, type, o) <=> OnObject(s, k, type, o)
  BY <1>1 DEF OnObject
<1>8. NotDoomed(t, ts)
  <2>1. ASSUME NEW j \in 1 .. n + 1, t[j].type = "layer" PROVE t[j].objs \cap deletions = {}
    BY <1>1, <1>2, <2>1 DEF NotDoomed, Appendable, s, n
  <2>2. ASSUME NEW m \in 1 .. n + 1, NEW k \in 1 .. n + 1, NEW o \in Objects, m < k,
               OnObject(t, m, "delete", o), OnObject(t, k, "layer", o)
        PROVE  Legacy /\ \E b \in m + 1 .. k - 1 : t[b].type = "barrier"
    <3>1. CASE k \in 1 .. n
      <4>1. m \in 1 .. n /\ \A b \in m + 1 .. k - 1 : b \in 1 .. n
        BY <1>1, <2>2, <3>1
      <4>2. OnObject(s, m, "delete", o) /\ OnObject(s, k, "layer", o)
        BY <1>7, <2>2, <3>1, <4>1
      <4>3. Legacy /\ \E b \in m + 1 .. k - 1 : s[b].type = "barrier"
        BY <2>2, <3>1, <4>1, <4>2 DEF NotDoomed, s, n
      <4>. QED  BY <1>1, <4>1, <4>3
    <3>2. CASE k = n + 1
      <4>1. m \in 1 .. n /\ \A b \in m + 1 .. n : b \in 1 .. n /\ b \in m + 1 .. k - 1
        BY <1>1, <2>2, <3>2
      <4>2. OnObject(s, m, "delete", o) /\ e.type = "layer" /\ o \in e.objs
        BY <1>1, <1>7, <2>2, <3>2, <4>1 DEF OnObject
      <4>3. ~Doomed(s, ts, o)
        BY <4>2 DEF Appendable, s
      <4>4. Legacy /\ \E b \in m + 1 .. n : s[b].type = "barrier"
        BY <4>1, <4>2, <4>3 DEF Doomed, n
      <4>. QED  BY <1>1, <4>1, <4>4
    <3>. QED  BY <1>2, <3>1, <3>2
  <2>3. ASSUME NEW k \in 1 .. n + 1, NEW o \in Objects,
               RunningOn(ts, "delete", o) # {}, OnObject(t, k, "layer", o)
        PROVE  Legacy /\ \E b \in 1 .. k - 1 : t[b].type = "barrier"
    <3>1. CASE k \in 1 .. n
      <4>1. \A b \in 1 .. k - 1 : b \in 1 .. n
        BY <1>1, <3>1
      <4>2. Legacy /\ \E b \in 1 .. k - 1 : s[b].type = "barrier"
        BY <1>7, <2>3, <3>1 DEF NotDoomed, s, n
      <4>. QED  BY <1>1, <4>1, <4>2
    <3>2. CASE k = n + 1
      <4>1. e.type = "layer" /\ o \in e.objs
        BY <1>1, <2>3, <3>2 DEF OnObject
      <4>2. ~Doomed(s, ts, o)
        BY <4>1 DEF Appendable, s
      <4>3. Legacy /\ \E b \in 1 .. n : s[b].type = "barrier"
        BY <2>3, <4>2 DEF Doomed, n
      <4>4. k - 1 = n
        BY <1>1, <3>2
      <4>. QED  BY <1>1, <4>3, <4>4
    <3>. QED  BY <1>2, <3>1, <3>2
  <2>. QED  BY <1>1, <2>1, <2>2, <2>3 DEF NotDoomed
<1>9. \A j \in 1 .. Len(t) : OpOK(t[j])
  BY <1>1, <1>2 DEF Appendable, s, n
<1>. QED  BY <1>5, <1>6, <1>8, <1>9 DEF s, t

\* The queue r is q with e appended; the files and the metadata of r are
\* its own.
LEMMA AppendScheduling ==
  ASSUME NEW q \in Queues, NEW r \in Queues, NEW ts \in Seq(Tasks), NEW lsn \in Lsns, NEW e \in Ops,
         StorageType,
         Scheduling(q, ts, lsn), Appendable(q, ts, lsn, e),
         r.queued = Append(q.queued, e), r.meta = q.meta,
         e.type = "shutdown" => r.shuttingDown,
         \A f \in r.files : Present(r.queued, ts, f, Len(r.queued) + 1)
  PROVE  Scheduling(r, ts, lsn)
<1>. DEFINE s == q.queued
            t == r.queued
            n == Len(s)
<1>0. s \in Seq(Ops)
  BY QueueType
<1>1. n \in Nat /\ Len(t) = n + 1 /\ t[n + 1] = e /\ (\A k \in 1 .. n : t[k] = s[k]) /\ t \in Seq(Ops)
  BY <1>0, AppendOps, LenProperties
<1>2. \A k \in 1 .. n + 1 : k \in 1 .. n \/ k = n + 1
  BY <1>1
<1>3. UploadedFirst(t, ts) /\ UnlinkedFirst(t, ts) /\ NotDoomed(t, ts) /\ \A j \in 1 .. Len(t) : OpOK(t[j])
  BY AppendOrder DEF Scheduling
<1>4. FilesPresent(r, ts)
  BY DEF FilesPresent
<1>. HIDE DEF n
<1>5. LsnOrder(r, ts)
  <2>0. LsnOrder(q, ts)
    BY DEF Scheduling
  <2>1. ASSUME NEW j \in 1 .. n + 1, t[j].type = "index"
        PROVE  /\ LatestIndex.meta.lsn <= t[j].meta.lsn
               /\ t[j].meta.lsn <= q.meta.lsn
               /\ \A i \in Running(ts, "index") : ts[i].op.meta.lsn <= t[j].meta.lsn
               /\ \A k \in 1 .. j : t[k].type = "index" => t[k].meta.lsn <= t[j].meta.lsn
    <3>1. CASE j \in 1 .. n
      <4>1. \A k \in 1 .. j : k \in 1 .. n
        BY <1>1, <3>1
      <4>. QED  BY <1>1, <2>0, <2>1, <3>1, <4>1 DEF LsnOrder, n
    <3>2. CASE j = n + 1
      <4>1. e.meta.lsn = q.meta.lsn /\ q.meta.lsn \in Nat
        BY <1>1, <2>1, <3>2, QueueType DEF Appendable
      <4>2. \A k \in 1 .. n : s[k].type = "index" => s[k].meta.lsn <= q.meta.lsn
        BY <2>0 DEF LsnOrder, n
      <4>. QED  BY <1>1, <1>2, <2>0, <3>2, <4>1, <4>2 DEF LsnOrder
    <3>. QED  BY <1>2, <3>1, <3>2
  <2>. QED  BY <1>1, <2>0, <2>1 DEF LsnOrder
<1>6. Waits(r, ts, lsn)
  <2>0. Waits(q, ts, lsn) /\ ~q.shuttingDown
    BY DEF Scheduling, Appendable
  <2>1. ASSUME NEW j \in 1 .. n + 1, t[j].waited PROVE t[j].type = "barrier" /\ Covered(t, ts, lsn, j)
    <3>1. j \in Nat /\ \A k \in 1 .. j - 1 : t[k] = s[k]
      BY <1>1
    <3>2. Covered(t, ts, lsn, j) <=> Covered(s, ts, lsn, j)
      BY <1>0, <1>1, <3>1, SameBefore
    <3>3. CASE j \in 1 .. n
      BY <1>1, <2>0, <2>1, <3>2, <3>3 DEF Waits, n
    <3>4. CASE j = n + 1
      BY <1>1, <2>1, <3>2, <3>4 DEF Appendable, n
    <3>. QED  BY <1>2, <3>3, <3>4
  <2>2. ASSUME NEW j \in 1 .. n + 1, t[j].type = "shutdown" PROVE r.shuttingDown /\ j = n + 1
    <3>1. j \notin 1 .. n
      BY <1>1, <2>0, <2>2 DEF Waits, n
    <3>. QED  BY <1>1, <1>2, <2>2, <3>1
  <2>. QED  BY <1>1, <2>1, <2>2 DEF Waits
<1>. QED  BY <1>3, <1>4, <1>5, <1>6 DEF Scheduling

\* No other object is doomed than those that the operation deletes.
LEMMA AppendDoomed ==
  ASSUME NEW s \in Seq(Ops), NEW e \in Ops, NEW ts \in Seq(Tasks), NEW o, Doomed(Append(s, e), ts, o)
  PROVE  Doomed(s, ts, o) \/ (e.type = "delete" /\ o \in e.objs)
<1>. DEFINE t == Append(s, e)
            n == Len(s)
<1>1. n \in Nat /\ Len(t) = n + 1 /\ t[n + 1] = e /\ (\A k \in 1 .. n : t[k] = s[k])
  BY AppendOps, LenProperties
<1>2. CASE \E m \in 1 .. n + 1 : /\ OnObject(t, m, "delete", o)
                                 /\ Legacy => \A b \in m + 1 .. n + 1 : t[b].type # "barrier"
  <2>1. PICK m \in 1 .. n + 1 : /\ OnObject(t, m, "delete", o)
                                /\ Legacy => \A b \in m + 1 .. n + 1 : t[b].type # "barrier"
    BY <1>2
  <2>2. CASE m = n + 1
    BY <1>1, <2>1, <2>2 DEF OnObject
  <2>3. CASE m # n + 1
    <3>1. m \in 1 .. n /\ \A b \in m + 1 .. n : b \in m + 1 .. n + 1 /\ b \in 1 .. n
      BY <1>1, <2>3
    <3>2. OnObject(s, m, "delete", o) /\ (Legacy => \A b \in m + 1 .. n : s[b].type # "barrier")
      BY <1>1, <2>1, <3>1 DEF OnObject
    <3>. QED  BY <3>1, <3>2 DEF Doomed
  <2>. QED  BY <2>2, <2>3
<1>3. CASE /\ RunningOn(ts, "delete", o) # {}
           /\ Legacy => \A b \in 1 .. n + 1 : t[b].type # "barrier"
  <2>1. \A b \in 1 .. n : b \in 1 .. n + 1
    BY <1>1
  <2>2. Legacy => \A b \in 1 .. n : s[b].type # "barrier"
    BY <1>1, <1>3, <2>1
  <2>. QED  BY <1>3, <2>2 DEF Doomed
<1>. QED  BY <1>1, <1>2, <1>3 DEF Doomed

\* The last index of a queue whose desired state is scheduled.
LEMMA DesiredIsLast ==
  ASSUME NEW q \in Queues, NEW ts \in Seq(Tasks), Exclusive(ts), Desired(q, ts)
  PROVE  /\ \A o : o \notin q.files => Absent(q.queued, ts, o, Len(q.queued) + 1)
         /\ Covered(q.queued, ts, q.meta.lsn, Len(q.queued) + 1)
<1>. DEFINE s == q.queued
            n == Len(s)
<1>1. n \in Nat /\ (n + 1) - 1 = n /\ q.meta.lsn \in Nat
  BY QueueType, LenProperties
<1>. HIDE DEF n
<1>2. CASE \E m \in 1 .. n :
             /\ s[m].type = "index" /\ Stands(s[m].objs, q.files, q.changes) /\ s[m].meta = q.meta
             /\ \A k \in m + 1 .. n : s[k].type # "index"
  <2>1. PICK m \in 1 .. n :
             /\ s[m].type = "index" /\ Stands(s[m].objs, q.files, q.changes) /\ s[m].meta = q.meta
             /\ \A k \in m + 1 .. n : s[k].type # "index"
    BY <1>2
  <2>2. ASSUME NEW o, o \notin q.files PROVE Absent(s, ts, o, n + 1)
    <3>1. m \in 1 .. (n + 1) - 1 /\ \A k \in m + 1 .. (n + 1) - 1 : ~OnObject(s, k, "index", o)
      BY <1>1, <2>1 DEF OnObject
    <3>2. o \notin s[m].objs
      BY <2>1, <2>2 DEF Stands
    <3>. QED  BY <2>1, <3>1, <3>2 DEF Absent
  <2>3. Covered(s, ts, q.meta.lsn, n + 1)
    <3>1. m \in 1 .. (n + 1) - 1 /\ q.meta.lsn <= s[m].meta.lsn
      BY <1>1, <2>1
    <3>. QED  BY <2>1, <3>1 DEF Covered
  <2>. QED  BY <2>2, <2>3 DEF n
<1>3. CASE /\ \A k \in 1 .. n : s[k].type # "index"
           /\ \E i \in Running(ts, "index") : Stands(ts[i].op.objs, q.files, q.changes) /\ ts[i].op.meta = q.meta
  <2>1. PICK i \in Running(ts, "index") : Stands(ts[i].op.objs, q.files, q.changes) /\ ts[i].op.meta = q.meta
    BY <1>3
  <2>2. \A j \in Running(ts, "index") : j = i
    BY <2>1 DEF Exclusive, Running
  <2>3. ASSUME NEW o, o \notin q.files PROVE Absent(s, ts, o, n + 1)
    <3>0. o \notin ts[i].op.objs
      BY <2>1, <2>3 DEF Stands
    <3>1. AbsentNow(ts, o)
      BY <2>1, <2>2, <3>0 DEF AbsentNow, RunningOn
    <3>. QED  BY <1>1, <1>3, <3>1 DEF Absent, OnObject
  <2>4. Covered(s, ts, q.meta.lsn, n + 1)
    BY <1>1, <2>1 DEF Covered
  <2>. QED  BY <2>3, <2>4 DEF n
<1>4. CASE /\ \A k \in 1 .. n : s[k].type # "index"
           /\ Running(ts, "index") = {}
           /\ Stands(LatestIndex.files, q.files, q.changes) /\ LatestIndex.meta = q.meta
  <2>1. ASSUME NEW o, o \notin q.files PROVE Absent(s, ts, o, n + 1)
    <3>0. o \notin LatestIndex.files
      BY <1>4, <2>1 DEF Stands
    <3>1. AbsentNow(ts, o)
      BY <1>4, <3>0 DEF AbsentNow, RunningOn
    <3>. QED  BY <1>1, <1>4, <3>1 DEF Absent, OnObject
  <2>2. Covered(s, ts, q.meta.lsn, n + 1)
    BY <1>1, <1>4 DEF Covered
  <2>. QED  BY <2>1, <2>2 DEF n
<1>. QED  BY <1>2, <1>3, <1>4 DEF Desired, n

\* An operation that uploads no index leaves it the last one.
LEMMA DesiredAppend ==
  ASSUME NEW q \in Queues, NEW r \in Queues, NEW ts \in Seq(Tasks), NEW e \in Ops,
         Desired(q, ts), r.queued = Append(q.queued, e), e.type # "index",
         \A objs : Stands(objs, q.files, q.changes) => Stands(objs, r.files, r.changes), r.meta = q.meta
  PROVE  Desired(r, ts)
<1>. DEFINE s == q.queued
            t == r.queued
            n == Len(s)
<1>1. n \in Nat /\ Len(t) = n + 1 /\ t[n + 1] = e /\ (\A k \in 1 .. n : t[k] = s[k])
  BY QueueType, AppendOps, LenProperties
<1>2. \A k \in 1 .. n + 1 : k \in 1 .. n \/ k = n + 1
  BY <1>1
<1>3. ASSUME NEW m \in 1 .. n, s[m].type = "index", Stands(s[m].objs, q.files, q.changes), s[m].meta = q.meta,
             \A k \in m + 1 .. n : s[k].type # "index"
      PROVE  Desired(r, ts)
  <2>1. m \in 1 .. Len(t) /\ t[m] = s[m]
    BY <1>1
  <2>2. ASSUME NEW k \in m + 1 .. Len(t) PROVE t[k].type # "index"
    <3>1. k = n + 1 \/ (k \in m + 1 .. n /\ k \in 1 .. n)
      BY <1>1
    <3>. QED  BY <1>1, <1>3, <3>1
  <2>. QED  BY <1>3, <2>1, <2>2 DEF Desired
<1>4. (\A k \in 1 .. n : s[k].type # "index") => \A k \in 1 .. Len(t) : t[k].type # "index"
  BY <1>1, <1>2
<1>. QED  BY <1>3, <1>4 DEF Desired

LEMMA ScheduleLayer ==
  ASSUME NEW q \in Queues, NEW ts \in Seq(Tasks), NEW lsn \in Lsns, StorageType,
         Scheduling(q, ts, lsn), ~q.shuttingDown,
         NEW o \in Objects, o \notin deletions, ~Doomed(q.queued, ts, o), o.gen <= KeyGen
  PROVE  Scheduling(ScheduleLayerFileUpload0(q, o), ts, lsn)
<1>. DEFINE r == ScheduleLayerFileUpload0(q, o)
            e == LayerOp(o)
<1>1. /\ r \in Queues /\ r.queued = Append(q.queued, e) /\ r.meta = q.meta
      /\ r.files = {f \in q.files : f.name # o.name} \cup {o}
  BY LayerUploadFields DEF Fields
<1>2. e \in Ops /\ e.type = "layer" /\ e.objs = {o} /\ e.waited = FALSE
  BY OpTypes
<1>. HIDE DEF r, e
<1>3. Appendable(q, ts, lsn, e)
  BY <1>2 DEF Appendable, OpOK, Known
<1>4. \A f \in r.files : Present(r.queued, ts, f, Len(r.queued) + 1)
  <2>. TAKE f \in r.files
  <2>1. q.queued \in Seq(Ops)
    BY QueueType
  <2>2. CASE f = o
    BY <1>1, <1>2, <2>1, <2>2, PresentAfter
  <2>3. CASE f \in q.files
    <3>1. Present(q.queued, ts, f, Len(q.queued) + 1)
      BY <2>3 DEF Scheduling, FilesPresent
    <3>. QED  BY <1>1, <1>2, <2>1, <3>1, PresentAfter
  <2>. QED  BY <1>1, <2>2, <2>3
<1>. QED  BY <1>1, <1>2, <1>3, <1>4, AppendScheduling DEF r

LEMMA ScheduleIndex ==
  ASSUME NEW q \in Queues, NEW ts \in Seq(Tasks), NEW lsn \in Lsns, StorageType,
         Scheduling(q, ts, lsn), ~q.shuttingDown, WellFormed(q.files), Known(q.files)
  PROVE  QueueInv(ScheduleIndexUpload(q), ts, lsn)
<1>. DEFINE r == ScheduleIndexUpload(q)
            e == IndexOp(q.files, q.meta)
<1>0. q.queued \in Seq(Ops) /\ q.files \in SUBSET Objects /\ q.meta \in Metas
  BY QueueType
<1>1. r \in Queues /\ r.queued = Append(q.queued, e) /\ r.meta = q.meta /\ r.files = q.files
  BY IndexUploadFields DEF Fields
<1>2. e \in Ops /\ e.type = "index" /\ e.objs = q.files /\ e.meta = q.meta /\ e.waited = FALSE
  BY <1>0, OpTypes
<1>. HIDE DEF r, e
<1>3. Appendable(q, ts, lsn, e)
  BY <1>2 DEF Appendable, OpOK, Scheduling, FilesPresent
<1>4. \A f \in r.files : Present(r.queued, ts, f, Len(r.queued) + 1)
  <2>. TAKE f \in r.files
  <2>1. Present(q.queued, ts, f, Len(q.queued) + 1)
    BY <1>1 DEF Scheduling, FilesPresent
  <2>. QED  BY <1>0, <1>1, <1>2, <2>1, PresentAfter
<1>5. Scheduling(r, ts, lsn)
  BY <1>1, <1>2, <1>3, <1>4, AppendScheduling
<1>6. Desired(r, ts)
  <2>1. Len(r.queued) = Len(q.queued) + 1 /\ r.queued[Len(q.queued) + 1] = e /\ Len(q.queued) \in Nat
    BY <1>0, <1>1, <1>2, AppendOps, LenProperties
  <2>2. Len(q.queued) + 1 \in 1 .. Len(r.queued) /\ \A k \in Len(q.queued) + 1 + 1 .. Len(r.queued) : FALSE
    BY <2>1
  <2>3. Stands(e.objs, r.files, r.changes)
    BY <1>1, <1>2 DEF Stands
  <2>. QED  BY <1>1, <1>2, <2>1, <2>2, <2>3 DEF Desired
<1>. QED  BY <1>5, <1>6 DEF QueueInv, r

\* Another state becomes the desired one: layers less, or a higher LSN.
LEMMA ScheduleFields ==
  ASSUME NEW q \in Queues, NEW r \in Queues, NEW ts \in Seq(Tasks), NEW lsn \in Lsns, StorageType,
         Scheduling(q, ts, lsn),
         r.queued = q.queued, r.files \subseteq q.files, q.meta.lsn <= r.meta.lsn,
         r.shuttingDown = q.shuttingDown
  PROVE  Scheduling(r, ts, lsn)
<1>1. FilesPresent(r, ts)
  BY DEF Scheduling, FilesPresent
<1>2. LsnOrder(r, ts)
  <2>0. q.meta.lsn \in Nat /\ r.meta.lsn \in Nat /\ LatestIndex.meta.lsn \in Nat /\ q.queued \in Seq(Ops)
    BY QueueType, LatestFields
  <2>1. \A i \in Running(ts, "index") : ts[i].op.meta.lsn \in Nat
    BY TaskFields DEF Running, Active
  <2>2. \A j \in 1 .. Len(q.queued) : q.queued[j].meta.lsn \in Nat
    BY <2>0, OpFields
  <2>3. LsnOrder(q, ts)
    BY DEF Scheduling
  <2>4. LatestIndex.meta.lsn <= r.meta.lsn
    BY <2>0, <2>3 DEF LsnOrder
  <2>5. \A i \in Running(ts, "index") : ts[i].op.meta.lsn <= r.meta.lsn
    BY <2>0, <2>1, <2>3 DEF LsnOrder
  <2>6. \A j \in 1 .. Len(q.queued) : q.queued[j].type = "index" => q.queued[j].meta.lsn <= r.meta.lsn
    BY <2>0, <2>2, <2>3 DEF LsnOrder
  <2>. QED  BY <2>3, <2>4, <2>5, <2>6 DEF LsnOrder
<1>3. Waits(r, ts, lsn)
  BY DEF Scheduling, Waits
<1>. QED  BY <1>1, <1>2, <1>3 DEF Scheduling

\* An operation that needs nothing is appended.
LEMMA ScheduleOther ==
  ASSUME NEW q \in Queues, NEW r \in Queues, NEW ts \in Seq(Tasks), NEW lsn \in Lsns, NEW e \in Ops, StorageType,
         QueueInv(q, ts, lsn), Appendable(q, ts, lsn, e), e.type \in {"delete", "barrier", "shutdown"},
         e.objs \cap q.files = {}, e.type = "shutdown" => r.shuttingDown,
         r.queued = Append(q.queued, e), r.files = q.files, r.meta = q.meta, r.changes = q.changes
  PROVE  QueueInv(r, ts, lsn)
<1>1. \A f \in r.files : Present(r.queued, ts, f, Len(r.queued) + 1)
  <2>. TAKE f \in r.files
  <2>1. Present(q.queued, ts, f, Len(q.queued) + 1) /\ q.queued \in Seq(Ops)
    BY QueueType DEF QueueInv, Scheduling, FilesPresent
  <2>. QED  BY <2>1, PresentAfter
<1>2. Scheduling(r, ts, lsn)
  BY <1>1, AppendScheduling DEF QueueInv
<1>3. Desired(r, ts)
  BY DesiredAppend DEF QueueInv
<1>. QED  BY <1>2, <1>3 DEF QueueInv

LEMMA ScheduleDelete ==
  ASSUME NEW q \in Queues, NEW ts \in Seq(Tasks), NEW lsn \in Lsns, StorageType,
         QueueInv(q, ts, lsn), ~q.shuttingDown,
         NEW objs \in SUBSET Objects, objs \cap q.files = {}, Known(objs)
  PROVE  QueueInv(ScheduleDeletionOfUnlinked0(q, objs), ts, lsn)
<1>1. CASE objs = {}
  BY <1>1 DEF ScheduleDeletionOfUnlinked0
<1>2. CASE objs # {}
  <2>. DEFINE r == [q EXCEPT !.queued = Append(@, DeleteOp(objs))]
              e == DeleteOp(objs)
  <2>1. /\ r \in Queues /\ r.queued = Append(q.queued, e) /\ r.meta = q.meta /\ r.files = q.files
        /\ r.changes = q.changes
    BY DeletionFields DEF Fields
  <2>2. e \in Ops /\ e.type = "delete" /\ e.objs = objs /\ e.waited = FALSE
    BY OpTypes
  <2>3. ScheduleDeletionOfUnlinked0(q, objs) = r
    BY <1>2 DEF ScheduleDeletionOfUnlinked0
  <2>. HIDE DEF r, e
  <2>4. Appendable(q, ts, lsn, e)
    <3>1. \A o : o \notin q.files => Absent(q.queued, ts, o, Len(q.queued) + 1)
      BY DesiredIsLast DEF QueueInv, Scheduling, RunInv
    <3>. QED  BY <2>2, <3>1 DEF Appendable, OpOK
  <2>. QED  BY <2>1, <2>2, <2>3, <2>4, ScheduleOther
<1>. QED  BY <1>1, <1>2

LEMMA ScheduleBarrier ==
  ASSUME NEW q \in Queues, NEW ts \in Seq(Tasks), NEW lsn \in Lsns, StorageType,
         QueueInv(q, ts, lsn), ~q.shuttingDown, NEW w \in BOOLEAN, w => lsn = q.meta.lsn
  PROVE  QueueInv(ScheduleBarrier0(q, w), ts, lsn)
<1>. DEFINE r == ScheduleBarrier0(q, w)
            e == BarrierOp(w)
<1>1. /\ r \in Queues /\ r.queued = Append(q.queued, e) /\ r.meta = q.meta /\ r.files = q.files
      /\ r.changes = q.changes
  BY BarrierFields DEF Fields
<1>2. e \in Ops /\ e.type = "barrier" /\ e.objs = {} /\ e.waited = w
  BY OpTypes
<1>. HIDE DEF r, e
<1>3. Appendable(q, ts, lsn, e)
  <2>1. Covered(q.queued, ts, q.meta.lsn, Len(q.queued) + 1)
    BY DesiredIsLast DEF QueueInv, Scheduling, RunInv
  <2>. QED  BY <1>2, <2>1 DEF Appendable, OpOK, Known
<1>. QED  BY <1>1, <1>2, <1>3, ScheduleOther DEF r

LEMMA ScheduleShutdownOp ==
  ASSUME NEW q \in Queues, NEW ts \in Seq(Tasks), NEW lsn \in Lsns, StorageType,
         QueueInv(q, ts, lsn), ~q.shuttingDown
  PROVE  QueueInv(ScheduleShutdown(q), ts, lsn)
<1>. DEFINE r == ScheduleShutdown(q)
            e == ShutdownOp
<1>1. /\ r \in Queues /\ r.queued = Append(q.queued, e) /\ r.meta = q.meta /\ r.files = q.files
      /\ r.shuttingDown /\ r.changes = q.changes
  BY ShutdownFields DEF Fields
<1>2. e \in Ops /\ e.type = "shutdown" /\ e.objs = {} /\ e.waited = FALSE
  BY OpTypes
<1>. HIDE DEF r, e
<1>3. Appendable(q, ts, lsn, e)
  BY <1>2 DEF Appendable, OpOK, Known
<1>. QED  BY <1>1, <1>2, <1>3, ScheduleOther DEF r

-----------------------------------------------------------------------------
(***************************************************************************)
(* Operations are taken off the queue, and their tasks launched.           *)
(***************************************************************************)

\* The first n operations of s have left it, b of them barriers; the others
\* run beside the tasks ts.
Moved(s, ts, n, b, t, us) ==
    /\ s \in Seq(Ops) /\ ts \in Seq(Tasks) /\ t \in Seq(Ops) /\ us \in Seq(Tasks)
    /\ Takes(s, ts, n, b)
    /\ Len(t) = Len(s) - n
    /\ \A i \in 1 .. Len(s) - n : t[i] = s[n + i]
    /\ Len(us) = Len(ts) + (n - b)
    /\ \A i \in 1 .. Len(ts) : us[i] = ts[i]
    /\ \A i \in 1 .. n - b : us[Len(ts) + i] = Task(s[b + i])

\* What is taken: barriers, and the operations that follow them.
LEMMA TakenTypes ==
  ASSUME NEW s, NEW ts, NEW n, NEW b, NEW t, NEW us, Moved(s, ts, n, b, t, us)
  PROVE  /\ n \in Nat /\ b \in Nat /\ b <= n /\ n <= Len(s)
         /\ Len(s) \in Nat /\ Len(t) \in Nat /\ Len(ts) \in Nat /\ Len(us) \in Nat
         /\ Len(t) = Len(s) - n
         /\ \A k \in 1 .. n : s[k].type # "barrier" => k \in b + 1 .. n
         /\ \A k \in 1 .. n : s[k].type = "barrier" => k \in 1 .. b /\ Active(ts) = {}
         /\ \A j \in 1 .. Len(t) : n + j \in 1 .. Len(s) /\ t[j] = s[n + j]
         /\ \A k \in n + 1 .. Len(s) : k - n \in 1 .. Len(t) /\ t[k - n] = s[k]
<1>0. s \in Seq(Ops) /\ ts \in Seq(Tasks) /\ t \in Seq(Ops) /\ us \in Seq(Tasks) /\ Takes(s, ts, n, b)
      /\ Len(t) = Len(s) - n /\ \A i \in 1 .. Len(s) - n : t[i] = s[n + i]
  BY DEF Moved
<1>1. Len(s) \in Nat /\ Len(t) \in Nat /\ Len(ts) \in Nat /\ Len(us) \in Nat
  BY <1>0, LenProperties
<1>2. n \in Nat /\ b \in Nat /\ b <= n /\ n <= Len(s)
  BY <1>0, <1>1 DEF Takes
<1>3. \A k \in 1 .. n : k \in b + 1 .. n \/ k \in 1 .. b
  BY <1>2
<1>4. /\ \A i \in 1 .. b : s[i].type = "barrier"
      /\ \A i \in b + 1 .. n : s[i].type \in {"layer", "index", "delete"}
      /\ b > 0 => Active(ts) = {}
  BY <1>0 DEF Takes
<1>5. \A k \in 1 .. b : b > 0
  BY <1>2
<1>6. \A j \in 1 .. Len(t) : n + j \in 1 .. Len(s) /\ t[j] = s[n + j]
  BY <1>0, <1>1, <1>2
<1>7. ASSUME NEW k \in n + 1 .. Len(s) PROVE k - n \in 1 .. Len(t) /\ t[k - n] = s[k]
  <2>1. k - n \in 1 .. Len(s) - n /\ n + (k - n) = k
    BY <1>1, <1>2
  <2>. QED  BY <1>0, <2>1
<1>8. \A k \in 1 .. n : s[k].type # "barrier" => k \in b + 1 .. n
  BY <1>3, <1>4
<1>9. \A k \in 1 .. n : s[k].type = "barrier" => k \in 1 .. b /\ Active(ts) = {}
  BY <1>3, <1>4, <1>5
<1>. QED  BY <1>0, <1>1, <1>2, <1>6, <1>7, <1>8, <1>9

LEMMA MovedTasks ==
  ASSUME NEW s, NEW ts, NEW n, NEW b, NEW t, NEW us, Moved(s, ts, n, b, t, us)
  PROVE  /\ \A i \in Active(ts) : i \in Active(us) /\ us[i] = ts[i]
         /\ \A k \in b + 1 .. n : \E i \in Active(us) : us[i].op = s[k] /\ us[i].phase = "run"
         /\ \A i \in 1 .. Len(us) :
               \/ i \in 1 .. Len(ts) /\ us[i] = ts[i]
               \/ \E k \in b + 1 .. n : i = Len(ts) + (k - b) /\ us[i].op = s[k] /\ us[i].phase = "run"
         /\ \A i \in Active(us) :
               \/ i \in Active(ts) /\ us[i] = ts[i]
               \/ \E k \in b + 1 .. n : i = Len(ts) + (k - b) /\ us[i].op = s[k] /\ us[i].phase = "run"
<1>0. /\ n \in Nat /\ b \in Nat /\ b <= n /\ n <= Len(s) /\ Len(s) \in Nat /\ Len(ts) \in Nat
      /\ s \in Seq(Ops) /\ Len(us) = Len(ts) + (n - b)
      /\ \A i \in 1 .. Len(ts) : us[i] = ts[i]
      /\ \A i \in 1 .. n - b : us[Len(ts) + i] = Task(s[b + i])
  <2>1. n \in Nat /\ b \in Nat /\ b <= n /\ n <= Len(s) /\ Len(s) \in Nat /\ Len(ts) \in Nat
    BY TakenTypes
  <2>. QED  BY <2>1 DEF Moved
<1>1. \A i \in Active(ts) : i \in Active(us) /\ us[i] = ts[i]
  <2>1. \A i \in 1 .. Len(ts) : i \in 1 .. Len(us)
    BY <1>0
  <2>. QED  BY <1>0, <2>1 DEF Active
<1>2. ASSUME NEW k \in b + 1 .. n
      PROVE  /\ Len(ts) + (k - b) \in 1 .. Len(us)
             /\ us[Len(ts) + (k - b)].op = s[k] /\ us[Len(ts) + (k - b)].phase = "run"
  <2>1. k - b \in 1 .. n - b /\ b + (k - b) = k /\ k \in 1 .. Len(s) /\ Len(ts) + (k - b) \in 1 .. Len(us)
    BY <1>0
  <2>2. us[Len(ts) + (k - b)] = Task(s[k]) /\ s[k] \in Ops
    BY <1>0, <2>1, ElementOfSeq
  <2>. QED  BY <2>1, <2>2, TaskType
<1>3. ASSUME NEW k \in b + 1 .. n PROVE \E i \in Active(us) : us[i].op = s[k] /\ us[i].phase = "run"
  BY <1>2 DEF Active
<1>4. ASSUME NEW i \in 1 .. Len(us), i \notin 1 .. Len(ts)
      PROVE  \E k \in b + 1 .. n : i = Len(ts) + (k - b) /\ us[i].op = s[k] /\ us[i].phase = "run"
  <2>1. b + (i - Len(ts)) \in b + 1 .. n /\ i = Len(ts) + ((b + (i - Len(ts))) - b)
    BY <1>0, <1>4
  <2>. QED  BY <1>2, <2>1
<1>5. \A i \in 1 .. Len(us) :
         \/ i \in 1 .. Len(ts) /\ us[i] = ts[i]
         \/ \E k \in b + 1 .. n : i = Len(ts) + (k - b) /\ us[i].op = s[k] /\ us[i].phase = "run"
  BY <1>0, <1>4
<1>6. \A i \in Active(us) :
               \/ i \in Active(ts) /\ us[i] = ts[i]
               \/ \E k \in b + 1 .. n : i = Len(ts) + (k - b) /\ us[i].op = s[k] /\ us[i].phase = "run"
  BY <1>5 DEF Active
<1>. QED  BY <1>1, <1>3, <1>5, <1>6

LEMMA MovedRunning ==
  ASSUME NEW s, NEW ts, NEW n, NEW b, NEW t, NEW us, Moved(s, ts, n, b, t, us), NEW type
  PROVE  /\ Running(us, type) # {} <=>
               Running(ts, type) # {} \/ \E k \in b + 1 .. n : s[k].type = type
         /\ \A i \in Running(ts, type) : i \in Running(us, type) /\ us[i] = ts[i]
         /\ \A k \in b + 1 .. n : s[k].type = type => \E i \in Running(us, type) : us[i].op = s[k]
         /\ \A i \in Running(us, type) : \/ i \in Running(ts, type) /\ us[i] = ts[i]
                                         \/ \E k \in b + 1 .. n : /\ i = Len(ts) + (k - b) /\ us[i].op = s[k]
                                                                  /\ us[i].phase = "run" /\ s[k].type = type
<1>1. /\ \A i \in Active(ts) : i \in Active(us) /\ us[i] = ts[i]
      /\ \A k \in b + 1 .. n : \E i \in Active(us) : us[i].op = s[k] /\ us[i].phase = "run"
      /\ \A i \in Active(us) :
            \/ i \in Active(ts) /\ us[i] = ts[i]
            \/ \E k \in b + 1 .. n : i = Len(ts) + (k - b) /\ us[i].op = s[k] /\ us[i].phase = "run"
  BY MovedTasks
<1>2. \A i \in Running(us, type) : \/ i \in Running(ts, type) /\ us[i] = ts[i]
                                   \/ \E k \in b + 1 .. n : /\ i = Len(ts) + (k - b) /\ us[i].op = s[k]
                                                            /\ us[i].phase = "run" /\ s[k].type = type
  BY <1>1 DEF Running
<1>3. \A i \in Running(ts, type) : i \in Running(us, type) /\ us[i] = ts[i]
  BY <1>1 DEF Running
<1>4. \A k \in b + 1 .. n : s[k].type = type => \E i \in Running(us, type) : us[i].op = s[k]
  BY <1>1 DEF Running
<1>. QED  BY <1>2, <1>3, <1>4

LEMMA MovedOn ==
  ASSUME NEW s, NEW ts, NEW n, NEW b, NEW t, NEW us, Moved(s, ts, n, b, t, us), NEW type, NEW o
  PROVE  RunningOn(us, type, o) # {} <=>
            RunningOn(ts, type, o) # {} \/ \E k \in b + 1 .. n : OnObject(s, k, type, o)
BY MovedRunning DEF RunningOn, OnObject

LEMMA MovedExclusive ==
  ASSUME NEW s, NEW ts, NEW n, NEW b, NEW t, NEW us, Moved(s, ts, n, b, t, us),
         Exclusive(ts), NotDoomed(s, ts)
  PROVE  Exclusive(us)
<1>0. /\ n \in Nat /\ b \in Nat /\ b <= n /\ n <= Len(s) /\ Len(s) \in Nat /\ Len(ts) \in Nat
      /\ \A k \in 1 .. n : s[k].type # "barrier" => k \in b + 1 .. n
      /\ \A k \in 1 .. n : s[k].type = "barrier" => k \in 1 .. b /\ Active(ts) = {}
  BY TakenTypes
<1>1. /\ \A i \in b + 1 .. n : s[i].type \in {"layer", "index", "delete"}
      /\ \A j \in b + 1 .. n : s[j].type = "index" => Active(ts) = {} /\ j = b + 1
      /\ \A j \in b + 1 .. n : s[j].type = "delete" =>
            /\ \A a \in Active(ts) : ts[a].op.type = "delete"
            /\ \A i \in b + 1 .. j : s[i].type = "delete"
  BY DEF Moved, Takes
<1>2. ASSUME NEW i \in Running(us, "index"), NEW j \in Active(us), i # j
      PROVE  us[j].op.type = "layer"
  <2>1. CASE i \in Running(ts, "index")
    <3>1. i \in Active(ts) /\ ts[i].op.type = "index"
      BY <2>1 DEF Running
    <3>2. CASE j \in Active(ts) /\ us[j] = ts[j]
      BY <1>2, <2>1, <3>2 DEF Exclusive
    <3>3. CASE \E k \in b + 1 .. n : us[j].op = s[k]
      BY <1>1, <3>1, <3>3
    <3>. QED  BY <3>2, <3>3, MovedTasks
  <2>2. CASE \E k \in b + 1 .. n : i = Len(ts) + (k - b) /\ s[k].type = "index"
    <3>1. PICK k \in b + 1 .. n : i = Len(ts) + (k - b) /\ s[k].type = "index"
      BY <2>2
    <3>2. PICK m \in b + 1 .. n : j = Len(ts) + (m - b) /\ us[j].op = s[m]
      BY <1>1, <3>1, MovedTasks
    <3>3. k = b + 1 /\ m # k
      BY <1>1, <1>2, <3>1, <3>2
    <3>4. b + 1 \in b + 1 .. m
      BY <1>0, <3>2
    <3>. QED  BY <1>1, <3>1, <3>2, <3>3, <3>4
  <2>. QED  BY <2>1, <2>2, MovedRunning
<1>3. ASSUME NEW o \in Objects, RunningOn(us, "layer", o) # {}, RunningOn(us, "delete", o) # {}
      PROVE  FALSE
  <2>1. /\ RunningOn(ts, "layer", o) # {} \/ \E k \in b + 1 .. n : OnObject(s, k, "layer", o)
        /\ RunningOn(ts, "delete", o) # {} \/ \E k \in b + 1 .. n : OnObject(s, k, "delete", o)
    BY <1>3, MovedOn
  <2>2. CASE RunningOn(ts, "layer", o) # {} /\ RunningOn(ts, "delete", o) # {}
    BY <2>2 DEF Exclusive
  <2>3. CASE RunningOn(ts, "layer", o) # {} /\ \E k \in b + 1 .. n : OnObject(s, k, "delete", o)
    <3>1. \E i \in Active(ts) : ts[i].op.type = "layer"
      BY <2>3 DEF RunningOn, Running
    <3>. QED  BY <1>1, <2>3, <3>1 DEF OnObject
  <2>4. CASE RunningOn(ts, "delete", o) # {} /\ \E k \in b + 1 .. n : OnObject(s, k, "layer", o)
    <3>1. PICK k \in b + 1 .. n : OnObject(s, k, "layer", o)
      BY <2>4
    <3>2. k \in 1 .. Len(s) /\ \A c \in 1 .. k - 1 : c \in 1 .. n
      BY <1>0
    <3>3. \E c \in 1 .. k - 1 : s[c].type = "barrier"
      BY <2>4, <3>1, <3>2 DEF NotDoomed
    <3>4. Active(ts) = {}
      BY <1>0, <3>2, <3>3
    <3>. QED  BY <2>4, <3>4 DEF RunningOn, Running
  <2>5. CASE /\ \E k \in b + 1 .. n : OnObject(s, k, "layer", o)
             /\ \E k \in b + 1 .. n : OnObject(s, k, "delete", o)
    <3>1. PICK k \in b + 1 .. n, m \in b + 1 .. n : OnObject(s, k, "layer", o) /\ OnObject(s, m, "delete", o)
      BY <2>5
    <3>2. s[k].type = "layer" /\ s[m].type = "delete" /\ k # m
      BY <3>1 DEF OnObject
    <3>3. ~(k < m)
      <4>1. k < m => k \in b + 1 .. m
        BY <1>0
      <4>. QED  BY <1>1, <3>2, <4>1
    <3>4. m < k /\ m \in 1 .. Len(s) /\ k \in 1 .. Len(s) /\ \A c \in m + 1 .. k - 1 : c \in 1 .. n /\ c \notin 1 .. b
      BY <1>0, <3>2, <3>3
    <3>5. \E c \in m + 1 .. k - 1 : s[c].type = "barrier"
      BY <3>1, <3>4 DEF NotDoomed
    <3>. QED  BY <1>0, <3>4, <3>5
  <2>. QED  BY <2>1, <2>2, <2>3, <2>4, <2>5
<1>. QED  BY <1>2, <1>3 DEF Exclusive
LEMMA MovedRunInv ==
  ASSUME NEW q \in Queues, NEW ts, NEW n, NEW b, NEW t, NEW us, NEW lsn, StorageType,
         Moved(q.queued, ts, n, b, t, us), Scheduling(q, ts, lsn)
  PROVE  RunInv(us)
<1>. DEFINE s == q.queued
<1>0. /\ n \in Nat /\ b \in Nat /\ b <= n /\ n <= Len(s) /\ Len(s) \in Nat /\ Len(ts) \in Nat
      /\ \A k \in 1 .. n : s[k].type # "barrier" => k \in b + 1 .. n
  BY TakenTypes
<1>1. /\ \A i \in 1 .. b : s[i].type = "barrier"
      /\ \A i \in b + 1 .. n : s[i].type \in {"layer", "index", "delete"}
      /\ \A j \in b + 1 .. n : s[j].type = "index" => Active(ts) = {} /\ j = b + 1
      /\ \A j \in b + 1 .. n : s[j].type = "delete" =>
            /\ \A a \in Active(ts) : ts[a].op.type = "delete"
            /\ \A i \in b + 1 .. j : s[i].type = "delete"
  BY DEF Moved, Takes
<1>2. \A k \in b + 1 .. n : k \in 1 .. Len(s)
  BY <1>0
<1>. HIDE DEF s
<1>3. RunInv(ts) /\ HasIndex /\ ~LatestIndex.deleted /\ UploadedFirst(s, ts) /\ UnlinkedFirst(s, ts)
      /\ NotDoomed(s, ts) /\ LsnOrder(q, ts) /\ \A j \in 1 .. Len(s) : OpOK(s[j])
  BY DEF Scheduling, s
<1>4. TaskKinds(us)
  <2>1. ASSUME NEW i \in 1 .. Len(us)
        PROVE  /\ us[i].op.type \in {"layer", "index", "delete"} /\ OpOK(us[i].op)
               /\ us[i].phase = "publish" =>
                     us[i].op.type = "index" /\ ~Legacy /\ us[i].op.meta.lsn <= LatestIndex.meta.lsn
    <3>1. CASE i \in 1 .. Len(ts) /\ us[i] = ts[i]
      BY <1>3, <3>1 DEF RunInv, TaskKinds
    <3>2. CASE \E k \in b + 1 .. n : us[i].op = s[k] /\ us[i].phase = "run"
      BY <1>1, <1>2, <1>3, <3>2
    <3>. QED  BY <3>1, <3>2, MovedTasks DEF s
  <2>. QED  BY <1>3, <2>1 DEF TaskKinds
<1>5. Exclusive(us)
  BY <1>3, MovedExclusive DEF RunInv, s
<1>6. ASSUME NEW i \in Running(us, "layer")
      PROVE  us[i].op.objs \cap deletions = {} /\ (us[i].phase = "done" => us[i].op.objs \subseteq store)
  <2>1. CASE i \in Running(ts, "layer") /\ us[i] = ts[i]
    BY <1>3, <2>1 DEF RunInv, Effects
  <2>2. CASE \E k \in b + 1 .. n : us[i].op = s[k] /\ us[i].phase = "run" /\ s[k].type = "layer"
    BY <1>2, <1>3, <2>2 DEF NotDoomed
  <2>. QED  BY <2>1, <2>2, MovedRunning DEF s
<1>7. ASSUME NEW i \in Running(us, "index")
      PROVE  /\ us[i].op.objs \subseteq store \ deletions
             /\ LatestIndex.meta.lsn <= us[i].op.meta.lsn
             /\ us[i].phase = "done" =>
                   LatestIndex.files = us[i].op.objs /\ LatestIndex.meta = us[i].op.meta
  <2>1. CASE i \in Running(ts, "index") /\ us[i] = ts[i]
    BY <1>3, <2>1 DEF RunInv, Effects
  <2>2. CASE \E k \in b + 1 .. n : us[i].op = s[k] /\ us[i].phase = "run" /\ s[k].type = "index"
    <3>1. PICK k \in b + 1 .. n : us[i].op = s[k] /\ us[i].phase = "run" /\ s[k].type = "index"
      BY <2>2
    <3>2. k = b + 1 /\ Active(ts) = {} /\ k - 1 = b /\ k \in 1 .. Len(s)
      BY <1>0, <1>1, <1>2, <3>1
    <3>3. ASSUME NEW f \in s[k].objs PROVE f \in store \ deletions
      <4>1. Present(s, ts, f, k)
        BY <1>3, <3>1, <3>2 DEF UploadedFirst
      <4>2. PresentNow(ts, f)
        BY <1>1, <3>2, <4>1 DEF Present, OnObject
      <4>. QED  BY <3>2, <4>2 DEF PresentNow, RunningOn, Running
    <3>4. LatestIndex.meta.lsn <= s[k].meta.lsn
      BY <1>3, <3>1, <3>2 DEF LsnOrder, s
    <3>. QED  BY <3>1, <3>3, <3>4
  <2>. QED  BY <2>1, <2>2, MovedRunning DEF s
<1>8. ASSUME NEW i \in Running(us, "delete") PROVE us[i].op.objs \cap LatestIndex.files = {}
  <2>1. CASE i \in Running(ts, "delete") /\ us[i] = ts[i]
    BY <1>3, <2>1 DEF RunInv, Effects
  <2>2. CASE \E k \in b + 1 .. n : us[i].op = s[k] /\ s[k].type = "delete"
    <3>1. PICK k \in b + 1 .. n : us[i].op = s[k] /\ s[k].type = "delete"
      BY <2>2
    <3>2. k \in 1 .. Len(s) /\ \A m \in 1 .. k - 1 : m \in 1 .. b \/ m \in b + 1 .. k
      BY <1>0
    <3>3. \A m \in 1 .. k - 1 : s[m].type \in {"barrier", "delete"}
      BY <1>1, <3>1, <3>2
    <3>4. Running(ts, "index") = {}
      BY <1>1, <3>1 DEF Running
    <3>5. ASSUME NEW o \in s[k].objs PROVE o \notin LatestIndex.files
      <4>1. Absent(s, ts, o, k)
        BY <1>3, <3>1, <3>2 DEF UnlinkedFirst
      <4>2. AbsentNow(ts, o)
        BY <3>3, <4>1 DEF Absent
      <4>. QED  BY <3>4, <4>2 DEF AbsentNow
    <3>. QED  BY <3>1, <3>5
  <2>. QED  BY <2>1, <2>2, MovedRunning DEF s
<1>. QED  BY <1>4, <1>5, <1>6, <1>7, <1>8 DEF RunInv, Effects

\* What held before the (n + j)-th operation holds before the j-th.
LEMMA MovedPresent ==
  ASSUME NEW s, NEW ts, NEW n, NEW b, NEW t, NEW us, Moved(s, ts, n, b, t, us),
         NotDoomed(s, ts), Exclusive(us),
         NEW j \in 1 .. Len(t) + 1, NEW f \in Objects, Present(s, ts, f, n + j)
  PROVE  Present(t, us, f, j)
<1>0. /\ n \in Nat /\ b \in Nat /\ b <= n /\ n <= Len(s) /\ Len(s) \in Nat /\ Len(t) \in Nat /\ Len(t) = Len(s) - n
      /\ \A k \in 1 .. n : s[k].type # "barrier" => k \in b + 1 .. n
      /\ \A i \in 1 .. Len(t) : n + i \in 1 .. Len(s) /\ t[i] = s[n + i]
      /\ \A k \in n + 1 .. Len(s) : k - n \in 1 .. Len(t) /\ t[k - n] = s[k]
  BY TakenTypes
<1>1. /\ \A m \in 1 .. j - 1 : m \in 1 .. Len(t) /\ n + m \in 1 .. (n + j) - 1
      /\ \A k \in b + 1 .. n : k \in 1 .. (n + j) - 1
  BY <1>0
<1>2. \A m \in 1 .. j - 1 : \A type : OnObject(t, m, type, f) <=> OnObject(s, n + m, type, f)
  BY <1>0, <1>1 DEF OnObject
<1>3. ASSUME NEW k \in 1 .. (n + j) - 1, OnObject(s, k, "layer", f),
             \A m \in k + 1 .. (n + j) - 1 : ~OnObject(s, m, "delete", f)
      PROVE  Present(t, us, f, j)
  <2>1. CASE k > n
    <3>1. k - n \in 1 .. j - 1 /\ n + (k - n) = k
      BY <1>0, <2>1
    <3>2. OnObject(t, k - n, "layer", f)
      BY <1>2, <1>3, <3>1
    <3>3. ASSUME NEW m \in (k - n) + 1 .. j - 1 PROVE ~OnObject(t, m, "delete", f)
      <4>1. m \in 1 .. j - 1 /\ n + m \in k + 1 .. (n + j) - 1
        BY <1>0, <3>1
      <4>. QED  BY <1>2, <1>3, <4>1
    <3>. QED  BY <3>1, <3>2, <3>3 DEF Present
  <2>2. CASE ~(k > n)
    <3>1. k \in 1 .. n /\ k \in 1 .. Len(s) /\ s[k].type = "layer" /\ f \in s[k].objs
      BY <1>0, <1>3, <2>2 DEF OnObject
    <3>2. k \in b + 1 .. n
      BY <1>0, <3>1
    <3>3. RunningOn(us, "layer", f) # {}
      BY <1>3, <3>2, MovedOn
    <3>4. RunningOn(us, "delete", f) = {}
      BY <3>3 DEF Exclusive
    <3>5. f \notin deletions
      BY <3>1 DEF NotDoomed
    <3>6. ASSUME NEW m \in 1 .. j - 1 PROVE ~OnObject(t, m, "delete", f)
      <4>1. n + m \in k + 1 .. (n + j) - 1
        BY <1>0, <3>1
      <4>. QED  BY <1>2, <1>3, <4>1
    <3>. QED  BY <3>3, <3>4, <3>5, <3>6 DEF Present, PresentNow
  <2>. QED  BY <2>1, <2>2
<1>4. ASSUME PresentNow(ts, f), \A m \in 1 .. (n + j) - 1 : ~OnObject(s, m, "delete", f)
      PROVE  Present(t, us, f, j)
  <2>1. \A m \in 1 .. j - 1 : ~OnObject(t, m, "delete", f)
    BY <1>1, <1>2, <1>4
  <2>2. RunningOn(us, "delete", f) = {}
    BY <1>1, <1>4, MovedOn DEF PresentNow
  <2>3. RunningOn(ts, "layer", f) # {} => RunningOn(us, "layer", f) # {}
    BY MovedOn
  <2>. QED  BY <1>4, <2>1, <2>2, <2>3 DEF Present, PresentNow
<1>. QED  BY <1>3, <1>4 DEF Present

LEMMA MovedAbsent ==
  ASSUME NEW s, NEW ts, NEW n, NEW b, NEW t, NEW us, Moved(s, ts, n, b, t, us),
         NEW j \in 1 .. Len(t) + 1, NEW o, Absent(s, ts, o, n + j)
  PROVE  Absent(t, us, o, j)
<1>0. /\ n \in Nat /\ b \in Nat /\ b <= n /\ n <= Len(s) /\ Len(s) \in Nat /\ Len(t) \in Nat /\ Len(t) = Len(s) - n
      /\ \A k \in 1 .. n : s[k].type # "barrier" => k \in b + 1 .. n
      /\ \A i \in 1 .. Len(t) : n + i \in 1 .. Len(s) /\ t[i] = s[n + i]
      /\ \A k \in n + 1 .. Len(s) : k - n \in 1 .. Len(t) /\ t[k - n] = s[k]
  BY TakenTypes
<1>1. /\ \A m \in 1 .. j - 1 : m \in 1 .. Len(t) /\ n + m \in 1 .. (n + j) - 1
      /\ \A k \in b + 1 .. n : k \in 1 .. (n + j) - 1
  BY <1>0
<1>2. \A m \in 1 .. j - 1 : /\ OnObject(t, m, "index", o) <=> OnObject(s, n + m, "index", o)
                            /\ t[m] = s[n + m]
  BY <1>0, <1>1 DEF OnObject
<1>3. \A k \in b + 1 .. n : s[k].type = "index" => Active(ts) = {} /\ k = b + 1
  BY DEF Moved, Takes
<1>4. ASSUME NEW m \in 1 .. (n + j) - 1, s[m].type = "index", o \notin s[m].objs,
             \A k \in m + 1 .. (n + j) - 1 : ~OnObject(s, k, "index", o)
      PROVE  Absent(t, us, o, j)
  <2>1. CASE m > n
    <3>1. m - n \in 1 .. j - 1 /\ n + (m - n) = m
      BY <1>0, <2>1
    <3>2. t[m - n] = s[m]
      BY <1>2, <3>1
    <3>3. ASSUME NEW k \in (m - n) + 1 .. j - 1 PROVE ~OnObject(t, k, "index", o)
      <4>1. k \in 1 .. j - 1 /\ n + k \in m + 1 .. (n + j) - 1
        BY <1>0, <3>1
      <4>. QED  BY <1>2, <1>4, <4>1
    <3>. QED  BY <1>4, <3>1, <3>2, <3>3 DEF Absent
  <2>2. CASE ~(m > n)
    <3>1. m \in 1 .. n
      BY <1>0, <2>2
    <3>2. m \in b + 1 .. n
      BY <1>0, <1>4, <3>1
    <3>3. Active(ts) = {} /\ m = b + 1
      BY <1>3, <1>4, <3>2
    <3>4. Running(us, "index") # {}
      BY <1>4, <3>2, MovedRunning
    <3>5. RunningOn(us, "index", o) = {}
      <4>1. RunningOn(ts, "index", o) = {}
        BY <3>3 DEF RunningOn, Running
      <4>2. \A k \in b + 1 .. n : ~OnObject(s, k, "index", o)
        BY <1>3, <1>4, <3>3 DEF OnObject
      <4>. QED  BY <4>1, <4>2, MovedOn
    <3>6. ASSUME NEW k \in 1 .. j - 1 PROVE ~OnObject(t, k, "index", o)
      <4>1. n + k \in m + 1 .. (n + j) - 1
        BY <1>0, <3>1
      <4>. QED  BY <1>2, <1>4, <4>1
    <3>. QED  BY <3>4, <3>5, <3>6 DEF Absent, AbsentNow
  <2>. QED  BY <2>1, <2>2
<1>5. ASSUME AbsentNow(ts, o), \A k \in 1 .. (n + j) - 1 : ~OnObject(s, k, "index", o)
      PROVE  Absent(t, us, o, j)
  <2>1. \A k \in 1 .. j - 1 : ~OnObject(t, k, "index", o)
    BY <1>1, <1>2, <1>5
  <2>2. RunningOn(us, "index", o) = {}
    BY <1>1, <1>5, MovedOn DEF AbsentNow
  <2>3. Running(us, "index") = {} => Running(ts, "index") = {}
    BY MovedRunning
  <2>. QED  BY <1>5, <2>1, <2>2, <2>3 DEF Absent, AbsentNow
<1>. QED  BY <1>4, <1>5 DEF Absent

LEMMA MovedCovered ==
  ASSUME NEW s, NEW ts, NEW n, NEW b, NEW t, NEW us, Moved(s, ts, n, b, t, us),
         NEW j \in 1 .. Len(t) + 1, NEW lsn, Covered(s, ts, lsn, n + j)
  PROVE  Covered(t, us, lsn, j)
<1>0. /\ n \in Nat /\ b \in Nat /\ b <= n /\ n <= Len(s) /\ Len(s) \in Nat /\ Len(t) \in Nat /\ Len(t) = Len(s) - n
      /\ \A k \in 1 .. n : s[k].type # "barrier" => k \in b + 1 .. n
      /\ \A k \in n + 1 .. Len(s) : k - n \in 1 .. Len(t) /\ t[k - n] = s[k]
  BY TakenTypes
<1>1. ASSUME NEW k \in 1 .. (n + j) - 1, s[k].type = "index", lsn <= s[k].meta.lsn
      PROVE  Covered(t, us, lsn, j)
  <2>1. CASE k > n
    <3>1. k \in n + 1 .. Len(s) /\ k - n \in 1 .. j - 1
      BY <1>0, <2>1
    <3>. QED  BY <1>0, <1>1, <3>1 DEF Covered
  <2>2. CASE ~(k > n)
    <3>1. k \in 1 .. n
      BY <1>0, <2>2
    <3>2. k \in b + 1 .. n
      BY <1>0, <1>1, <3>1
    <3>3. \E i \in Running(us, "index") : us[i].op = s[k]
      BY <1>1, <3>2, MovedRunning
    <3>. QED  BY <1>1, <3>3 DEF Covered
  <2>. QED  BY <2>1, <2>2
<1>2. ASSUME NEW i \in Running(ts, "index"), lsn <= ts[i].op.meta.lsn PROVE Covered(t, us, lsn, j)
  <2>1. i \in Running(us, "index") /\ us[i] = ts[i]
    BY MovedRunning
  <2>. QED  BY <1>2, <2>1 DEF Covered
<1>. QED  BY <1>1, <1>2 DEF Covered
LEMMA MovedNotDoomed ==
  ASSUME NEW s, NEW ts, NEW n, NEW b, NEW t, NEW us, Moved(s, ts, n, b, t, us), NotDoomed(s, ts)
  PROVE  NotDoomed(t, us)
<1>0. /\ n \in Nat /\ b \in Nat /\ b <= n /\ n <= Len(s) /\ Len(s) \in Nat /\ Len(t) \in Nat /\ Len(t) = Len(s) - n
      /\ \A k \in 1 .. n : s[k].type = "barrier" => k \in 1 .. b /\ Active(ts) = {}
      /\ \A i \in 1 .. Len(t) : n + i \in 1 .. Len(s) /\ t[i] = s[n + i]
      /\ \A k \in n + 1 .. Len(s) : k - n \in 1 .. Len(t) /\ t[k - n] = s[k]
  BY TakenTypes
<1>1. \A m \in 1 .. Len(t) : \A type, o : OnObject(t, m, type, o) <=> OnObject(s, n + m, type, o)
  BY <1>0 DEF OnObject
<1>2. \A j \in 1 .. Len(t) : t[j].type = "layer" => t[j].objs \cap deletions = {}
  BY <1>0 DEF NotDoomed
\* A barrier that is not among those taken.
<1>3. ASSUME NEW l \in Nat, NEW k \in 1 .. Len(t), NEW c \in l + 1 .. (n + k) - 1, s[c].type = "barrier", c > n
      PROVE  \E d \in 1 .. k - 1 : t[d].type = "barrier" /\ n + d = c
  <2>1. c \in n + 1 .. Len(s) /\ c - n \in 1 .. k - 1 /\ n + (c - n) = c
    BY <1>0, <1>3
  <2>. QED  BY <1>0, <1>3, <2>1
<1>4. ASSUME NEW m \in 1 .. Len(t), NEW k \in 1 .. Len(t), NEW o \in Objects, m < k,
             OnObject(t, m, "delete", o), OnObject(t, k, "layer", o)
      PROVE  Legacy /\ \E c \in m + 1 .. k - 1 : t[c].type = "barrier"
  <2>1. n + m \in 1 .. Len(s) /\ n + k \in 1 .. Len(s) /\ n + m < n + k /\ n + m \in Nat
    BY <1>0, <1>4
  <2>2. Legacy /\ \E c \in (n + m) + 1 .. (n + k) - 1 : s[c].type = "barrier"
    BY <1>1, <1>4, <2>1 DEF NotDoomed
  <2>3. PICK c \in (n + m) + 1 .. (n + k) - 1 : s[c].type = "barrier"
    BY <2>2
  <2>4. c > n
    BY <1>0
  <2>5. PICK d \in 1 .. k - 1 : t[d].type = "barrier" /\ n + d = c
    BY <1>3, <2>1, <2>3, <2>4
  <2>6. d \in m + 1 .. k - 1
    BY <1>0, <2>5
  <2>. QED  BY <2>2, <2>5, <2>6
<1>5. ASSUME NEW k \in 1 .. Len(t), NEW o \in Objects,
             RunningOn(us, "delete", o) # {}, OnObject(t, k, "layer", o)
      PROVE  Legacy /\ \E c \in 1 .. k - 1 : t[c].type = "barrier"
  <2>1. n + k \in 1 .. Len(s) /\ OnObject(s, n + k, "layer", o) /\ \A c \in 1 .. (n + k) - 1 : c > n \/ c \in 1 .. n
    BY <1>0, <1>1, <1>5
  <2>2. CASE RunningOn(ts, "delete", o) # {}
    <3>1. Legacy /\ \E c \in 1 .. (n + k) - 1 : s[c].type = "barrier"
      BY <2>1, <2>2 DEF NotDoomed
    <3>2. PICK c \in 0 + 1 .. (n + k) - 1 : s[c].type = "barrier"
      BY <3>1
    <3>3. Active(ts) # {}
      BY <2>2 DEF RunningOn, Running
    <3>4. c > n
      BY <1>0, <2>1, <3>2, <3>3
    <3>. QED  BY <1>3, <3>1, <3>2, <3>4
  <2>3. CASE \E m \in b + 1 .. n : OnObject(s, m, "delete", o)
    <3>1. PICK m \in b + 1 .. n : OnObject(s, m, "delete", o)
      BY <2>3
    <3>2. m \in 1 .. Len(s) /\ m < n + k /\ m \in Nat
      BY <1>0
    <3>3. Legacy /\ \E c \in m + 1 .. (n + k) - 1 : s[c].type = "barrier"
      BY <2>1, <3>1, <3>2 DEF NotDoomed
    <3>4. PICK c \in m + 1 .. (n + k) - 1 : s[c].type = "barrier"
      BY <3>3
    <3>5. c \notin 1 .. b /\ (c \in 1 .. n \/ c > n)
      BY <1>0
    <3>6. c > n
      BY <1>0, <3>4, <3>5
    <3>7. \E d \in 1 .. k - 1 : t[d].type = "barrier" /\ n + d = c
      BY <1>3, <3>2, <3>4, <3>6
    <3>. QED  BY <3>3, <3>7
  <2>. QED  BY <1>5, <2>2, <2>3, MovedOn
<1>. QED  BY <1>2, <1>4, <1>5 DEF NotDoomed

LEMMA MovedDoomed ==
  ASSUME NEW s, NEW ts, NEW n, NEW b, NEW t, NEW us, Moved(s, ts, n, b, t, us),
         NEW o, Doomed(t, us, o)
  PROVE  Doomed(s, ts, o)
<1>0. /\ n \in Nat /\ b \in Nat /\ b <= n /\ n <= Len(s) /\ Len(s) \in Nat /\ Len(t) \in Nat /\ Len(t) = Len(s) - n
      /\ \A k \in 1 .. n : s[k].type = "barrier" => k \in 1 .. b /\ Active(ts) = {}
      /\ \A i \in 1 .. Len(t) : n + i \in 1 .. Len(s) /\ t[i] = s[n + i]
      /\ \A k \in n + 1 .. Len(s) : k - n \in 1 .. Len(t) /\ t[k - n] = s[k]
  BY TakenTypes
<1>1. ASSUME NEW m \in 1 .. Len(t), OnObject(t, m, "delete", o),
             Legacy => \A c \in m + 1 .. Len(t) : t[c].type # "barrier"
      PROVE  Doomed(s, ts, o)
  <2>1. n + m \in 1 .. Len(s) /\ OnObject(s, n + m, "delete", o)
    BY <1>0, <1>1 DEF OnObject
  <2>2. ASSUME Legacy, NEW c \in (n + m) + 1 .. Len(s) PROVE s[c].type # "barrier"
    <3>1. c \in n + 1 .. Len(s) /\ c - n \in m + 1 .. Len(t)
      BY <1>0
    <3>. QED  BY <1>0, <1>1, <2>2, <3>1
  <2>. QED  BY <2>1, <2>2 DEF Doomed
<1>2. ASSUME RunningOn(us, "delete", o) # {}, Legacy => \A c \in 1 .. Len(t) : t[c].type # "barrier"
      PROVE  Doomed(s, ts, o)
  <2>1. ASSUME Legacy, NEW c \in n + 1 .. Len(s) PROVE s[c].type # "barrier"
    BY <1>0, <1>2, <2>1
  <2>2. CASE RunningOn(ts, "delete", o) # {}
    <3>1. Active(ts) # {}
      BY <2>2 DEF RunningOn, Running
    <3>2. \A c \in 1 .. Len(s) : c \in 1 .. n \/ c \in n + 1 .. Len(s)
      BY <1>0
    <3>3. Legacy => \A c \in 1 .. Len(s) : s[c].type # "barrier"
      BY <1>0, <2>1, <3>1, <3>2
    <3>. QED  BY <2>2, <3>3 DEF Doomed
  <2>3. CASE \E m \in b + 1 .. n : OnObject(s, m, "delete", o)
    <3>1. PICK m \in b + 1 .. n : OnObject(s, m, "delete", o)
      BY <2>3
    <3>2. m \in 1 .. Len(s) /\ \A c \in m + 1 .. Len(s) : (c \in 1 .. n /\ c \notin 1 .. b) \/ c \in n + 1 .. Len(s)
      BY <1>0
    <3>3. Legacy => \A c \in m + 1 .. Len(s) : s[c].type # "barrier"
      BY <1>0, <2>1, <3>2
    <3>. QED  BY <3>1, <3>2, <3>3 DEF Doomed
  <2>. QED  BY <1>2, <2>2, <2>3, MovedOn
<1>. QED  BY <1>1, <1>2 DEF Doomed

\* How far the operations move, for any names of the two queues.
LEMMA MovedParts ==
  ASSUME NEW ts, NEW n, NEW b, NEW us, NEW u, NEW v, Moved(u, ts, n, b, v, us)
  PROVE  /\ n \in Nat /\ b \in Nat /\ b <= n /\ n <= Len(u)
         /\ Len(u) \in Nat /\ Len(v) \in Nat /\ Len(v) = Len(u) - n
         /\ \A k \in 1 .. n : u[k].type # "barrier" => k \in b + 1 .. n
         /\ \A j \in 1 .. Len(v) : n + j \in 1 .. Len(u) /\ v[j] = u[n + j]
         /\ \A k \in n + 1 .. Len(u) : k - n \in 1 .. Len(v) /\ v[k - n] = u[k]
BY TakenTypes

LEMMA MovedDesired ==
  ASSUME NEW q \in Queues, NEW r \in Queues, NEW ts, NEW n, NEW b, NEW us,
         Moved(q.queued, ts, n, b, r.queued, us), r.files = q.files, r.changes = q.changes, r.meta = q.meta, Desired(q, ts)
  PROVE  Desired(r, us)
<1>s. PICK s : s = q.queued
  OBVIOUS
<1>t. PICK t : t = r.queued
  OBVIOUS
<1>a. Moved(s, ts, n, b, t, us)
  BY <1>s, <1>t
<1>0. /\ n \in Nat /\ b \in Nat /\ b <= n /\ n <= Len(s)
      /\ Len(s) \in Nat /\ Len(t) \in Nat /\ Len(t) = Len(s) - n
      /\ \A k \in 1 .. n : s[k].type # "barrier" => k \in b + 1 .. n
      /\ \A j \in 1 .. Len(t) : n + j \in 1 .. Len(s) /\ t[j] = s[n + j]
      /\ \A k \in n + 1 .. Len(s) : k - n \in 1 .. Len(t) /\ t[k - n] = s[k]
  BY <1>a, MovedParts
<1>1. ASSUME NEW m \in 1 .. Len(s), s[m].type = "index", Stands(s[m].objs, q.files, q.changes), s[m].meta = q.meta,
             \A k \in m + 1 .. Len(s) : s[k].type # "index"
      PROVE  Desired(r, us)
  <2>1. CASE m > n
    <3>1. m \in n + 1 .. Len(s)
      BY <1>0, <2>1
    <3>2. m - n \in 1 .. Len(t) /\ t[m - n] = s[m]
      BY <1>0, <3>1
    <3>3. ASSUME NEW k \in (m - n) + 1 .. Len(t) PROVE t[k].type # "index"
      <4>1. k \in 1 .. Len(t) /\ n + k \in m + 1 .. Len(s)
        BY <1>0, <3>1
      <4>. QED  BY <1>0, <1>1, <4>1
    <3>. QED  BY <1>1, <3>2, <3>3, <1>s, <1>t DEF Desired
  <2>2. CASE ~(m > n)
    <3>1. m \in 1 .. n
      BY <1>0, <2>2
    <3>2. m \in b + 1 .. n
      BY <1>0, <1>1, <3>1
    <3>3. \E i \in Running(us, "index") : us[i].op = s[m]
      BY <1>1, <3>2, <1>a, MovedRunning
    <3>4. ASSUME NEW k \in 1 .. Len(t) PROVE t[k].type # "index"
      <4>1. n + k \in m + 1 .. Len(s)
        BY <1>0, <3>1
      <4>. QED  BY <1>0, <1>1, <4>1
    <3>. QED  BY <1>1, <3>3, <3>4, <1>s, <1>t DEF Desired
  <2>. QED  BY <2>1, <2>2
<1>2. ASSUME \A k \in 1 .. Len(s) : s[k].type # "index"
      PROVE  \A k \in 1 .. Len(t) : t[k].type # "index"
  BY <1>0, <1>2
<1>3. ASSUME \A k \in 1 .. Len(s) : s[k].type # "index",
             NEW i \in Running(ts, "index"), Stands(ts[i].op.objs, q.files, q.changes), ts[i].op.meta = q.meta
      PROVE  Desired(r, us)
  <2>1. i \in Running(us, "index") /\ us[i] = ts[i]
    BY <1>a, MovedRunning
  <2>. QED  BY <1>2, <1>3, <2>1, <1>s, <1>t DEF Desired
<1>4. ASSUME \A k \in 1 .. Len(s) : s[k].type # "index", Running(ts, "index") = {},
             Stands(LatestIndex.files, q.files, q.changes), LatestIndex.meta = q.meta
      PROVE  Desired(r, us)
  <2>1. \A k \in b + 1 .. n : k \in 1 .. Len(s)
    BY <1>0
  <2>2. Running(us, "index") = {}
    BY <1>4, <2>1, <1>a, MovedRunning
  <2>. QED  BY <1>2, <1>4, <2>2, <1>s, <1>t DEF Desired
<1>. QED  BY <1>1, <1>3, <1>4, <1>s DEF Desired

LEMMA MovedLsnOrder ==
  ASSUME NEW q \in Queues, NEW r \in Queues, NEW ts, NEW n, NEW b, NEW us,
         Moved(q.queued, ts, n, b, r.queued, us), r.meta = q.meta, LsnOrder(q, ts)
  PROVE  LsnOrder(r, us)
<1>. DEFINE s == q.queued
            t == r.queued
<1>0. /\ n \in Nat /\ b \in Nat /\ b <= n /\ n <= Len(s) /\ Len(s) \in Nat /\ Len(t) \in Nat /\ Len(t) = Len(s) - n
      /\ \A i \in 1 .. Len(t) : n + i \in 1 .. Len(s) /\ t[i] = s[n + i]
  BY TakenTypes
<1>1. /\ LatestIndex.meta.lsn <= q.meta.lsn
      /\ \A i \in Running(ts, "index") : ts[i].op.meta.lsn <= q.meta.lsn
      /\ \A j \in 1 .. Len(s) : s[j].type = "index" =>
            /\ LatestIndex.meta.lsn <= s[j].meta.lsn
            /\ s[j].meta.lsn <= q.meta.lsn
            /\ \A i \in Running(ts, "index") : ts[i].op.meta.lsn <= s[j].meta.lsn
            /\ \A k \in 1 .. j : s[k].type = "index" => s[k].meta.lsn <= s[j].meta.lsn
  BY DEF LsnOrder
<1>2. \A i \in Running(us, "index") : \/ i \in Running(ts, "index") /\ us[i] = ts[i]
                                      \/ \E k \in b + 1 .. n : us[i].op = s[k] /\ s[k].type = "index"
  BY MovedRunning
<1>3. \A k \in b + 1 .. n : k \in 1 .. Len(s)
  BY <1>0
<1>4. \A i \in Running(us, "index") : us[i].op.meta.lsn <= q.meta.lsn
  BY <1>1, <1>2, <1>3
<1>5. ASSUME NEW j \in 1 .. Len(t), t[j].type = "index"
      PROVE  /\ LatestIndex.meta.lsn <= t[j].meta.lsn
             /\ t[j].meta.lsn <= q.meta.lsn
             /\ \A i \in Running(us, "index") : us[i].op.meta.lsn <= t[j].meta.lsn
             /\ \A k \in 1 .. j : t[k].type = "index" => t[k].meta.lsn <= t[j].meta.lsn
  <2>1. n + j \in 1 .. Len(s) /\ t[j] = s[n + j]
    BY <1>0
  <2>2. \A k \in b + 1 .. n : k \in 1 .. n + j
    BY <1>0
  <2>3. \A k \in 1 .. j : n + k \in 1 .. n + j /\ t[k] = s[n + k]
    BY <1>0
  <2>4. \A i \in Running(us, "index") : us[i].op.meta.lsn <= t[j].meta.lsn
    BY <1>1, <1>2, <1>5, <2>1, <2>2
  <2>5. \A k \in 1 .. j : t[k].type = "index" => t[k].meta.lsn <= t[j].meta.lsn
    BY <1>1, <1>5, <2>1, <2>3
  <2>. QED  BY <1>1, <1>5, <2>1, <2>4, <2>5
<1>. QED  BY <1>1, <1>4, <1>5 DEF LsnOrder

\* launch_queued_tasks keeps the order.
LEMMA MovedQueueInv ==
  ASSUME NEW q \in Queues, NEW r \in Queues, NEW ts, NEW n, NEW b, NEW us, NEW lsn, StorageType,
         Moved(q.queued, ts, n, b, r.queued, us), r.meta = q.meta, r.files = q.files, r.changes = q.changes,
         r.shuttingDown = q.shuttingDown, QueueInv(q, ts, lsn)
  PROVE  QueueInv(r, us, lsn)
<1>. DEFINE s == q.queued
            t == r.queued
<1>0. /\ n \in Nat /\ b \in Nat /\ b <= n /\ n <= Len(s) /\ Len(s) \in Nat /\ Len(t) \in Nat /\ Len(t) = Len(s) - n
      /\ \A i \in 1 .. Len(t) : n + i \in 1 .. Len(s) /\ t[i] = s[n + i]
  BY TakenTypes
<1>1. Scheduling(q, ts, lsn) /\ Desired(q, ts)
  BY DEF QueueInv
<1>2. /\ UploadedFirst(s, ts) /\ UnlinkedFirst(s, ts) /\ NotDoomed(s, ts) /\ LsnOrder(q, ts)
      /\ Waits(q, ts, lsn) /\ FilesPresent(q, ts) /\ HasIndex /\ ~LatestIndex.deleted
      /\ \A j \in 1 .. Len(s) : OpOK(s[j])
  BY <1>1 DEF Scheduling
<1>3. RunInv(us)
  BY <1>1, MovedRunInv
<1>4. Exclusive(us)
  BY <1>3 DEF RunInv
<1>5. NotDoomed(t, us) /\ LsnOrder(r, us) /\ Desired(r, us)
  BY <1>1, <1>2, MovedNotDoomed, MovedLsnOrder, MovedDesired
<1>6. t \in Seq(Ops) /\ s \in Seq(Ops) /\ q.files \subseteq Objects
  BY QueueType
<1>7. \A j \in 1 .. Len(t) : j \in 1 .. Len(t) + 1
  BY <1>0
<1>8. UploadedFirst(t, us)
  <2>1. ASSUME NEW j \in 1 .. Len(t), t[j].type = "index", NEW f \in t[j].objs PROVE Present(t, us, f, j)
    <3>1. f \in Objects
      BY <1>6, OpFields
    <3>2. Present(s, ts, f, n + j)
      BY <1>0, <1>2, <2>1 DEF UploadedFirst
    <3>. QED  BY <1>2, <1>4, <1>7, <3>1, <3>2, MovedPresent
  <2>. QED  BY <2>1 DEF UploadedFirst
<1>9. UnlinkedFirst(t, us)
  <2>1. ASSUME NEW j \in 1 .. Len(t), t[j].type = "delete", NEW o \in t[j].objs PROVE Absent(t, us, o, j)
    <3>1. Absent(s, ts, o, n + j)
      BY <1>0, <1>2, <2>1 DEF UnlinkedFirst
    <3>. QED  BY <1>7, <3>1, MovedAbsent
  <2>. QED  BY <2>1 DEF UnlinkedFirst
<1>10. Waits(r, us, lsn)
  <2>1. ASSUME NEW j \in 1 .. Len(t), t[j].waited PROVE t[j].type = "barrier" /\ Covered(t, us, lsn, j)
    <3>1. s[n + j].type = "barrier" /\ Covered(s, ts, lsn, n + j)
      BY <1>0, <1>2, <2>1 DEF Waits
    <3>2. Covered(t, us, lsn, j)
      BY <1>7, <3>1, MovedCovered
    <3>. QED  BY <1>0, <3>1, <3>2
  <2>2. ASSUME NEW j \in 1 .. Len(t), t[j].type = "shutdown" PROVE r.shuttingDown /\ j = Len(t)
    <3>1. q.shuttingDown /\ n + j = Len(s)
      BY <1>0, <1>2, <2>2 DEF Waits
    <3>. QED  BY <1>0, <3>1
  <2>. QED  BY <2>1, <2>2 DEF Waits
<1>11. FilesPresent(r, us)
  <2>1. ASSUME NEW f \in r.files PROVE Present(t, us, f, Len(t) + 1)
    <3>1. f \in Objects /\ Present(s, ts, f, Len(s) + 1)
      BY <1>2, <1>6 DEF FilesPresent
    <3>2. Len(s) + 1 = n + (Len(t) + 1) /\ Len(t) + 1 \in 1 .. Len(t) + 1
      BY <1>0
    <3>3. Present(s, ts, f, n + (Len(t) + 1))
      BY <3>1, <3>2
    <3>. QED  BY <1>2, <1>4, <3>1, <3>2, <3>3, MovedPresent
  <2>. QED  BY <2>1 DEF FilesPresent
<1>12. \A j \in 1 .. Len(t) : OpOK(t[j])
  BY <1>0, <1>2
<1>. QED  BY <1>2, <1>3, <1>5, <1>8, <1>9, <1>10, <1>11, <1>12 DEF QueueInv, Scheduling

\* A barrier that is reached: the index it waited for is uploaded.
LEMMA MovedWaiter ==
  ASSUME NEW q \in Queues, NEW ts, NEW n, NEW b, NEW t, NEW us, NEW lsn,
         Moved(q.queued, ts, n, b, t, us), QueueInv(q, ts, lsn),
         NEW i \in 1 .. n, q.queued[i].waited
  PROVE  lsn <= LatestIndex.meta.lsn
<1>. DEFINE s == q.queued
<1>0. /\ n \in Nat /\ b \in Nat /\ b <= n /\ n <= Len(s) /\ Len(s) \in Nat
      /\ \A k \in 1 .. n : s[k].type = "barrier" => k \in 1 .. b /\ Active(ts) = {}
  BY TakenTypes
<1>1. \A k \in 1 .. b : s[k].type = "barrier"
  BY DEF Moved, Takes
<1>2. i \in 1 .. Len(s)
  BY <1>0
<1>3. s[i].type = "barrier" /\ Covered(s, ts, lsn, i)
  BY <1>2 DEF QueueInv, Scheduling, Waits
<1>4. i \in 1 .. b /\ Active(ts) = {} /\ \A k \in 1 .. i - 1 : k \in 1 .. b
  BY <1>0, <1>3
<1>5. \A k \in 1 .. i - 1 : s[k].type # "index"
  BY <1>1, <1>4
<1>6. Running(ts, "index") = {}
  BY <1>4 DEF Running
<1>. QED  BY <1>3, <1>5, <1>6 DEF Covered

\* The shutdown operation is reached: nothing is in progress, and the
\* desired index is uploaded.
LEMMA MovedShutdown ==
  ASSUME NEW q \in Queues, NEW r \in Queues, NEW ts, NEW n, NEW b, NEW us, NEW lsn,
         Moved(q.queued, ts, n, b, r.queued, us), r.meta = q.meta, r.files = q.files, r.changes = q.changes,
         r.shuttingDown = q.shuttingDown, QueueInv(q, ts, lsn), AtShutdown(q.queued, ts, n)
  PROVE  /\ Active(us) = {} /\ r.shuttingDown
         /\ \A k \in 1 .. Len(r.queued) : r.queued[k].type # "index"
         /\ Stands(LatestIndex.files, r.files, r.changes) /\ LatestIndex.meta = r.meta
<1>. DEFINE s == q.queued
            t == r.queued
<1>0. /\ n \in Nat /\ b \in Nat /\ b <= n /\ n <= Len(s) /\ Len(s) \in Nat /\ Len(t) \in Nat /\ Len(t) = Len(s) - n
      /\ \A k \in 1 .. n : s[k].type = "barrier" => k \in 1 .. b /\ Active(ts) = {}
      /\ \A j \in 1 .. Len(t) : n + j \in 1 .. Len(s) /\ t[j] = s[n + j]
  BY TakenTypes
<1>1. n < Len(s) /\ s[n + 1].type = "shutdown" /\ Active(ts) = {} /\ \A i \in 1 .. n : s[i].type = "barrier"
  BY DEF AtShutdown
<1>2. n + 1 \in 1 .. Len(s)
  BY <1>0, <1>1
<1>3. q.shuttingDown /\ n + 1 = Len(s)
  BY <1>1, <1>2 DEF QueueInv, Scheduling, Waits
<1>4. \A k \in b + 1 .. n : FALSE
  BY <1>0, <1>1
<1>5. Active(us) = {}
  BY <1>1, <1>4, MovedTasks
<1>6. \A k \in 1 .. Len(s) : k \in 1 .. n \/ k = n + 1
  BY <1>0, <1>3
<1>7. \A k \in 1 .. Len(s) : s[k].type # "index"
  BY <1>1, <1>6
<1>8. \A k \in 1 .. Len(t) : t[k].type # "index"
  BY <1>0, <1>7
<1>9. Running(ts, "index") = {}
  BY <1>1 DEF Running
<1>10. Stands(LatestIndex.files, q.files, q.changes) /\ LatestIndex.meta = q.meta
  BY <1>7, <1>9 DEF QueueInv, Desired
<1>. QED  BY <1>3, <1>5, <1>8, <1>10
-----------------------------------------------------------------------------
(***************************************************************************)
(* Object storage is as it was.                                            *)
(***************************************************************************)
LEMMA KeyGenSame ==
  ASSUME gen' = gen
  PROVE  KeyGen' = KeyGen
BY DEF KeyGen

LEMMA SameRunInv ==
  ASSUME UNCHANGED <<storageVars, gen>>, RunInv(tasks')
  PROVE  RunInv(tasks)'
<1>1. LatestIndex' = LatestIndex /\ HasIndex' = HasIndex /\ KeyGen' = KeyGen /\ store' = store /\ deletions' = deletions
  BY LatestUnchanged, KeyGenSame DEF storageVars
<1>2. TaskKinds(tasks)'
  BY <1>1 DEF RunInv, TaskKinds, OpOK, Known
<1>3. Exclusive(tasks)'
  BY <1>1 DEF RunInv, Exclusive
<1>4. Effects(tasks)'
  BY <1>1 DEF RunInv, Effects
<1>. QED  BY <1>2, <1>3, <1>4 DEF RunInv

LEMMA SameQueueInv ==
  ASSUME UNCHANGED <<storageVars, gen>>, QueueInv(uq', tasks', waitLsn')
  PROVE  QueueInv(uq, tasks, waitLsn)'
<1>1. LatestIndex' = LatestIndex /\ HasIndex' = HasIndex /\ KeyGen' = KeyGen /\ store' = store /\ deletions' = deletions
  BY LatestUnchanged, KeyGenSame DEF storageVars
<1>2. RunInv(tasks)'
  BY SameRunInv DEF QueueInv, Scheduling
<1>3. Scheduling(uq', tasks', waitLsn') /\ Desired(uq', tasks')
  BY DEF QueueInv
<1>4. (\A j \in 1 .. Len(uq.queued) : OpOK(uq.queued[j]))'
  BY <1>1, <1>3 DEF Scheduling, OpOK, Known
<1>5. UploadedFirst(uq.queued, tasks)'
  BY <1>1, <1>3 DEF Scheduling, UploadedFirst, Present, PresentNow
<1>6. UnlinkedFirst(uq.queued, tasks)'
  BY <1>1, <1>3 DEF Scheduling, UnlinkedFirst, Absent, AbsentNow
<1>7. NotDoomed(uq.queued, tasks)'
  BY <1>1, <1>3 DEF Scheduling, NotDoomed
<1>8. LsnOrder(uq, tasks)'
  BY <1>1, <1>3 DEF Scheduling, LsnOrder
<1>9. Waits(uq, tasks, waitLsn)'
  BY <1>1, <1>3 DEF Scheduling, Waits, Covered
<1>10. FilesPresent(uq, tasks)'
  BY <1>1, <1>3 DEF Scheduling, FilesPresent, Present, PresentNow
<1>11. Desired(uq, tasks)'
  BY <1>1, <1>3 DEF Desired
<1>12. HasIndex' /\ ~LatestIndex'.deleted
  BY <1>1, <1>3 DEF Scheduling
<1>. QED  BY <1>2, <1>4, <1>5, <1>6, <1>7, <1>8, <1>9, <1>10, <1>11, <1>12 DEF QueueInv, Scheduling

-----------------------------------------------------------------------------
(***************************************************************************)
(* A task leaves the tasks in progress.                                    *)
(***************************************************************************)

\* us is ts without the i-th task, or with that task waiting to publish.
Leaves(ts, us, i) ==
    /\ ts \in Seq(Tasks) /\ us \in Seq(Tasks) /\ i \in 1 .. Len(ts)
    /\ us = Without(ts, i) \/ (ts[i].phase # "publish" /\ us = [ts EXCEPT ![i].phase = "publish"])

\* Which tasks remain.
LEMMA LeavesActive ==
  ASSUME NEW ts, NEW us, NEW i, Leaves(ts, us, i)
  PROVE  /\ \A k \in Active(us) : \E m \in Active(ts) \ {i} : us[k] = ts[m]
         /\ \A m \in Active(ts) \ {i} : \E k \in Active(us) : us[k] = ts[m]
         /\ \A k, l \in Active(us) : k # l =>
               \E m, p \in Active(ts) \ {i} : m # p /\ us[k] = ts[m] /\ us[l] = ts[p]
<1>0. Len(ts) \in Nat /\ Len(us) \in Nat /\ i \in 1 .. Len(ts) /\ Len(ts) > 0 /\ ts \in Seq(Tasks)
  BY LenProperties DEF Leaves
<1>1. CASE us = Without(ts, i)
  <2>1. Len(us) = Len(ts) - 1 /\ \A k \in 1 .. Len(ts) - 1 : us[k] = ts[IF k < i THEN k ELSE k + 1]
    BY <1>0, <1>1, WithoutTask
  <2>2. \A k \in 1 .. Len(us) : (IF k < i THEN k ELSE k + 1) \in 1 .. Len(ts) \ {i}
    BY <1>0, <2>1
  <2>3. \A k \in Active(us) : (IF k < i THEN k ELSE k + 1) \in Active(ts) \ {i}
    BY <2>1, <2>2 DEF Active
  <2>4. \A k, l \in 1 .. Len(us) : k # l => (IF k < i THEN k ELSE k + 1) # (IF l < i THEN l ELSE l + 1)
    BY <1>0
  <2>5. ASSUME NEW m \in Active(ts) \ {i} PROVE \E k \in Active(us) : us[k] = ts[m]
    <3>1. m \in 1 .. Len(ts) /\ m # i /\ ts[m].phase # "publish"
      BY DEF Active
    <3>2. CASE m < i
      <4>1. m \in 1 .. Len(ts) - 1
        BY <1>0, <3>1, <3>2
      <4>2. us[m] = ts[m]
        BY <2>1, <3>2, <4>1
      <4>. QED  BY <2>1, <3>1, <4>1, <4>2 DEF Active
    <3>3. CASE ~(m < i)
      <4>1. m - 1 \in 1 .. Len(ts) - 1 /\ ~(m - 1 < i) /\ (m - 1) + 1 = m
        BY <1>0, <3>1, <3>3
      <4>2. us[m - 1] = ts[m]
        BY <2>1, <4>1
      <4>. QED  BY <2>1, <3>1, <4>1, <4>2 DEF Active
    <3>. QED  BY <3>2, <3>3
  <2>6. ASSUME NEW k \in Active(us), NEW l \in Active(us), k # l
        PROVE  \E m, p \in Active(ts) \ {i} : m # p /\ us[k] = ts[m] /\ us[l] = ts[p]
    <3>1. k \in 1 .. Len(us) /\ l \in 1 .. Len(us)
      BY DEF Active
    <3>. QED  BY <2>1, <2>3, <2>4, <2>6, <3>1
  <2>7. \A k \in Active(us) : k \in 1 .. Len(ts) - 1
    BY <2>1 DEF Active
  <2>8. \A k \in Active(us) : \E m \in Active(ts) \ {i} : us[k] = ts[m]
    BY <2>1, <2>3, <2>7
  <2>. QED  BY <2>5, <2>6, <2>8
<1>2. CASE us = [ts EXCEPT ![i].phase = "publish"] /\ us # Without(ts, i)
  <2>1. /\ Len(us) = Len(ts)
        /\ \A k \in 1 .. Len(ts) : us[k] = IF k = i THEN [ts[i] EXCEPT !.phase = "publish"] ELSE ts[k]
    <3>1. \A p \in {"run", "done", "publish"} :
             /\ Len([ts EXCEPT ![i].phase = p]) = Len(ts)
             /\ \A k \in 1 .. Len(ts) :
                   [ts EXCEPT ![i].phase = p][k] = IF k = i THEN [ts[i] EXCEPT !.phase = p] ELSE ts[k]
      BY <1>0, TaskChanged
    <3>2. /\ Len([ts EXCEPT ![i].phase = "publish"]) = Len(ts)
          /\ \A k \in 1 .. Len(ts) : [ts EXCEPT ![i].phase = "publish"][k] =
                IF k = i THEN [ts[i] EXCEPT !.phase = "publish"] ELSE ts[k]
      BY <3>1
    <3>. QED  BY <1>2, <3>2, Zenon
  <2>2. us[i].phase = "publish"
    <3>1. ts[i] \in Tasks
      BY <1>0, TaskFields
    <3>. QED  BY <1>0, <2>1, <3>1 DEF Tasks
  <2>3. \A k : k \in Active(us) <=> k \in Active(ts) \ {i}
    BY <2>1, <2>2 DEF Active
  <2>4. \A k \in Active(us) : us[k] = ts[k]
    BY <2>1, <2>3 DEF Active
  <2>5. \A k, l \in Active(us) : k # l =>
               \E m, p \in Active(ts) \ {i} : m # p /\ us[k] = ts[m] /\ us[l] = ts[p]
    BY <2>3, <2>4
  <2>6. \A k \in Active(us) : \E m \in Active(ts) \ {i} : us[k] = ts[m]
    BY <2>3, <2>4
  <2>7. \A m \in Active(ts) \ {i} : \E k \in Active(us) : us[k] = ts[m]
    BY <2>3, <2>4
  <2>. QED  BY <2>5, <2>6, <2>7
<1>. QED  BY <1>1, <1>2 DEF Leaves

LEMMA LeavesTasks ==
  ASSUME NEW ts, NEW us, NEW i, Leaves(ts, us, i)
  PROVE  /\ \A k \in 1 .. Len(us) :
               \/ \E m \in 1 .. Len(ts) : us[k] = ts[m]
               \/ us[k] = [ts[i] EXCEPT !.phase = "publish"] /\ us # Without(ts, i)
         /\ Len(us) > 0 => Len(ts) > 0
<1>0. Len(ts) \in Nat /\ Len(us) \in Nat /\ i \in 1 .. Len(ts) /\ Len(ts) > 0 /\ ts \in Seq(Tasks)
  BY LenProperties DEF Leaves
<1>1. CASE us = Without(ts, i)
  <2>1. Len(us) = Len(ts) - 1 /\ \A k \in 1 .. Len(ts) - 1 : us[k] = ts[IF k < i THEN k ELSE k + 1]
    BY <1>0, <1>1, WithoutTask
  <2>2. \A k \in 1 .. Len(us) : (IF k < i THEN k ELSE k + 1) \in 1 .. Len(ts)
    BY <1>0, <2>1
  <2>. QED  BY <1>0, <2>1, <2>2
<1>2. CASE us = [ts EXCEPT ![i].phase = "publish"] /\ us # Without(ts, i)
  <2>1. /\ Len(us) = Len(ts)
        /\ \A k \in 1 .. Len(ts) : us[k] = IF k = i THEN [ts[i] EXCEPT !.phase = "publish"] ELSE ts[k]
    <3>1. \A p \in {"run", "done", "publish"} :
             /\ Len([ts EXCEPT ![i].phase = p]) = Len(ts)
             /\ \A k \in 1 .. Len(ts) :
                   [ts EXCEPT ![i].phase = p][k] = IF k = i THEN [ts[i] EXCEPT !.phase = p] ELSE ts[k]
      BY <1>0, TaskChanged
    <3>2. /\ Len([ts EXCEPT ![i].phase = "publish"]) = Len(ts)
          /\ \A k \in 1 .. Len(ts) : [ts EXCEPT ![i].phase = "publish"][k] =
                IF k = i THEN [ts[i] EXCEPT !.phase = "publish"] ELSE ts[k]
      BY <3>1
    <3>. QED  BY <1>2, <3>2, Zenon
  <2>. QED  BY <1>0, <1>2, <2>1
<1>. QED  BY <1>1, <1>2 DEF Leaves
LEMMA LeavesRunning ==
  ASSUME NEW ts, NEW us, NEW i, Leaves(ts, us, i), NEW type
  PROVE  /\ \A k \in Running(us, type) : \E m \in Running(ts, type) \ {i} : us[k] = ts[m]
         /\ \A m \in Running(ts, type) \ {i} : \E k \in Running(us, type) : us[k] = ts[m]
<1>1. /\ \A k \in Active(us) : \E m \in Active(ts) \ {i} : us[k] = ts[m]
      /\ \A m \in Active(ts) \ {i} : \E k \in Active(us) : us[k] = ts[m]
  BY LeavesActive
<1>. QED  BY <1>1 DEF Running

LEMMA LeavesOn ==
  ASSUME NEW ts, NEW us, NEW i, Leaves(ts, us, i), NEW type, NEW o
  PROVE  /\ RunningOn(us, type, o) # {} => RunningOn(ts, type, o) # {}
         /\ RunningOn(ts, type, o) # {} => RunningOn(us, type, o) # {} \/ i \in RunningOn(ts, type, o)
BY LeavesRunning DEF RunningOn

LEMMA LeavesDoomed ==
  ASSUME NEW ts, NEW us, NEW i, Leaves(ts, us, i), NEW s, NEW o, Doomed(s, us, o)
  PROVE  Doomed(s, ts, o)
BY LeavesOn DEF Doomed

LEMMA LeavesRunInv ==
  ASSUME NEW ts, NEW us, NEW i, Leaves(ts, us, i), RunInv(ts), StorageType,
         us # Without(ts, i) => ts[i].phase = "done" /\ ts[i].op.type = "index" /\ ~Legacy
  PROVE  RunInv(us)
<1>0. ts \in Seq(Tasks) /\ i \in 1 .. Len(ts) /\ ts[i] \in Tasks /\ ts[i].op.meta.lsn \in Nat
  <2>1. ts \in Seq(Tasks) /\ i \in 1 .. Len(ts)
    BY DEF Leaves
  <2>. QED  BY <2>1, TaskFields
<1>1. TaskKinds(us)
  <2>1. ASSUME NEW k \in 1 .. Len(us)
        PROVE  /\ us[k].op.type \in {"layer", "index", "delete"} /\ OpOK(us[k].op)
               /\ us[k].phase = "publish" =>
                     us[k].op.type = "index" /\ ~Legacy /\ us[k].op.meta.lsn <= LatestIndex.meta.lsn
    <3>1. CASE \E m \in 1 .. Len(ts) : us[k] = ts[m]
      BY <3>1 DEF RunInv, TaskKinds
    <3>2. CASE us[k] = [ts[i] EXCEPT !.phase = "publish"] /\ us # Without(ts, i)
      <4>1. us[k].op = ts[i].op
        BY <1>0, <3>2 DEF Tasks
      <4>2. i \in Running(ts, "index")
        BY <1>0, <3>2 DEF Running, Active
      <4>3. LatestIndex.meta = ts[i].op.meta
        BY <3>2, <4>2 DEF RunInv, Effects
      <4>4. OpOK(ts[i].op) /\ ts[i].op.type = "index" /\ ~Legacy
        BY <1>0, <3>2 DEF RunInv, TaskKinds
      <4>. QED  BY <1>0, <4>1, <4>3, <4>4
    <3>. QED  BY <3>1, <3>2, LeavesTasks
  <2>2. Len(us) > 0 => HasIndex /\ ~LatestIndex.deleted
    BY LeavesTasks DEF RunInv, TaskKinds
  <2>. QED  BY <2>1, <2>2 DEF TaskKinds
<1>2. Exclusive(us)
  <2>1. ASSUME NEW k \in Running(us, "index"), NEW l \in Active(us), k # l PROVE us[l].op.type = "layer"
    <3>1. k \in Active(us) /\ us[k].op.type = "index"
      BY DEF Running
    <3>2. PICK m \in Active(ts), p \in Active(ts) : m # p /\ us[k] = ts[m] /\ us[l] = ts[p]
      <4>1. \A x, y \in Active(us) : x # y =>
               \E m, p \in Active(ts) \ {i} : m # p /\ us[x] = ts[m] /\ us[y] = ts[p]
        BY LeavesActive
      <4>. QED  BY <2>1, <3>1, <4>1
    <3>3. m \in Running(ts, "index")
      BY <3>1, <3>2 DEF Running
    <3>. QED  BY <3>2, <3>3 DEF RunInv, Exclusive
  <2>2. \A o \in Objects : RunningOn(us, "layer", o) # {} => RunningOn(us, "delete", o) = {}
    BY LeavesOn DEF RunInv, Exclusive
  <2>. QED  BY <2>1, <2>2 DEF Exclusive
<1>3. Effects(us)
  <2>1. /\ \A k \in Running(us, "layer") : \E m \in Running(ts, "layer") : us[k] = ts[m]
        /\ \A k \in Running(us, "index") : \E m \in Running(ts, "index") : us[k] = ts[m]
        /\ \A k \in Running(us, "delete") : \E m \in Running(ts, "delete") : us[k] = ts[m]
    BY LeavesRunning
  <2>. QED  BY <2>1 DEF RunInv, Effects
<1>. QED  BY <1>1, <1>2, <1>3 DEF RunInv

LEMMA LeavesQueueInv ==
  ASSUME NEW q \in Queues, NEW ts, NEW us, NEW i, NEW lsn \in Lsns, Leaves(ts, us, i), StorageType,
         QueueInv(q, ts, lsn), RunInv(us), ts[i].phase \in {"done", "publish"}
  PROVE  QueueInv(q, us, lsn)
<1>0. /\ ts \in Seq(Tasks) /\ i \in 1 .. Len(ts) /\ q.queued \in Seq(Ops)
      /\ ts[i].op.objs \subseteq Objects /\ ts[i].op.meta.lsn \in Nat /\ lsn \in Nat
  <2>1. ts \in Seq(Tasks) /\ i \in 1 .. Len(ts)
    BY DEF Leaves
  <2>. QED  BY <2>1, TaskFields, QueueType, Bounds
<1>1. Scheduling(q, ts, lsn) /\ Desired(q, ts)
  BY DEF QueueInv
<1>2. /\ RunInv(ts) /\ UploadedFirst(q.queued, ts) /\ UnlinkedFirst(q.queued, ts) /\ NotDoomed(q.queued, ts)
      /\ LsnOrder(q, ts) /\ Waits(q, ts, lsn) /\ FilesPresent(q, ts) /\ HasIndex /\ ~LatestIndex.deleted
      /\ \A j \in 1 .. Len(q.queued) : OpOK(q.queued[j])
  BY <1>1 DEF Scheduling
<1>3. i \in Active(ts) => ts[i].phase = "done"
  BY DEF Active
<1>4. \A k \in Running(us, "index") : \E m \in Running(ts, "index") \ {i} : us[k] = ts[m]
  BY LeavesRunning
<1>5. \A m \in Running(ts, "index") \ {i} : \E k \in Running(us, "index") : us[k] = ts[m]
  BY LeavesRunning
<1>6. ASSUME i \in Running(ts, "index")
      PROVE  /\ LatestIndex.files = ts[i].op.objs /\ LatestIndex.meta = ts[i].op.meta
             /\ Running(us, "index") = {} /\ \A m \in Running(ts, "index") : m = i
  <2>1. ts[i].phase = "done"
    BY <1>3, <1>6 DEF Running
  <2>2. \A m \in Running(ts, "index") : m = i
    BY <1>2, <1>6 DEF RunInv, Exclusive, Running
  <2>. QED  BY <1>2, <1>4, <1>6, <2>1, <2>2 DEF RunInv, Effects
<1>7. ASSUME NEW f, PresentNow(ts, f) PROVE PresentNow(us, f)
  <2>1. RunningOn(us, "delete", f) = {}
    BY <1>7, LeavesOn DEF PresentNow
  <2>2. i \in RunningOn(ts, "layer", f) => f \in store
    BY <1>2, <1>3 DEF RunInv, Effects, RunningOn, Running
  <2>3. f \in store \/ RunningOn(us, "layer", f) # {}
    BY <1>7, <2>2, LeavesOn DEF PresentNow
  <2>. QED  BY <1>7, <2>1, <2>3 DEF PresentNow
<1>8. ASSUME NEW o, AbsentNow(ts, o) PROVE AbsentNow(us, o)
  <2>1. RunningOn(us, "index", o) = {}
    BY <1>8, LeavesOn DEF AbsentNow
  <2>2. ASSUME Running(us, "index") = {} PROVE o \notin LatestIndex.files
    <3>1. CASE i \in Running(ts, "index")
      BY <1>6, <1>8, <3>1 DEF AbsentNow, RunningOn
    <3>2. CASE i \notin Running(ts, "index")
      BY <1>5, <1>8, <2>2, <3>2 DEF AbsentNow
    <3>. QED  BY <3>1, <3>2
  <2>. QED  BY <2>1, <2>2 DEF AbsentNow
<1>9. \A f, j : Present(q.queued, ts, f, j) => Present(q.queued, us, f, j)
  BY <1>7 DEF Present
<1>10. \A o, j : Absent(q.queued, ts, o, j) => Absent(q.queued, us, o, j)
  BY <1>8 DEF Absent
<1>11. UploadedFirst(q.queued, us) /\ FilesPresent(q, us)
  BY <1>2, <1>9 DEF UploadedFirst, FilesPresent
<1>12. UnlinkedFirst(q.queued, us)
  BY <1>2, <1>10 DEF UnlinkedFirst
<1>13. NotDoomed(q.queued, us)
  <2>1. \A o : RunningOn(us, "delete", o) # {} => RunningOn(ts, "delete", o) # {}
    BY LeavesOn
  <2>. QED  BY <1>2, <2>1 DEF NotDoomed
<1>14. LsnOrder(q, us)
  BY <1>2, <1>4 DEF LsnOrder
<1>15. ASSUME NEW j, Covered(q.queued, ts, lsn, j) PROVE Covered(q.queued, us, lsn, j)
  <2>1. ASSUME NEW m \in Running(ts, "index"), lsn <= ts[m].op.meta.lsn PROVE Covered(q.queued, us, lsn, j)
    <3>1. CASE m = i
      BY <1>6, <2>1, <3>1 DEF Covered
    <3>2. CASE m # i
      BY <1>5, <2>1, <3>2 DEF Covered
    <3>. QED  BY <3>1, <3>2
  <2>. QED  BY <1>15, <2>1 DEF Covered
<1>16. Waits(q, us, lsn)
  BY <1>2, <1>15 DEF Waits
<1>17. Desired(q, us)
  <2>1. ASSUME \A k \in 1 .. Len(q.queued) : q.queued[k].type # "index",
               NEW m \in Running(ts, "index"), Stands(ts[m].op.objs, q.files, q.changes), ts[m].op.meta = q.meta
        PROVE  Desired(q, us)
    <3>1. CASE m = i
      BY <1>6, <2>1, <3>1 DEF Desired
    <3>2. CASE m # i
      BY <1>5, <2>1, <3>2 DEF Desired
    <3>. QED  BY <3>1, <3>2
  <2>2. Running(ts, "index") = {} => Running(us, "index") = {}
    BY <1>4
  <2>. QED  BY <1>1, <2>1, <2>2 DEF Desired
<1>. QED  BY <1>2, <1>11, <1>12, <1>13, <1>14, <1>16, <1>17 DEF QueueInv, Scheduling
-----------------------------------------------------------------------------
(***************************************************************************)
(* Object storage changes while the tasks stay in progress.                *)
(***************************************************************************)
Like(ts, us) ==
    /\ ts \in Seq(Tasks) /\ us \in Seq(Tasks) /\ Len(us) = Len(ts)
    /\ \A i \in 1 .. Len(ts) :
          us[i].op = ts[i].op /\ (us[i].phase = "publish" <=> ts[i].phase = "publish")

LEMMA LikeRunning ==
  ASSUME NEW ts, NEW us, Like(ts, us)
  PROVE  /\ Active(us) = Active(ts)
         /\ \A type : Running(us, type) = Running(ts, type)
         /\ \A type, o : RunningOn(us, type, o) = RunningOn(ts, type, o)
         /\ \A i \in Active(ts) : us[i].op = ts[i].op
         /\ \A s, o : Doomed(s, us, o) <=> Doomed(s, ts, o)
<1>1. Active(us) = Active(ts) /\ \A i \in Active(ts) : us[i].op = ts[i].op
  BY DEF Like, Active
<1>2. \A type : Running(us, type) = Running(ts, type)
  BY <1>1 DEF Running
<1>3. \A type, o : RunningOn(us, type, o) = RunningOn(ts, type, o)
  BY <1>1, <1>2 DEF RunningOn, Running
<1>4. \A s, o : Doomed(s, us, o) <=> Doomed(s, ts, o)
  BY <1>3 DEF Doomed
<1>. QED  BY <1>1, <1>2, <1>3, <1>4

LEMMA LikeSelf ==
  ASSUME NEW ts \in Seq(Tasks)
  PROVE  Like(ts, ts)
BY DEF Like

LEMMA LikeChanged ==
  ASSUME NEW ts \in Seq(Tasks), NEW i \in 1 .. Len(ts)
  PROVE  /\ ts[i].phase = "run" => Like(ts, [ts EXCEPT ![i].phase = "done"])
         /\ \A c \in {"none", "tenant", "deletion"} : Like(ts, [ts EXCEPT ![i].joiner = c])
<1>0. ts[i] \in Tasks
  BY TaskFields
<1>1. ASSUME ts[i].phase = "run" PROVE Like(ts, [ts EXCEPT ![i].phase = "done"])
  <2>. DEFINE us == [ts EXCEPT ![i].phase = "done"]
  <2>1. \A p \in {"run", "done", "publish"} :
             /\ [ts EXCEPT ![i].phase = p] \in Seq(Tasks) /\ Len([ts EXCEPT ![i].phase = p]) = Len(ts)
             /\ \A k \in 1 .. Len(ts) :
                   [ts EXCEPT ![i].phase = p][k] = IF k = i THEN [ts[i] EXCEPT !.phase = p] ELSE ts[k]
    BY TaskChanged
  <2>2. /\ us \in Seq(Tasks) /\ Len(us) = Len(ts)
        /\ \A k \in 1 .. Len(ts) : us[k] = IF k = i THEN [ts[i] EXCEPT !.phase = "done"] ELSE ts[k]
    BY <2>1
  <2>. HIDE DEF us
  <2>3. [ts[i] EXCEPT !.phase = "done"].op = ts[i].op /\ [ts[i] EXCEPT !.phase = "done"].phase = "done"
    BY <1>0 DEF Tasks
  <2>4. Like(ts, us)
    BY <1>1, <2>2, <2>3 DEF Like
  <2>. QED  BY <2>4 DEF us
<1>2. ASSUME NEW c \in {"none", "tenant", "deletion"} PROVE Like(ts, [ts EXCEPT ![i].joiner = c])
  <2>. DEFINE us == [ts EXCEPT ![i].joiner = c]
  <2>1. \A d \in {"none", "tenant", "deletion"} :
             /\ [ts EXCEPT ![i].joiner = d] \in Seq(Tasks) /\ Len([ts EXCEPT ![i].joiner = d]) = Len(ts)
             /\ \A k \in 1 .. Len(ts) :
                   [ts EXCEPT ![i].joiner = d][k] = IF k = i THEN [ts[i] EXCEPT !.joiner = d] ELSE ts[k]
    BY TaskChanged
  <2>2. /\ us \in Seq(Tasks) /\ Len(us) = Len(ts)
        /\ \A k \in 1 .. Len(ts) : us[k] = IF k = i THEN [ts[i] EXCEPT !.joiner = c] ELSE ts[k]
    BY <2>1
  <2>. HIDE DEF us
  <2>3. [ts[i] EXCEPT !.joiner = c].op = ts[i].op /\ [ts[i] EXCEPT !.joiner = c].phase = ts[i].phase
    BY <1>0 DEF Tasks
  <2>4. Like(ts, us)
    BY <2>2, <2>3 DEF Like
  <2>. QED  BY <2>4 DEF us
<1>. QED  BY <1>1, <1>2

\* The newest index stays, or becomes that of the task that uploads one.
LatestMoves ==
    \/ LatestIndex' = LatestIndex /\ HasIndex' = HasIndex
    \/ /\ HasIndex' /\ ~LatestIndex'.deleted
       /\ \E i \in Running(tasks, "index") :
             LatestIndex'.files = tasks[i].op.objs /\ LatestIndex'.meta = tasks[i].op.meta

LEMMA StorageQueueInv ==
  ASSUME ClientType, StorageType, StorageType', FlowType, uq' = uq, Like(tasks, tasks'), waitLsn' = waitLsn,
         gen' = gen, QueueInv(uq, tasks, waitLsn), RunInv(tasks)', LatestMoves,
         \A f \in Objects : PresentNow(tasks, f) => PresentNow(tasks, f)',
         \A j \in 1 .. Len(uq.queued) : uq.queued[j].type = "layer" => uq.queued[j].objs \cap deletions' = {}
  PROVE  QueueInv(uq, tasks, waitLsn)'
<1>0. /\ uq \in Queues /\ tasks \in Seq(Tasks) /\ uq.queued \in Seq(Ops) /\ uq.files \subseteq Objects
      /\ waitLsn \in Nat /\ LatestIndex.meta.lsn \in Nat
  BY QueueType, LatestFields, Bounds DEF ClientType, FlowType
<1>1. Scheduling(uq, tasks, waitLsn) /\ Desired(uq, tasks)
  BY DEF QueueInv
<1>2. /\ RunInv(tasks) /\ UploadedFirst(uq.queued, tasks) /\ UnlinkedFirst(uq.queued, tasks)
      /\ NotDoomed(uq.queued, tasks) /\ LsnOrder(uq, tasks) /\ Waits(uq, tasks, waitLsn)
      /\ FilesPresent(uq, tasks) /\ HasIndex /\ ~LatestIndex.deleted
      /\ \A j \in 1 .. Len(uq.queued) : OpOK(uq.queued[j])
  BY <1>1 DEF Scheduling
<1>3. /\ Active(tasks') = Active(tasks)
      /\ \A type : Running(tasks', type) = Running(tasks, type)
      /\ \A type, o : RunningOn(tasks', type, o) = RunningOn(tasks, type, o)
      /\ \A i \in Active(tasks) : tasks'[i].op = tasks[i].op
  BY LikeRunning
<1>4. \A i \in Running(tasks, "index") : /\ tasks'[i].op = tasks[i].op /\ tasks[i].op.meta.lsn \in Nat
                                         /\ LatestIndex.meta.lsn <= tasks[i].op.meta.lsn
                                         /\ \A j \in Running(tasks, "index") : i = j
  <2>1. \A i \in Running(tasks, "index") : i \in 1 .. Len(tasks) /\ i \in Active(tasks) /\ tasks[i].op.type = "index"
    BY DEF Running, Active
  <2>2. \A i \in Running(tasks, "index") : tasks[i].op.meta.lsn \in Nat
    BY <1>0, <2>1, TaskFields
  <2>. QED  BY <1>2, <1>3, <2>1, <2>2 DEF RunInv, Effects, Exclusive
<1>5. ASSUME NEW o, AbsentNow(tasks, o) PROVE AbsentNow(tasks, o)'
  <2>1. RunningOn(tasks', "index", o) = {}
    BY <1>3, <1>5 DEF AbsentNow
  <2>2. Running(tasks', "index") = {} => o \notin LatestIndex'.files
    BY <1>3, <1>5 DEF AbsentNow, LatestMoves
  <2>. QED  BY <2>1, <2>2 DEF AbsentNow
<1>6. UploadedFirst(uq.queued, tasks)'
  <2>1. ASSUME NEW j \in 1 .. Len(uq.queued), uq.queued[j].type = "index", NEW f \in uq.queued[j].objs
        PROVE  Present(uq.queued, tasks, f, j)'
    <3>1. f \in Objects /\ Present(uq.queued, tasks, f, j)
      BY <1>0, <1>2, <2>1, OpFields DEF UploadedFirst
    <3>. QED  BY <3>1 DEF Present
  <2>. QED  BY <2>1 DEF UploadedFirst
<1>7. FilesPresent(uq, tasks)'
  <2>1. ASSUME NEW f \in uq.files PROVE Present(uq.queued, tasks, f, Len(uq.queued) + 1)'
    <3>1. f \in Objects /\ Present(uq.queued, tasks, f, Len(uq.queued) + 1)
      BY <1>0, <1>2 DEF FilesPresent
    <3>. QED  BY <3>1 DEF Present
  <2>. QED  BY <2>1 DEF FilesPresent
<1>8. UnlinkedFirst(uq.queued, tasks)'
  BY <1>2, <1>5 DEF UnlinkedFirst, Absent
<1>9. NotDoomed(uq.queued, tasks)'
  BY <1>2, <1>3 DEF NotDoomed
<1>10. \A j \in 1 .. Len(uq.queued) : uq.queued[j].meta.lsn \in Nat
  BY <1>0, OpFields
<1>11. LsnOrder(uq, tasks)'
  <2>1. \/ LatestIndex'.meta = LatestIndex.meta
        \/ \E i \in Running(tasks, "index") : LatestIndex'.meta = tasks[i].op.meta
    BY DEF LatestMoves
  <2>2. LatestIndex'.meta.lsn <= uq.meta.lsn
    BY <1>2, <2>1 DEF LsnOrder
  <2>3. \A j \in 1 .. Len(uq.queued) : uq.queued[j].type = "index" => LatestIndex'.meta.lsn <= uq.queued[j].meta.lsn
    BY <1>2, <2>1 DEF LsnOrder
  <2>. QED  BY <1>2, <1>3, <1>4, <2>2, <2>3 DEF LsnOrder
<1>12. LatestIndex.meta.lsn <= LatestIndex'.meta.lsn /\ LatestIndex'.meta.lsn \in Nat
  BY <1>0, <1>4 DEF LatestMoves
<1>13. ASSUME NEW j, Covered(uq.queued, tasks, waitLsn, j) PROVE Covered(uq.queued, tasks, waitLsn, j)'
  <2>1. waitLsn <= LatestIndex.meta.lsn => waitLsn <= LatestIndex'.meta.lsn
    BY <1>0, <1>12
  <2>2. \A i \in Running(tasks, "index") : i \in Running(tasks', "index") /\ tasks'[i].op = tasks[i].op
    BY <1>3, <1>4
  <2>. QED  BY <1>13, <2>1, <2>2 DEF Covered
<1>14. Waits(uq, tasks, waitLsn)'
  BY <1>2, <1>13 DEF Waits
<1>15. Desired(uq, tasks)'
  <2>1. \A i \in Running(tasks, "index") : i \in Running(tasks', "index") /\ tasks'[i].op = tasks[i].op
    BY <1>3, <1>4
  <2>2. Running(tasks, "index") = {} => Running(tasks', "index") = {} /\ LatestIndex' = LatestIndex
    BY <1>3 DEF LatestMoves
  <2>. QED  BY <1>1, <2>1, <2>2 DEF Desired
<1>16. HasIndex' /\ ~LatestIndex'.deleted
  BY <1>2 DEF LatestMoves
<1>17. (\A j \in 1 .. Len(uq.queued) : OpOK(uq.queued[j]))'
  BY <1>2, KeyGenSame DEF OpOK, Known
<1>. QED  BY <1>6, <1>7, <1>8, <1>9, <1>11, <1>14, <1>15, <1>16, <1>17 DEF QueueInv, Scheduling
\* Only the invariant of the timeline depends on what it has and will delete.
LEMMA TimelineSame ==
  ASSUME IInv, UNCHANGED <<layerMap, compaction, dropping, diskLsn, gen>>, uq'.state = "Initialized" => uq.state = "Initialized",
         uq'.files = uq.files, uq'.meta = uq.meta,
         \A o \in Objects : Spent(o)' => Spent(o)
  PROVE  TimelineInv'
<1>. SUFFICES ASSUME uq'.state = "Initialized" PROVE (MapInv /\ CompactionInv /\ Fresh)'
  BY DEF TimelineInv
<1>0. /\ MapInv /\ CompactionInv /\ Fresh /\ layerMap \subseteq Objects
      /\ layerMap' = layerMap /\ compaction' = compaction /\ dropping' = dropping /\ diskLsn' = diskLsn
      /\ KeyGen' = KeyGen
  BY KeyGenSame DEF IInv, TimelineInv, TypeInv, TimelineType
<1>1. MapInv'
  BY <1>0 DEF MapInv, Known, NewImages
<1>2. CompactionInv'
  BY <1>0 DEF CompactionInv
<1>3. Fresh'
  BY <1>0 DEF Fresh
<1>. QED  BY <1>1, <1>2, <1>3

LEMMA TimelineFrame ==
  ASSUME IInv, UNCHANGED <<timelineVars, gen>>, uq'.state = "Initialized" => uq.state = "Initialized",
         uq'.files = uq.files, uq'.meta = uq.meta,
         \A o \in Objects : Spent(o)' => Spent(o)
  PROVE  TimelineInv'
<1>1. UNCHANGED <<layerMap, compaction, dropping, diskLsn, gen>>
  BY DEF timelineVars
<1>. QED  BY <1>1, TimelineSame

LEMMA SpentSame ==
  ASSUME dropping' = dropping, deletions' = deletions, uq' = uq, Like(tasks, tasks'), NEW o
  PROVE  Spent(o)' <=> Spent(o)
<1>1. Doomed(uq'.queued, tasks', o) <=> Doomed(uq.queued, tasks, o)
  BY LikeRunning
<1>. QED  BY <1>1 DEF Spent

LEMMA StorageStep ==
  ASSUME IInv, TypeInv', uq' = uq, Like(tasks, tasks'), RunInv(tasks)', LatestMoves, GenInv',
         UNCHANGED <<shutdownReady, waiter, lsnVars, timelineVars, flowVars, gen, waitLsn>>,
         "tenant" \notin Activities => \A i \in 1 .. Len(tasks') : tasks'[i].joiner # "tenant",
         \A f \in Objects : PresentNow(tasks, f) => PresentNow(tasks, f)',
         uq.state = "Initialized" =>
            \A j \in 1 .. Len(uq.queued) : uq.queued[j].type = "layer" => uq.queued[j].objs \cap deletions' = {},
         ~LatestIndex'.deleted => LatestIndex'.files \subseteq store' \ deletions',
         \A o \in deletions' : o \in deletions \/ (~Legacy /\ RunningOn(tasks, "delete", o) # {})
  PROVE  IInv'
<1>0. /\ ClientInv /\ DrainInv /\ DurableInv /\ DeleteInv /\ GenInv /\ TypeInv
      /\ ClientType /\ StorageType /\ FlowType /\ StorageType' /\ ClientType'
  BY DEF IInv, TypeInv
<1>u. /\ shutdownReady' = shutdownReady /\ waiter' = waiter /\ visible' = visible /\ pendingLsn' = pendingLsn
      /\ advertised' = advertised /\ compaction' = compaction /\ dropping' = dropping
      /\ tenant' = tenant /\ deletion' = deletion /\ deletedAt' = deletedAt /\ deleteAcked' = deleteAcked
      /\ waitLsn' = waitLsn /\ gen' = gen
  BY DEF lsnVars, timelineVars, flowVars
<1>1. Active(tasks') = Active(tasks) /\ Len(tasks') = Len(tasks) /\ tasks \in Seq(Tasks) /\ tasks' \in Seq(Tasks)
  BY LikeRunning DEF Like
<1>2. tasks = << >> => tasks' = << >>
  BY <1>1, EmptySeq
<1>3. Running(tasks, "index") # {} => /\ Active(tasks) # {} /\ ~LatestIndex.deleted
  <2>1. Running(tasks, "index") # {} => Active(tasks) # {} /\ Len(tasks) > 0
    <3>1. \A i \in Running(tasks, "index") : i \in 1 .. Len(tasks) /\ i \in Active(tasks)
      BY DEF Running, Active
    <3>2. Len(tasks) \in Nat
      BY <1>1, LenProperties
    <3>. QED  BY <3>1, <3>2
  <2>. QED  BY <1>0, <2>1 DEF ClientInv, RunInv, TaskKinds
<1>4. ClientInv'
  <2>1. uq.state = "Initialized" => QueueInv(uq, tasks, waitLsn)'
    BY <1>0, <1>u, StorageQueueInv DEF ClientInv
  <2>2. (WellFormed(uq.files) /\ Known(uq.files))'
    BY <1>0, <1>u, KeyGenSame DEF ClientInv, Known
  <2>. QED  BY <1>0, <1>u, <1>2, <2>1, <2>2 DEF ClientInv
<1>5. DrainInv'
  <2>1. shutdownReady => LatestIndex' = LatestIndex
    BY <1>0, <1>3 DEF DrainInv, LatestMoves
  <2>. QED  BY <1>0, <1>u, <1>1, <2>1 DEF DrainInv
<1>6. DurableInv'
  <2>1. ASSUME ~LatestIndex'.deleted
        PROVE  /\ ~LatestIndex.deleted /\ LatestIndex.meta.lsn <= LatestIndex'.meta.lsn
    <3>1. LatestIndex.meta.lsn \in Nat
      BY <1>0, LatestFields
    <3>2. \A i \in Running(tasks, "index") : LatestIndex.meta.lsn <= tasks[i].op.meta.lsn
      BY <1>0 DEF ClientInv, RunInv, Effects
    <3>. QED  BY <1>3, <2>1, <3>1, <3>2 DEF LatestMoves
  <2>2. LatestIndex.meta.lsn \in Nat /\ LatestIndex'.meta.lsn \in Nat /\ advertised \in Nat /\ waitLsn \in Nat
        /\ \A l \in pendingLsn : l \in Nat
    <3>1. LatestIndex.meta.lsn \in Nat
      BY <1>0, LatestFields
    <3>2. LatestIndex'.meta.lsn \in Nat
      <4>1. \A i \in Running(tasks, "index") : i \in 1 .. Len(tasks)
        BY DEF Running, Active
      <4>2. \A i \in Running(tasks, "index") : tasks[i].op.meta.lsn \in Nat
        BY <1>1, <4>1, TaskFields
      <4>. QED  BY <3>1, <4>2 DEF LatestMoves
    <3>. QED  BY <1>0, <3>1, <3>2, Bounds DEF FlowType
  <2>3. ASSUME ~LatestIndex'.deleted
        PROVE  /\ advertised' <= LatestIndex'.meta.lsn
               /\ \A l \in pendingLsn' : l <= LatestIndex'.meta.lsn
               /\ waiter' = "done" => waitLsn' <= LatestIndex'.meta.lsn
    BY <1>0, <1>u, <2>1, <2>2, <2>3 DEF DurableInv
  <2>. QED  BY <2>3 DEF DurableInv
<1>7. DeleteInv'
  <2>1. LatestIndex' = LatestIndex \/ (~LatestIndex.deleted /\ ~LatestIndex'.deleted)
    BY <1>3 DEF LatestMoves
  <2>. QED  BY <1>0, <1>u, <1>2, <2>1 DEF DeleteInv, TaskIds
<1>8. TimelineInv'
  <2>1. ASSUME NEW o \in Objects, Spent(o)' PROVE Spent(o)
    <3>1. Doomed(uq'.queued, tasks', o) <=> Doomed(uq.queued, tasks, o)
      BY LikeRunning
    <3>2. ~Legacy /\ RunningOn(tasks, "delete", o) # {} => Doomed(uq.queued, tasks, o)
      BY DEF Doomed
    <3>. QED  BY <1>u, <2>1, <3>1, <3>2 DEF Spent
  <2>. QED  BY <1>u, <2>1, TimelineFrame
<1>. QED  BY <1>4, <1>5, <1>6, <1>7, <1>8 DEF IInv
LEMMA LikeKinds ==
  ASSUME StorageType, Like(tasks, tasks'), RunInv(tasks), gen' = gen, LatestMoves
  PROVE  TaskKinds(tasks)' /\ Exclusive(tasks)'
<1>0. /\ tasks \in Seq(Tasks) /\ Len(tasks') = Len(tasks)
      /\ \A i \in 1 .. Len(tasks) :
            tasks'[i].op = tasks[i].op /\ (tasks'[i].phase = "publish" <=> tasks[i].phase = "publish")
      /\ KeyGen' = KeyGen /\ LatestIndex.meta.lsn \in Nat
  BY LatestFields, KeyGenSame DEF Like
<1>1. \A i \in 1 .. Len(tasks) : tasks[i].op.meta.lsn \in Nat
  BY <1>0, TaskFields
<1>2. \A i \in Running(tasks, "index") : LatestIndex.meta.lsn <= tasks[i].op.meta.lsn /\ i \in 1 .. Len(tasks)
  BY DEF RunInv, Effects, Running, Active
<1>3. LatestIndex.meta.lsn <= LatestIndex'.meta.lsn /\ LatestIndex'.meta.lsn \in Nat
  BY <1>0, <1>1, <1>2 DEF LatestMoves
<1>4. TaskKinds(tasks)'
  <2>1. ASSUME NEW i \in 1 .. Len(tasks)
        PROVE  /\ tasks'[i].op.type \in {"layer", "index", "delete"} /\ OpOK(tasks[i].op)'
               /\ tasks'[i].phase = "publish" =>
                     tasks'[i].op.type = "index" /\ ~Legacy /\ tasks'[i].op.meta.lsn <= LatestIndex'.meta.lsn
    <3>1. tasks'[i].op = tasks[i].op /\ tasks[i].op.type \in {"layer", "index", "delete"} /\ OpOK(tasks[i].op)
      BY <1>0 DEF RunInv, TaskKinds
    <3>2. OpOK(tasks[i].op)'
      BY <1>0, <3>1 DEF OpOK, Known
    <3>3. tasks[i].phase = "publish" =>
             tasks[i].op.type = "index" /\ ~Legacy /\ tasks[i].op.meta.lsn <= LatestIndex'.meta.lsn
      BY <1>0, <1>1, <1>3 DEF RunInv, TaskKinds
    <3>. QED  BY <1>0, <3>1, <3>2, <3>3
  <2>2. Len(tasks) > 0 => HasIndex' /\ ~LatestIndex'.deleted
    BY DEF RunInv, TaskKinds, LatestMoves
  <2>. QED  BY <1>0, <2>1, <2>2 DEF TaskKinds
<1>5. Exclusive(tasks)'
  <2>1. /\ Active(tasks') = Active(tasks)
        /\ \A type : Running(tasks', type) = Running(tasks, type)
        /\ \A type, o : RunningOn(tasks', type, o) = RunningOn(tasks, type, o)
        /\ \A i \in Active(tasks) : tasks'[i].op = tasks[i].op
    BY LikeRunning
  <2>. QED  BY <2>1 DEF RunInv, Exclusive
<1>. QED  BY <1>4, <1>5

LEMMA AttemptTasks ==
  ASSUME TypeInv, NEW i \in TaskIds, NEW replied \in BOOLEAN, TaskAttempt(i, replied)
  PROVE  /\ Like(tasks, tasks') /\ i \in Active(tasks)
         /\ \A k \in 1 .. Len(tasks) : /\ tasks'[k].joiner = tasks[k].joiner /\ tasks'[k].op = tasks[k].op
                                       /\ k # i => tasks'[k] = tasks[k]
<1>a. tasks \in Seq(Tasks) /\ i \in 1 .. Len(tasks)
  BY DEF TypeInv, ClientType, TaskIds
<1>0. tasks \in Seq(Tasks) /\ i \in 1 .. Len(tasks) /\ tasks[i].phase = "run" /\ tasks[i] \in Tasks
      /\ tasks' = IF replied THEN [tasks EXCEPT ![i].phase = "done"] ELSE tasks
  <2>2. /\ tasks[i].phase = "run"
        /\ tasks' = IF replied THEN [tasks EXCEPT ![i].phase = "done"] ELSE tasks
    BY DEF TaskAttempt
  <2>. QED  BY <1>a, <2>2, TaskFields
<1>1. Like(tasks, tasks')
  BY <1>0, LikeSelf, LikeChanged
<1>2. i \in Active(tasks)
  BY <1>0 DEF Active
<1>3. \A p \in {"run", "done", "publish"} :
         /\ Len([tasks EXCEPT ![i].phase = p]) = Len(tasks)
         /\ \A k \in 1 .. Len(tasks) :
               [tasks EXCEPT ![i].phase = p][k] = IF k = i THEN [tasks[i] EXCEPT !.phase = p] ELSE tasks[k]
  BY <1>a, TaskChanged
<1>4. \A k \in 1 .. Len(tasks) :
         [tasks EXCEPT ![i].phase = "done"][k] = IF k = i THEN [tasks[i] EXCEPT !.phase = "done"] ELSE tasks[k]
  BY <1>3
<1>5. [tasks[i] EXCEPT !.phase = "done"].joiner = tasks[i].joiner /\ [tasks[i] EXCEPT !.phase = "done"].op = tasks[i].op
  BY <1>0 DEF Tasks
<1>6. \A k \in 1 .. Len(tasks) : /\ tasks'[k].joiner = tasks[k].joiner /\ tasks'[k].op = tasks[k].op
                                 /\ k # i => tasks'[k] = tasks[k]
  <2>1. CASE replied
    BY <1>0, <1>4, <1>5, <2>1
  <2>2. CASE ~replied
    BY <1>0, <2>2
  <2>. QED  BY <2>1, <2>2
<1>. QED  BY <1>1, <1>2, <1>6

\* The effects of the tasks when the one that acted may have become done.
LEMMA AttemptEffects ==
  ASSUME TypeInv, RunInv(tasks), Like(tasks, tasks'), NEW i \in Active(tasks),
         \A k \in 1 .. Len(tasks) : tasks'[k].op = tasks[k].op /\ (k # i => tasks'[k] = tasks[k]),
         \A k \in Running(tasks, "layer") :
            /\ tasks[k].op.objs \cap deletions' = {}
            /\ tasks[k].phase = "done" \/ k = i => tasks[k].op.objs \subseteq store',
         \A k \in Running(tasks, "index") :
            /\ tasks[k].op.objs \subseteq store' \ deletions'
            /\ LatestIndex'.meta.lsn <= tasks[k].op.meta.lsn
            /\ tasks[k].phase = "done" \/ k = i =>
                  LatestIndex'.files = tasks[k].op.objs /\ LatestIndex'.meta = tasks[k].op.meta,
         \A k \in Running(tasks, "delete") : tasks[k].op.objs \cap LatestIndex'.files = {}
  PROVE  Effects(tasks)'
<1>1. /\ \A type : Running(tasks', type) = Running(tasks, type)
      /\ \A k \in Active(tasks) : tasks'[k].op = tasks[k].op /\ (k # i => tasks'[k] = tasks[k])
      /\ \A type : \A k \in Running(tasks, type) : k \in Active(tasks)
  BY LikeRunning DEF Active, Running
<1>. QED  BY <1>1 DEF Effects
LEMMA GenFrame ==
  ASSUME GenInv, index' = index, gen' = gen, deletions' \subseteq deletions, deletions \subseteq Objects,
         uq'.state = "Uninitialized" => uq.state = "Uninitialized"
  PROVE  GenInv'
<1>1. KeyGen' = KeyGen
  BY KeyGenSame
<1>. QED  BY <1>1 DEF GenInv, Known

LEMMA TaskAttemptInv ==
  ASSUME IInv, TypeInv', NEW i \in TaskIds, NEW replied \in BOOLEAN, TaskAttempt(i, replied)
  PROVE  IInv'
<1>. DEFINE op == tasks[i].op
<1>0. /\ ClientInv /\ DrainInv /\ DurableInv /\ DeleteInv /\ GenInv /\ TypeInv /\ RunInv(tasks)
      /\ ClientType /\ StorageType /\ FlowType /\ StorageType' /\ ClientType' /\ uq \in Queues /\ tasks \in Seq(Tasks)
      /\ i \in 1 .. Len(tasks) /\ store \subseteq Objects /\ deletions \subseteq Objects
  BY DEF IInv, TypeInv, ClientInv, ClientType, StorageType, TaskIds
<1>u. UNCHANGED <<uq, shutdownReady, waiter, lsnVars, timelineVars, flowVars, gen, waitLsn>>
  BY DEF TaskAttempt
<1>1. /\ Like(tasks, tasks') /\ i \in Active(tasks)
      /\ \A k \in 1 .. Len(tasks) : /\ tasks'[k].joiner = tasks[k].joiner /\ tasks'[k].op = tasks[k].op
                                    /\ k # i => tasks'[k] = tasks[k]
  BY <1>0, AttemptTasks
<1>2. "tenant" \notin Activities => \A k \in 1 .. Len(tasks') : tasks'[k].joiner # "tenant"
  BY <1>0, <1>1 DEF DeleteInv, TaskIds, Like
<1>3. uq.state # "Uninitialized" /\ Len(tasks) > 0 /\ HasIndex /\ ~LatestIndex.deleted
  <2>1. Len(tasks) \in Nat /\ Len(tasks) > 0
    BY <1>0, LenProperties
  <2>2. tasks # << >>
    BY <2>1, EmptySeq
  <2>. QED  BY <1>0, <2>1, <2>2 DEF ClientInv, RunInv, TaskKinds
<1>4. op \in Ops /\ op.objs \subseteq Objects /\ op.meta \in Metas /\ OpOK(op) /\ op.meta.lsn \in Nat
      /\ LatestIndex.meta.lsn \in Nat /\ LatestIndex.files \subseteq Objects
  BY <1>0, TaskFields, LatestFields DEF RunInv, TaskKinds
<1>5. /\ TaskKinds(tasks) /\ Exclusive(tasks) /\ Effects(tasks)
      /\ LatestIndex.files \subseteq store \ deletions
  BY <1>0, <1>3 DEF RunInv, DurableInv
<1>6. /\ \A type, o : RunningOn(tasks', type, o) = RunningOn(tasks, type, o)
  BY <1>1, LikeRunning
<1>7. uq.state = "Initialized" =>
         NotDoomed(uq.queued, tasks) /\ \A j \in 1 .. Len(uq.queued) : uq.queued[j].type = "layer" => uq.queued[j].objs \subseteq Objects
  BY <1>0, OpFields, QueueType DEF ClientInv, QueueInv, Scheduling
<1>8. CASE op.type = "layer" /\ store' = store \cup op.objs /\ UNCHANGED <<index, deletions>>
  <2>1. LatestMoves
    BY <1>8, LatestUnchanged DEF LatestMoves
  <2>2. LatestIndex' = LatestIndex /\ HasIndex' = HasIndex
    BY <1>8, LatestUnchanged
  <2>3. Effects(tasks)'
    <3>1. i \notin Running(tasks, "index")
      BY <1>8 DEF Running
    <3>. QED  BY <1>0, <1>1, <1>5, <1>8, <2>2, <3>1, AttemptEffects DEF Effects
  <2>4. RunInv(tasks)'
    BY <1>0, <1>1, <1>u, <2>1, <2>3, LikeKinds DEF RunInv
  <2>5. GenInv'
    BY <1>0, <1>u, <1>8, GenFrame
  <2>6. \A f \in Objects : PresentNow(tasks, f) => PresentNow(tasks, f)'
    BY <1>6, <1>8 DEF PresentNow
  <2>7. uq.state = "Initialized" =>
            \A j \in 1 .. Len(uq.queued) : uq.queued[j].type = "layer" => uq.queued[j].objs \cap deletions' = {}
    BY <1>7, <1>8 DEF NotDoomed
  <2>8. LatestIndex'.files \subseteq store' \ deletions'
    BY <1>5, <1>8, <2>2
  <2>9. \A o \in deletions' : o \in deletions
    BY <1>8
  <2>. QED  BY <1>1, <1>2, <1>u, <2>1, <2>4, <2>5, <2>6, <2>7, <2>8, <2>9, StorageStep
<1>9. CASE /\ op.type = "index" /\ UNCHANGED <<store, deletions>>
           /\ index' = [g \in DOMAIN index \cup {KeyGen} |->
                           IF g = KeyGen THEN IndexPart(op.objs, op.meta, FALSE) ELSE index[g]]
  <2>0. i \in Running(tasks, "index") /\ \A k \in Active(tasks) : k # i => tasks[k].op.type = "layer"
    BY <1>1, <1>5, <1>9 DEF Running, Exclusive
  <2>1. HasIndex' /\ LatestIndex' = IndexPart(op.objs, op.meta, FALSE)
    <3>1. KeyGen \in Nat /\ DOMAIN index \subseteq 0 .. KeyGen
      BY <1>0, Bounds DEF GenInv, FlowType, KeyGen
    <3>. QED  BY <1>9, <3>1, LatestWritten
  <2>2. LatestIndex'.files = op.objs /\ LatestIndex'.meta = op.meta /\ LatestIndex'.deleted = FALSE
    BY <2>1 DEF IndexPart
  <2>3. LatestMoves
    BY <2>0, <2>1, <2>2 DEF LatestMoves
  <2>4. Effects(tasks)'
    <3>1. \A k \in Running(tasks, "index") : k = i
      BY <2>0 DEF Running
    <3>2. Running(tasks, "delete") = {}
      BY <1>9, <2>0 DEF Running
    <3>3. \A k \in Running(tasks, "layer") : k # i
      BY <1>9 DEF Running
    <3>4. op.objs \subseteq store' \ deletions'
      BY <1>5, <1>9, <2>0 DEF Effects
    <3>5. op.meta.lsn <= op.meta.lsn
      BY <1>4
    <3>. QED  BY <1>0, <1>1, <1>5, <1>9, <2>2, <3>1, <3>2, <3>3, <3>4, <3>5, AttemptEffects DEF Effects
  <2>5. RunInv(tasks)'
    BY <1>0, <1>1, <1>u, <2>3, <2>4, LikeKinds DEF RunInv
  <2>6. GenInv'
    <3>1. KeyGen' = KeyGen /\ gen' = gen /\ uq' = uq /\ deletions' = deletions
      BY <1>u, <1>9, KeyGenSame
    <3>2. DOMAIN index' = DOMAIN index \cup {KeyGen} /\ \A g \in DOMAIN index : g # KeyGen => index'[g] = index[g]
      BY <1>9
    <3>3. index'[KeyGen].files = op.objs
      BY <1>9 DEF IndexPart
    <3>4. Known(op.objs) /\ WellFormed(op.objs)
      BY <1>4, <1>9 DEF OpOK
    <3>5. DOMAIN index' \subseteq IF Legacy THEN {0} ELSE 1 .. gen
      BY <1>0, <3>2, Bounds DEF GenInv, KeyGen, FlowType
    <3>6. (\A g \in DOMAIN index : Known(index[g].files) /\ WellFormed(index[g].files))'
      BY <1>0, <3>1, <3>2, <3>3, <3>4 DEF GenInv, Known, WellFormed
    <3>. QED  BY <1>0, <1>3, <3>1, <3>5, <3>6 DEF GenInv, Known
  <2>7. \A f \in Objects : PresentNow(tasks, f) => PresentNow(tasks, f)'
    BY <1>6, <1>9 DEF PresentNow
  <2>8. uq.state = "Initialized" =>
            \A j \in 1 .. Len(uq.queued) : uq.queued[j].type = "layer" => uq.queued[j].objs \cap deletions' = {}
    BY <1>7, <1>9 DEF NotDoomed
  <2>9. LatestIndex'.files \subseteq store' \ deletions'
    BY <1>5, <1>9, <2>0, <2>2 DEF Effects
  <2>10. \A o \in deletions' : o \in deletions
    BY <1>9
  <2>. QED  BY <1>1, <1>2, <1>u, <2>3, <2>5, <2>6, <2>7, <2>8, <2>9, <2>10, StorageStep
<1>10. ASSUME op.type = "delete"
       PROVE  /\ Running(tasks, "index") = {}
              /\ \A k \in Running(tasks, "layer") : tasks[k].op.objs \cap op.objs = {} /\ k # i
              /\ op.objs \cap LatestIndex.files = {}
              /\ \A o \in op.objs : RunningOn(tasks, "delete", o) # {}
  <2>1. i \in Running(tasks, "delete")
    BY <1>1, <1>10 DEF Running
  <2>2. Running(tasks, "index") = {}
    BY <1>1, <1>5, <1>10 DEF Exclusive, Running
  <2>3. \A o \in op.objs : RunningOn(tasks, "delete", o) # {}
    BY <2>1 DEF RunningOn
  <2>4. ASSUME NEW k \in Running(tasks, "layer") PROVE tasks[k].op.objs \cap op.objs = {} /\ k # i
    <3>1. \A o \in tasks[k].op.objs : RunningOn(tasks, "layer", o) # {}
      BY DEF RunningOn
    <3>2. k # i
      BY <1>10 DEF Running
    <3>. QED  BY <1>4, <1>5, <2>3, <3>1, <3>2 DEF Exclusive
  <2>. QED  BY <1>5, <2>1, <2>2, <2>3, <2>4 DEF Effects
<1>11. CASE op.type = "delete" /\ store' = store \ op.objs /\ UNCHANGED <<index, deletions>>
  <2>1. LatestMoves /\ LatestIndex' = LatestIndex
    BY <1>11, LatestUnchanged DEF LatestMoves
  <2>3. Effects(tasks)'
    BY <1>0, <1>1, <1>5, <1>10, <1>11, <2>1, AttemptEffects DEF Effects
  <2>4. RunInv(tasks)'
    BY <1>0, <1>1, <1>u, <2>1, <2>3, LikeKinds DEF RunInv
  <2>5. GenInv'
    BY <1>0, <1>u, <1>11, GenFrame
  <2>6. \A f \in Objects : PresentNow(tasks, f) => PresentNow(tasks, f)'
    BY <1>6, <1>10, <1>11 DEF PresentNow
  <2>7. uq.state = "Initialized" =>
            \A j \in 1 .. Len(uq.queued) : uq.queued[j].type = "layer" => uq.queued[j].objs \cap deletions' = {}
    BY <1>7, <1>11 DEF NotDoomed
  <2>8. LatestIndex'.files \subseteq store' \ deletions'
    BY <1>5, <1>10, <1>11, <2>1
  <2>9. \A o \in deletions' : o \in deletions
    BY <1>11
  <2>. QED  BY <1>1, <1>2, <1>u, <2>1, <2>4, <2>5, <2>6, <2>7, <2>8, <2>9, StorageStep
<1>12. CASE op.type = "delete" /\ ~Legacy /\ deletions' = deletions \cup op.objs /\ UNCHANGED <<store, index>>
  <2>1. LatestMoves /\ LatestIndex' = LatestIndex
    BY <1>12, LatestUnchanged DEF LatestMoves
  <2>3. Effects(tasks)'
    BY <1>0, <1>1, <1>5, <1>10, <1>12, <2>1, AttemptEffects DEF Effects
  <2>4. RunInv(tasks)'
    BY <1>0, <1>1, <1>u, <2>1, <2>3, LikeKinds DEF RunInv
  <2>5. GenInv'
    <3>1. KeyGen' = KeyGen /\ gen' = gen /\ uq' = uq /\ index' = index
      BY <1>u, <1>12, KeyGenSame
    <3>2. Known(deletions)'
      BY <1>0, <1>4, <1>12, <3>1 DEF GenInv, Known, OpOK
    <3>3. (\A g \in DOMAIN index : Known(index[g].files) /\ WellFormed(index[g].files))'
      BY <1>0, <3>1 DEF GenInv, Known
    <3>. QED  BY <1>0, <1>3, <1>12, <3>1, <3>2, <3>3 DEF GenInv
  <2>6. \A f \in Objects : PresentNow(tasks, f) => PresentNow(tasks, f)'
    BY <1>6, <1>10, <1>12 DEF PresentNow
  <2>7. ASSUME uq.state = "Initialized", NEW j \in 1 .. Len(uq.queued), uq.queued[j].type = "layer"
        PROVE  uq.queued[j].objs \cap deletions' = {}
    <3>1. ASSUME NEW o \in uq.queued[j].objs, o \in op.objs PROVE FALSE
      <4>1. o \in Objects /\ OnObject(uq.queued, j, "layer", o) /\ RunningOn(tasks, "delete", o) # {}
        BY <1>4, <1>10, <1>12, <2>7, <3>1 DEF OnObject
      <4>. QED  BY <1>7, <1>12, <2>7, <4>1 DEF NotDoomed
    <3>2. uq.queued[j].objs \cap deletions = {}
      BY <1>7, <2>7 DEF NotDoomed
    <3>. QED  BY <1>12, <3>1, <3>2
  <2>8. LatestIndex'.files \subseteq store' \ deletions'
    BY <1>5, <1>10, <1>12, <2>1
  <2>9. \A o \in deletions' : o \in deletions \/ (~Legacy /\ RunningOn(tasks, "delete", o) # {})
    BY <1>10, <1>12
  <2>. QED  BY <1>1, <1>2, <1>u, <2>1, <2>4, <2>5, <2>6, <2>7, <2>8, <2>9, StorageStep
<1>. QED  BY <1>8, <1>9, <1>11, <1>12 DEF TaskAttempt

LEMMA ExecuteDeletionInv ==
  ASSUME IInv, TypeInv', ExecuteDeletion
  PROVE  IInv'
<1>0. /\ ClientInv /\ DrainInv /\ DurableInv /\ DeleteInv /\ GenInv /\ TypeInv /\ RunInv(tasks)
      /\ ClientType /\ StorageType /\ tasks \in Seq(Tasks) /\ deletions \subseteq Objects
  BY DEF IInv, TypeInv, ClientInv, ClientType, StorageType
<1>1. PICK o \in deletions : deletions' = deletions \ {o} /\ store' = store \ {o}
  BY DEF ExecuteDeletion
<1>u. /\ UNCHANGED <<uq, shutdownReady, waiter, lsnVars, timelineVars, flowVars, gen, waitLsn>>
      /\ tasks' = tasks /\ index' = index
  BY DEF ExecuteDeletion, queueVars
<1>2. Like(tasks, tasks')
  BY <1>0, <1>u, LikeSelf
<1>3. LatestMoves /\ LatestIndex' = LatestIndex
  BY <1>u, LatestUnchanged DEF LatestMoves
<1>4. RunInv(tasks)'
  <2>1. Effects(tasks)'
    BY <1>0, <1>1, <1>3, <1>u DEF RunInv, Effects
  <2>. QED  BY <1>0, <1>2, <1>3, <1>u, <2>1, LikeKinds DEF RunInv
<1>5. GenInv'
  BY <1>0, <1>1, <1>u, GenFrame
<1>6. \A f \in Objects : PresentNow(tasks, f) => PresentNow(tasks, f)'
  BY <1>1, <1>u DEF PresentNow
<1>7. uq.state = "Initialized" =>
          \A j \in 1 .. Len(uq.queued) : uq.queued[j].type = "layer" => uq.queued[j].objs \cap deletions' = {}
  BY <1>0, <1>1 DEF ClientInv, QueueInv, Scheduling, NotDoomed
<1>8. ~LatestIndex'.deleted => LatestIndex'.files \subseteq store' \ deletions'
  BY <1>0, <1>1, <1>3 DEF DurableInv
<1>9. "tenant" \notin Activities => \A k \in 1 .. Len(tasks') : tasks'[k].joiner # "tenant"
  BY <1>0, <1>u DEF DeleteInv, TaskIds
<1>10. \A x \in deletions' : x \in deletions
  BY <1>1
<1>. QED  BY <1>2, <1>3, <1>4, <1>5, <1>6, <1>7, <1>8, <1>9, <1>10, <1>u, StorageStep

LEMMA JoinTaskInv ==
  ASSUME IInv, TypeInv', NEW caller \in {"tenant", "deletion"}, JoinTask(caller)
  PROVE  IInv'
<1>0. /\ ClientInv /\ DrainInv /\ DurableInv /\ DeleteInv /\ GenInv /\ TypeInv /\ RunInv(tasks)
      /\ ClientType /\ StorageType /\ tasks \in Seq(Tasks) /\ deletions \subseteq Objects
  BY DEF IInv, TypeInv, ClientInv, ClientType, StorageType
<1>1. PICK i \in 1 .. Len(tasks) : tasks' = [tasks EXCEPT ![i].joiner = caller]
  BY DEF JoinTask, TaskIds
<1>u. /\ UNCHANGED <<uq, shutdownReady, waiter, lsnVars, timelineVars, flowVars, gen, waitLsn>>
      /\ store' = store /\ deletions' = deletions /\ index' = index
  BY DEF JoinTask, storageVars
<1>2. Like(tasks, tasks')
  BY <1>0, <1>1, LikeChanged
<1>3. LatestMoves /\ LatestIndex' = LatestIndex
  BY <1>u, LatestUnchanged DEF LatestMoves
<1>a. /\ Len(tasks') = Len(tasks)
      /\ \A k \in 1 .. Len(tasks) : tasks'[k] = IF k = i THEN [tasks[i] EXCEPT !.joiner = caller] ELSE tasks[k]
  <2>1. \A d \in {"none", "tenant", "deletion"} :
             /\ [tasks EXCEPT ![i].joiner = d] \in Seq(Tasks) /\ Len([tasks EXCEPT ![i].joiner = d]) = Len(tasks)
             /\ \A k \in 1 .. Len(tasks) :
                   [tasks EXCEPT ![i].joiner = d][k] = IF k = i THEN [tasks[i] EXCEPT !.joiner = d] ELSE tasks[k]
    BY <1>0, TaskChanged
  <2>. QED  BY <1>1, <2>1
<1>b. tasks[i] \in Tasks
  BY <1>0, TaskFields
<1>c. [tasks[i] EXCEPT !.joiner = caller].phase = tasks[i].phase /\ [tasks[i] EXCEPT !.joiner = caller].op = tasks[i].op
      /\ [tasks[i] EXCEPT !.joiner = caller].joiner = caller
  BY <1>b DEF Tasks
<1>4. RunInv(tasks)'
  <2>1. \A k \in 1 .. Len(tasks) : tasks'[k].phase = tasks[k].phase /\ tasks'[k].op = tasks[k].op
    BY <1>a, <1>c
  <2>2. /\ \A type : Running(tasks', type) = Running(tasks, type)
        /\ \A type : \A k \in Running(tasks, type) : k \in 1 .. Len(tasks)
    BY <1>2, LikeRunning DEF Running, Active
  <2>3. Effects(tasks)'
    BY <1>0, <1>3, <1>u, <2>1, <2>2 DEF RunInv, Effects
  <2>. QED  BY <1>0, <1>2, <1>3, <1>u, <2>3, LikeKinds DEF RunInv
<1>5. GenInv'
  BY <1>0, <1>u, GenFrame
<1>6. \A f \in Objects : PresentNow(tasks, f) => PresentNow(tasks, f)'
  <2>1. \A type, o : RunningOn(tasks', type, o) = RunningOn(tasks, type, o)
    BY <1>2, LikeRunning
  <2>. QED  BY <1>u, <2>1 DEF PresentNow
<1>7. uq.state = "Initialized" =>
          \A j \in 1 .. Len(uq.queued) : uq.queued[j].type = "layer" => uq.queued[j].objs \cap deletions' = {}
  BY <1>0, <1>u DEF ClientInv, QueueInv, Scheduling, NotDoomed
<1>8. ~LatestIndex'.deleted => LatestIndex'.files \subseteq store' \ deletions'
  BY <1>0, <1>3, <1>u DEF DurableInv
<1>9. "tenant" \notin Activities => \A k \in 1 .. Len(tasks') : tasks'[k].joiner # "tenant"
  <2>1. "tenant" \notin Activities => caller # "tenant"
    BY <1>0 DEF JoinTask, Joining, DeleteInv
  <2>. QED  BY <1>0, <1>a, <1>c, <2>1 DEF DeleteInv, TaskIds
<1>10. \A x \in deletions' : x \in deletions
  BY <1>u
<1>. QED  BY <1>2, <1>3, <1>4, <1>5, <1>6, <1>7, <1>8, <1>9, <1>10, <1>u, StorageStep
-----------------------------------------------------------------------------
(***************************************************************************)
(* Steps that schedule something, or end a task, and launch.               *)
(***************************************************************************)
LEMMA LaunchedMoved ==
  ASSUME NEW q \in Queues, NEW ts \in Seq(Tasks), NEW n, NEW b, Launched(q, ts, n, b)
  PROVE  /\ Moved(q.queued, ts, n, b, uq'.queued, tasks')
         /\ uq'.state = q.state /\ uq'.files = q.files /\ uq'.changes = q.changes /\ uq'.meta = q.meta
         /\ uq'.shuttingDown = q.shuttingDown
<1>1. q.queued \in Seq(Ops)
  BY QueueType
<1>2. Moved(q.queued, ts, n, b, uq'.queued, tasks')
  BY <1>1 DEF Launched, Moved
<1>3. PICK s : uq' = [q EXCEPT !.queued = s]
  BY DEF Launched
<1>. QED  BY <1>2, <1>3 DEF Queues

LEMMA LaunchJoiners ==
  ASSUME NEW q \in Queues, NEW ts \in Seq(Tasks), NEW n \in Nat, NEW b \in Nat, Launched(q, ts, n, b),
         NEW k \in 1 .. Len(tasks')
  PROVE  (\E m \in 1 .. Len(ts) : tasks'[k] = ts[m]) \/ tasks'[k].joiner = "none"
<1>1. Len(ts) \in Nat /\ Len(tasks') = Len(ts) + (n - b) /\ b <= n
  BY LenProperties DEF Launched, Takes
<1>2. CASE k \in 1 .. Len(ts)
  BY <1>2 DEF Launched
<1>3. CASE k \notin 1 .. Len(ts)
  <2>1. k - Len(ts) \in 1 .. n - b /\ Len(ts) + (k - Len(ts)) = k
    BY <1>1, <1>3
  <2>2. tasks'[k] = Task(q.queued[b + (k - Len(ts))])
    BY <2>1 DEF Launched
  <2>. QED  BY <2>2 DEF Task
<1>. QED  BY <1>2, <1>3

LEMMA LaunchKeeps ==
  ASSUME NEW q \in Queues, NEW ts \in Seq(Tasks), NEW lsn, StorageType, uq' \in Queues,
         LaunchQueuedTasks(q, ts), QueueInv(q, ts, lsn)
  PROVE  /\ QueueInv(uq', tasks', lsn)
         /\ uq'.state = q.state /\ uq'.files = q.files /\ uq'.changes = q.changes /\ uq'.meta = q.meta
         /\ uq'.shuttingDown = q.shuttingDown
         /\ \A o : Doomed(uq'.queued, tasks', o) => Doomed(q.queued, ts, o)
         /\ waiter' = waiter \/ (waiter' = "done" /\ lsn <= LatestIndex.meta.lsn)
         /\ shutdownReady' => \/ shutdownReady
                              \/ /\ Active(tasks') = {} /\ uq'.shuttingDown
                                 /\ \A k \in 1 .. Len(uq'.queued) : uq'.queued[k].type # "index"
                                 /\ Stands(LatestIndex.files, uq'.files, uq'.changes) /\ LatestIndex.meta = uq'.meta
         /\ \A k \in 1 .. Len(tasks') : (\E m \in 1 .. Len(ts) : tasks'[k] = ts[m]) \/ tasks'[k].joiner = "none"
<1>1. PICK n, b \in Nat : Launched(q, ts, n, b)
  BY LaunchEffect
<1>2. /\ Moved(q.queued, ts, n, b, uq'.queued, tasks')
      /\ uq'.state = q.state /\ uq'.files = q.files /\ uq'.changes = q.changes /\ uq'.meta = q.meta
      /\ uq'.shuttingDown = q.shuttingDown
  BY <1>1, LaunchedMoved
<1>3. QueueInv(uq', tasks', lsn)
  BY <1>2, MovedQueueInv
<1>4. \A o : Doomed(uq'.queued, tasks', o) => Doomed(q.queued, ts, o)
  BY <1>2, MovedDoomed
<1>5. waiter' = waiter \/ (waiter' = "done" /\ lsn <= LatestIndex.meta.lsn)
  <2>1. waiter' = IF \E i \in 1 .. n : q.queued[i].waited THEN "done" ELSE waiter
    BY <1>1 DEF Launched
  <2>2. ASSUME NEW i \in 1 .. n, q.queued[i].waited PROVE lsn <= LatestIndex.meta.lsn
    BY <1>2, <2>2, MovedWaiter
  <2>. QED  BY <2>1, <2>2
<1>6. shutdownReady' => \/ shutdownReady
                        \/ /\ Active(tasks') = {} /\ uq'.shuttingDown
                           /\ \A k \in 1 .. Len(uq'.queued) : uq'.queued[k].type # "index"
                           /\ Stands(LatestIndex.files, uq'.files, uq'.changes) /\ LatestIndex.meta = uq'.meta
  <2>1. shutdownReady' => shutdownReady \/ AtShutdown(q.queued, ts, n)
    BY <1>1 DEF Launched
  <2>2. ASSUME AtShutdown(q.queued, ts, n)
        PROVE  /\ Active(tasks') = {} /\ uq'.shuttingDown
               /\ \A k \in 1 .. Len(uq'.queued) : uq'.queued[k].type # "index"
               /\ Stands(LatestIndex.files, uq'.files, uq'.changes) /\ LatestIndex.meta = uq'.meta
    BY <1>2, <2>2, MovedShutdown
  <2>. QED  BY <2>1, <2>2
<1>7. \A k \in 1 .. Len(tasks') : (\E m \in 1 .. Len(ts) : tasks'[k] = ts[m]) \/ tasks'[k].joiner = "none"
  BY <1>1, LaunchJoiners
<1>. QED  BY <1>2, <1>3, <1>4, <1>5, <1>6, <1>7

LEMMA LaunchStep ==
  ASSUME IInv, TypeInv', NEW q \in Queues, NEW ts \in Seq(Tasks), LaunchQueuedTasks(q, ts),
         QueueInv(q, ts, waitLsn'), uq.state # "Stopped", q.state = "Initialized", ~shutdownReady,
         q.changes => compaction'.step = "uploaded", WellFormed(q.files), Known(q.files),
         q.shuttingDown => "tenant" \in Activities,
         "tenant" \notin Activities => tenant' = "up" /\ \A k \in 1 .. Len(ts) : ts[k].joiner # "tenant",
         UNCHANGED <<storageVars, gen, deletion, deletedAt, deleteAcked>>,
         advertised' <= LatestIndex.meta.lsn, \A l \in pendingLsn' : l <= LatestIndex.meta.lsn,
         waiter = "done" => waitLsn' <= LatestIndex.meta.lsn
  PROVE  /\ ClientInv' /\ DrainInv' /\ DurableInv' /\ DeleteInv' /\ GenInv'
         /\ \A o : Doomed(uq'.queued, tasks', o) => Doomed(q.queued, ts, o)
         /\ uq'.state = "Initialized" /\ uq'.files = q.files /\ uq'.meta = q.meta
<1>0. /\ ClientInv /\ DrainInv /\ DurableInv /\ DeleteInv /\ GenInv /\ TypeInv /\ StorageType /\ uq' \in Queues
      /\ deletions \subseteq Objects
  BY DEF IInv, TypeInv, ClientType, StorageType
<1>1. /\ QueueInv(uq', tasks', waitLsn')
      /\ uq'.state = q.state /\ uq'.files = q.files /\ uq'.changes = q.changes /\ uq'.meta = q.meta
      /\ uq'.shuttingDown = q.shuttingDown
      /\ \A o : Doomed(uq'.queued, tasks', o) => Doomed(q.queued, ts, o)
      /\ waiter' = waiter \/ (waiter' = "done" /\ waitLsn' <= LatestIndex.meta.lsn)
      /\ shutdownReady' => \/ shutdownReady
                           \/ /\ Active(tasks') = {} /\ uq'.shuttingDown
                              /\ \A k \in 1 .. Len(uq'.queued) : uq'.queued[k].type # "index"
                              /\ Stands(LatestIndex.files, uq'.files, uq'.changes) /\ LatestIndex.meta = uq'.meta
      /\ \A k \in 1 .. Len(tasks') : (\E m \in 1 .. Len(ts) : tasks'[k] = ts[m]) \/ tasks'[k].joiner = "none"
  BY <1>0, LaunchKeeps
<1>2. /\ LatestIndex' = LatestIndex /\ HasIndex' = HasIndex /\ KeyGen' = KeyGen /\ store' = store
      /\ deletions' = deletions /\ index' = index
  BY LatestUnchanged, KeyGenSame DEF storageVars
<1>3. QueueInv(uq, tasks, waitLsn)'
  BY <1>1, SameQueueInv
<1>4. RunInv(tasks)' /\ ~LatestIndex.deleted
  BY <1>1, <1>2, <1>3 DEF QueueInv, Scheduling
<1>5. ClientInv'
  <2>1. Known(uq.files)'
    BY <1>1, <1>2 DEF Known
  <2>2. WellFormed(uq'.files) /\ uq'.state = "Initialized"
    BY <1>1
  <2>3. (uq.shuttingDown \/ shutdownReady => "tenant" \in Activities)'
    BY <1>0, <1>1
  <2>4. (uq.changes => compaction.step = "uploaded")'
    BY <1>1
  <2>. QED  BY <1>1, <1>3, <1>4, <2>1, <2>2, <2>3, <2>4 DEF ClientInv
<1>6. DrainInv'
  <2>1. shutdownReady' => Stands(LatestIndex'.files, uq'.files, compaction'.step = "uploaded")
    BY <1>1, <1>2 DEF Stands
  <2>. QED  BY <1>1, <1>2, <2>1 DEF DrainInv
<1>7. DurableInv'
  <2>1. LatestIndex.files \subseteq store \ deletions
    BY <1>0, <1>4 DEF DurableInv
  <2>2. waiter' = "done" => waitLsn' <= LatestIndex.meta.lsn
    BY <1>1
  <2>. QED  BY <1>2, <2>1, <2>2 DEF DurableInv
<1>8. DeleteInv'
  <2>1. deletion = "no" /\ deletion' = "no" /\ deletedAt' = deletedAt /\ deleteAcked' = deleteAcked
    BY <1>0 DEF DeleteInv
  <2>2. "tenant" \notin Activities => tenant' = "up" /\ \A i \in 1 .. Len(tasks') : tasks'[i].joiner # "tenant"
    BY <1>1
  <2>. QED  BY <1>0, <1>2, <1>4, <2>1, <2>2 DEF DeleteInv, TaskIds
<1>9. GenInv'
  BY <1>0, <1>1, <1>2, GenFrame
<1>. QED  BY <1>1, <1>5, <1>6, <1>7, <1>8, <1>9
LEMMA NotDrained ==
  ASSUME IInv
  PROVE  /\ Usable(uq) => ~shutdownReady
         /\ Active(tasks) # {} => ~shutdownReady
BY DEF IInv, DrainInv, Usable

\* Stopped, now or before.
LEMMA StopStep ==
  ASSUME IInv, TypeInv', uq.state # "Uninitialized", uq' = Stopped(uq), shutdownReady' = shutdownReady,
         waiter' \in {"aborted", waiter}, RunInv(tasks'), Active(tasks) = {} => Active(tasks') = {},
         \A k \in 1 .. Len(tasks') : \E m \in 1 .. Len(tasks) : tasks'[k] = tasks[m],
         UNCHANGED <<storageVars, timelineVars, gen, waitLsn, deletedAt, deleteAcked, advertised>>,
         ~LatestIndex.deleted => \A l \in pendingLsn' : l <= LatestIndex.meta.lsn,
         "tenant" \notin Activities => tenant' = "up",
         "deletion" \notin Activities => deletion' = "no",
         deletion' \notin {"no", "joining"} => deletion' = deletion
  PROVE  IInv'
<1>0. /\ ClientInv /\ DrainInv /\ DurableInv /\ DeleteInv /\ GenInv /\ TypeInv /\ StorageType /\ uq \in Queues
      /\ deletions \subseteq Objects /\ tasks \in Seq(Tasks) /\ tasks' \in Seq(Tasks)
  BY DEF IInv, TypeInv, ClientType, StorageType
<1>1. /\ uq'.state = "Stopped" /\ uq'.files = uq.files /\ uq'.meta = uq.meta
      /\ uq'.queued = << >> /\ uq'.changes = FALSE
      /\ uq'.shuttingDown => uq.shuttingDown
  BY <1>0, StoppedFields DEF ClientInv
<1>2. /\ LatestIndex' = LatestIndex /\ HasIndex' = HasIndex /\ KeyGen' = KeyGen /\ store' = store
      /\ deletions' = deletions /\ index' = index
  BY LatestUnchanged, KeyGenSame DEF storageVars
<1>3. RunInv(tasks)'
  BY SameRunInv
<1>4. ClientInv'
  <2>1. Known(uq.files)'
    BY <1>0, <1>1, <1>2 DEF Known, ClientInv
  <2>2. WellFormed(uq'.files)
    BY <1>0, <1>1 DEF ClientInv
  <2>3. (uq.shuttingDown \/ shutdownReady => "tenant" \in Activities)'
    BY <1>0, <1>1 DEF ClientInv
  <2>. QED  BY <1>1, <1>3, <2>1, <2>2, <2>3 DEF ClientInv
<1>5. DrainInv'
  <2>1. compaction' = compaction
    BY DEF timelineVars
  <2>. QED  BY <1>0, <1>1, <1>2, <2>1 DEF DrainInv
<1>6. DurableInv'
  BY <1>0, <1>2 DEF DurableInv
<1>7. DeleteInv'
  <2>1. tasks = << >> => tasks' = << >>
    <3>1. ASSUME tasks = << >> PROVE Len(tasks') = 0
      <4>1. 1 .. Len(tasks) = {}
        BY <3>1, EmptySeq
      <4>2. Len(tasks') \in Nat /\ 1 .. Len(tasks') = {}
        BY <1>0, <4>1, LenProperties
      <4>. QED  BY <4>2
    <3>. QED  BY <1>0, <3>1, EmptySeq
  <2>2. "tenant" \notin Activities => tenant' = "up" /\ \A i \in 1 .. Len(tasks') : tasks'[i].joiner # "tenant"
    BY <1>0 DEF DeleteInv, TaskIds
  <2>3. "deletion" \notin Activities => deletion' = "no" /\ ~LatestIndex'.deleted
    BY <1>0, <1>2 DEF DeleteInv
  <2>4. deletion' \notin {"no", "joining"} => tasks' = << >>
    BY <1>0, <2>1 DEF DeleteInv
  <2>5. (\/ deletion \in {"flagged", "listed", "gone"} \/ deletedAt = "Successful" \/ deleteAcked
         => LatestIndex.deleted)'
    BY <1>0, <1>2 DEF DeleteInv
  <2>. QED  BY <1>1, <2>2, <2>3, <2>4, <2>5 DEF DeleteInv, TaskIds
<1>8. GenInv'
  BY <1>0, <1>1, <1>2, GenFrame
<1>9. TimelineInv'
  BY <1>1 DEF TimelineInv
<1>. QED  BY <1>4, <1>5, <1>6, <1>7, <1>8, <1>9 DEF IInv

LEMMA LeavesWithout ==
  ASSUME NEW ts \in Seq(Tasks), NEW i \in 1 .. Len(ts), RunInv(ts), StorageType
  PROVE  /\ Leaves(ts, Without(ts, i), i) /\ RunInv(Without(ts, i))
         /\ Active(ts) = {} => Active(Without(ts, i)) = {}
         /\ \A k \in 1 .. Len(Without(ts, i)) : \E m \in 1 .. Len(ts) : Without(ts, i)[k] = ts[m]
<1>1. Leaves(ts, Without(ts, i), i)
  BY WithoutTask DEF Leaves
<1>2. RunInv(Without(ts, i))
  BY <1>1, LeavesRunInv
<1>3. Active(ts) = {} => Active(Without(ts, i)) = {}
  BY <1>1, LeavesActive
<1>4. \A k \in 1 .. Len(Without(ts, i)) : \E m \in 1 .. Len(ts) : Without(ts, i)[k] = ts[m]
  <2>1. Len(Without(ts, i)) = Len(ts) - 1 /\ \A k \in 1 .. Len(ts) - 1 : Without(ts, i)[k] = ts[IF k < i THEN k ELSE k + 1]
    BY WithoutTask
  <2>2. \A k \in 1 .. Len(ts) - 1 : (IF k < i THEN k ELSE k + 1) \in 1 .. Len(ts)
    BY LenProperties
  <2>. QED  BY <2>1, <2>2
<1>. QED  BY <1>1, <1>2, <1>3, <1>4

LEMMA HasTask ==
  ASSUME IInv, NEW i \in TaskIds
  PROVE  /\ tasks \in Seq(Tasks) /\ i \in 1 .. Len(tasks) /\ RunInv(tasks) /\ StorageType
         /\ uq.state # "Uninitialized" /\ HasIndex /\ ~LatestIndex.deleted
<1>1. tasks \in Seq(Tasks) /\ i \in 1 .. Len(tasks) /\ RunInv(tasks) /\ StorageType /\ ClientInv
  BY DEF IInv, TypeInv, ClientInv, ClientType, TaskIds
<1>2. Len(tasks) \in Nat /\ Len(tasks) > 0
  BY <1>1, LenProperties
<1>3. tasks # << >>
  BY <1>2, EmptySeq
<1>. QED  BY <1>1, <1>2, <1>3 DEF ClientInv, RunInv, TaskKinds

LEMMA TaskCancelledInv ==
  ASSUME IInv, TypeInv', NEW i \in TaskIds, TaskCancelled(i)
  PROVE  IInv'
<1>0. tasks \in Seq(Tasks) /\ i \in 1 .. Len(tasks) /\ RunInv(tasks) /\ StorageType /\ uq.state # "Uninitialized"
  BY HasTask
<1>1. /\ uq' = Stopped(uq) /\ tasks' = Without(tasks, i) /\ shutdownReady' = shutdownReady
      /\ waiter' \in {"aborted", waiter}
      /\ UNCHANGED <<lsnVars, storageVars, timelineVars, flowVars, gen, waitLsn>>
  BY DEF TaskCancelled, StopQueue
<1>u. /\ UNCHANGED <<storageVars, timelineVars, gen, waitLsn, deletedAt, deleteAcked, advertised>>
      /\ pendingLsn' = pendingLsn /\ tenant' = tenant /\ deletion' = deletion
  BY <1>1 DEF lsnVars, flowVars
<1>2. /\ RunInv(tasks')
      /\ Active(tasks) = {} => Active(tasks') = {}
      /\ \A k \in 1 .. Len(tasks') : \E m \in 1 .. Len(tasks) : tasks'[k] = tasks[m]
  BY <1>0, <1>1, LeavesWithout
<1>3. /\ ~LatestIndex.deleted => \A l \in pendingLsn' : l <= LatestIndex.meta.lsn
      /\ "tenant" \notin Activities => tenant' = "up"
      /\ "deletion" \notin Activities => deletion' = "no"
  <2>1. DurableInv /\ DeleteInv
    BY DEF IInv
  <2>. QED  BY <1>u, <2>1 DEF DurableInv, DeleteInv
<1>4. uq' = Stopped(uq) /\ shutdownReady' = shutdownReady /\ waiter' \in {"aborted", waiter} /\ uq.state # "Uninitialized"
  BY <1>0, <1>1
<1>. QED  BY <1>2, <1>3, <1>4, <1>u, StopStep

\* A task ends, with us the tasks that remain, and others are launched.
LEMMA CompleteLaunch ==
  ASSUME IInv, TypeInv', NEW i \in TaskIds, NEW us, Leaves(tasks, us, i), tasks[i].phase = "done",
         us # Without(tasks, i) => tasks[i].op.type = "index" /\ ~Legacy,
         \A k \in 1 .. Len(us) : \E m \in 1 .. Len(tasks) : us[k].joiner = tasks[m].joiner,
         uq.state = "Initialized", LaunchQueuedTasks(uq, us),
         UNCHANGED <<storageVars, timelineVars, flowVars, gen, waitLsn>>,
         advertised' <= LatestIndex.meta.lsn, pendingLsn' = pendingLsn
  PROVE  IInv'
<1>0. /\ tasks \in Seq(Tasks) /\ i \in 1 .. Len(tasks) /\ RunInv(tasks) /\ StorageType /\ us \in Seq(Tasks)
      /\ ~LatestIndex.deleted /\ uq \in Queues /\ ClientInv /\ DurableInv /\ DeleteInv /\ TypeInv /\ waitLsn \in Lsns
  BY HasTask DEF Leaves, IInv, TypeInv, ClientType, FlowType
<1>u. /\ UNCHANGED <<storageVars, gen, deletion, deletedAt, deleteAcked>> /\ waitLsn' = waitLsn
      /\ tenant' = tenant /\ dropping' = dropping /\ deletions' = deletions /\ UNCHANGED <<timelineVars, gen>>
  BY DEF flowVars, timelineVars, storageVars
<1>1. RunInv(us)
  BY <1>0, LeavesRunInv
<1>2. QueueInv(uq, tasks, waitLsn)
  BY <1>0 DEF ClientInv
<1>3. QueueInv(uq, us, waitLsn')
  BY <1>0, <1>1, <1>2, <1>u, LeavesQueueInv
<1>4. ~shutdownReady
  BY <1>0, NotDrained DEF Active
<1>5. "tenant" \notin Activities => tenant' = "up" /\ \A k \in 1 .. Len(us) : us[k].joiner # "tenant"
  BY <1>0, <1>u DEF DeleteInv, TaskIds
<1>6. /\ \A l \in pendingLsn' : l <= LatestIndex.meta.lsn
      /\ waiter = "done" => waitLsn' <= LatestIndex.meta.lsn
  BY <1>0, <1>u DEF DurableInv
<1>7. /\ WellFormed(uq.files) /\ Known(uq.files) /\ (uq.shuttingDown => "tenant" \in Activities)
      /\ uq.changes => compaction'.step = "uploaded"
  BY <1>0 DEF ClientInv, timelineVars
<1>8. /\ ClientInv' /\ DrainInv' /\ DurableInv' /\ DeleteInv' /\ GenInv'
      /\ \A o : Doomed(uq'.queued, tasks', o) => Doomed(uq.queued, us, o)
      /\ uq'.state = "Initialized" /\ uq'.files = uq.files /\ uq'.meta = uq.meta
  BY <1>0, <1>3, <1>4, <1>5, <1>6, <1>7, <1>u, LaunchStep
<1>9. \A o \in Objects : Spent(o)' => Spent(o)
  <2>1. \A o : Doomed(uq.queued, us, o) => Doomed(uq.queued, tasks, o)
    BY LeavesDoomed
  <2>. QED  BY <1>8, <1>u, <2>1 DEF Spent
<1>10. TimelineInv'
  BY <1>8, <1>9, <1>u, TimelineFrame
<1>. QED  BY <1>8, <1>10 DEF IInv

LEMMA TaskCompleteInv ==
  ASSUME IInv, TypeInv', NEW i \in TaskIds, TaskComplete(i)
  PROVE  IInv'
<1>0. /\ tasks \in Seq(Tasks) /\ i \in 1 .. Len(tasks) /\ RunInv(tasks) /\ StorageType
      /\ ~LatestIndex.deleted /\ DurableInv /\ DeleteInv /\ tasks[i].phase = "done"
      /\ LatestIndex.meta.lsn \in Nat /\ advertised \in Nat /\ tasks[i] \in Tasks
  BY HasTask, LatestFields, Bounds, TaskFields DEF IInv, TaskComplete, TypeInv, FlowType
<1>u. UNCHANGED <<storageVars, timelineVars, flowVars, gen, waitLsn>>
  BY DEF TaskComplete
<1>1. /\ Leaves(tasks, Without(tasks, i), i) /\ RunInv(Without(tasks, i))
      /\ Active(tasks) = {} => Active(Without(tasks, i)) = {}
      /\ \A k \in 1 .. Len(Without(tasks, i)) : \E m \in 1 .. Len(tasks) : Without(tasks, i)[k] = tasks[m]
  BY <1>0, LeavesWithout
<1>2. advertised <= LatestIndex.meta.lsn
  BY <1>0 DEF DurableInv
<1>3. CASE /\ uq.state = "Stopped" /\ tasks' = Without(tasks, i)
           /\ UNCHANGED <<uq, shutdownReady, waiter, lsnVars>>
  <2>1. uq' = Stopped(uq)
    BY <1>3 DEF Stopped
  <2>2. /\ UNCHANGED <<storageVars, timelineVars, gen, waitLsn, deletedAt, deleteAcked, advertised>>
        /\ pendingLsn' = pendingLsn /\ tenant' = tenant /\ deletion' = deletion
    BY <1>3, <1>u DEF lsnVars, flowVars
  <2>3. /\ ~LatestIndex.deleted => \A l \in pendingLsn' : l <= LatestIndex.meta.lsn
        /\ "tenant" \notin Activities => tenant' = "up"
        /\ "deletion" \notin Activities => deletion' = "no"
    BY <1>0, <2>2 DEF DurableInv, DeleteInv
  <2>4. uq.state # "Uninitialized"
    BY <1>3
  <2>. QED  BY <1>1, <1>3, <2>1, <2>2, <2>3, <2>4, StopStep
<1>4. CASE /\ uq.state = "Initialized" /\ LaunchQueuedTasks(uq, Without(tasks, i)) /\ UNCHANGED lsnVars
  BY <1>0, <1>1, <1>2, <1>4, <1>u, CompleteLaunch DEF lsnVars
<1>5. CASE /\ uq.state = "Initialized" /\ tasks[i].op.type = "index" /\ ~Legacy
           /\ LaunchQueuedTasks(uq, [tasks EXCEPT ![i].phase = "publish"]) /\ UNCHANGED lsnVars
  <2>. DEFINE us == [tasks EXCEPT ![i].phase = "publish"]
  <2>1. \A p \in {"run", "done", "publish"} :
             /\ [tasks EXCEPT ![i].phase = p] \in Seq(Tasks) /\ Len([tasks EXCEPT ![i].phase = p]) = Len(tasks)
             /\ \A k \in 1 .. Len(tasks) :
                   [tasks EXCEPT ![i].phase = p][k] = IF k = i THEN [tasks[i] EXCEPT !.phase = p] ELSE tasks[k]
    BY <1>0, TaskChanged
  <2>2. /\ us \in Seq(Tasks) /\ Len(us) = Len(tasks)
        /\ \A k \in 1 .. Len(tasks) : us[k] = IF k = i THEN [tasks[i] EXCEPT !.phase = "publish"] ELSE tasks[k]
    BY <2>1
  <2>3. Leaves(tasks, us, i)
    BY <1>0, <2>2 DEF Leaves
  <2>4. [tasks[i] EXCEPT !.phase = "publish"].joiner = tasks[i].joiner
    BY <1>0 DEF Tasks
  <2>. HIDE DEF us
  <2>5. \A k \in 1 .. Len(us) : \E m \in 1 .. Len(tasks) : us[k].joiner = tasks[m].joiner
    BY <1>0, <2>2, <2>4
  <2>6. LaunchQueuedTasks(uq, us)
    BY <1>5 DEF us
  <2>. QED  BY <1>0, <1>2, <1>5, <1>u, <2>3, <2>5, <2>6, CompleteLaunch DEF lsnVars
<1>6. CASE /\ uq.state = "Initialized" /\ tasks[i].op.type = "index" /\ Legacy
           /\ visible' = PublishedLsn(i)
           /\ advertised' = IF visible' > advertised THEN visible' ELSE advertised
           /\ LaunchQueuedTasks(uq, Without(tasks, i)) /\ UNCHANGED pendingLsn
  <2>1. i \in Running(tasks, "index")
    BY <1>0, <1>6 DEF Running, Active
  <2>2. PublishedLsn(i) = LatestIndex.meta.lsn
    BY <1>0, <2>1 DEF RunInv, Effects, PublishedLsn
  <2>3. advertised' <= LatestIndex.meta.lsn
    BY <1>0, <1>2, <1>6, <2>2
  <2>. QED  BY <1>0, <1>1, <1>6, <1>u, <2>3, CompleteLaunch
<1>. QED  BY <1>3, <1>4, <1>5, <1>6 DEF TaskComplete

LEMMA TaskPublishLsnInv ==
  ASSUME IInv, TypeInv', NEW i \in TaskIds, TaskPublishLsn(i)
  PROVE  IInv'
<1>0. /\ tasks \in Seq(Tasks) /\ i \in 1 .. Len(tasks) /\ RunInv(tasks) /\ StorageType /\ uq.state # "Uninitialized"
      /\ ~LatestIndex.deleted /\ DurableInv /\ DeleteInv /\ DrainInv /\ GenInv /\ ClientInv /\ tasks[i].phase = "publish"
      /\ uq \in Queues /\ waitLsn \in Lsns /\ deletions \subseteq Objects
  BY HasTask DEF IInv, TaskPublishLsn, TypeInv, FlowType, ClientType, StorageType
<1>u. /\ UNCHANGED <<uq, shutdownReady, waiter, visible, advertised, storageVars, timelineVars, flowVars, gen, waitLsn>>
      /\ tasks' = Without(tasks, i) /\ pendingLsn' = {PublishedLsn(i)}
  BY DEF TaskPublishLsn
<1>v. /\ UNCHANGED <<storageVars, timelineVars, gen, waitLsn, deletedAt, deleteAcked, advertised>>
      /\ tenant' = tenant /\ deletion' = deletion /\ dropping' = dropping /\ deletions' = deletions /\ index' = index
      /\ compaction' = compaction
  BY <1>u DEF flowVars, timelineVars, storageVars
<1>1. /\ Leaves(tasks, tasks', i) /\ RunInv(tasks')
      /\ Active(tasks) = {} => Active(tasks') = {}
      /\ \A k \in 1 .. Len(tasks') : \E m \in 1 .. Len(tasks) : tasks'[k] = tasks[m]
  BY <1>0, <1>u, LeavesWithout
<1>2. \A l \in pendingLsn' : l <= LatestIndex.meta.lsn
  BY <1>0, <1>u DEF RunInv, TaskKinds, PublishedLsn
<1>3. CASE uq.state = "Stopped"
  <2>1. uq' = Stopped(uq) /\ uq.state # "Uninitialized"
    BY <1>3, <1>u DEF Stopped
  <2>2. /\ "tenant" \notin Activities => tenant' = "up"
        /\ "deletion" \notin Activities => deletion' = "no"
    BY <1>0, <1>v DEF DeleteInv
  <2>3. shutdownReady' = shutdownReady /\ waiter' = waiter
    BY <1>u
  <2>. QED  BY <1>1, <1>2, <1>v, <2>1, <2>2, <2>3, StopStep
<1>4. CASE uq.state = "Initialized"
  <2>1. QueueInv(uq, tasks, waitLsn)
    BY <1>0, <1>4 DEF ClientInv
  <2>2. QueueInv(uq', tasks', waitLsn')
    BY <1>0, <1>1, <1>u, <2>1, LeavesQueueInv
  <2>3. QueueInv(uq, tasks, waitLsn)' /\ RunInv(tasks)'
    BY <1>1, <1>v, <2>2, SameQueueInv, SameRunInv
  <2>4. LatestIndex' = LatestIndex /\ HasIndex' = HasIndex /\ KeyGen' = KeyGen
    BY <1>v, LatestUnchanged, KeyGenSame
  <2>5. ClientInv'
    BY <1>0, <1>4, <1>u, <1>v, <2>3, <2>4 DEF ClientInv, Known
  <2>6. DrainInv' /\ DurableInv'
    BY <1>0, <1>1, <1>2, <1>u, <1>v, <2>4 DEF DrainInv, DurableInv, storageVars
  <2>7. DeleteInv'
    <3>1. deletion' = "no"
      BY <1>0, <1>4, <1>v DEF DeleteInv
    <3>2. "tenant" \notin Activities => \A k \in 1 .. Len(tasks') : tasks'[k].joiner # "tenant"
      BY <1>0, <1>1 DEF DeleteInv, TaskIds
    <3>. QED  BY <1>0, <1>v, <2>4, <3>1, <3>2 DEF DeleteInv, TaskIds
  <2>8. GenInv'
    BY <1>0, <1>u, <1>v, GenFrame
  <2>9. \A o \in Objects : Spent(o)' => Spent(o)
    BY <1>1, <1>u, <1>v, LeavesDoomed DEF Spent
  <2>10. TimelineInv'
    BY <1>u, <1>v, <2>9, TimelineFrame
  <2>. QED  BY <2>5, <2>6, <2>7, <2>8, <2>10 DEF IInv
<1>. QED  BY <1>0, <1>3, <1>4 DEF Queues
-----------------------------------------------------------------------------
(***************************************************************************)
(* Steps that leave the queue and object storage alone.                    *)
(***************************************************************************)
LEMMA QuietStep ==
  ASSUME IInv, TypeInv', UNCHANGED <<queueVars, storageVars, gen, waitLsn>>, TimelineInv', DeleteInv',
         uq.state = "Uninitialized" => compaction'.step = "none" /\ dropping' = {},
         compaction.step = "uploaded" => compaction'.step = "uploaded",
         ~LatestIndex.deleted => /\ advertised' <= LatestIndex.meta.lsn
                                 /\ \A l \in pendingLsn' : l <= LatestIndex.meta.lsn
  PROVE  IInv'
<1>0. /\ ClientInv /\ DrainInv /\ DurableInv /\ GenInv /\ TypeInv /\ deletions \subseteq Objects
  BY DEF IInv, TypeInv, StorageType
<1>u. uq' = uq /\ tasks' = tasks /\ shutdownReady' = shutdownReady /\ waiter' = waiter /\ waitLsn' = waitLsn
  BY DEF queueVars
<1>1. /\ LatestIndex' = LatestIndex /\ HasIndex' = HasIndex /\ KeyGen' = KeyGen /\ store' = store
      /\ deletions' = deletions /\ index' = index
  BY LatestUnchanged, KeyGenSame DEF storageVars
<1>2. RunInv(tasks)'
  BY <1>0, <1>u, SameRunInv DEF ClientInv
<1>3. uq.state = "Initialized" => QueueInv(uq, tasks, waitLsn)'
  <2>1. ASSUME uq.state = "Initialized" PROVE QueueInv(uq', tasks', waitLsn')
    BY <1>0, <1>u, <2>1 DEF ClientInv
  <2>. QED  BY <2>1, SameQueueInv
<1>4. ClientInv'
  BY <1>0, <1>1, <1>2, <1>3, <1>u DEF ClientInv, Known
<1>5. DrainInv' /\ DurableInv'
  <2>1. shutdownReady => Stands(LatestIndex.files, uq.files, compaction'.step = "uploaded")
    BY <1>0 DEF DrainInv, Stands
  <2>. QED  BY <1>0, <1>1, <1>u, <2>1 DEF DrainInv, DurableInv
<1>6. GenInv'
  BY <1>0, <1>1, <1>u, GenFrame
<1>. QED  BY <1>4, <1>5, <1>6 DEF IInv

\* ... and the layers.
LEMMA FlowStep ==
  ASSUME IInv, TypeInv', UNCHANGED <<queueVars, storageVars, gen, waitLsn>>, DeleteInv',
         UNCHANGED <<layerMap, compaction, dropping, diskLsn>>,
         ~LatestIndex.deleted => /\ advertised' <= LatestIndex.meta.lsn
                                 /\ \A l \in pendingLsn' : l <= LatestIndex.meta.lsn
  PROVE  IInv'
<1>u. uq' = uq /\ tasks' = tasks /\ deletions' = deletions
  BY DEF queueVars, storageVars
<1>1. \A o \in Objects : Spent(o)' => Spent(o)
  BY <1>u DEF Spent
<1>2. TimelineInv'
  BY <1>1, <1>u, TimelineSame
<1>3. uq.state = "Uninitialized" => compaction'.step = "none" /\ dropping' = {}
  BY DEF IInv, ClientInv
<1>. QED  BY <1>2, <1>3, QuietStep

LEMMA LsnFrame ==
  ASSUME IInv, UNCHANGED lsnVars
  PROVE  ~LatestIndex.deleted => /\ advertised' <= LatestIndex.meta.lsn
                                 /\ \A l \in pendingLsn' : l <= LatestIndex.meta.lsn
<1>1. DurableInv /\ advertised' = advertised /\ pendingLsn' = pendingLsn
  BY DEF IInv, lsnVars
<1>. QED  BY <1>1 DEF DurableInv

\* The flows are where they were.
LEMMA DeleteFrame ==
  ASSUME IInv, UNCHANGED <<queueVars, storageVars, flowVars>>
  PROVE  DeleteInv'
<1>1. /\ LatestIndex' = LatestIndex /\ uq' = uq /\ tasks' = tasks /\ tenant' = tenant /\ deletion' = deletion
      /\ deletedAt' = deletedAt /\ deleteAcked' = deleteAcked /\ DeleteInv
  BY LatestUnchanged DEF storageVars, queueVars, flowVars, IInv
<1>. QED  BY <1>1 DEF DeleteInv, TaskIds

LEMMA ValidateLsnInv ==
  ASSUME IInv, TypeInv', ValidateLsn
  PROVE  IInv'
<1>u. UNCHANGED <<queueVars, storageVars, timelineVars, flowVars, gen, waitLsn>>
  BY DEF ValidateLsn
<1>1. PICK lsn \in pendingLsn : advertised' = IF lsn > advertised THEN lsn ELSE advertised
  BY DEF ValidateLsn
<1>2. pendingLsn' = {} /\ DurableInv
  BY DEF ValidateLsn, IInv
<1>3. ~LatestIndex.deleted => /\ advertised' <= LatestIndex.meta.lsn
                              /\ \A l \in pendingLsn' : l <= LatestIndex.meta.lsn
  BY <1>1, <1>2 DEF DurableInv
<1>4. DeleteInv'
  BY <1>u, DeleteFrame
<1>. QED  BY <1>3, <1>4, <1>u, FlowStep DEF timelineVars

LEMMA IngestInv ==
  ASSUME IInv, TypeInv', Ingest
  PROVE  IInv'
<1>u. UNCHANGED <<queueVars, lsnVars, storageVars, diskLsn, gcCutoff, layerMap, compaction, collecting, dropping,
                  flowVars, gen, waitLsn>>
  BY DEF Ingest
<1>1. DeleteInv'
  BY <1>u, DeleteFrame
<1>. QED  BY <1>1, <1>u, LsnFrame, FlowStep

LEMMA GcAdvanceCutoffInv ==
  ASSUME IInv, TypeInv', NEW cutoff, GcAdvanceCutoff(cutoff)
  PROVE  IInv'
<1>u. UNCHANGED <<queueVars, lsnVars, storageVars, lastLsn, diskLsn, layerMap, compaction, dropping, flowVars, gen, waitLsn>>
  BY DEF GcAdvanceCutoff
<1>1. DeleteInv'
  BY <1>u, DeleteFrame
<1>. QED  BY <1>1, <1>u, LsnFrame, FlowStep

LEMMA NoTaskLeft ==
  ASSUME NEW ts \in Seq(Tasks), Len(ts) = 0 \/ 1 .. Len(ts) = {}
  PROVE  ts = << >>
<1>1. PICK n \in Nat : n = Len(ts)
  BY LenProperties
<1>2. n = 0
  <2>1. n >= 1 => 1 \in 1 .. n
    OBVIOUS
  <2>2. n >= 1 => 1 \in {}
    BY <1>1, <2>1
  <2>. QED  BY <2>2
<1>. QED  BY <1>1, <1>2, EmptySeq

LEMMA JoinDoneInv ==
  ASSUME DeletionIsAlone, IInv, TypeInv', NEW caller \in {"tenant", "deletion"}, JoinDone(caller)
  PROVE  IInv'
<1>0. DeleteInv /\ tasks \in Seq(Tasks) /\ TypeInv
  BY DEF IInv, TypeInv, ClientType
<1>u. UNCHANGED <<queueVars, lsnVars, storageVars, timelineVars, deletedAt, cancelled, deleteAcked, gen, waitLsn>>
  BY DEF JoinDone
<1>v. LatestIndex' = LatestIndex /\ uq' = uq /\ tasks' = tasks
  BY <1>u, LatestUnchanged DEF storageVars, queueVars
<1>1. /\ Joining(caller) /\ NothingToJoin(caller)
      /\ tenant' = IF caller = "tenant" THEN "down" ELSE tenant
      /\ deletion' = IF caller = "deletion" THEN "joined" ELSE deletion
  BY DEF JoinDone
<1>2. CASE caller = "tenant"
  <2>1. "tenant" \in Activities
    BY <1>0, <1>1, <1>2 DEF Joining, DeleteInv
  <2>. QED  BY <1>0, <1>1, <1>2, <1>u, <1>v, <2>1, LsnFrame, FlowStep DEF DeleteInv, TaskIds, timelineVars
<1>3. CASE caller = "deletion"
  <2>1. deletion = "joining" /\ "deletion" \in Activities /\ "tenant" \notin Activities
    BY <1>0, <1>1, <1>3 DEF Joining, DeleteInv, DeletionIsAlone
  <2>2. ASSUME NEW i \in 1 .. Len(tasks) PROVE FALSE
    <3>1. tasks[i].joiner \in {"none", "tenant", "deletion"}
      BY <1>0, TaskFields
    <3>2. tasks[i].joiner # "tenant"
      BY <1>0, <2>1 DEF DeleteInv, TaskIds
    <3>. QED  BY <1>1, <1>3, <3>1, <3>2 DEF NothingToJoin, Awaits, TaskIds
  <2>3. tasks = << >>
    <3>1. 1 .. Len(tasks) = {}
      BY <2>2
    <3>. QED  BY <1>0, <3>1, NoTaskLeft
  <2>4. DeleteInv'
    BY <1>0, <1>1, <1>3, <1>u, <1>v, <2>1, <2>3 DEF DeleteInv, TaskIds
  <2>. QED  BY <1>u, <2>4, LsnFrame, FlowStep DEF timelineVars
<1>. QED  BY <1>2, <1>3

LEMMA DeletedFlagInv ==
  ASSUME IInv, TypeInv', DeletedFlagBegin \/ DeletedFlagAlready \/ DeletionFails
  PROVE  IInv'
<1>0. DeleteInv
  BY DEF IInv
<1>u. UNCHANGED <<queueVars, lsnVars, storageVars, timelineVars, tenant, cancelled, deleteAcked, gen, waitLsn>>
  BY DEF DeletedFlagBegin, DeletedFlagAlready, DeletionFails
<1>v. LatestIndex' = LatestIndex /\ uq' = uq /\ tasks' = tasks /\ tenant' = tenant /\ deleteAcked' = deleteAcked
  BY <1>u, LatestUnchanged DEF storageVars, queueVars
<1>1. CASE DeletedFlagBegin
  BY <1>0, <1>1, <1>u, <1>v, LsnFrame, FlowStep DEF DeleteInv, TaskIds, DeletedFlagBegin, timelineVars
<1>2. CASE DeletedFlagAlready
  BY <1>0, <1>2, <1>u, <1>v, LsnFrame, FlowStep DEF DeleteInv, TaskIds, DeletedFlagAlready, timelineVars
<1>3. CASE DeletionFails
  BY <1>0, <1>3, <1>u, <1>v, LsnFrame, FlowStep DEF DeleteInv, TaskIds, DeletionFails, timelineVars
<1>. QED  BY <1>1, <1>2, <1>3
-----------------------------------------------------------------------------
(***************************************************************************)
(* Shutdown of the tenant, and deletion of the timeline.                   *)
(***************************************************************************)
LEMMA StopActions ==
  ASSUME IInv, TypeInv', ShutdownTimeline \/ ShutdownDrained \/ DeleteStopTasks
  PROVE  IInv'
<1>0. ClientInv /\ DeleteInv /\ DrainInv /\ DurableInv /\ tasks \in Seq(Tasks) /\ RunInv(tasks)
  BY DEF IInv, ClientInv, TypeInv, ClientType
<1>1. /\ uq' = Stopped(uq) /\ tasks' = tasks /\ waiter' \in {"aborted", waiter} /\ shutdownReady' = shutdownReady
  BY DEF ShutdownTimeline, ShutdownDrained, DeleteStopTasks, StopQueue
<1>2. /\ UNCHANGED <<storageVars, timelineVars, gen, waitLsn, deletedAt, deleteAcked, advertised>>
      /\ pendingLsn' = pendingLsn
  BY DEF ShutdownTimeline, ShutdownDrained, DeleteStopTasks, lsnVars
<1>3. /\ uq.state # "Uninitialized"
      /\ "tenant" \notin Activities => tenant' = "up"
      /\ "deletion" \notin Activities => deletion' = "no"
      /\ deletion' \notin {"no", "joining"} => deletion' = deletion
  <2>1. CASE ShutdownTimeline
    BY <1>0, <2>1 DEF ShutdownTimeline, DeleteInv
  <2>2. CASE ShutdownDrained
    BY <1>0, <2>2 DEF ShutdownDrained, DeleteInv, DrainInv
  <2>3. CASE DeleteStopTasks
    BY <1>0, <2>3 DEF DeleteStopTasks, DeleteInv
  <2>. QED  BY <2>1, <2>2, <2>3
<1>4. /\ RunInv(tasks') /\ (Active(tasks) = {} => Active(tasks') = {})
      /\ \A k \in 1 .. Len(tasks') : \E m \in 1 .. Len(tasks) : tasks'[k] = tasks[m]
      /\ ~LatestIndex.deleted => \A l \in pendingLsn' : l <= LatestIndex.meta.lsn
  BY <1>0, <1>1, <1>2 DEF DurableInv
<1>. QED  BY <1>1, <1>2, <1>3, <1>4, StopStep

LEMMA ShutdownBeginInv ==
  ASSUME IInv, TypeInv', ShutdownBegin
  PROVE  IInv'
<1>0. /\ ClientInv /\ DeleteInv /\ DrainInv /\ DurableInv /\ tasks \in Seq(Tasks) /\ RunInv(tasks) /\ StorageType
      /\ uq \in Queues /\ uq.state = "Initialized" /\ "tenant" \in Activities /\ waitLsn \in Lsns
      /\ QueueInv(uq, tasks, waitLsn) /\ ~LatestIndex.deleted
  BY DEF IInv, ClientInv, TypeInv, ClientType, ShutdownBegin, FlowType, QueueInv, Scheduling
<1>u. UNCHANGED <<lsnVars, storageVars, timelineVars, deletion, deletedAt, cancelled, deleteAcked, gen, waitLsn>>
  BY DEF ShutdownBegin
<1>v. /\ UNCHANGED <<storageVars, gen, deletion, deletedAt, deleteAcked>> /\ waitLsn' = waitLsn
      /\ dropping' = dropping /\ deletions' = deletions /\ UNCHANGED <<timelineVars, gen>>
      /\ advertised' = advertised /\ pendingLsn' = pendingLsn
  BY <1>u DEF timelineVars, storageVars, lsnVars
<1>1. CASE ~uq.shuttingDown /\ LaunchQueuedTasks(ScheduleShutdown(uq), tasks)
  <2>. DEFINE q == ScheduleShutdown(uq)
  <2>1. Fields(q, uq.state, uq.files, uq.changes, uq.meta, Append(uq.queued, ShutdownOp), TRUE)
    BY <1>0, ShutdownFields
  <2>2. /\ q \in Queues /\ q.state = uq.state /\ q.files = uq.files /\ q.changes = uq.changes /\ q.meta = uq.meta
        /\ q.queued = Append(uq.queued, ShutdownOp)
    BY <2>1 DEF Fields
  <2>3. QueueInv(q, tasks, waitLsn)
    BY <1>0, <1>1, ScheduleShutdownOp
  <2>4. LaunchQueuedTasks(q, tasks)
    BY <1>1
  <2>. HIDE DEF q
  <2>5. ~shutdownReady
    BY <1>0, <1>1, NotDrained DEF Usable
  <2>6. WellFormed(q.files) /\ Known(q.files) /\ (q.changes => compaction'.step = "uploaded")
    BY <1>0, <1>v, <2>2 DEF ClientInv, timelineVars
  <2>7. /\ \A l \in pendingLsn' : l <= LatestIndex.meta.lsn
        /\ advertised' <= LatestIndex.meta.lsn
        /\ waiter = "done" => waitLsn' <= LatestIndex.meta.lsn
    BY <1>0, <1>v DEF DurableInv
  <2>8. uq.state # "Stopped" /\ q.state = "Initialized" /\ QueueInv(q, tasks, waitLsn')
    BY <1>0, <1>v, <2>2, <2>3
  <2>9. /\ ClientInv' /\ DrainInv' /\ DurableInv' /\ DeleteInv' /\ GenInv'
        /\ \A o : Doomed(uq'.queued, tasks', o) => Doomed(q.queued, tasks, o)
        /\ uq'.state = "Initialized" /\ uq'.files = q.files /\ uq'.meta = q.meta
    BY <1>0, <1>v, <2>2, <2>4, <2>5, <2>6, <2>7, <2>8, LaunchStep
  <2>10. \A o \in Objects : Spent(o)' => Spent(o)
    <3>1. ShutdownOp \in Ops /\ ShutdownOp.type # "delete" /\ uq.queued \in Seq(Ops)
      BY <1>0, OpTypes, QueueType
    <3>2. \A o : Doomed(Append(uq.queued, ShutdownOp), tasks, o) => Doomed(uq.queued, tasks, o)
      BY <1>0, <3>1, AppendDoomed
    <3>. QED  BY <1>v, <2>2, <2>9, <3>2 DEF Spent
  <2>11. TimelineInv'
    BY <1>0, <1>v, <2>2, <2>9, <2>10, TimelineFrame
  <2>. QED  BY <2>9, <2>11 DEF IInv
<1>2. CASE uq.shuttingDown /\ UNCHANGED queueVars
  <2>1. LatestIndex' = LatestIndex /\ uq' = uq /\ tasks' = tasks
    BY <1>2, <1>u, LatestUnchanged DEF storageVars, queueVars
  <2>2. DeleteInv'
    BY <1>0, <1>u, <2>1 DEF DeleteInv, TaskIds
  <2>. QED  BY <1>2, <1>u, <2>2, LsnFrame, FlowStep DEF timelineVars
<1>. QED  BY <1>1, <1>2 DEF ShutdownBegin

\* No tasks.
LEMMA EmptyTasks ==
  ASSUME NEW ts, ts = << >>
  PROVE  /\ Len(ts) = 0 /\ 1 .. Len(ts) = {} /\ Active(ts) = {} /\ \A type : Running(ts, type) = {}
         /\ \A type, o : RunningOn(ts, type, o) = {}
<1>1. Len(ts) = 0
  BY EmptySeq
<1>2. 1 .. Len(ts) = {}
  BY <1>1
<1>. QED  BY <1>1, <1>2 DEF Active, Running, RunningOn

LEMMA EmptyRunInv ==
  ASSUME NEW ts, ts = << >>
  PROVE  RunInv(ts)
<1>1. /\ Len(ts) = 0 /\ 1 .. Len(ts) = {} /\ Active(ts) = {} /\ \A type : Running(ts, type) = {}
      /\ \A type, o : RunningOn(ts, type, o) = {}
  BY EmptyTasks
<1>. QED  BY <1>1 DEF RunInv, TaskKinds, Exclusive, Effects

LEMMA EmptyRunInvNext ==
  ASSUME tasks' = << >>
  PROVE  RunInv(tasks)'
<1>1. /\ Len(tasks') = 0 /\ 1 .. Len(tasks') = {} /\ Active(tasks') = {} /\ \A type : Running(tasks', type) = {}
      /\ \A type, o : RunningOn(tasks', type, o) = {}
  BY EmptyTasks
<1>. QED  BY <1>1 DEF RunInv, TaskKinds, Exclusive, Effects

LEMMA DeletedFlagUploadInv ==
  ASSUME IInv, TypeInv', NEW replied \in BOOLEAN, DeletedFlagUpload(replied)
  PROVE  IInv'
<1>0. /\ ClientInv /\ DeleteInv /\ DrainInv /\ GenInv /\ TypeInv /\ FlowType /\ deletions \subseteq Objects
      /\ deletion = "flagging" /\ uq.state = "Stopped" /\ tasks = << >> /\ uq.queued = << >>
      /\ "deletion" \in Activities
  BY DEF IInv, ClientInv, TypeInv, StorageType, DeletedFlagUpload, DeleteInv
<1>u. /\ UNCHANGED <<queueVars, lsnVars, store, deletions, timelineVars, tenant, cancelled, gen, waitLsn>>
      /\ deletion' = IF replied THEN "flagged" ELSE "no"
      /\ index' = [g \in DOMAIN index \cup {KeyGen} |->
                      IF g = KeyGen THEN IndexPart(uq.files, uq.meta, TRUE) ELSE index[g]]
  BY DEF DeletedFlagUpload
<1>v. /\ uq' = uq /\ tasks' = tasks /\ shutdownReady' = shutdownReady /\ KeyGen' = KeyGen /\ tenant' = tenant
      /\ deletions' = deletions /\ gen' = gen
  BY <1>u, KeyGenSame DEF queueVars
<1>1. HasIndex' /\ LatestIndex' = IndexPart(uq.files, uq.meta, TRUE)
  <2>1. KeyGen \in Nat /\ DOMAIN index \subseteq 0 .. KeyGen
    BY <1>0, Bounds DEF GenInv, FlowType, KeyGen
  <2>. QED  BY <1>u, <2>1, LatestWritten
<1>2. LatestIndex'.files = uq.files /\ LatestIndex'.meta = uq.meta /\ LatestIndex'.deleted
  BY <1>1 DEF IndexPart
<1>3. ClientInv'
  BY <1>0, <1>v, EmptyRunInvNext DEF ClientInv, Known
<1>4. DrainInv' /\ DurableInv'
  <2>1. Stands(LatestIndex'.files, uq'.files, compaction'.step = "uploaded")
    BY <1>2, <1>v DEF Stands
  <2>. QED  BY <1>0, <1>2, <1>v, <2>1 DEF DrainInv, DurableInv
<1>5. DeleteInv'
  BY <1>0, <1>2, <1>u, <1>v DEF DeleteInv, TaskIds
<1>6. GenInv'
  <2>1. DOMAIN index' = DOMAIN index \cup {KeyGen} /\ \A g \in DOMAIN index : g # KeyGen => index'[g] = index[g]
    BY <1>u
  <2>2. index'[KeyGen].files = uq.files /\ Known(uq.files) /\ WellFormed(uq.files)
    BY <1>0, <1>u DEF IndexPart, ClientInv
  <2>3. DOMAIN index' \subseteq IF Legacy THEN {0} ELSE 1 .. gen
    BY <1>0, <2>1, Bounds DEF GenInv, KeyGen, FlowType
  <2>4. (\A g \in DOMAIN index : Known(index[g].files) /\ WellFormed(index[g].files))'
    BY <1>0, <1>v, <2>1, <2>2 DEF GenInv, Known, WellFormed
  <2>. QED  BY <1>0, <1>v, <2>3, <2>4 DEF GenInv, Known
<1>7. TimelineInv'
  BY <1>0, <1>v DEF TimelineInv
<1>. QED  BY <1>3, <1>4, <1>5, <1>6, <1>7 DEF IInv

\* What the deletion deletes does not matter any more.
LEMMA DeleteStep ==
  ASSUME DeletionIsAlone, IInv, TypeInv', deletion # "no", uq.state = "Stopped", tasks = << >>,
         UNCHANGED <<tasks, shutdownReady, waiter, lsnVars, deletions, timelineVars, tenant, deletedAt, deleteAcked, gen, waitLsn>>,
         uq'.state = "Stopped", uq'.files \subseteq uq.files, uq'.changes = uq.changes, uq'.queued = uq.queued,
         uq'.shuttingDown = uq.shuttingDown, DOMAIN index' \subseteq DOMAIN index,
         \A g \in DOMAIN index' : index'[g] = index[g], LatestIndex'.deleted
  PROVE  IInv'
<1>0. /\ ClientInv /\ DeleteInv /\ DrainInv /\ GenInv /\ TypeInv /\ FlowType /\ deletions \subseteq Objects
      /\ "deletion" \in Activities /\ "tenant" \notin Activities /\ ~shutdownReady
      /\ KeyGen' = KeyGen
  BY KeyGenSame DEF IInv, ClientInv, TypeInv, StorageType, DeleteInv, DeletionIsAlone
<1>1. ClientInv'
  <2>1. WellFormed(uq'.files)
    BY <1>0 DEF ClientInv, WellFormed
  <2>2. Known(uq.files)'
    BY <1>0 DEF ClientInv, Known
  <2>3. RunInv(tasks)'
    BY EmptyRunInvNext
  <2>. QED  BY <1>0, <2>1, <2>2, <2>3 DEF ClientInv
<1>2. DrainInv' /\ DurableInv'
  BY <1>0 DEF DrainInv, DurableInv
<1>3. DeleteInv'
  BY <1>0 DEF DeleteInv, TaskIds
<1>4. GenInv'
  BY <1>0 DEF GenInv, Known
<1>5. TimelineInv'
  BY DEF TimelineInv
<1>. QED  BY <1>1, <1>2, <1>3, <1>4, <1>5 DEF IInv

LEMMA DeleteAllLayersInv ==
  ASSUME DeletionIsAlone, IInv, TypeInv', DeleteAllLayers
  PROVE  IInv'
<1>0. /\ deletion = "flagged" /\ uq.state = "Stopped" /\ tasks = << >> /\ uq \in Queues /\ LatestIndex.deleted
  BY DEF DeleteAllLayers, IInv, DeleteInv, TypeInv, ClientType
<1>u. /\ UNCHANGED <<tasks, shutdownReady, waiter, lsnVars, index, deletions, timelineVars,
                     tenant, deletedAt, cancelled, deleteAcked, gen, waitLsn>>
      /\ uq' = [uq EXCEPT !.files = {}]
  BY DEF DeleteAllLayers
<1>1. /\ uq'.state = "Stopped" /\ uq'.files = {} /\ uq'.changes = uq.changes /\ uq'.queued = uq.queued
      /\ uq'.shuttingDown = uq.shuttingDown
  BY <1>0, <1>u DEF Queues
<1>2. LatestIndex' = LatestIndex
  BY <1>u, LatestUnchanged
<1>. QED  BY <1>0, <1>1, <1>2, <1>u, DeleteStep

LEMMA DeleteListedInv ==
  ASSUME DeletionIsAlone, IInv, TypeInv', DeleteListed
  PROVE  IInv'
<1>0. /\ deletion = "listed" /\ uq.state = "Stopped" /\ tasks = << >> /\ LatestIndex.deleted /\ GenInv /\ FlowType
      /\ "deletion" \in Activities
  BY DEF DeleteListed, IInv, DeleteInv, TypeInv
<1>u. UNCHANGED <<queueVars, lsnVars, deletions, timelineVars, tenant, deletedAt, cancelled, deleteAcked, gen, waitLsn>>
  BY DEF DeleteListed
<1>v. UNCHANGED <<uq, tasks, shutdownReady, waiter, lsnVars, deletions, timelineVars, tenant, deletedAt, deleteAcked, gen, waitLsn>>
  BY <1>u DEF queueVars
<1>1. CASE UNCHANGED index
  <2>1. LatestIndex' = LatestIndex
    BY <1>1, LatestUnchanged
  <2>. QED  BY <1>0, <1>1, <1>v, <2>1, DeleteStep
<1>2. ASSUME NEW g \in DOMAIN index, index' = [h \in DOMAIN index \ {g} |-> index[h]]
      PROVE  IInv'
  <2>1. \E k : DOMAIN index \subseteq {k}
    <3>1. CASE Legacy
      BY <1>0, <3>1 DEF GenInv
    <3>2. CASE ~Legacy
      <4>1. MaxGen = 1 /\ gen \in 1 .. 1
        BY <1>0, <3>2 DEF DeletionIsAlone, FlowType
      <4>2. DOMAIN index \subseteq 1 .. gen
        BY <1>0, <3>2 DEF GenInv
      <4>3. \A h \in 1 .. gen : h = 1
        BY <4>1
      <4>. QED  BY <4>2, <4>3
    <3>. QED  BY <3>1, <3>2
  <2>2. DOMAIN index' = {} /\ DOMAIN index' \subseteq DOMAIN index /\ \A h \in DOMAIN index' : index'[h] = index[h]
    BY <1>2, <2>1
  <2>3. LatestIndex'.deleted
    BY <2>2 DEF LatestIndex, HasIndex, NoIndex, IndexPart
  <2>. QED  BY <1>0, <1>v, <2>2, <2>3, DeleteStep
<1>. QED  BY <1>1, <1>2 DEF DeleteListed
-----------------------------------------------------------------------------
(***************************************************************************)
(* The schedule functions, with what they leave of the queue.              *)
(***************************************************************************)

\* r is q with other files and metadata, and perhaps other operations.
Becomes(q, r, files, meta) ==
    /\ r \in Queues /\ r.state = q.state /\ r.files = files /\ r.meta = meta
    /\ r.shuttingDown = q.shuttingDown

LEMMA IndexInv ==
  ASSUME NEW q \in Queues, NEW ts \in Seq(Tasks), NEW lsn \in Lsns, StorageType,
         Scheduling(q, ts, lsn), ~q.shuttingDown, WellFormed(q.files), Known(q.files),
         NEW r, r = ScheduleIndexUpload(q)
  PROVE  /\ QueueInv(r, ts, lsn) /\ Becomes(q, r, q.files, q.meta) /\ r.changes = FALSE
         /\ \A o : Doomed(r.queued, ts, o) => Doomed(q.queued, ts, o)
<1>1. Fields(r, q.state, q.files, FALSE, q.meta, Append(q.queued, IndexOp(q.files, q.meta)), q.shuttingDown)
  BY IndexUploadFields
<1>2. Becomes(q, r, q.files, q.meta) /\ r.changes = FALSE /\ r.queued = Append(q.queued, IndexOp(q.files, q.meta))
  BY <1>1 DEF Fields, Becomes
<1>3. q.queued \in Seq(Ops) /\ IndexOp(q.files, q.meta) \in Ops /\ IndexOp(q.files, q.meta).type = "index"
  <2>1. q.queued \in Seq(Ops) /\ q.files \in SUBSET Objects /\ q.meta \in Metas
    BY QueueType
  <2>. QED  BY <2>1, OpTypes
<1>4. \A o : Doomed(r.queued, ts, o) => Doomed(q.queued, ts, o)
  BY <1>2, <1>3, AppendDoomed
<1>5. QueueInv(r, ts, lsn)
  BY ScheduleIndex
<1>. QED  BY <1>2, <1>4, <1>5

LEMMA UnlinkInv ==
  ASSUME NEW q \in Queues, NEW ts \in Seq(Tasks), NEW lsn \in Lsns, StorageType,
         Scheduling(q, ts, lsn), q.changes \/ Desired(q, ts), ~q.shuttingDown,
         NEW objs \in SUBSET Objects, NEW r, r = ScheduleUnlinking0(q, objs),
         WellFormed(q.files \ Unlinked(q, objs)), Known(q.files \ Unlinked(q, objs))
  PROVE  /\ QueueInv(r, ts, lsn) /\ Becomes(q, r, q.files \ Unlinked(q, objs), q.meta) /\ r.changes = FALSE
         /\ \A o : Doomed(r.queued, ts, o) => Doomed(q.queued, ts, o)
<1>. DEFINE u == [q EXCEPT !.files = @ \ Unlinked(q, objs), !.changes = @ \/ Unlinked(q, objs) # {}]
<1>1. Fields(u, q.state, q.files \ Unlinked(q, objs), q.changes \/ Unlinked(q, objs) # {}, q.meta, q.queued, q.shuttingDown)
  BY UnlinkFields
<1>2. r = IF u.changes THEN ScheduleIndexUpload(u) ELSE u
  BY DEF ScheduleUnlinking0, ScheduleIndexUploadForFileChanges
<1>. HIDE DEF u
<1>3. /\ u \in Queues /\ u.state = q.state /\ u.files = q.files \ Unlinked(q, objs) /\ u.meta = q.meta
      /\ u.queued = q.queued /\ u.shuttingDown = q.shuttingDown /\ u.changes = (q.changes \/ Unlinked(q, objs) # {})
  BY <1>1 DEF Fields
<1>4. WellFormed(u.files) /\ Known(u.files)
  BY <1>3
<1>5. Scheduling(u, ts, lsn)
  <2>1. q.meta.lsn <= u.meta.lsn
    BY <1>3, QueueType
  <2>2. u.files \subseteq q.files
    BY <1>3
  <2>. QED  BY <1>3, <2>1, <2>2, ScheduleFields
<1>6. CASE u.changes
  <2>1. r = ScheduleIndexUpload(u)
    BY <1>2, <1>6
  <2>2. /\ QueueInv(r, ts, lsn) /\ Becomes(u, r, u.files, u.meta) /\ r.changes = FALSE
        /\ \A o : Doomed(r.queued, ts, o) => Doomed(u.queued, ts, o)
    BY <1>3, <1>4, <1>5, <2>1, IndexInv
  <2>. QED  BY <1>3, <2>2 DEF Becomes
<1>7. CASE ~u.changes
  <2>1. r = u /\ Unlinked(q, objs) = {} /\ Desired(q, ts) /\ u.files = q.files /\ u.changes = FALSE /\ q.changes = FALSE
    BY <1>2, <1>3, <1>7, QueueType
  <2>2. Desired(u, ts)
    BY <1>3, <2>1 DEF Desired
  <2>. QED  BY <1>3, <1>5, <2>1, <2>2 DEF QueueInv, Becomes
<1>. QED  BY <1>6, <1>7

LEMMA DeleteInvOf ==
  ASSUME NEW q \in Queues, NEW ts \in Seq(Tasks), NEW lsn \in Lsns, StorageType,
         QueueInv(q, ts, lsn), ~q.shuttingDown,
         NEW objs \in SUBSET Objects, objs \cap q.files = {}, Known(objs),
         NEW r, r = ScheduleDeletionOfUnlinked0(q, objs)
  PROVE  /\ QueueInv(r, ts, lsn) /\ Becomes(q, r, q.files, q.meta) /\ r.changes = q.changes
         /\ \A o : Doomed(r.queued, ts, o) => Doomed(q.queued, ts, o) \/ o \in objs
<1>1. QueueInv(r, ts, lsn)
  BY ScheduleDelete
<1>2. CASE objs = {}
  <2>1. r = q
    BY <1>2 DEF ScheduleDeletionOfUnlinked0
  <2>. QED  BY <1>1, <2>1 DEF Becomes
<1>3. CASE objs # {}
  <2>. DEFINE u == [q EXCEPT !.queued = Append(@, DeleteOp(objs))]
  <2>1. r = u
    BY <1>3 DEF ScheduleDeletionOfUnlinked0
  <2>2. Fields(u, q.state, q.files, q.changes, q.meta, Append(q.queued, DeleteOp(objs)), q.shuttingDown)
    BY DeletionFields
  <2>. HIDE DEF u
  <2>3. Becomes(q, r, q.files, q.meta) /\ r.changes = q.changes /\ r.queued = Append(q.queued, DeleteOp(objs))
    BY <2>1, <2>2 DEF Fields, Becomes
  <2>4. q.queued \in Seq(Ops) /\ DeleteOp(objs) \in Ops /\ DeleteOp(objs).objs = objs
    BY QueueType, OpTypes
  <2>5. ASSUME NEW o, Doomed(r.queued, ts, o) PROVE Doomed(q.queued, ts, o) \/ o \in objs
    BY <2>3, <2>4, <2>5, AppendDoomed
  <2>. QED  BY <1>1, <2>3, <2>5
<1>. QED  BY <1>2, <1>3

LEMMA BarrierInv ==
  ASSUME NEW q \in Queues, NEW ts \in Seq(Tasks), NEW lsn \in Lsns, StorageType,
         QueueInv(q, ts, lsn), ~q.shuttingDown, NEW w \in BOOLEAN, w => lsn = q.meta.lsn,
         NEW r, r = ScheduleBarrier0(q, w)
  PROVE  /\ QueueInv(r, ts, lsn) /\ Becomes(q, r, q.files, q.meta) /\ r.changes = q.changes
         /\ \A o : Doomed(r.queued, ts, o) => Doomed(q.queued, ts, o)
         /\ r.queued = Append(q.queued, BarrierOp(w))
<1>1. Fields(r, q.state, q.files, q.changes, q.meta, Append(q.queued, BarrierOp(w)), q.shuttingDown)
  BY BarrierFields
<1>2. Becomes(q, r, q.files, q.meta) /\ r.changes = q.changes /\ r.queued = Append(q.queued, BarrierOp(w))
  BY <1>1 DEF Fields, Becomes
<1>3. q.queued \in Seq(Ops) /\ BarrierOp(w) \in Ops /\ BarrierOp(w).type = "barrier"
  BY QueueType, OpTypes
<1>4. \A o : Doomed(r.queued, ts, o) => Doomed(q.queued, ts, o)
  BY <1>2, <1>3, AppendDoomed
<1>5. QueueInv(r, ts, lsn)
  BY ScheduleBarrier
<1>. QED  BY <1>2, <1>4, <1>5

\* An upload scheduled after a barrier waits for all deletions.
LEMMA BarrierSaves ==
  ASSUME Legacy, NEW s \in Seq(Ops), NEW e \in Ops, e.type = "barrier", NEW ts \in Seq(Tasks), NEW o
  PROVE  ~Doomed(Append(s, e), ts, o)
<1>. DEFINE t == Append(s, e)
<1>1. /\ t \in Seq(Ops) /\ Len(t) = Len(s) + 1 /\ Len(s) \in Nat /\ t[Len(s) + 1] = e
  BY AppendOps, LenProperties
<1>. HIDE DEF t
<1>2. Len(t) \in 1 .. Len(t) /\ t[Len(t)].type = "barrier"
  BY <1>1
<1>3. ASSUME NEW m \in 1 .. Len(t), OnObject(t, m, "delete", o), \A b \in m + 1 .. Len(t) : t[b].type # "barrier"
      PROVE  FALSE
  <2>1. m # Len(t)
    BY <1>2, <1>3 DEF OnObject
  <2>2. Len(t) \in m + 1 .. Len(t)
    BY <1>1, <2>1
  <2>. QED  BY <1>2, <1>3, <2>2
<1>4. ~Doomed(t, ts, o)
  BY <1>2, <1>3 DEF Doomed
<1>. QED  BY <1>4 DEF t
-----------------------------------------------------------------------------
(***************************************************************************)
(* Restart, and what follows.                                              *)
(***************************************************************************)
LEMMA RestartInv ==
  ASSUME IInv, TypeInv', Restart
  PROVE  IInv'
<1>0. /\ DurableInv /\ DeleteInv /\ GenInv /\ FlowType /\ StorageType /\ gen \in Nat /\ gen >= 1
      /\ deletions \subseteq Objects
  BY Bounds DEF IInv, TypeInv, FlowType, StorageType
<1>1. /\ gen' = gen + 1 /\ uq' = Uninitialized /\ tasks' = << >> /\ shutdownReady' = FALSE
      /\ waiter' = "none" /\ waitLsn' = 0 /\ pendingLsn' = {} /\ advertised' = advertised
      /\ deletions' \subseteq deletions /\ store' = store /\ index' = index
      /\ compaction' = NoCompaction /\ dropping' = {}
      /\ tenant' = "up" /\ deletion' = "no" /\ deletedAt' = "NotRunning" /\ deleteAcked' = deleteAcked
  BY DEF Restart
<1>2. LatestIndex' = LatestIndex /\ HasIndex' = HasIndex
  BY <1>1, LatestUnchanged
<1>3. /\ uq'.state = "Uninitialized" /\ uq'.files = {} /\ uq'.changes = FALSE /\ uq'.queued = << >>
      /\ uq'.shuttingDown = FALSE /\ compaction'.step = "none"
  BY <1>1 DEF Uninitialized, NoCompaction
<1>4. ClientInv'
  BY <1>1, <1>3, EmptyRunInvNext DEF ClientInv, Known, WellFormed
<1>5. DrainInv' /\ DurableInv'
  BY <1>0, <1>1, <1>2 DEF DrainInv, DurableInv
<1>6. DeleteInv'
  <2>1. 1 .. Len(tasks') = {}
    BY <1>1, EmptyTasks
  <2>. QED  BY <1>0, <1>1, <1>2, <2>1 DEF DeleteInv, TaskIds
<1>7. GenInv'
  <2>1. /\ \A g \in DOMAIN index : index[g].files \subseteq Objects
        /\ \A o \in Objects : o.gen \in Nat
    BY <1>0, ObjectFields DEF StorageType, IndexParts
  <2>2. CASE Legacy
    <3>1. KeyGen' = 0 /\ KeyGen = 0
      BY <2>2 DEF KeyGen
    <3>. QED  BY <1>0, <1>1, <2>2, <3>1 DEF GenInv, Known
  <2>3. CASE ~Legacy
    <3>1. KeyGen = gen /\ KeyGen' = gen'
      BY <2>3 DEF KeyGen
    <3>2. /\ DOMAIN index \subseteq 1 .. gen /\ \A g \in DOMAIN index : WellFormed(index[g].files)
          /\ \A g \in DOMAIN index : \A o \in index[g].files : o.gen <= gen /\ o.gen \in Nat
          /\ \A o \in deletions : o.gen <= gen /\ o.gen \in Nat
      BY <1>0, <2>1, <2>3, <3>1 DEF GenInv, Known
    <3>3. \A n \in Nat : n <= gen => n < gen' /\ n <= gen'
      BY <1>0, <1>1
    <3>4. \A g \in 1 .. gen : g \in 1 .. gen' /\ g < gen'
      BY <1>0, <1>1
    <3>5. /\ DOMAIN index' \subseteq 1 .. gen' /\ \A g \in DOMAIN index' : g < gen' /\ WellFormed(index'[g].files)
          /\ \A g \in DOMAIN index' : \A o \in index'[g].files : o.gen < gen' /\ o.gen <= gen'
          /\ \A o \in deletions' : o.gen < gen' /\ o.gen <= gen'
      BY <1>1, <3>2, <3>3, <3>4
    <3>. QED  BY <2>3, <3>1, <3>5 DEF GenInv, Known
  <2>. QED  BY <2>2, <2>3
<1>8. TimelineInv'
  BY <1>3 DEF TimelineInv
<1>. QED  BY <1>4, <1>5, <1>6, <1>7, <1>8 DEF IInv

LEMMA LatestKnown ==
  ASSUME IInv, HasIndex
  PROVE  /\ Known(LatestIndex.files) /\ WellFormed(LatestIndex.files)
         /\ uq.state = "Uninitialized" /\ ~Legacy => \A o \in LatestIndex.files : o.gen < gen
<1>1. GenInv /\ StorageType
  BY DEF IInv, TypeInv
<1>2. LatestGen \in DOMAIN index /\ LatestIndex = index[LatestGen]
  BY <1>1, LatestIs
<1>. QED  BY <1>1, <1>2 DEF GenInv

LEMMA ResumeDeletionInv ==
  ASSUME IInv, TypeInv', ResumeDeletion
  PROVE  IInv'
<1>0. /\ ClientInv /\ DrainInv /\ DurableInv /\ DeleteInv /\ GenInv /\ StorageType /\ deletions \subseteq Objects
      /\ uq.state = "Uninitialized" /\ HasIndex /\ LatestIndex.deleted
  BY DEF IInv, TypeInv, StorageType, ResumeDeletion
<1>u. /\ UNCHANGED <<tasks, shutdownReady, waiter, lsnVars, storageVars, timelineVars, tenant, cancelled, deleteAcked, gen, waitLsn>>
      /\ uq' = Stopped(Initialized(LatestIndex.files, LatestIndex.meta))
      /\ deletedAt' = "Successful" /\ deletion' = "flagged"
  BY DEF ResumeDeletion
<1>1. /\ LatestIndex' = LatestIndex /\ HasIndex' = HasIndex /\ KeyGen' = KeyGen /\ store' = store
      /\ deletions' = deletions /\ index' = index
  BY <1>u, LatestUnchanged, KeyGenSame DEF storageVars
<1>2. /\ uq'.state = "Stopped" /\ uq'.files = LatestIndex.files /\ uq'.changes = FALSE /\ uq'.queued = << >>
      /\ uq'.shuttingDown = FALSE
  <2>. DEFINE q == Initialized(LatestIndex.files, LatestIndex.meta)
  <2>1. LatestIndex.files \in SUBSET Objects /\ LatestIndex.meta \in Metas
    BY <1>0, LatestFields
  <2>2. Fields(q, "Initialized", LatestIndex.files, FALSE, LatestIndex.meta, << >>, FALSE)
    BY <2>1, InitializedFields
  <2>3. uq' = Stopped(q)
    BY <1>u
  <2>. HIDE DEF q
  <2>4. q \in Queues /\ q.state = "Initialized" /\ q.files = LatestIndex.files
    BY <2>2 DEF Fields
  <2>. QED  BY <2>3, <2>4, StoppedFields
<1>3. tasks = << >> /\ ~shutdownReady
  BY <1>0 DEF ClientInv, DrainInv
<1>4. ClientInv'
  <2>1. Known(LatestIndex.files) /\ WellFormed(LatestIndex.files)
    BY <1>0, LatestKnown
  <2>2. RunInv(tasks)'
    BY <1>3, <1>u, EmptyRunInvNext
  <2>. QED  BY <1>1, <1>2, <1>3, <1>u, <2>1, <2>2 DEF ClientInv, Known
<1>5. DrainInv' /\ DurableInv'
  BY <1>0, <1>1, <1>3, <1>u DEF DrainInv, DurableInv
<1>6. DeleteInv'
  BY <1>0, <1>1, <1>2, <1>3, <1>u DEF DeleteInv, TaskIds
<1>7. GenInv'
  BY <1>0, <1>1, <1>2, <1>u, GenFrame
<1>8. TimelineInv'
  BY <1>2 DEF TimelineInv
<1>. QED  BY <1>4, <1>5, <1>6, <1>7, <1>8 DEF IInv

\* The queue as it is when the index was read.
LEMMA LoadedInv ==
  ASSUME IInv, uq.state = "Uninitialized", HasIndex, ~LatestIndex.deleted, NEW lsn,
         NEW q, q = Initialized(LatestIndex.files, LatestIndex.meta)
  PROVE  /\ QueueInv(q, << >>, lsn) /\ Becomes(q, q, LatestIndex.files, LatestIndex.meta) /\ q.state = "Initialized"
         /\ ~q.shuttingDown /\ q.queued = << >> /\ q.changes = FALSE
<1>0. StorageType /\ DurableInv /\ LatestIndex.files \in SUBSET Objects /\ LatestIndex.meta \in Metas /\ LatestIndex.meta.lsn \in Nat
  <2>1. StorageType /\ DurableInv
    BY DEF IInv, TypeInv
  <2>. QED  BY <2>1, LatestFields
<1>1. Fields(q, "Initialized", LatestIndex.files, FALSE, LatestIndex.meta, << >>, FALSE)
  BY <1>0, InitializedFields
<1>2. /\ q \in Queues /\ q.state = "Initialized" /\ q.files = LatestIndex.files /\ q.changes = FALSE
      /\ q.meta = LatestIndex.meta /\ q.queued = << >> /\ q.shuttingDown = FALSE
  BY <1>1 DEF Fields
<1>3. Len(q.queued) = 0 /\ 1 .. Len(q.queued) = {} /\ 1 .. (Len(q.queued) + 1) - 1 = {}
  <2>1. Len(q.queued) = 0
    BY <1>2, EmptySeq
  <2>. QED  BY <2>1
<1>4. \A type : Running(<< >>, type) = {} /\ \A o : RunningOn(<< >>, type, o) = {}
  BY EmptyTasks
<1>5. RunInv(<< >>)
  BY EmptyRunInv
<1>6. FilesPresent(q, << >>)
  <2>1. ASSUME NEW f \in q.files PROVE PresentNow(<< >>, f)
    BY <1>0, <1>2, <1>4 DEF PresentNow, DurableInv
  <2>. QED  BY <1>3, <2>1 DEF FilesPresent, Present
<1>7. LsnOrder(q, << >>)
  BY <1>0, <1>2, <1>3, <1>4 DEF LsnOrder
<1>8. Scheduling(q, << >>, lsn)
  BY <1>3, <1>5, <1>6, <1>7 DEF Scheduling, UploadedFirst, UnlinkedFirst, NotDoomed, Waits
<1>9. Desired(q, << >>)
  BY <1>2, <1>3, <1>4 DEF Desired, Stands
<1>. QED  BY <1>2, <1>8, <1>9 DEF QueueInv, Becomes

\* ... and when the layers from the future are unlinked.
LEMMA LoadedQueueInv ==
  ASSUME IInv, uq.state = "Uninitialized", HasIndex, ~LatestIndex.deleted, NEW lsn \in Lsns,
         NEW future \in SUBSET LatestIndex.files, NEW q, q = LoadedQueue(LatestIndex, future),
         \A f \in LatestIndex.files : \A o \in future : o.name = f.name => f \in future
  PROVE  /\ QueueInv(q, << >>, lsn) /\ Becomes(q, q, LatestIndex.files \ future, LatestIndex.meta)
         /\ q.state = "Initialized" /\ ~q.shuttingDown /\ q.changes = FALSE
         /\ \A o : Doomed(q.queued, << >>, o) => ~Legacy /\ o \in LatestIndex.files
<1>. DEFINE q0 == Initialized(LatestIndex.files, LatestIndex.meta)
            q1 == ScheduleUnlinking0(q0, future)
            q2 == ScheduleDeletionOfUnlinked0(q1, Unlinked(q0, future))
<1>0. StorageType /\ LatestIndex.files \subseteq Objects /\ << >> \in Seq(Tasks)
  BY LatestFields, EmptySeq DEF IInv, TypeInv
<1>1. /\ QueueInv(q0, << >>, lsn) /\ Becomes(q0, q0, LatestIndex.files, LatestIndex.meta) /\ q0.state = "Initialized"
      /\ ~q0.shuttingDown /\ q0.queued = << >> /\ q0.changes = FALSE
  BY LoadedInv
<1>2. q2 = ScheduleLayerFileDeletion(q0, future)
  BY DEF ScheduleLayerFileDeletion
<1>. HIDE DEF q0
<1>3. q0 \in Queues /\ q0.files = LatestIndex.files /\ q0.meta = LatestIndex.meta
  BY <1>1 DEF Becomes
<1>4. WellFormed(q0.files) /\ Known(q0.files) /\ future \in SUBSET Objects
  BY <1>0, <1>3, LatestKnown
<1>5. Unlinked(q0, future) = future
  BY <1>3 DEF Unlinked
<1>6. Scheduling(q0, << >>, lsn) /\ Desired(q0, << >>)
  BY <1>1 DEF QueueInv
<1>7. /\ QueueInv(q1, << >>, lsn) /\ Becomes(q0, q1, q0.files \ Unlinked(q0, future), q0.meta) /\ q1.changes = FALSE
      /\ \A o : Doomed(q1.queued, << >>, o) => Doomed(q0.queued, << >>, o)
  <2>1. WellFormed(q0.files \ Unlinked(q0, future)) /\ Known(q0.files \ Unlinked(q0, future))
    BY <1>4 DEF WellFormed, Known
  <2>. QED  BY <1>0, <1>1, <1>3, <1>4, <1>6, <2>1, UnlinkInv
<1>. HIDE DEF q1
<1>8. /\ q1 \in Queues /\ q1.state = "Initialized" /\ q1.files = LatestIndex.files \ future /\ q1.meta = LatestIndex.meta
      /\ q1.changes = FALSE /\ ~q1.shuttingDown
  BY <1>1, <1>3, <1>5, <1>7 DEF Becomes
<1>9. /\ QueueInv(q2, << >>, lsn) /\ Becomes(q1, q2, q1.files, q1.meta) /\ q2.changes = q1.changes
      /\ \A o : Doomed(q2.queued, << >>, o) => Doomed(q1.queued, << >>, o) \/ o \in future
  <2>1. q2 = ScheduleDeletionOfUnlinked0(q1, future) /\ future \cap q1.files = {} /\ Known(future)
    BY <1>3, <1>4, <1>5, <1>8 DEF Known
  <2>. HIDE DEF q2
  <2>. QED  BY <1>0, <1>4, <1>7, <1>8, <2>1, DeleteInvOf
<1>. HIDE DEF q2
<1>10. /\ q2 \in Queues /\ q2.state = "Initialized" /\ q2.files = LatestIndex.files \ future /\ q2.meta = LatestIndex.meta
       /\ q2.changes = FALSE /\ ~q2.shuttingDown
  BY <1>8, <1>9 DEF Becomes
<1>11. q = ScheduleBarrier0(q2, FALSE)
  BY <1>2, <1>10 DEF LoadedQueue, ScheduleIndexUploadForFileChanges, q0
<1>12. /\ QueueInv(q, << >>, lsn) /\ Becomes(q2, q, q2.files, q2.meta) /\ q.changes = q2.changes
       /\ \A o : Doomed(q.queued, << >>, o) => Doomed(q2.queued, << >>, o)
       /\ q.queued = Append(q2.queued, BarrierOp(FALSE))
  BY <1>0, <1>9, <1>10, <1>11, BarrierInv
<1>13. ASSUME NEW o, Doomed(q.queued, << >>, o) PROVE ~Legacy /\ o \in LatestIndex.files
  <2>1. ~Legacy
    <3>1. q2.queued \in Seq(Ops) /\ BarrierOp(FALSE) \in Ops /\ BarrierOp(FALSE).type = "barrier"
      BY <1>10, QueueType, OpTypes
    <3>. QED  BY <1>0, <1>12, <1>13, <3>1, BarrierSaves
  <2>2. ~Doomed(q0.queued, << >>, o)
    <3>1. Len(q0.queued) = 0 /\ 1 .. Len(q0.queued) = {}
      BY <1>1, EmptyTasks
    <3>2. RunningOn(<< >>, "delete", o) = {}
      BY EmptyTasks
    <3>. QED  BY <3>1, <3>2 DEF Doomed
  <2>. QED  BY <1>7, <1>9, <1>12, <1>13, <2>1, <2>2
<1>. QED  BY <1>10, <1>12, <1>13 DEF Becomes

LEMMA LoadTimelineInv ==
  ASSUME IInv, TypeInv', LoadTimeline
  PROVE  IInv'
<1>. DEFINE future == {o \in LatestIndex.files : IsInFuture(o, LatestIndex.meta.lsn)}
            q == LoadedQueue(LatestIndex, future)
<1>0. /\ ClientInv /\ DrainInv /\ DurableInv /\ DeleteInv /\ GenInv /\ StorageType /\ FlowType
      /\ uq.state = "Uninitialized" /\ HasIndex /\ ~LatestIndex.deleted /\ waitLsn \in Lsns
      /\ LatestIndex.files \subseteq Objects /\ LatestIndex.meta.lsn \in Nat /\ advertised \in Nat
  <2>1. /\ ClientInv /\ DrainInv /\ DurableInv /\ DeleteInv /\ GenInv /\ StorageType /\ FlowType
        /\ uq.state = "Uninitialized" /\ HasIndex /\ ~LatestIndex.deleted
    BY DEF IInv, TypeInv, LoadTimeline
  <2>. QED  BY <2>1, LatestFields, Bounds DEF FlowType
<1>u. UNCHANGED <<pendingLsn, storageVars, compaction, collecting, dropping, flowVars, gen, waitLsn>>
  BY DEF LoadTimeline
<1>v. /\ UNCHANGED <<storageVars, gen, deletion, deletedAt, deleteAcked>> /\ waitLsn' = waitLsn /\ tenant' = tenant
      /\ dropping' = dropping /\ compaction' = compaction /\ deletions' = deletions /\ pendingLsn' = pendingLsn
      /\ KeyGen' = KeyGen
  BY <1>u, KeyGenSame DEF flowVars, storageVars
<1>1. /\ LaunchQueuedTasks(q, << >>) /\ visible' = LatestIndex.meta.lsn
      /\ advertised' = IF visible' > advertised THEN visible' ELSE advertised
      /\ diskLsn' = LatestIndex.meta.lsn /\ layerMap' = LatestIndex.files \ future
  BY DEF LoadTimeline
<1>2. \A f \in LatestIndex.files : \A o \in future : o.name = f.name => f \in future
  BY DEF IsInFuture
<1>3. \A f \in LatestIndex.files \ future : ~(f.name.hi > LatestIndex.meta.lsn)
  BY DEF IsInFuture
<1>4. future \in SUBSET LatestIndex.files
  OBVIOUS
<1>. HIDE DEF future
<1>5. /\ QueueInv(q, << >>, waitLsn) /\ Becomes(q, q, LatestIndex.files \ future, LatestIndex.meta)
      /\ q.state = "Initialized" /\ ~q.shuttingDown /\ q.changes = FALSE
      /\ \A o : Doomed(q.queued, << >>, o) => ~Legacy /\ o \in LatestIndex.files
  BY <1>0, <1>2, <1>4, LoadedQueueInv
<1>. HIDE DEF q
<1>6. q \in Queues /\ q.files = LatestIndex.files \ future /\ q.meta = LatestIndex.meta /\ q.changes = FALSE
  BY <1>5 DEF Becomes
<1>7. WellFormed(q.files) /\ Known(q.files) /\ (~Legacy => \A o \in LatestIndex.files : o.gen < gen)
  <2>1. /\ Known(LatestIndex.files) /\ WellFormed(LatestIndex.files)
        /\ ~Legacy => \A o \in LatestIndex.files : o.gen < gen
    BY <1>0, LatestKnown
  <2>. QED  BY <1>6, <2>1 DEF WellFormed, Known
<1>8. ~shutdownReady /\ compaction.step = "none" /\ dropping = {}
  BY <1>0 DEF ClientInv, DrainInv
<1>9. /\ advertised' <= LatestIndex.meta.lsn
      /\ \A l \in pendingLsn' : l <= LatestIndex.meta.lsn
      /\ waiter = "done" => waitLsn' <= LatestIndex.meta.lsn
  <2>1. advertised <= LatestIndex.meta.lsn
    BY <1>0 DEF DurableInv
  <2>. QED  BY <1>0, <1>1, <1>v, <2>1 DEF DurableInv
<1>10. << >> \in Seq(Tasks) /\ 1 .. Len(<< >>) = {} /\ ("tenant" \notin Activities => tenant' = "up")
  BY <1>0, <1>v, EmptySeq, EmptyTasks DEF DeleteInv
<1>11. /\ ClientInv' /\ DrainInv' /\ DurableInv' /\ DeleteInv' /\ GenInv'
       /\ \A o : Doomed(uq'.queued, tasks', o) => Doomed(q.queued, << >>, o)
       /\ uq'.state = "Initialized" /\ uq'.files = q.files /\ uq'.meta = q.meta
  <2>1. uq.state # "Stopped" /\ QueueInv(q, << >>, waitLsn') /\ ~q.shuttingDown
    BY <1>0, <1>5, <1>v
  <2>2. "tenant" \notin Activities => tenant' = "up" /\ \A k \in 1 .. Len(<< >>) : << >>[k].joiner # "tenant"
    BY <1>10
  <2>. QED  BY <1>1, <1>5, <1>6, <1>7, <1>8, <1>9, <1>10, <1>v, <2>1, <2>2, LaunchStep
<1>12. MapInv'
  <2>1. NewImages' = {}
    BY <1>8, <1>v DEF NewImages
  <2>2. \A o \in layerMap' : ~(o.name.hi > diskLsn') /\ o.name.hi \in Nat
    BY <1>0, <1>1, <1>3, ObjectFields
  <2>3. \A o \in layerMap' : o.name.hi <= diskLsn'
    BY <1>0, <1>1, <2>2
  <2>. QED  BY <1>1, <1>6, <1>7, <1>8, <1>11, <1>v, <2>1, <2>3 DEF MapInv, Known
<1>13. CompactionInv'
  BY <1>8, <1>v DEF CompactionInv
<1>14. Fresh'
  <2>1. ASSUME NEW o \in Objects, Spent(o)' PROVE o.gen # KeyGen'
    <3>1. o \in deletions \/ Doomed(q.queued, << >>, o)
      BY <1>8, <1>11, <1>v, <2>1 DEF Spent
    <3>2. ~Legacy /\ o.gen < gen
      BY <1>0, <1>5, <1>7, <3>1 DEF GenInv
    <3>3. o.gen \in Nat
      BY ObjectFields
    <3>4. gen \in Nat
      BY <1>0, Bounds DEF FlowType
    <3>. QED  BY <1>v, <3>2, <3>3, <3>4 DEF KeyGen
  <2>. QED  BY <2>1 DEF Fresh
<1>. QED  BY <1>11, <1>12, <1>13, <1>14 DEF IInv, TimelineInv
-----------------------------------------------------------------------------
(***************************************************************************)
(* The timeline's own tasks.                                               *)
(***************************************************************************)
LEMMA UploadInv ==
  ASSUME NEW q \in Queues, NEW ts \in Seq(Tasks), NEW lsn \in Lsns, StorageType,
         Scheduling(q, ts, lsn), ~q.shuttingDown,
         NEW o \in Objects, o \notin deletions, ~Doomed(q.queued, ts, o), o.gen <= KeyGen,
         \A f \in q.files : f.name # o.name, NEW r, r = ScheduleLayerFileUpload0(q, o)
  PROVE  /\ Scheduling(r, ts, lsn) /\ r \in Queues /\ r.state = q.state /\ r.files = q.files \cup {o}
         /\ r.meta = q.meta /\ r.changes = TRUE /\ r.shuttingDown = q.shuttingDown
         /\ \A x : Doomed(r.queued, ts, x) => Doomed(q.queued, ts, x)
<1>1. Fields(r, q.state, {f \in q.files : f.name # o.name} \cup {o}, TRUE, q.meta,
             Append(q.queued, LayerOp(o)), q.shuttingDown)
  BY LayerUploadFields
<1>2. {f \in q.files : f.name # o.name} \cup {o} = q.files \cup {o}
  OBVIOUS
<1>3. /\ r \in Queues /\ r.state = q.state /\ r.files = q.files \cup {o} /\ r.meta = q.meta
      /\ r.changes = TRUE /\ r.shuttingDown = q.shuttingDown /\ r.queued = Append(q.queued, LayerOp(o))
  BY <1>1, <1>2 DEF Fields
<1>4. q.queued \in Seq(Ops) /\ LayerOp(o) \in Ops /\ LayerOp(o).type = "layer"
  BY QueueType, OpTypes
<1>5. \A x : Doomed(r.queued, ts, x) => Doomed(q.queued, ts, x)
  BY <1>3, <1>4, AppendDoomed
<1>6. Scheduling(r, ts, lsn)
  BY ScheduleLayer
<1>. QED  BY <1>3, <1>5, <1>6

\* What is known when a schedule function is called.
LEMMA UsableIs ==
  ASSUME IInv, Usable(uq)
  PROVE  /\ uq \in Queues /\ tasks \in Seq(Tasks) /\ waitLsn \in Lsns /\ StorageType /\ TimelineType /\ FlowType
         /\ uq.state = "Initialized" /\ ~uq.shuttingDown /\ (uq.changes => compaction.step = "uploaded") /\ ~shutdownReady
         /\ QueueInv(uq, tasks, waitLsn) /\ Scheduling(uq, tasks, waitLsn) /\ Desired(uq, tasks) /\ ~LatestIndex.deleted
         /\ MapInv /\ CompactionInv /\ Fresh
BY NotDrained DEF IInv, TypeInv, ClientType, FlowType, Usable, ClientInv, TimelineInv, QueueInv, Scheduling

LEMMA ScheduleStep ==
  ASSUME IInv, TypeInv', NEW q, Schedule(q), NEW files, NEW meta, Becomes(uq, q, files, meta),
         QueueInv(q, tasks, waitLsn'), WellFormed(files), Known(files), waiter = "done" => waitLsn' = waitLsn,
         q.changes => compaction'.step = "uploaded", UNCHANGED <<lsnVars, storageVars, flowVars, gen>>
  PROVE  /\ ClientInv' /\ DrainInv' /\ DurableInv' /\ DeleteInv' /\ GenInv'
         /\ \A o : Doomed(uq'.queued, tasks', o) => Doomed(q.queued, tasks, o)
         /\ uq'.state = "Initialized" /\ uq'.files = files /\ uq'.meta = meta
<1>1. Usable(uq) /\ LaunchQueuedTasks(q, tasks)
  BY DEF Schedule
<1>2. /\ tasks \in Seq(Tasks) /\ uq.state = "Initialized" /\ ~uq.shuttingDown /\ ~shutdownReady /\ ~LatestIndex.deleted
  BY <1>1, UsableIs
<1>3. /\ q \in Queues /\ q.state = "Initialized" /\ q.files = files /\ q.meta = meta /\ ~q.shuttingDown
  BY <1>2 DEF Becomes
<1>4. DurableInv /\ DeleteInv
  BY DEF IInv
<1>u. /\ UNCHANGED <<storageVars, gen, deletion, deletedAt, deleteAcked>> /\ tenant' = tenant
      /\ advertised' = advertised /\ pendingLsn' = pendingLsn
  BY DEF flowVars, lsnVars
<1>5. /\ advertised' <= LatestIndex.meta.lsn /\ \A l \in pendingLsn' : l <= LatestIndex.meta.lsn
      /\ waiter = "done" => waitLsn' <= LatestIndex.meta.lsn
  BY <1>2, <1>4, <1>u DEF DurableInv
<1>6. "tenant" \notin Activities => tenant' = "up" /\ \A k \in 1 .. Len(tasks) : tasks[k].joiner # "tenant"
  BY <1>4, <1>u DEF DeleteInv, TaskIds
<1>7. uq.state # "Stopped" /\ WellFormed(q.files) /\ Known(q.files)
  BY <1>2, <1>3
<1>8. /\ ClientInv' /\ DrainInv' /\ DurableInv' /\ DeleteInv' /\ GenInv'
      /\ \A o : Doomed(uq'.queued, tasks', o) => Doomed(q.queued, tasks, o)
      /\ uq'.state = "Initialized" /\ uq'.files = q.files /\ uq'.meta = q.meta
  BY <1>1, <1>2, <1>3, <1>5, <1>6, <1>7, <1>u, LaunchStep
<1>. QED  BY <1>3, <1>8

LEMMA WaitCompletionInv ==
  ASSUME IInv, TypeInv', WaitCompletion
  PROVE  IInv'
<1>. DEFINE q == ScheduleBarrier0(uq, TRUE)
<1>1. waiter = "none" /\ ~Waiting /\ Schedule(q) /\ waitLsn' = uq.meta.lsn /\ Usable(uq)
  BY DEF WaitCompletion, Schedule
<1>u. UNCHANGED <<lsnVars, storageVars, timelineVars, flowVars, gen>>
  BY DEF WaitCompletion
<1>2. /\ uq \in Queues /\ tasks \in Seq(Tasks) /\ StorageType /\ ~uq.shuttingDown /\ (uq.changes => compaction.step = "uploaded")
      /\ uq.state = "Initialized" /\ QueueInv(uq, tasks, waitLsn) /\ uq.meta.lsn \in Lsns /\ uq.queued \in Seq(Ops)
  BY <1>1, UsableIs, QueueType
<1>3. QueueInv(uq, tasks, uq.meta.lsn)
  <2>1. \A j \in 1 .. Len(uq.queued) : ~uq.queued[j].waited
    BY <1>1, <1>2, LenProperties DEF Waiting
  <2>2. Scheduling(uq, tasks, waitLsn) /\ Desired(uq, tasks)
    BY <1>2 DEF QueueInv
  <2>3. Waits(uq, tasks, uq.meta.lsn)
    BY <2>1, <2>2 DEF Scheduling, Waits
  <2>. QED  BY <2>2, <2>3 DEF QueueInv, Scheduling
<1>4. /\ QueueInv(q, tasks, uq.meta.lsn) /\ Becomes(uq, q, uq.files, uq.meta) /\ q.changes = uq.changes
      /\ \A o : Doomed(q.queued, tasks, o) => Doomed(uq.queued, tasks, o)
  BY <1>2, <1>3, BarrierInv
<1>. HIDE DEF q
<1>5. WellFormed(uq.files) /\ Known(uq.files)
  BY DEF IInv, ClientInv
<1>6. /\ ClientInv' /\ DrainInv' /\ DurableInv' /\ DeleteInv' /\ GenInv'
      /\ \A o : Doomed(uq'.queued, tasks', o) => Doomed(q.queued, tasks, o)
      /\ uq'.state = "Initialized" /\ uq'.files = uq.files /\ uq'.meta = uq.meta
  <2>1. QueueInv(q, tasks, waitLsn') /\ waiter # "done" /\ (q.changes => compaction'.step = "uploaded")
    BY <1>1, <1>2, <1>4, <1>u DEF timelineVars
  <2>. QED  BY <1>1, <1>4, <1>5, <1>u, <2>1, ScheduleStep
<1>7. \A o \in Objects : Spent(o)' => Spent(o)
  BY <1>4, <1>6, <1>u DEF Spent, timelineVars, storageVars
<1>8. TimelineInv'
  BY <1>2, <1>6, <1>7, <1>u, TimelineFrame
<1>. QED  BY <1>6, <1>8 DEF IInv

LEMMA DropLayerInv ==
  ASSUME IInv, TypeInv', NEW o \in dropping, DropLayer(o)
  PROVE  IInv'
<1>. DEFINE q == ScheduleDeletionOfUnlinked0(uq, {o})
<1>1. Schedule(q) /\ Usable(uq) /\ dropping' = dropping \ {o}
  BY DEF DropLayer, Schedule
<1>u. UNCHANGED <<lsnVars, storageVars, lastLsn, diskLsn, gcCutoff, layerMap, compaction, collecting, flowVars, gen, waitLsn>>
  BY DEF DropLayer
<1>2. /\ uq \in Queues /\ tasks \in Seq(Tasks) /\ StorageType /\ ~uq.shuttingDown /\ waitLsn \in Lsns /\ (uq.changes => compaction.step = "uploaded")
      /\ uq.state = "Initialized" /\ QueueInv(uq, tasks, waitLsn) /\ MapInv /\ CompactionInv /\ Fresh
      /\ o \in Objects /\ layerMap \subseteq Objects
  BY <1>1, UsableIs DEF TimelineType
<1>3. {o} \in SUBSET Objects /\ {o} \cap uq.files = {} /\ Known({o})
  BY <1>2 DEF MapInv, Known
<1>4. /\ QueueInv(q, tasks, waitLsn) /\ Becomes(uq, q, uq.files, uq.meta) /\ q.changes = uq.changes
      /\ \A x : Doomed(q.queued, tasks, x) => Doomed(uq.queued, tasks, x) \/ x \in {o}
  BY <1>2, <1>3, DeleteInvOf
<1>. HIDE DEF q
<1>5. WellFormed(uq.files) /\ Known(uq.files)
  BY DEF IInv, ClientInv
<1>6. /\ ClientInv' /\ DrainInv' /\ DurableInv' /\ DeleteInv' /\ GenInv'
      /\ \A x : Doomed(uq'.queued, tasks', x) => Doomed(q.queued, tasks, x)
      /\ uq'.state = "Initialized" /\ uq'.files = uq.files /\ uq'.meta = uq.meta
  <2>1. QueueInv(q, tasks, waitLsn') /\ waitLsn' = waitLsn /\ (q.changes => compaction'.step = "uploaded")
    BY <1>2, <1>4, <1>u
  <2>2. UNCHANGED <<lsnVars, storageVars, flowVars, gen>>
    BY <1>u
  <2>. QED  BY <1>1, <1>4, <1>5, <2>1, <2>2, ScheduleStep
<1>7. \A x \in Objects : Spent(x)' => Spent(x)
  BY <1>1, <1>4, <1>6, <1>u DEF Spent, storageVars
<1>8. KeyGen' = KeyGen /\ layerMap' = layerMap /\ compaction' = compaction /\ diskLsn' = diskLsn
  BY <1>u, KeyGenSame
<1>9. MapInv'
  BY <1>1, <1>2, <1>6, <1>8 DEF MapInv, Known, NewImages
<1>10. CompactionInv'
  BY <1>2, <1>7, <1>8 DEF CompactionInv
<1>11. Fresh'
  BY <1>2, <1>7, <1>8 DEF Fresh
<1>. QED  BY <1>6, <1>9, <1>10, <1>11 DEF IInv, TimelineInv
-----------------------------------------------------------------------------
(***************************************************************************)
(* ... new layers.                                                         *)
(***************************************************************************)
LEMMA NewObject ==
  ASSUME FlowType, NEW kind \in Kinds, NEW lo \in Lsns, NEW hi \in Lsns,
         NEW o, o = Object(LayerName(kind, lo, hi))
  PROVE  /\ o \in Objects /\ o.name = LayerName(kind, lo, hi) /\ o.gen = KeyGen /\ o.gen \in Nat /\ o.gen <= KeyGen
         /\ o.name.kind = kind /\ o.name.lo = lo /\ o.name.hi = hi
<1>1. o \in Objects
  BY ObjectType DEF FlowType
<1>2. o.name = LayerName(kind, lo, hi) /\ o.gen = KeyGen
  BY DEF Object
<1>3. o.gen \in Nat
  BY <1>1, ObjectFields
<1>4. o.gen <= KeyGen
  BY <1>2, <1>3
<1>5. o.name.kind = kind /\ o.name.lo = lo /\ o.name.hi = hi
  BY <1>2 DEF LayerName
<1>. QED  BY <1>1, <1>2, <1>3, <1>4, <1>5

\* A layer that has a name of its own and is on the right side of the
\* others fits in.
LEMMA AddLayer ==
  ASSUME NEW S \in SUBSET Objects, WellFormed(S), NEW o \in Objects,
         \A p \in S : p.name # o.name,
         o.name.kind # "image" => o.name.lo <= o.name.hi,
         o.name.kind = "image" => o.name.lo = o.name.hi,
         o.name.kind = "L0" => \A p \in S : p.name.kind # "image" => p.name.hi < o.name.lo,
         o.name.kind = "L1" => \A p \in S : p.name.kind = "L0" => o.name.hi < p.name.lo
  PROVE  WellFormed(S \cup {o})
<1>. SUFFICES ASSUME NEW x \in S \cup {o}, NEW y \in S \cup {o}
              PROVE  /\ x.name = y.name => x = y
                     /\ x.name.kind = "L0" /\ y.name.kind = "L0" /\ x # y =>
                           x.name.hi < y.name.lo \/ y.name.hi < x.name.lo
                     /\ x.name.kind = "L0" /\ y.name.kind = "L1" => y.name.hi < x.name.lo
                     /\ x.name.kind # "image" => x.name.lo <= x.name.hi
                     /\ x.name.kind = "image" => x.name.lo = x.name.hi
  BY DEF WellFormed
<1>1. CASE x \in S /\ y \in S
  BY <1>1 DEF WellFormed
<1>2. CASE x = o /\ y \in S
  BY <1>2 DEF WellFormed
<1>3. CASE x \in S /\ y = o
  BY <1>3 DEF WellFormed
<1>4. CASE x = o /\ y = o
  BY <1>4
<1>. QED  BY <1>1, <1>2, <1>3, <1>4

LEMMA MapTypes ==
  ASSUME IInv, NEW o \in layerMap
  PROVE  o \in Objects /\ o.name.lo \in Nat /\ o.name.hi \in Nat /\ o.gen \in Nat /\ o.name.kind \in Kinds
<1>1. o \in Objects
  BY DEF IInv, TypeInv, TimelineType
<1>. QED  BY <1>1, ObjectFields

LEMMA UploadHere ==
  ASSUME IInv, Usable(uq), NEW o \in Objects, ~Spent(o), o.gen <= KeyGen, \A f \in uq.files : f.name # o.name,
         NEW r, r = ScheduleLayerFileUpload0(uq, o)
  PROVE  /\ Scheduling(r, tasks, waitLsn) /\ r \in Queues /\ r.state = uq.state /\ r.files = uq.files \cup {o}
         /\ r.meta = uq.meta /\ r.changes = TRUE /\ r.shuttingDown = uq.shuttingDown
         /\ \A x : Doomed(r.queued, tasks, x) => Doomed(uq.queued, tasks, x)
<1>1. /\ uq \in Queues /\ tasks \in Seq(Tasks) /\ waitLsn \in Lsns /\ StorageType /\ Scheduling(uq, tasks, waitLsn)
      /\ ~uq.shuttingDown
  BY UsableIs
<1>2. o \notin deletions /\ ~Doomed(uq.queued, tasks, o)
  BY DEF Spent
<1>. DEFINE u == ScheduleLayerFileUpload0(uq, o)
<1>3. /\ Scheduling(u, tasks, waitLsn) /\ u \in Queues /\ u.state = uq.state /\ u.files = uq.files \cup {o}
      /\ u.meta = uq.meta /\ u.changes = TRUE /\ u.shuttingDown = uq.shuttingDown
      /\ \A x : Doomed(u.queued, tasks, x) => Doomed(uq.queued, tasks, x)
  BY <1>1, <1>2, UploadInv
<1>. QED  BY <1>3

LEMMA FlushFrozenLayerInv ==
  ASSUME IInv, TypeInv', NEW lsn \in 1 .. lastLsn, FlushFrozenLayer(lsn)
  PROVE  IInv'
<1>o. PICK o : o = Object(LayerName("L0", diskLsn + 1, lsn))
  OBVIOUS
<1>. DEFINE m == Meta(lsn, gcCutoff)
            q1 == ScheduleLayerFileUpload0(uq, o)
            q2 == [q1 EXCEPT !.meta = m]
            q == ScheduleIndexUpload(q2)
<1>1. /\ diskLsn < lsn /\ layerMap' = layerMap \cup {o} /\ Schedule(q) /\ diskLsn' = lsn /\ Usable(uq)
  BY <1>o DEF FlushFrozenLayer, Schedule, ScheduleIndexUploadForMetadataUpdate
<1>u. UNCHANGED <<lsnVars, storageVars, lastLsn, gcCutoff, compaction, collecting, dropping, flowVars, gen, waitLsn>>
  BY DEF FlushFrozenLayer
<1>2. /\ uq \in Queues /\ tasks \in Seq(Tasks) /\ StorageType /\ FlowType /\ ~uq.shuttingDown /\ waitLsn \in Lsns
      /\ uq.state = "Initialized" /\ Scheduling(uq, tasks, waitLsn) /\ MapInv /\ CompactionInv /\ Fresh
  BY <1>1, UsableIs
<1>3. /\ layerMap \subseteq Objects /\ diskLsn \in Lsns /\ lsn \in Lsns /\ diskLsn + 1 \in Lsns /\ gcCutoff \in Lsns
      /\ diskLsn \in Nat /\ lsn \in Nat /\ diskLsn + 1 <= lsn
  <2>1. layerMap \subseteq Objects /\ diskLsn \in Lsns /\ lastLsn \in Lsns /\ gcCutoff \in Lsns
    BY <1>1, UsableIs DEF TimelineType
  <2>2. diskLsn \in Nat /\ lastLsn \in Nat /\ lastLsn <= MaxLsn /\ lsn \in Nat /\ MaxLsn \in Nat
    BY <2>1, Bounds
  <2>3. lsn <= MaxLsn /\ diskLsn + 1 <= lsn /\ diskLsn + 1 <= MaxLsn
    BY <1>1, <2>2
  <2>. QED  BY <2>1, <2>2, <2>3, Bounds
<1>4. m \in Metas /\ m.lsn = lsn
  BY <1>3, MetaType
<1>5. /\ o \in Objects /\ o.gen = KeyGen /\ o.gen <= KeyGen
      /\ o.name.kind = "L0" /\ o.name.lo = diskLsn + 1 /\ o.name.hi = lsn
  BY <1>2, <1>3, <1>o, NewObject DEF Kinds
<1>. HIDE DEF m
<1>6. \A p \in layerMap : p.name.kind # "image" => p.name.hi <= diskLsn /\ p.name.hi < o.name.lo /\ p.name.hi # o.name.hi
  <2>1. \A p \in layerMap : p.name.hi \in Nat
    BY MapTypes
  <2>. QED  BY <1>1, <1>2, <1>3, <1>5, <2>1 DEF MapInv
<1>7. \A p \in layerMap : p.name # o.name
  BY <1>5, <1>6
<1>8. ~Spent(o)
  BY <1>1, <1>2, <1>3, <1>5 DEF Fresh
<1>9. o \notin deletions /\ o \notin dropping /\ ~Doomed(uq.queued, tasks, o)
  BY <1>8 DEF Spent
<1>10. uq.files \subseteq layerMap /\ uq.files \subseteq Objects /\ WellFormed(uq.files) /\ Known(uq.files)
  BY <1>2, <1>3 DEF MapInv, IInv, ClientInv
<1>11. /\ Scheduling(q1, tasks, waitLsn) /\ q1 \in Queues /\ q1.state = uq.state /\ q1.files = uq.files \cup {o}
       /\ q1.meta = uq.meta /\ q1.changes = TRUE /\ q1.shuttingDown = uq.shuttingDown
       /\ \A x : Doomed(q1.queued, tasks, x) => Doomed(uq.queued, tasks, x)
  <2>1. \A f \in uq.files : f.name # o.name
    BY <1>7, <1>10
  <2>. QED  BY <1>1, <1>5, <1>8, <2>1, UploadHere
<1>. HIDE DEF q1
<1>12. Fields(q2, q1.state, q1.files, q1.changes, m, q1.queued, q1.shuttingDown)
  BY <1>4, <1>11, MetaFields
<1>. HIDE DEF q2
<1>13. /\ q2 \in Queues /\ q2.state = "Initialized" /\ q2.files = uq.files \cup {o} /\ q2.meta = m /\ q2.queued = q1.queued
       /\ ~q2.shuttingDown /\ q2.shuttingDown = uq.shuttingDown
  BY <1>2, <1>11, <1>12 DEF Fields
<1>14. Scheduling(q2, tasks, waitLsn)
  <2>1. q1.meta.lsn <= q2.meta.lsn
    BY <1>1, <1>2, <1>3, <1>4, <1>11, <1>13 DEF MapInv
  <2>2. q2.files \subseteq q1.files /\ q2.shuttingDown = q1.shuttingDown
    BY <1>11, <1>13
  <2>. QED  BY <1>2, <1>11, <1>13, <2>1, <2>2, ScheduleFields
<1>15. WellFormed(uq.files \cup {o}) /\ WellFormed(layerMap \cup {o}) /\ Known(uq.files \cup {o}) /\ Known(layerMap \cup {o})
  <2>1. WellFormed(layerMap) /\ Known(layerMap)
    BY <1>2 DEF MapInv
  <2>2. o.name.lo <= o.name.hi
    BY <1>3, <1>5
  <2>3. WellFormed(layerMap \cup {o})
    BY <1>3, <1>5, <1>6, <1>7, <2>1, <2>2, AddLayer
  <2>4. WellFormed(uq.files \cup {o})
    BY <1>5, <1>6, <1>7, <1>10, <2>2, AddLayer
  <2>. QED  BY <1>5, <1>10, <2>1, <2>3, <2>4 DEF Known
<1>16. /\ QueueInv(q, tasks, waitLsn) /\ Becomes(q2, q, q2.files, q2.meta) /\ q.changes = FALSE
       /\ \A x : Doomed(q.queued, tasks, x) => Doomed(q2.queued, tasks, x)
  BY <1>2, <1>13, <1>14, <1>15, IndexInv
<1>. HIDE DEF q
<1>17. /\ ClientInv' /\ DrainInv' /\ DurableInv' /\ DeleteInv' /\ GenInv'
       /\ \A x : Doomed(uq'.queued, tasks', x) => Doomed(q.queued, tasks, x)
       /\ uq'.state = "Initialized" /\ uq'.files = uq.files \cup {o} /\ uq'.meta = m
  <2>1. QueueInv(q, tasks, waitLsn') /\ waitLsn' = waitLsn /\ Becomes(uq, q, uq.files \cup {o}, m)
    BY <1>2, <1>13, <1>16, <1>u DEF Becomes
  <2>2. UNCHANGED <<lsnVars, storageVars, flowVars, gen>>
    BY <1>u
  <2>. QED  BY <1>1, <1>15, <1>16, <2>1, <2>2, ScheduleStep
<1>18. \A x \in Objects : Spent(x)' => Spent(x)
  BY <1>11, <1>13, <1>16, <1>17, <1>u DEF Spent, storageVars
<1>v. KeyGen' = KeyGen /\ layerMap' = layerMap \cup {o} /\ compaction' = compaction /\ diskLsn' = lsn /\ dropping' = dropping
  BY <1>1, <1>u, KeyGenSame
<1>19. MapInv'
  <2>1. o \notin NewImages /\ NewImages' = NewImages
    BY <1>2, <1>5, <1>v DEF CompactionInv, NewImages
  <2>2. uq'.files = layerMap' \ NewImages'
    BY <1>2, <1>17, <1>v, <2>1 DEF MapInv
  <2>3. \A p \in layerMap' : p.name.kind # "image" => p.name.hi <= diskLsn'
    <3>1. \A p \in layerMap : p.name.hi \in Nat
      BY MapTypes
    <3>. QED  BY <1>1, <1>3, <1>5, <1>6, <1>v, <3>1
  <2>4. dropping' \cap layerMap' = {} /\ Known(dropping)' /\ Known(layerMap)'
    BY <1>2, <1>9, <1>15, <1>v DEF MapInv, Known
  <2>. QED  BY <1>4, <1>15, <1>17, <1>v, <2>2, <2>3, <2>4 DEF MapInv
<1>20. CompactionInv'
  <2>1. ASSUME compaction.step = "images"
        PROVE  (\E x \in layerMap : /\ compaction.layers = {x} /\ x.name.kind = "image"
                                    /\ \A p \in layerMap : p.name.kind = "image" => p.name.hi <= x.name.hi
                                    /\ ~Spent(x))'
    <3>1. PICK x \in layerMap : /\ compaction.layers = {x} /\ x.name.kind = "image"
                                /\ \A p \in layerMap : p.name.kind = "image" => p.name.hi <= x.name.hi
                                /\ ~Spent(x)
      BY <1>2, <2>1 DEF CompactionInv
    <3>2. ~Spent(x)'
      BY <1>3, <1>18, <3>1
    <3>. QED  BY <1>5, <1>v, <3>1, <3>2
  <2>2. ASSUME compaction.step = "L0"
        PROVE  (/\ compaction.layers \subseteq layerMap
                /\ \A x \in compaction.layers : x.name.kind = "L0"
                /\ \A x \in compaction.layers : \A p \in layerMap \ compaction.layers :
                      p.name.kind = "L0" => x.name.hi < p.name.lo)'
    <3>1. /\ compaction.layers \subseteq layerMap
          /\ \A x \in compaction.layers : x.name.kind = "L0"
          /\ \A x \in compaction.layers : \A p \in layerMap \ compaction.layers :
                p.name.kind = "L0" => x.name.hi < p.name.lo
      BY <1>2, <2>2 DEF CompactionInv
    <3>2. \A x \in compaction.layers : x.name.hi < o.name.lo
      BY <1>6, <3>1
    <3>. QED  BY <1>v, <3>1, <3>2
  <2>. QED  BY <1>v, <2>1, <2>2 DEF CompactionInv
<1>21. Fresh'
  <2>1. ASSUME NEW x \in Objects, Spent(x)', x.gen = KeyGen'
        PROVE  /\ x.name.kind # "image" => x.name.hi <= diskLsn'
               /\ x.name.kind = "L1" => \A p \in layerMap' : p.name.kind = "L0" => x.name.hi < p.name.lo
               /\ x.name.kind = "image" => \E p \in layerMap' : p.name.kind = "image" /\ x.name.hi <= p.name.hi
    <3>1. /\ x.name.kind # "image" => x.name.hi <= diskLsn
          /\ x.name.kind = "L1" => \A p \in layerMap : p.name.kind = "L0" => x.name.hi < p.name.lo
          /\ x.name.kind = "image" => \E p \in layerMap : p.name.kind = "image" /\ x.name.hi <= p.name.hi
      BY <1>2, <1>18, <1>v, <2>1 DEF Fresh
    <3>2. x.name.hi \in Nat
      BY ObjectFields
    <3>3. x.name.kind # "image" => x.name.hi <= lsn /\ x.name.hi < o.name.lo
      BY <1>1, <1>3, <1>5, <3>1, <3>2
    <3>. QED  BY <1>v, <3>1, <3>3
  <2>. QED  BY <2>1 DEF Fresh
<1>. QED  BY <1>17, <1>19, <1>20, <1>21 DEF IInv, TimelineInv
LEMMA CompactLevel0Phase1Inv ==
  ASSUME IInv, TypeInv', CompactLevel0Phase1
  PROVE  IInv'
<1>. DEFINE l0 == {o \in layerMap : o.name.kind = "L0"}
            first == CHOOSE o \in l0 : \A p \in l0 : o.name.lo <= p.name.lo
            covered(k) == \E p \in l0 : k \in p.name.lo..p.name.hi
            chain == {o \in l0 : \A k \in first.name.lo..o.name.hi : covered(k)}
<1>1. Usable(uq) /\ compaction.step = "none" /\ l0 # {} /\ compaction' = [step |-> "L0", layers |-> chain]
  BY DEF CompactLevel0Phase1
<1>u. UNCHANGED <<queueVars, lsnVars, storageVars, lastLsn, diskLsn, gcCutoff, layerMap, collecting, dropping, flowVars, gen, waitLsn>>
  BY DEF CompactLevel0Phase1
<1>v. uq' = uq /\ tasks' = tasks /\ deletions' = deletions /\ layerMap' = layerMap /\ dropping' = dropping /\ diskLsn' = diskLsn /\ KeyGen' = KeyGen
  BY <1>u, KeyGenSame DEF queueVars, storageVars
<1>2. uq.state = "Initialized" /\ MapInv /\ CompactionInv /\ Fresh
  BY <1>1, UsableIs
<1>3. first \in l0
  <2>. DEFINE T == {o.name.lo : o \in l0}
  <2>1. \A o \in l0 : o.name.lo \in Nat
    BY MapTypes
  <2>2. T \in SUBSET Nat /\ T # {}
    BY <1>1, <2>1
  <2>3. PICK n \in T : \A k \in T : ~(k < n)
    <3>. HIDE DEF T
    <3>. QED  BY <2>2, LeastNat
  <2>4. PICK o \in l0 : n = o.name.lo
    BY <2>3
  <2>5. \A p \in l0 : o.name.lo <= p.name.lo
    <3>1. \A p \in l0 : p.name.lo \in T
      OBVIOUS
    <3>. HIDE DEF T
    <3>. QED  BY <2>1, <2>3, <2>4, <3>1
  <2>6. \E x \in l0 : \A p \in l0 : x.name.lo <= p.name.lo
    BY <2>5
  <2>. QED  BY <2>6
<1>4. first.name.lo \in Nat
  BY <1>3, MapTypes
<1>. HIDE DEF first
<1>5. ASSUME NEW o \in chain, NEW p \in layerMap \ chain, p.name.kind = "L0" PROVE o.name.hi < p.name.lo
  <2>1. o \in layerMap /\ o.name.kind = "L0" /\ \A k \in first.name.lo..o.name.hi : covered(k)
    OBVIOUS
  <2>2. PICK k \in first.name.lo..p.name.hi : ~covered(k)
    BY <1>5
  <2>. HIDE DEF covered
  <2>3. o.name.hi \in Nat /\ o.name.lo \in Nat /\ p.name.hi \in Nat /\ p.name.lo \in Nat
    BY <2>1, MapTypes
  <2>4. k \notin first.name.lo..o.name.hi /\ k \in Int
    BY <1>4, <2>1, <2>2, <2>3
  <2>5. p.name.hi > o.name.hi
    BY <1>4, <2>2, <2>3, <2>4
  <2>6. o # p /\ (o.name.hi < p.name.lo \/ p.name.hi < o.name.lo) /\ o.name.lo <= o.name.hi
    BY <1>2, <1>5, <2>1 DEF MapInv, WellFormed
  <2>. QED  BY <2>3, <2>5, <2>6
<1>6. chain \subseteq l0
  OBVIOUS
<1>. HIDE DEF chain
<1>7. compaction'.step = "L0" /\ compaction'.layers = chain
  BY <1>1
<1>8. CompactionInv'
  BY <1>5, <1>6, <1>7, <1>v DEF CompactionInv
<1>9. \A x \in Objects : Spent(x)' => Spent(x)
  BY <1>v DEF Spent
<1>10. NewImages' = {} /\ NewImages = {}
  BY <1>1, <1>7 DEF NewImages
<1>11. MapInv' /\ Fresh'
  BY <1>2, <1>9, <1>10, <1>v DEF MapInv, Fresh, Known
<1>12. DeleteInv'
  BY <1>u, DeleteFrame
<1>13. TimelineInv'
  BY <1>8, <1>11 DEF TimelineInv
<1>14. compaction.step # "uploaded"
  BY <1>1
<1>. QED  BY <1>2, <1>12, <1>13, <1>14, <1>u, LsnFrame, QuietStep

LEMMA CreateImageLayersInv ==
  ASSUME IInv, TypeInv', NEW n \in 1 .. lastLsn, CreateImageLayers(n)
  PROVE  IInv'
<1>o. PICK o : o = Object(Image(n))
  OBVIOUS
<1>1. /\ Usable(uq) /\ compaction.step = "none" /\ \A p \in layerMap : p.name.kind = "image" => p.name.hi < n
      /\ layerMap' = layerMap \cup {o} /\ compaction' = [step |-> "images", layers |-> {o}]
  BY <1>o DEF CreateImageLayers
<1>u. UNCHANGED <<queueVars, lsnVars, storageVars, lastLsn, diskLsn, gcCutoff, collecting, dropping, flowVars, gen, waitLsn>>
  BY DEF CreateImageLayers
<1>v. /\ uq' = uq /\ tasks' = tasks /\ deletions' = deletions /\ dropping' = dropping /\ diskLsn' = diskLsn /\ KeyGen' = KeyGen
  BY <1>u, KeyGenSame DEF queueVars, storageVars
<1>2. uq.state = "Initialized" /\ MapInv /\ CompactionInv /\ Fresh /\ FlowType /\ layerMap \subseteq Objects
  BY <1>1, UsableIs DEF TimelineType
<1>3. n \in Lsns /\ n \in Nat
  <2>1. lastLsn \in Lsns
    BY DEF IInv, TypeInv, TimelineType
  <2>2. lastLsn \in Nat /\ lastLsn <= MaxLsn /\ MaxLsn \in Nat
    BY <2>1, Bounds
  <2>3. n \in Nat /\ n <= MaxLsn
    BY <2>2
  <2>. QED  BY <2>3, Bounds
<1>4. /\ o \in Objects /\ o.gen = KeyGen /\ o.gen <= KeyGen
      /\ o.name.kind = "image" /\ o.name.lo = n /\ o.name.hi = n
  BY <1>2, <1>3, <1>o, NewObject DEF Kinds, Image
<1>5. compaction'.step = "images" /\ compaction'.layers = {o}
  BY <1>1
<1>t. \A p \in layerMap : p.name.hi \in Nat
  BY MapTypes
<1>6. \A p \in layerMap : p.name # o.name /\ (p.name.kind = "image" => p.name.hi <= o.name.hi /\ ~(n <= p.name.hi))
  BY <1>1, <1>3, <1>4, <1>t
<1>7. ~Spent(o)
  BY <1>2, <1>4, <1>6 DEF Fresh
<1>8. \A x \in Objects : Spent(x)' <=> Spent(x)
  BY <1>v DEF Spent
<1>9. NewImages = {} /\ NewImages' = {o}
  BY <1>1, <1>5 DEF NewImages
<1>10. MapInv'
  <2>1. WellFormed(layerMap \cup {o})
    BY <1>2, <1>4, <1>6, AddLayer DEF MapInv
  <2>3. uq'.files = layerMap' \ NewImages'
    BY <1>1, <1>2, <1>6, <1>9, <1>v DEF MapInv
  <2>4. o \notin dropping
    BY <1>7 DEF Spent
  <2>5. Known(layerMap)' /\ Known(dropping)' /\ WellFormed(layerMap')
    BY <1>1, <1>2, <1>4, <1>v, <2>1 DEF MapInv, Known
  <2>6. uq'.meta.lsn = diskLsn' /\ dropping' \cap layerMap' = {}
    BY <1>1, <1>2, <1>v, <2>4 DEF MapInv
  <2>7. \A p \in layerMap' : p.name.kind # "image" => p.name.hi <= diskLsn'
    BY <1>1, <1>2, <1>4, <1>v DEF MapInv
  <2>. QED  BY <2>3, <2>5, <2>6, <2>7 DEF MapInv
<1>11. CompactionInv'
  <2>1. ~Spent(o)'
    BY <1>4, <1>7, <1>8
  <2>2. \A p \in layerMap' : p.name.kind = "image" => p.name.hi <= o.name.hi
    BY <1>1, <1>3, <1>4, <1>6
  <2>. QED  BY <1>1, <1>4, <1>5, <2>1, <2>2 DEF CompactionInv
<1>12. Fresh'
  <2>1. \A p \in layerMap' : p.name.kind = "L0" => p \in layerMap
    BY <1>1, <1>4
  <2>. QED  BY <1>1, <1>2, <1>8, <1>v, <2>1 DEF Fresh
<1>13. DeleteInv'
  BY <1>u, DeleteFrame
<1>14. TimelineInv'
  BY <1>10, <1>11, <1>12 DEF TimelineInv
<1>15. compaction.step # "uploaded"
  BY <1>1
<1>. QED  BY <1>2, <1>13, <1>14, <1>15, <1>u, LsnFrame, QuietStep

\* schedule_layer_file_upload of an image: the index is the desired one but
\* for the image.
LEMMA ScheduleImageUploadsInv ==
  ASSUME IInv, TypeInv', ScheduleImageUploads
  PROVE  IInv'
<1>1. compaction.step = "images" /\ compaction' = [step |-> "uploaded", layers |-> {}]
  BY DEF ScheduleImageUploads
<1>2. PICK o \in compaction.layers : Schedule(ScheduleLayerFileUpload0(uq, o))
  BY DEF ScheduleImageUploads
<1>. DEFINE q == ScheduleLayerFileUpload0(uq, o)
<1>u. UNCHANGED <<lsnVars, storageVars, lastLsn, diskLsn, gcCutoff, layerMap, collecting, dropping, flowVars, gen, waitLsn>>
  BY DEF ScheduleImageUploads
<1>3. /\ uq \in Queues /\ tasks \in Seq(Tasks) /\ StorageType /\ FlowType /\ ~uq.shuttingDown /\ waitLsn \in Lsns
      /\ uq.state = "Initialized" /\ Scheduling(uq, tasks, waitLsn) /\ MapInv /\ CompactionInv /\ Fresh
      /\ layerMap \subseteq Objects /\ Desired(uq, tasks) /\ (uq.changes => compaction.step = "uploaded")
  BY <1>2, UsableIs DEF Schedule, TimelineType
<1>4. /\ compaction.layers = {o} /\ o \in layerMap /\ o \in Objects /\ ~Spent(o) /\ NewImages = {o} /\ o.name.kind = "image"
      /\ ~uq.changes
  BY <1>1, <1>3 DEF CompactionInv, NewImages
<1>5. /\ uq.files = layerMap \ {o} /\ \A f \in uq.files : f.name # o.name
      /\ uq.files \cup {o} = layerMap /\ WellFormed(layerMap) /\ Known(layerMap)
  <2>1. uq.files = layerMap \ {o} /\ WellFormed(layerMap) /\ Known(layerMap)
    BY <1>3, <1>4 DEF MapInv
  <2>2. \A f \in uq.files : f.name # o.name
    BY <1>4, <2>1 DEF WellFormed
  <2>. QED  BY <1>4, <2>1, <2>2
<1>6. o \notin deletions /\ ~Doomed(uq.queued, tasks, o) /\ o.gen <= KeyGen
  BY <1>4, <1>5 DEF Spent, Known
<1>7. /\ Scheduling(q, tasks, waitLsn) /\ q \in Queues /\ q.state = uq.state /\ q.files = layerMap
      /\ q.meta = uq.meta /\ q.changes = TRUE /\ q.shuttingDown = uq.shuttingDown
      /\ \A x : Doomed(q.queued, tasks, x) => Doomed(uq.queued, tasks, x)
  <2>1. /\ Scheduling(q, tasks, waitLsn) /\ q \in Queues /\ q.state = uq.state /\ q.files = uq.files \cup {o}
        /\ q.meta = uq.meta /\ q.changes = TRUE /\ q.shuttingDown = uq.shuttingDown
        /\ \A x : Doomed(q.queued, tasks, x) => Doomed(uq.queued, tasks, x)
    BY <1>3, <1>4, <1>5, <1>6, UploadInv
  <2>. QED  BY <1>5, <2>1
<1>8. q.queued = Append(uq.queued, LayerOp(o)) /\ LayerOp(o) \in Ops /\ LayerOp(o).type = "layer"
  <2>1. Fields(q, uq.state, {f \in uq.files : f.name # o.name} \cup {o}, TRUE, uq.meta,
               Append(uq.queued, LayerOp(o)), uq.shuttingDown)
    BY <1>3, <1>4, LayerUploadFields
  <2>. HIDE DEF q
  <2>. QED  BY <1>4, <2>1, OpTypes DEF Fields
<1>. HIDE DEF q
<1>9. \A objs : Stands(objs, uq.files, uq.changes) => Stands(objs, q.files, q.changes)
  BY <1>4, <1>5, <1>7 DEF Stands
<1>10. Desired(q, tasks)
  BY <1>3, <1>7, <1>8, <1>9, DesiredAppend
<1>11. /\ ClientInv' /\ DrainInv' /\ DurableInv' /\ DeleteInv' /\ GenInv'
       /\ \A x : Doomed(uq'.queued, tasks', x) => Doomed(q.queued, tasks, x)
       /\ uq'.state = "Initialized" /\ uq'.files = layerMap /\ uq'.meta = uq.meta
  <2>1. QueueInv(q, tasks, waitLsn') /\ waitLsn' = waitLsn /\ Becomes(uq, q, layerMap, uq.meta)
    BY <1>7, <1>10, <1>u DEF Becomes, QueueInv
  <2>2. UNCHANGED <<lsnVars, storageVars, flowVars, gen>> /\ compaction'.step = "uploaded" /\ Schedule(q)
    BY <1>1, <1>2, <1>u DEF q
  <2>. QED  BY <1>5, <2>1, <2>2, ScheduleStep
<1>12. \A x \in Objects : Spent(x)' => Spent(x)
  BY <1>7, <1>11, <1>u DEF Spent, storageVars
<1>v. /\ KeyGen' = KeyGen /\ layerMap' = layerMap /\ diskLsn' = diskLsn /\ dropping' = dropping
      /\ compaction'.step = "uploaded" /\ NewImages' = {}
  BY <1>1, <1>u, KeyGenSame DEF NewImages
<1>13. MapInv'
  BY <1>3, <1>11, <1>v DEF MapInv, Known
<1>14. CompactionInv'
  BY <1>v DEF CompactionInv
<1>15. Fresh'
  BY <1>3, <1>12, <1>v DEF Fresh
<1>. QED  BY <1>11, <1>13, <1>14, <1>15 DEF IInv, TimelineInv

\* schedule_index_upload_for_file_changes afterwards, unless another index
\* upload already has the image.
LEMMA ScheduleImageIndexInv ==
  ASSUME IInv, TypeInv', ScheduleImageIndex
  PROVE  IInv'
<1>. DEFINE q == ScheduleIndexUploadForFileChanges(uq)
<1>1. compaction.step = "uploaded" /\ compaction' = NoCompaction /\ Schedule(q) /\ Usable(uq)
  BY DEF ScheduleImageIndex, Schedule
<1>u. UNCHANGED <<lsnVars, storageVars, lastLsn, diskLsn, gcCutoff, layerMap, collecting, dropping, flowVars, gen, waitLsn>>
  BY DEF ScheduleImageIndex
<1>2. /\ uq \in Queues /\ tasks \in Seq(Tasks) /\ StorageType /\ ~uq.shuttingDown /\ waitLsn \in Lsns
      /\ QueueInv(uq, tasks, waitLsn) /\ Scheduling(uq, tasks, waitLsn) /\ MapInv /\ CompactionInv /\ Fresh
  BY <1>1, UsableIs
<1>3. WellFormed(uq.files) /\ Known(uq.files)
  BY DEF IInv, ClientInv
<1>4. /\ QueueInv(q, tasks, waitLsn) /\ Becomes(uq, q, uq.files, uq.meta) /\ q.changes = FALSE
      /\ \A x : Doomed(q.queued, tasks, x) => Doomed(uq.queued, tasks, x)
  <2>1. CASE uq.changes
    <3>1. q = ScheduleIndexUpload(uq)
      BY <2>1 DEF ScheduleIndexUploadForFileChanges
    <3>. HIDE DEF q
    <3>. QED  BY <1>2, <1>3, <3>1, IndexInv
  <2>2. CASE ~uq.changes
    <3>1. q = uq /\ uq.changes = FALSE
      BY <1>2, <2>2, QueueType DEF ScheduleIndexUploadForFileChanges
    <3>. HIDE DEF q
    <3>. QED  BY <1>2, <3>1 DEF Becomes
  <2>. QED  BY <2>1, <2>2
<1>. HIDE DEF q
<1>5. /\ ClientInv' /\ DrainInv' /\ DurableInv' /\ DeleteInv' /\ GenInv'
      /\ \A x : Doomed(uq'.queued, tasks', x) => Doomed(q.queued, tasks, x)
      /\ uq'.state = "Initialized" /\ uq'.files = uq.files /\ uq'.meta = uq.meta
  <2>1. QueueInv(q, tasks, waitLsn') /\ waitLsn' = waitLsn
    BY <1>4, <1>u
  <2>2. UNCHANGED <<lsnVars, storageVars, flowVars, gen>>
    BY <1>u
  <2>. QED  BY <1>1, <1>3, <1>4, <2>1, <2>2, ScheduleStep
<1>6. \A x \in Objects : Spent(x)' => Spent(x)
  BY <1>4, <1>5, <1>u DEF Spent, storageVars
<1>v. /\ KeyGen' = KeyGen /\ layerMap' = layerMap /\ diskLsn' = diskLsn /\ dropping' = dropping
      /\ compaction'.step = "none" /\ NewImages' = {} /\ NewImages = {}
  BY <1>1, <1>u, KeyGenSame DEF NoCompaction, NewImages
<1>7. MapInv'
  BY <1>2, <1>5, <1>v DEF MapInv, Known
<1>8. CompactionInv'
  BY <1>v DEF CompactionInv
<1>9. Fresh'
  BY <1>2, <1>6, <1>v DEF Fresh
<1>. QED  BY <1>5, <1>7, <1>8, <1>9 DEF IInv, TimelineInv
-----------------------------------------------------------------------------
(***************************************************************************)
(* ... layers that are replaced and removed.                               *)
(***************************************************************************)
LEMMA FinishCompactL0Inv ==
  ASSUME IInv, TypeInv', FinishCompactL0
  PROVE  IInv'
<1>. DEFINE from == compaction.layers
<1>o. PICK to : to = Object(LayerName("L1", SpanLo(from), SpanHi(from)))
  OBVIOUS
<1>. DEFINE q1 == ScheduleLayerFileUpload0(uq, to)
            q == ScheduleUnlinking0(q1, from)
            files == (layerMap \ from) \cup {to}
<1>1. /\ compaction.step = "L0" /\ compaction' = NoCompaction /\ Schedule(q) /\ Usable(uq)
      /\ layerMap' = (layerMap \ from) \cup (IF \E p \in layerMap : p.name = to.name THEN {} ELSE {to})
      /\ dropping' = dropping \cup from
  BY <1>o, FinishCompact DEF Schedule, ScheduleCompactionUpdate
<1>u. UNCHANGED <<lsnVars, storageVars, lastLsn, diskLsn, gcCutoff, collecting, flowVars, gen, waitLsn>>
  BY DEF FinishCompactL0
<1>2. /\ uq \in Queues /\ tasks \in Seq(Tasks) /\ StorageType /\ FlowType /\ ~uq.shuttingDown /\ waitLsn \in Lsns
      /\ uq.state = "Initialized" /\ MapInv /\ CompactionInv /\ Fresh
      /\ layerMap \subseteq Objects /\ dropping \subseteq Objects /\ diskLsn \in Lsns /\ from # {}
  BY <1>1, UsableIs DEF TimelineType
<1>3. /\ from \subseteq layerMap /\ from \in SUBSET Objects /\ \A x \in from : x.name.kind = "L0"
      /\ \A x \in from : \A p \in layerMap \ from : p.name.kind = "L0" => x.name.hi < p.name.lo
      /\ uq.files = layerMap /\ WellFormed(layerMap) /\ Known(layerMap)
  BY <1>1, <1>2 DEF MapInv, CompactionInv, NewImages
<1>4. PICK x \in from : x.name.hi = SpanHi(from)
  BY <1>2, <1>3, Span
<1>5. /\ to \in Objects /\ to.gen = KeyGen /\ to.gen <= KeyGen
      /\ to.name.kind = "L1" /\ to.name.lo = SpanLo(from) /\ to.name.hi = SpanHi(from)
  <2>1. SpanLo(from) \in Lsns /\ SpanHi(from) \in Lsns
    BY <1>2, <1>3, Span
  <2>. QED  BY <1>2, <1>o, <2>1, NewObject DEF Kinds
<1>6. /\ x \in layerMap /\ x \in Objects /\ x.name.kind = "L0" /\ to.name.hi = x.name.hi
      /\ x.name.lo \in Nat /\ x.name.hi \in Nat /\ to.name.lo \in Nat
      /\ x.name.lo <= x.name.hi /\ to.name.lo <= x.name.lo /\ to.name.lo <= to.name.hi
  <2>1. x \in layerMap /\ x \in Objects /\ x.name.kind = "L0" /\ to.name.hi = x.name.hi
    BY <1>3, <1>4, <1>5
  <2>2. x.name.lo \in Nat /\ x.name.hi \in Nat /\ to.name.lo \in Nat
    BY <1>5, <2>1, ObjectFields
  <2>3. x.name.lo <= x.name.hi
    BY <1>3, <2>1 DEF WellFormed
  <2>4. to.name.lo <= x.name.lo
    BY <1>2, <1>3, <1>5, Span
  <2>. QED  BY <2>1, <2>2, <2>3, <2>4
<1>7. ~Spent(to)
  BY <1>2, <1>5, <1>6 DEF Fresh
<1>8. ASSUME NEW p \in layerMap PROVE p.name # to.name
  BY <1>3, <1>5, <1>6 DEF WellFormed
<1>9. to \notin from /\ to \notin layerMap /\ layerMap' = files
  BY <1>1, <1>3, <1>8
<1>10. /\ Scheduling(q1, tasks, waitLsn) /\ q1 \in Queues /\ q1.state = uq.state /\ q1.files = layerMap \cup {to}
       /\ q1.meta = uq.meta /\ q1.changes = TRUE /\ q1.shuttingDown = uq.shuttingDown
       /\ \A y : Doomed(q1.queued, tasks, y) => Doomed(uq.queued, tasks, y)
  <2>1. \A f \in uq.files : f.name # to.name
    BY <1>3, <1>8
  <2>. QED  BY <1>1, <1>3, <1>5, <1>7, <2>1, UploadHere
<1>. HIDE DEF q1
<1>11. Unlinked(q1, from) = from /\ q1.files \ Unlinked(q1, from) = files
  <2>1. Unlinked(q1, from) \subseteq from
    <3>1. ASSUME NEW f \in layerMap \cup {to}, NEW y \in from, y.name = f.name PROVE f \in from
      BY <1>3, <1>8, <3>1 DEF WellFormed
    <3>. QED  BY <1>10, <3>1 DEF Unlinked
  <2>2. from \subseteq Unlinked(q1, from)
    BY <1>3, <1>10 DEF Unlinked
  <2>. QED  BY <1>9, <1>10, <2>1, <2>2
<1>12. WellFormed(files) /\ Known(files)
  <2>1. WellFormed(layerMap \ from) /\ layerMap \ from \in SUBSET Objects
    BY <1>2, <1>3 DEF WellFormed
  <2>2. \A p \in layerMap \ from : p.name # to.name
    BY <1>8
  <2>3. \A p \in layerMap \ from : p.name.kind = "L0" => to.name.hi < p.name.lo
    BY <1>3, <1>6
  <2>4. WellFormed(files)
    BY <1>5, <1>6, <2>1, <2>2, <2>3, AddLayer
  <2>. QED  BY <1>3, <1>5, <2>4 DEF Known
<1>13. /\ QueueInv(q, tasks, waitLsn) /\ Becomes(q1, q, files, q1.meta) /\ q.changes = FALSE
       /\ \A y : Doomed(q.queued, tasks, y) => Doomed(q1.queued, tasks, y)
  <2>1. WellFormed(q1.files \ Unlinked(q1, from)) /\ Known(q1.files \ Unlinked(q1, from)) /\ ~q1.shuttingDown
    BY <1>2, <1>10, <1>11, <1>12
  <2>. HIDE DEF from, files
  <2>2. /\ QueueInv(q, tasks, waitLsn) /\ Becomes(q1, q, q1.files \ Unlinked(q1, from), q1.meta) /\ q.changes = FALSE
        /\ \A y : Doomed(q.queued, tasks, y) => Doomed(q1.queued, tasks, y)
    BY <1>2, <1>3, <1>10, <2>1, UnlinkInv
  <2>. QED  BY <1>11, <2>2
<1>. HIDE DEF q
<1>14. /\ ClientInv' /\ DrainInv' /\ DurableInv' /\ DeleteInv' /\ GenInv'
       /\ \A y : Doomed(uq'.queued, tasks', y) => Doomed(q.queued, tasks, y)
       /\ uq'.state = "Initialized" /\ uq'.files = files /\ uq'.meta = uq.meta
  <2>. HIDE DEF files
  <2>1. QueueInv(q, tasks, waitLsn') /\ waitLsn' = waitLsn /\ Becomes(uq, q, files, uq.meta)
    BY <1>10, <1>13, <1>u DEF Becomes
  <2>2. UNCHANGED <<lsnVars, storageVars, flowVars, gen>>
    BY <1>u
  <2>. QED  BY <1>1, <1>12, <1>13, <2>1, <2>2, ScheduleStep
<1>15. \A y \in Objects : Spent(y)' => Spent(y) \/ y \in from
  BY <1>1, <1>10, <1>13, <1>14, <1>u DEF Spent, storageVars
<1>v. KeyGen' = KeyGen /\ diskLsn' = diskLsn /\ NewImages' = {} /\ compaction'.step = "none"
  BY <1>1, <1>u, KeyGenSame DEF NoCompaction, NewImages
<1>16. MapInv'
  <2>1. uq'.files = layerMap' \ NewImages'
    BY <1>9, <1>14, <1>v
  <2>2. \A p \in layerMap' : p.name.kind # "image" => p.name.hi <= diskLsn'
    BY <1>2, <1>6, <1>9, <1>v DEF MapInv
  <2>3. dropping' \cap layerMap' = {}
    BY <1>1, <1>2, <1>7, <1>9 DEF MapInv, Spent
  <2>4. Known(dropping)' /\ Known(layerMap)'
    BY <1>1, <1>2, <1>3, <1>9, <1>12, <1>v DEF MapInv, Known
  <2>5. uq'.meta.lsn = diskLsn' /\ WellFormed(layerMap)'
    BY <1>2, <1>9, <1>12, <1>14, <1>v DEF MapInv
  <2>. QED  BY <2>1, <2>2, <2>3, <2>4, <2>5 DEF MapInv
<1>17. CompactionInv'
  BY <1>v DEF CompactionInv
<1>18. Fresh'
  <2>1. ASSUME NEW y \in Objects, Spent(y)', y.gen = KeyGen'
        PROVE  /\ y.name.kind # "image" => y.name.hi <= diskLsn'
               /\ y.name.kind = "L1" => \A p \in layerMap' : p.name.kind = "L0" => y.name.hi < p.name.lo
               /\ y.name.kind = "image" => \E p \in layerMap' : p.name.kind = "image" /\ y.name.hi <= p.name.hi
    <3>1. CASE Spent(y)
      <4>1. /\ y.name.kind # "image" => y.name.hi <= diskLsn
            /\ y.name.kind = "L1" => \A p \in layerMap : p.name.kind = "L0" => y.name.hi < p.name.lo
            /\ y.name.kind = "image" => \E p \in layerMap : p.name.kind = "image" /\ y.name.hi <= p.name.hi
        BY <1>2, <1>v, <2>1, <3>1 DEF Fresh
      <4>. QED  BY <1>3, <1>5, <1>9, <1>v, <4>1
    <3>2. CASE y \in from
      BY <1>2, <1>3, <1>v, <3>2 DEF MapInv
    <3>. QED  BY <1>15, <2>1, <3>1, <3>2
  <2>. QED  BY <2>1 DEF Fresh
<1>. QED  BY <1>14, <1>16, <1>17, <1>18 DEF IInv, TimelineInv

\* The newest image is no garbage.
LEMMA GarbageIs ==
  ASSUME IInv, NEW cutoff
  PROVE  /\ Garbage(cutoff) \subseteq layerMap
         /\ \A g \in Garbage(cutoff) : g.name.kind # "L0"
         /\ \A g \in Garbage(cutoff) : \E p \in layerMap : p.name.kind = "image" /\ g.name.hi < p.name.hi
<1>. SUFFICES ASSUME NEW g \in Garbage(cutoff)
              PROVE  /\ g \in layerMap /\ g.name.kind # "L0"
                     /\ \E p \in layerMap : p.name.kind = "image" /\ g.name.hi < p.name.hi
  BY DEF Garbage
<1>1. g \in layerMap /\ g.name.kind # "L0"
  BY DEF Garbage
<1>2. PICK n \in EndLsn(g) .. (cutoff - 1), p \in layerMap : p.name = Image(n)
  BY DEF Garbage
<1>3. p.name.kind = "image" /\ p.name.hi = n
  BY <1>2 DEF Image, LayerName
<1>4. g.name.hi \in Nat /\ p.name.hi \in Nat
  BY <1>1, MapTypes
<1>5. g.name.hi < n
  BY <1>2, <1>3, <1>4 DEF EndLsn
<1>. QED  BY <1>1, <1>3, <1>5

LEMMA NewestImage ==
  ASSUME IInv, NEW y \in layerMap, y.name.kind = "image"
  PROVE  \E p \in layerMap : p.name.kind = "image" /\ \A z \in layerMap : z.name.kind = "image" => z.name.hi <= p.name.hi
<1>. DEFINE I == {z \in layerMap : z.name.kind = "image"}
            H == {z.name.hi : z \in I}
<1>1. \A z \in I : z.name.hi \in Nat /\ z.name.hi <= MaxLsn
  <2>1. \A z \in layerMap : z \in Objects
    BY MapTypes
  <2>. QED  BY <2>1, ObjectFields, Bounds
<1>2. H \in SUBSET Nat /\ H # {} /\ \A h \in H : h <= MaxLsn
  BY <1>1
<1>3. PICK h \in H : \A k \in H : k <= h
  <2>. HIDE DEF H
  <2>. QED  BY <1>2, Bounds, GreatestNat
<1>4. PICK p \in I : p.name.hi = h
  BY <1>3
<1>5. \A z \in I : z.name.hi <= p.name.hi
  BY <1>3, <1>4
<1>. QED  BY <1>4, <1>5

LEMMA GcTimelineInv ==
  ASSUME IInv, TypeInv', NEW cutoff, GcTimeline(cutoff)
  PROVE  IInv'
<1>u. UNCHANGED <<lsnVars, storageVars, lastLsn, diskLsn, gcCutoff, compaction, flowVars, gen, waitLsn>>
  BY DEF GcTimeline
<1>0. CASE UNCHANGED <<queueVars, layerMap, dropping>>
  <2>1. DeleteInv'
    BY <1>0, <1>u, DeleteFrame
  <2>. QED  BY <1>0, <1>u, <2>1, LsnFrame, FlowStep
<1>. SUFFICES ASSUME ~UNCHANGED <<queueVars, layerMap, dropping>>
              PROVE  IInv'
  BY <1>0
<1>o. PICK G : G = Garbage(cutoff)
  OBVIOUS
<1>. DEFINE m == Meta(diskLsn, gcCutoff)
            q2 == [uq EXCEPT !.meta = m]
            q1 == ScheduleIndexUpload(q2)
            q == ScheduleUnlinking0(q1, G)
            files == uq.files \ G
<1>1. Schedule(q) /\ layerMap' = layerMap \ G /\ dropping' = dropping \cup G /\ Usable(uq)
  BY <1>o DEF GcTimeline, Schedule, ScheduleIndexUploadForMetadataUpdate
<1>2. /\ uq \in Queues /\ tasks \in Seq(Tasks) /\ StorageType /\ ~uq.shuttingDown /\ waitLsn \in Lsns
      /\ uq.state = "Initialized" /\ Scheduling(uq, tasks, waitLsn) /\ MapInv /\ CompactionInv /\ Fresh
      /\ layerMap \subseteq Objects /\ dropping \subseteq Objects /\ diskLsn \in Lsns /\ gcCutoff \in Lsns
  BY <1>1, UsableIs DEF TimelineType
<1>3. /\ G \subseteq layerMap /\ G \in SUBSET Objects /\ \A g \in G : g.name.kind # "L0"
      /\ \A g \in G : \E p \in layerMap : p.name.kind = "image" /\ g.name.hi < p.name.hi
  <2>1. /\ Garbage(cutoff) \subseteq layerMap /\ \A g \in Garbage(cutoff) : g.name.kind # "L0"
        /\ \A g \in Garbage(cutoff) : \E p \in layerMap : p.name.kind = "image" /\ g.name.hi < p.name.hi
    BY GarbageIs
  <2>. QED  BY <1>2, <1>o, <2>1
<1>4. \A y \in layerMap : y.name.hi \in Nat
  BY MapTypes
<1>5. \A p \in layerMap : p.name.kind = "image" /\ (\A z \in layerMap : z.name.kind = "image" => z.name.hi <= p.name.hi) => p \notin G
  BY <1>3, <1>4
<1>6. \A y \in layerMap : y.name.kind = "image" =>
         \E p \in layerMap \ G : p.name.kind = "image" /\ \A z \in layerMap : z.name.kind = "image" => z.name.hi <= p.name.hi
  BY <1>5, NewestImage
<1>7. /\ uq.files = layerMap \ NewImages /\ uq.files \subseteq Objects /\ NewImages \cap G = {}
      /\ WellFormed(layerMap) /\ Known(layerMap) /\ uq.meta.lsn = diskLsn
  <2>1. uq.files = layerMap \ NewImages /\ WellFormed(layerMap) /\ Known(layerMap) /\ uq.meta.lsn = diskLsn
    BY <1>2 DEF MapInv
  <2>2. NewImages \cap G = {}
    BY <1>2, <1>5 DEF NewImages, CompactionInv
  <2>. QED  BY <1>2, <2>1, <2>2
<1>8. m \in Metas /\ m.lsn = diskLsn
  BY <1>2, MetaType
<1>. HIDE DEF m
<1>9. Fields(q2, uq.state, uq.files, uq.changes, m, uq.queued, uq.shuttingDown)
  BY <1>2, <1>8, MetaFields
<1>. HIDE DEF q2
<1>10. /\ q2 \in Queues /\ q2.state = "Initialized" /\ q2.files = uq.files /\ q2.meta = m /\ q2.queued = uq.queued
       /\ ~q2.shuttingDown /\ q2.shuttingDown = uq.shuttingDown
  BY <1>2, <1>9 DEF Fields
<1>11. Scheduling(q2, tasks, waitLsn)
  <2>1. uq.meta.lsn <= q2.meta.lsn
    BY <1>2, <1>7, <1>8, <1>10, Bounds
  <2>2. q2.files \subseteq uq.files
    BY <1>10
  <2>. QED  BY <1>2, <1>10, <2>1, <2>2, ScheduleFields
<1>12. /\ QueueInv(q1, tasks, waitLsn) /\ Becomes(q2, q1, q2.files, q2.meta)
       /\ \A x : Doomed(q1.queued, tasks, x) => Doomed(q2.queued, tasks, x)
  <2>1. WellFormed(q2.files) /\ Known(q2.files)
    BY <1>10 DEF IInv, ClientInv
  <2>. QED  BY <1>2, <1>10, <1>11, <2>1, IndexInv
<1>. HIDE DEF q1
<1>13. /\ q1 \in Queues /\ q1.files = uq.files /\ q1.meta = m /\ q1.state = uq.state
       /\ ~q1.shuttingDown /\ q1.shuttingDown = uq.shuttingDown /\ Scheduling(q1, tasks, waitLsn) /\ Desired(q1, tasks)
  BY <1>2, <1>10, <1>12 DEF Becomes, QueueInv
<1>14. q1.files \ Unlinked(q1, G) = files
  <2>1. ASSUME NEW f \in uq.files, NEW g \in G, g.name = f.name PROVE f = g
    BY <1>3, <1>7, <2>1 DEF WellFormed
  <2>. QED  BY <1>13, <2>1 DEF Unlinked
<1>15. WellFormed(files) /\ Known(files) /\ WellFormed(layerMap \ G)
  <2>1. WellFormed(uq.files) /\ Known(uq.files)
    BY DEF IInv, ClientInv
  <2>. QED  BY <1>7, <2>1 DEF WellFormed, Known
<1>16. /\ QueueInv(q, tasks, waitLsn) /\ Becomes(q1, q, files, q1.meta) /\ q.changes = FALSE
       /\ \A y : Doomed(q.queued, tasks, y) => Doomed(q1.queued, tasks, y)
  <2>1. WellFormed(q1.files \ Unlinked(q1, G)) /\ Known(q1.files \ Unlinked(q1, G))
    BY <1>14, <1>15
  <2>. HIDE DEF files
  <2>2. /\ QueueInv(q, tasks, waitLsn) /\ Becomes(q1, q, q1.files \ Unlinked(q1, G), q1.meta) /\ q.changes = FALSE
        /\ \A y : Doomed(q.queued, tasks, y) => Doomed(q1.queued, tasks, y)
    BY <1>2, <1>3, <1>13, <2>1, UnlinkInv
  <2>. QED  BY <1>14, <2>2
<1>. HIDE DEF q
<1>17. /\ ClientInv' /\ DrainInv' /\ DurableInv' /\ DeleteInv' /\ GenInv'
       /\ \A y : Doomed(uq'.queued, tasks', y) => Doomed(q.queued, tasks, y)
       /\ uq'.state = "Initialized" /\ uq'.files = files /\ uq'.meta = m
  <2>. HIDE DEF files
  <2>1. QueueInv(q, tasks, waitLsn') /\ waitLsn' = waitLsn /\ Becomes(uq, q, files, m)
    BY <1>13, <1>16, <1>u DEF Becomes
  <2>2. UNCHANGED <<lsnVars, storageVars, flowVars, gen>>
    BY <1>u
  <2>. QED  BY <1>1, <1>15, <1>16, <2>1, <2>2, ScheduleStep
<1>18. \A y \in Objects : Spent(y)' => Spent(y) \/ y \in G
  BY <1>1, <1>10, <1>12, <1>16, <1>17, <1>u DEF Spent, storageVars
<1>v. KeyGen' = KeyGen /\ diskLsn' = diskLsn /\ compaction' = compaction /\ NewImages' = NewImages
  BY <1>u, KeyGenSame DEF NewImages
<1>19. MapInv'
  <2>1. uq'.files = layerMap' \ NewImages'
    BY <1>1, <1>7, <1>17, <1>v
  <2>2. \A p \in layerMap' : p.name.kind # "image" => p.name.hi <= diskLsn'
    BY <1>1, <1>2, <1>v DEF MapInv
  <2>3. dropping' \cap layerMap' = {}
    BY <1>1, <1>2 DEF MapInv
  <2>4. Known(dropping)' /\ Known(layerMap)'
    BY <1>1, <1>2, <1>3, <1>7, <1>v DEF MapInv, Known
  <2>5. uq'.meta.lsn = diskLsn' /\ WellFormed(layerMap)'
    BY <1>1, <1>8, <1>15, <1>17, <1>v
  <2>. QED  BY <2>1, <2>2, <2>3, <2>4, <2>5 DEF MapInv
<1>20. CompactionInv'
  <2>1. ASSUME compaction.step = "images"
        PROVE  (\E x \in layerMap : /\ compaction.layers = {x} /\ x.name.kind = "image"
                                    /\ \A p \in layerMap : p.name.kind = "image" => p.name.hi <= x.name.hi
                                    /\ ~Spent(x))'
    <3>1. PICK x \in layerMap : /\ compaction.layers = {x} /\ x.name.kind = "image"
                                /\ \A p \in layerMap : p.name.kind = "image" => p.name.hi <= x.name.hi
                                /\ ~Spent(x)
      BY <1>2, <2>1 DEF CompactionInv
    <3>2. x \notin G
      BY <1>5, <3>1
    <3>3. ~Spent(x)'
      BY <1>2, <1>18, <3>1, <3>2
    <3>. QED  BY <1>1, <1>v, <3>1, <3>2, <3>3
  <2>2. ASSUME compaction.step = "L0"
        PROVE  (/\ compaction.layers \subseteq layerMap
                /\ \A x \in compaction.layers : x.name.kind = "L0"
                /\ \A x \in compaction.layers : \A p \in layerMap \ compaction.layers :
                      p.name.kind = "L0" => x.name.hi < p.name.lo)'
    <3>1. /\ compaction.layers \subseteq layerMap
          /\ \A x \in compaction.layers : x.name.kind = "L0"
          /\ \A x \in compaction.layers : \A p \in layerMap \ compaction.layers :
                p.name.kind = "L0" => x.name.hi < p.name.lo
      BY <1>2, <2>2 DEF CompactionInv
    <3>. QED  BY <1>1, <1>3, <1>v, <3>1
  <2>. QED  BY <1>v, <2>1, <2>2 DEF CompactionInv
<1>21. Fresh'
  <2>1. ASSUME NEW y \in Objects, Spent(y)', y.gen = KeyGen'
        PROVE  /\ y.name.kind # "image" => y.name.hi <= diskLsn'
               /\ y.name.kind = "L1" => \A p \in layerMap' : p.name.kind = "L0" => y.name.hi < p.name.lo
               /\ y.name.kind = "image" => \E p \in layerMap' : p.name.kind = "image" /\ y.name.hi <= p.name.hi
    <3>0. y.name.hi \in Nat
      BY ObjectFields
    <3>1. /\ y.name.kind # "image" => y.name.hi <= diskLsn
          /\ y.name.kind = "L1" => \A p \in layerMap : p.name.kind = "L0" => y.name.hi < p.name.lo
          /\ y.name.kind = "image" => \E p \in layerMap : p.name.kind = "image" /\ y.name.hi <= p.name.hi
      <4>1. CASE Spent(y)
        BY <1>2, <1>v, <2>1, <4>1 DEF Fresh
      <4>2. CASE y \in G
        <5>1. y \in layerMap
          BY <1>3, <4>2
        <5>2. y.name.kind # "image" => y.name.hi <= diskLsn
          BY <1>2, <5>1 DEF MapInv
        <5>3. y.name.kind = "L1" => \A p \in layerMap : p.name.kind = "L0" => y.name.hi < p.name.lo
          BY <1>7, <5>1 DEF WellFormed
        <5>4. y.name.kind = "image" => \E p \in layerMap : p.name.kind = "image" /\ y.name.hi <= p.name.hi
          BY <3>0, <5>1
        <5>. QED  BY <5>2, <5>3, <5>4
      <4>. QED  BY <1>18, <2>1, <4>1, <4>2
    <3>2. y.name.kind = "image" => \E p \in layerMap \ G : p.name.kind = "image" /\ y.name.hi <= p.name.hi
      BY <1>4, <1>6, <3>0, <3>1
    <3>. QED  BY <1>1, <1>v, <3>1, <3>2
  <2>. QED  BY <2>1 DEF Fresh
<1>. QED  BY <1>17, <1>19, <1>20, <1>21 DEF IInv, TimelineInv
-----------------------------------------------------------------------------
(***************************************************************************)
(* The invariant holds.                                                    *)
(***************************************************************************)
LEMMA InitInv == Init => IInv
<1>. SUFFICES ASSUME Init PROVE IInv
  OBVIOUS
<1>. DEFINE part == IndexPart({}, Meta(0, 0), FALSE)
<1>1. /\ TypeInv /\ StorageType /\ Meta(0, 0) \in Metas /\ Meta(0, 0).lsn = 0
  BY InitType, MetaType, Bounds DEF TypeInv
<1>2. /\ part.files = {} /\ part.meta = Meta(0, 0) /\ part.deleted = FALSE
  BY DEF IndexPart
<1>. HIDE DEF part
<1>3. /\ DOMAIN index = {KeyGen} /\ index[KeyGen] = part /\ gen = 1
      /\ uq = Initialized({}, Meta(0, 0)) /\ tasks = << >> /\ shutdownReady = FALSE /\ waiter = "none" /\ waitLsn = 0
      /\ pendingLsn = {} /\ advertised = 0 /\ store = {} /\ deletions = {} /\ diskLsn = 0 /\ layerMap = {}
      /\ compaction = NoCompaction /\ dropping = {} /\ tenant = "up" /\ deletion = "no" /\ deletedAt = "NotRunning"
      /\ deleteAcked = FALSE
  BY DEF Init, part
<1>4. HasIndex /\ LatestIndex = part
  <2>1. HasIndex
    BY <1>3 DEF HasIndex
  <2>. QED  BY <1>1, <1>3, <2>1, LatestIs
<1>5. /\ uq \in Queues /\ uq.state = "Initialized" /\ uq.files = {} /\ uq.changes = FALSE /\ uq.meta = Meta(0, 0)
      /\ uq.queued = << >> /\ uq.shuttingDown = FALSE
  <2>1. Fields(Initialized({}, Meta(0, 0)), "Initialized", {}, FALSE, Meta(0, 0), << >>, FALSE)
    BY <1>1, InitializedFields
  <2>. QED  BY <1>3, <2>1 DEF Fields
<1>6. /\ Len(tasks) = 0 /\ 1 .. Len(tasks) = {} /\ Active(tasks) = {} /\ Len(uq.queued) = 0 /\ 1 .. Len(uq.queued) = {}
      /\ \A type : Running(tasks, type) = {}
      /\ \A type, o : RunningOn(tasks, type, o) = {}
  BY <1>3, <1>5, EmptyTasks
<1>7. RunInv(tasks)
  BY <1>3, EmptyRunInv
<1>8. Scheduling(uq, tasks, waitLsn)
  <2>1. LsnOrder(uq, tasks)
    BY <1>1, <1>2, <1>4, <1>5, <1>6 DEF LsnOrder
  <2>2. /\ UploadedFirst(uq.queued, tasks) /\ UnlinkedFirst(uq.queued, tasks) /\ NotDoomed(uq.queued, tasks)
        /\ Waits(uq, tasks, waitLsn) /\ FilesPresent(uq, tasks)
    BY <1>5, <1>6 DEF UploadedFirst, UnlinkedFirst, NotDoomed, Waits, FilesPresent
  <2>. QED  BY <1>2, <1>4, <1>6, <1>7, <2>1, <2>2 DEF Scheduling
<1>9. Desired(uq, tasks)
  BY <1>2, <1>4, <1>5, <1>6 DEF Desired, Stands
<1>10. WellFormed({}) /\ Known({})
  BY DEF WellFormed, Known
<1>11. ClientInv
  BY <1>3, <1>5, <1>7, <1>8, <1>9, <1>10 DEF ClientInv, QueueInv
<1>12. DrainInv /\ DurableInv
  BY <1>1, <1>2, <1>3, <1>4 DEF DrainInv, DurableInv
<1>13. DeleteInv
  BY <1>2, <1>3, <1>4, <1>6 DEF DeleteInv, TaskIds
<1>14. GenInv
  <2>1. DOMAIN index \subseteq IF Legacy THEN {0} ELSE 1 .. gen
    BY <1>3 DEF KeyGen
  <2>2. \A g \in DOMAIN index : index[g].files = {}
    BY <1>2, <1>3
  <2>. QED  BY <1>3, <1>5, <1>10, <2>1, <2>2 DEF GenInv
<1>15. \A o \in Objects : ~Spent(o)
  BY <1>3, <1>6 DEF Spent, Doomed
<1>16. TimelineInv
  BY <1>1, <1>3, <1>5, <1>10, <1>15 DEF TimelineInv, MapInv, CompactionInv, Fresh, NewImages, NoCompaction
<1>. QED  BY <1>1, <1>11, <1>12, <1>13, <1>14, <1>16 DEF IInv

LEMMA StutterInv ==
  ASSUME IInv, TypeInv', UNCHANGED vars
  PROVE  IInv'
<1>1. /\ UNCHANGED <<queueVars, lsnVars, storageVars, timelineVars, flowVars, gen, waitLsn>>
  BY DEF vars
<1>2. DeleteInv'
  BY <1>1, DeleteFrame
<1>. QED  BY <1>1, <1>2, LsnFrame, FlowStep DEF timelineVars

LEMMA TaskStepInv ==
  ASSUME IInv, TypeInv', TaskStep
  PROVE  IInv'
BY TaskAttemptInv, TaskCompleteInv, TaskPublishLsnInv, TaskCancelledInv DEF TaskStep

LEMMA TimelineStepInv ==
  ASSUME IInv, TypeInv', TimelineStep
  PROVE  IInv'
<1>1. CASE \E lsn \in 1 .. lastLsn : FlushFrozenLayer(lsn) \/ CreateImageLayers(lsn)
  BY <1>1, FlushFrozenLayerInv, CreateImageLayersInv
<1>2. CASE \E cutoff \in 1 .. diskLsn : GcAdvanceCutoff(cutoff)
  BY <1>2, GcAdvanceCutoffInv
<1>3. CASE \E cutoff \in collecting : GcTimeline(cutoff)
  BY <1>3, GcTimelineInv
<1>4. CASE \E o \in dropping : DropLayer(o)
  BY <1>4, DropLayerInv
<1>. QED  BY <1>1, <1>2, <1>3, <1>4, IngestInv, CompactLevel0Phase1Inv, FinishCompactL0Inv,
          ScheduleImageUploadsInv, ScheduleImageIndexInv, WaitCompletionInv DEF TimelineStep

LEMMA ShutdownStepInv ==
  ASSUME DeletionIsAlone, IInv, TypeInv', ShutdownStep
  PROVE  IInv'
<1>1. CASE \E caller \in {"tenant", "deletion"} : JoinTask(caller) \/ JoinDone(caller)
  BY <1>1, JoinTaskInv, JoinDoneInv
<1>2. CASE \E replied \in BOOLEAN : DeletedFlagUpload(replied)
  BY <1>2, DeletedFlagUploadInv
<1>3. CASE ShutdownTimeline \/ ShutdownDrained \/ DeleteStopTasks
  BY <1>3, StopActions
<1>4. CASE DeletedFlagBegin \/ DeletedFlagAlready \/ DeletionFails
  BY <1>4, DeletedFlagInv
<1>. QED  BY <1>1, <1>2, <1>3, <1>4, ShutdownBeginInv, DeleteAllLayersInv, DeleteListedInv DEF ShutdownStep

LEMMA NextInv ==
  ASSUME DeletionIsAlone, IInv, [Next]_vars
  PROVE  IInv'
<1>1. TypeInv'
  BY NextType DEF IInv
<1>. QED  BY <1>1, StutterInv, TaskStepInv, TimelineStepInv, ShutdownStepInv, ValidateLsnInv, ExecuteDeletionInv,
          RestartInv, LoadTimelineInv, ResumeDeletionInv DEF Next

LEMMA Invariance ==
  ASSUME DeletionIsAlone
  PROVE  Spec => []IInv
<1>1. Init => IInv
  BY InitInv
<1>2. IInv /\ [Next]_vars => IInv'
  BY NextInv
<1>. QED  BY <1>1, <1>2, PTL DEF Spec

-----------------------------------------------------------------------------
(***************************************************************************)
(* What it says of the properties.                                         *)
(***************************************************************************)

\* However flushes, compaction, garbage collection, dropped layers, failed
\* and repeated uploads, shutdown and restarts interleave, the index that a
\* pageserver would start from names only layers that are in object storage
\* and that the deletion queue does not hold.
THEOREM IndexedLayersExist ==
  ASSUME DeletionIsAlone
  PROVE  Spec => []IndexNamesExist
<1>1. IInv => IndexNamesExist
  BY DEF IInv, DurableInv, IndexNamesExist
<1>. QED  BY <1>1, Invariance, PTL

\* The LSN up to which safekeepers may drop WAL is at most that of the index
\* a pageserver would start from, through every restart and although the
\* deletion queue makes it visible later than it was uploaded.
THEOREM AdvertisedIsDurable ==
  ASSUME DeletionIsAlone
  PROVE  Spec => []VisibleIsDurable
<1>1. IInv => VisibleIsDurable
  BY DEF IInv, DurableInv, VisibleIsDurable
<1>. QED  BY <1>1, Invariance, PTL

\* A call of wait_completion that returned Ok has seen an index in object
\* storage with the LSN that was scheduled before it, or a higher one.
THEOREM WaitIsForDurability ==
  ASSUME DeletionIsAlone
  PROVE  Spec => []WaitedForIsUploaded
<1>1. IInv => WaitedForIsUploaded
  BY DEF IInv, DurableInv, WaitedForIsUploaded
<1>. QED  BY <1>1, Invariance, PTL

\* When the semaphore that shutdown() waits on is closed the index in object
\* storage is the desired one: nothing that was scheduled is lost, but for
\* the name of one image whose index upload shutdown() was quicker than.
THEOREM DrainLosesNothing ==
  ASSUME DeletionIsAlone
  PROVE  Spec => []DrainedIsUploaded
<1>1. IInv => DrainedIsUploaded
  BY DEF IInv, DrainInv, DrainedIsUploaded, Stands
<1>. QED  BY <1>1, Invariance, PTL
=============================================================================
