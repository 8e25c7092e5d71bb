-------------------------- MODULE WalHistoryProofs --------------------------
(***************************************************************************)
(* Histories and WAL of WalConsensus, proved for every number of           *)
(* safekeepers and proposers and every bound: each term begins at one LSN, *)
(* and the WAL of a safekeeper is the one that its history describes.      *)
(***************************************************************************)
EXTENDS WalConsensusProofs

(***************************************************************************)
(* H stands for the histories of all leaders so far.  There is one of each *)
(* term, and every history anywhere in the system is put together from     *)
(* theirs: each of its prefixes is the history of the leader of its last   *)
(* term.                                                                   *)
(***************************************************************************)
LeaderHistories(H) ==
    /\ \A a \in H : a \in Seq(TermLsn) /\ a # << >>
    /\ \A a, b \in H : a[Len(a)].term = b[Len(b)].term => a = b

PrefixIn(h, H) == \A i \in 1..Len(h) : SubSeq(h, 1, i) \in H

Ordered(h) ==
    \A i, j \in 1..Len(h) : i < j => h[i].term < h[j].term /\ h[i].lsn <= h[j].lsn

\* The records in w are those that a WAL with history h has, up to lsn, or all.
AgreesTo(w, h, lsn) ==
    \A i \in 1..Len(w) : StartLsn + i <= lsn => w[i] = TermOfRecord(h, StartLsn + i - 1)

Agrees(w, h) == \A i \in 1..Len(w) : w[i] = TermOfRecord(h, StartLsn + i - 1)

-----------------------------------------------------------------------------
(***************************************************************************)
(* Lemmas about histories.                                                 *)
(***************************************************************************)

\* Counting a set that is closed downwards gives its greatest element.
LEMMA CountDownClosed ==
  ASSUME NEW n \in Nat, NEW T \in SUBSET (1..n),
         \A t \in T : \A u \in 1..t : u \in T
  PROVE  T = 1..Cardinality(T) /\ Cardinality(T) \in 0..n
<1>1. IsFiniteSet(T) /\ Cardinality(T) \in 0..n
  <2>1. IsFiniteSet(1..n) /\ Cardinality(1..n) = n
    BY FS_Interval
  <2>2. IsFiniteSet(T)
    BY <2>1, FS_Subset
  <2>. QED  BY <2>2, CountUpTo
<1>. DEFINE k == Cardinality(T)
<1>2. ASSUME NEW t \in T PROVE t <= k
  <2>1. t \in Nat /\ t >= 1 /\ 1..t \subseteq T
    OBVIOUS
  <2>2. Cardinality(1..t) = t /\ IsFiniteSet(1..t)
    BY <2>1, FS_Interval
  <2>3. Cardinality(1..t) <= k
    BY <1>1, <2>1, FS_Subset
  <2>. QED  BY <2>2, <2>3
<1>3. T \subseteq 1..k
  BY <1>2
<1>4. IsFiniteSet(1..k) /\ Cardinality(1..k) = k
  <2>1. k \in Nat
    BY <1>1
  <2>. HIDE DEF k
  <2>. QED  BY <2>1, FS_Interval
<1>5. T = 1..k
  BY <1>3, <1>4, FS_Subset
<1>. QED  BY <1>1, <1>5

\* The switches that up_to keeps are those before the first one beyond lsn.
LEMMA SwitchesFacts ==
  ASSUME NEW h \in Seq(TermLsn), NEW lsn \in Nat
  PROVE  LET k == SwitchesUpTo(h, lsn)
         IN  /\ k \in 0..Len(h)
             /\ \A i \in 1..k : h[i].lsn <= lsn
             /\ k < Len(h) => h[k + 1].lsn > lsn
<1> DEFINE T == {n \in 1..Len(h) : \A i \in 1..n : h[i].lsn <= lsn}
           k == Cardinality(T)
<1>1. SwitchesUpTo(h, lsn) = k
  BY DEF SwitchesUpTo
<1>2. T = 1..k /\ k \in 0..Len(h)
  <2>1. Len(h) \in Nat /\ T \in SUBSET (1..Len(h))
    OBVIOUS
  <2>2. \A t \in T : \A u \in 1..t : u \in T
    OBVIOUS
  <2>. HIDE DEF T
  <2>. QED  BY <2>1, <2>2, CountDownClosed
<1>3. \A i \in 1..k : h[i].lsn <= lsn
  <2>1. \A i \in T : i \in 1..i /\ h[i].lsn <= lsn
    OBVIOUS
  <2>. HIDE DEF T, k
  <2>. QED  BY <1>2, <2>1
<1>4. ASSUME k < Len(h) PROVE h[k + 1].lsn > lsn
  <2>1. k + 1 \notin T /\ k + 1 \in 1..Len(h)
    <3>. HIDE DEF T, k
    <3>. QED  BY <1>2, <1>4
  <2>2. PICK i \in 1..(k + 1) : ~(h[i].lsn <= lsn)
    BY <2>1
  <2>3. i = k + 1
    <3>. HIDE DEF T, k
    <3>. QED  BY <1>2, <1>3, <2>2
  <2>4. h[k + 1] \in TermLsn
    BY <2>1
  <2>. HIDE DEF T, k
  <2>. QED  BY <2>2, <2>3, <2>4 DEF TermLsn
<1>. HIDE DEF T, k
<1>. QED  BY <1>1, <1>2, <1>3, <1>4

LEMMA EntryType ==
  ASSUME NEW h \in Seq(TermLsn), NEW i \in 1..Len(h)
  PROVE  h[i] \in TermLsn /\ h[i].term \in Nat /\ h[i].lsn \in Nat /\ h[i].lsn >= StartLsn
<1>1. h[i] \in TermLsn
  OBVIOUS
<1>. QED  BY <1>1 DEF TermLsn, StartLsn

LEMMA SwitchesUnique ==
  ASSUME NEW h \in Seq(TermLsn), NEW lsn \in Nat, NEW n \in 0..Len(h),
         \A i \in 1..n : h[i].lsn <= lsn, n < Len(h) => h[n + 1].lsn > lsn
  PROVE  SwitchesUpTo(h, lsn) = n
<1> DEFINE k == SwitchesUpTo(h, lsn)
<1>1. /\ k \in 0..Len(h)
      /\ \A i \in 1..k : h[i].lsn <= lsn
      /\ k < Len(h) => h[k + 1].lsn > lsn
  BY SwitchesFacts
<1>. HIDE DEF k
<1>2. \A i \in 1..Len(h) : h[i].lsn \in Nat
  BY EntryType
<1>3. ~(k < n)
  BY <1>1, <1>2
<1>4. ~(n < k)
  BY <1>1, <1>2
<1>. QED  BY <1>1, <1>3, <1>4 DEF k

LEMMA TermOfRecordIs ==
  ASSUME NEW h \in Seq(TermLsn), NEW lsn \in Nat
  PROVE  TermOfRecord(h, lsn) =
            IF SwitchesUpTo(h, lsn) = 0 THEN 0 ELSE h[SwitchesUpTo(h, lsn)].term
<1> DEFINE k == SwitchesUpTo(h, lsn)
<1>1. k \in 0..Len(h)
  BY SwitchesFacts
<1>. HIDE DEF k
<1>2. /\ Len(SubSeq(h, 1, k)) = k
      /\ k # 0 => SubSeq(h, 1, k)[k] = h[k]
      /\ SubSeq(h, 1, k) = << >> <=> k = 0
  <2>1. SubSeq(h, 1, k) \in Seq(TermLsn)
    BY <1>1
  <2>. QED  BY <1>1, <2>1
<1>. QED  BY <1>1, <1>2 DEF TermOfRecord, EpochAt, UpTo, HighestTerm, k

\* Two histories with n switches in common describe the same WAL up to the next
\* switch of either.
LEMMA AgreeBelow ==
  ASSUME NEW h \in Seq(TermLsn), NEW g \in Seq(TermLsn), NEW lsn \in Nat,
         NEW n \in 0..Len(h), n \in 0..Len(g), \A i \in 1..n : h[i] = g[i],
         n < Len(h) => h[n + 1].lsn > lsn, n < Len(g) => g[n + 1].lsn > lsn
  PROVE  TermOfRecord(h, lsn) = TermOfRecord(g, lsn)
<1> DEFINE k == SwitchesUpTo(h, lsn)
<1>1. /\ k \in 0..Len(h)
      /\ \A i \in 1..k : h[i].lsn <= lsn
      /\ k < Len(h) => h[k + 1].lsn > lsn
  BY SwitchesFacts
<1>. HIDE DEF k
<1>2. \A i \in 1..Len(h) : h[i].lsn \in Nat
  BY EntryType
<1>3. k <= n
  BY <1>1, <1>2
<1>4. SwitchesUpTo(g, lsn) = k
  <2>1. k \in 0..Len(g) /\ \A i \in 1..k : g[i].lsn <= lsn
    BY <1>1, <1>3
  <2>2. ASSUME k < Len(g) PROVE g[k + 1].lsn > lsn
    <3>1. CASE k = n
      BY <2>2, <3>1
    <3>2. CASE k < n
      BY <1>1, <3>2
    <3>. QED  BY <1>1, <1>3, <3>1, <3>2
  <2>. QED  BY <2>1, <2>2, SwitchesUnique
<1>5. k # 0 => h[k] = g[k]
  BY <1>1, <1>3
<1>. QED  BY <1>4, <1>5, TermOfRecordIs DEF k

\* up_to cuts a history without changing what it says of the WAL before.
LEMMA UpToAgrees ==
  ASSUME NEW h \in Seq(TermLsn), NEW f \in Nat, NEW lsn \in 0..f
  PROVE  TermOfRecord(UpTo(h, f), lsn) = TermOfRecord(h, lsn)
<1> DEFINE k == SwitchesUpTo(h, f)
<1>1. k \in 0..Len(h) /\ (k < Len(h) => h[k + 1].lsn > f)
  BY SwitchesFacts
<1>. HIDE DEF k
<1>2. /\ UpTo(h, f) \in Seq(TermLsn) /\ Len(UpTo(h, f)) = k
      /\ \A i \in 1..k : UpTo(h, f)[i] = h[i]
  BY <1>1 DEF UpTo, k
<1>3. k < Len(h) => h[k + 1].lsn > lsn
  <2>1. k < Len(h) => h[k + 1] \in TermLsn
    BY <1>1
  <2>. QED  BY <1>1, <2>1 DEF TermLsn
<1>. QED  BY <1>1, <1>2, <1>3, AgreeBelow

\* Histories with a term in common have all before it in common.
LEMMA SamePrefix ==
  ASSUME NEW H, LeaderHistories(H), NEW h \in Seq(TermLsn), NEW g \in Seq(TermLsn),
         PrefixIn(h, H), PrefixIn(g, H), NEW i \in 1..Len(h), NEW j \in 1..Len(g),
         h[i].term = g[j].term
  PROVE  i = j /\ \A k \in 1..i : h[k] = g[k]
<1> DEFINE a == SubSeq(h, 1, i)
           b == SubSeq(g, 1, j)
<1>1. a \in H /\ b \in H
  BY DEF PrefixIn
<1>2. /\ Len(a) = i /\ \A k \in 1..i : a[k] = h[k]
      /\ Len(b) = j /\ \A k \in 1..j : b[k] = g[k]
  OBVIOUS
<1>. HIDE DEF a, b
<1>3. a = b
  BY <1>1, <1>2 DEF LeaderHistories
<1>. QED  BY <1>2, <1>3

LEMMA CommonSwitchesFacts ==
  ASSUME NEW h \in Seq(TermLsn), NEW g \in Seq(TermLsn)
  PROVE  LET n == CommonSwitches(h, g)
         IN  /\ n \in 0..Len(h) /\ n \in 0..Len(g)
             /\ \A i \in 1..n : h[i].term = g[i].term
             /\ n < Len(h) /\ n < Len(g) => h[n + 1].term # g[n + 1].term
<1> DEFINE m == MinOf(Len(h), Len(g))
           T == {n \in 1..m : \A i \in 1..n : h[i].term = g[i].term}
           k == Cardinality(T)
<1>1. CommonSwitches(h, g) = k
  BY DEF CommonSwitches
<1>2. m \in Nat /\ m <= Len(h) /\ m <= Len(g) /\ (m = Len(h) \/ m = Len(g))
  BY DEF MinOf
<1>3. T = 1..k /\ k \in 0..m
  <2>1. T \in SUBSET (1..m)
    OBVIOUS
  <2>2. \A t \in T : \A u \in 1..t : u \in T
    <3>. HIDE DEF m
    <3>. QED  BY <1>2
  <2>. HIDE DEF T, m
  <2>. QED  BY <1>2, <2>1, <2>2, CountDownClosed
<1>4. \A i \in 1..k : h[i].term = g[i].term
  <2>1. \A i \in T : i \in 1..i /\ h[i].term = g[i].term
    <3>. HIDE DEF m
    <3>. QED  BY <1>2
  <2>. HIDE DEF T, k
  <2>. QED  BY <1>3, <2>1
<1>5. ASSUME k < Len(h), k < Len(g) PROVE h[k + 1].term # g[k + 1].term
  <2>1. k + 1 \notin T /\ k + 1 \in 1..m
    <3>. HIDE DEF T, k, m
    <3>. QED  BY <1>2, <1>3, <1>5
  <2>2. PICK i \in 1..(k + 1) : h[i].term # g[i].term
    BY <2>1
  <2>3. i = k + 1
    <3>. HIDE DEF T, k, m
    <3>. QED  BY <1>3, <1>4, <2>2
  <2>. QED  BY <2>2, <2>3
<1>. HIDE DEF T, k, m
<1>. QED  BY <1>1, <1>2, <1>3, <1>4, <1>5

(***************************************************************************)
(* SendProposerElected: below where streaming starts, WAL with history g   *)
(* that ends at flush is the WAL of the leader with history h.             *)
(***************************************************************************)
LEMMA StartAgrees ==
  ASSUME NEW H, LeaderHistories(H), NEW h \in Seq(TermLsn), NEW g \in Seq(TermLsn),
         PrefixIn(h, H), PrefixIn(g, H), Ordered(h), Ordered(g), NEW t \in Nat,
         h # << >>, h[1].lsn = StartLsn, h[Len(h)].term = t,
         \A i \in 1..Len(g) : g[i].term <= t,
         NEW flush \in Nat, NEW lsn \in Nat,
         StartLsn <= lsn, lsn < StartStreamingAt(h, t, g, flush)
  PROVE  TermOfRecord(g, lsn) = TermOfRecord(h, lsn)
<1> DEFINE n == CommonSwitches(h, g)
<1>1. n \in 0..Len(h) /\ n \in 0..Len(g) /\ \A i \in 1..n : h[i].term = g[i].term
  BY CommonSwitchesFacts
<1>2. n # 0 => \A i \in 1..n : h[i] = g[i]
  <2>. HIDE DEF n
  <2>1. n # 0 => n \in 1..Len(h) /\ n \in 1..Len(g) /\ h[n].term = g[n].term
    BY <1>1
  <2>. QED  BY <2>1, SamePrefix
<1>3. n # 0
  BY DEF StartStreamingAt, StartLsn
<1>4. CASE h[n].term = t
  <2>. HIDE DEF n
  <2>1. n = Len(h)
    <3>1. n < Len(h) => h[n].term < h[Len(h)].term
      BY <1>1, <1>3 DEF Ordered
    <3>. QED  BY <1>1, <1>3, <1>4, <3>1, EntryType
  <2>2. n = Len(g)
    <3>1. n < Len(g) => g[n].term < g[Len(g)].term /\ g[Len(g)].term <= t
      BY <1>1, <1>3 DEF Ordered
    <3>2. g[n].term = t /\ g[Len(g)].term \in Nat
      BY <1>1, <1>3, <1>4, EntryType
    <3>. QED  BY <1>1, <3>1, <3>2
  <2>3. /\ n < Len(h) => h[n + 1].lsn > lsn
        /\ n < Len(g) => g[n + 1].lsn > lsn
    BY <1>1, <2>1, <2>2
  <2>. QED  BY <1>1, <1>2, <1>3, <2>3, AgreeBelow
<1>5. CASE h[n].term # t
  <2>1. StartStreamingAt(h, t, g, flush) = MinOf(h[n + 1].lsn, TermEnd(g, n, flush))
    BY <1>3, <1>5 DEF StartStreamingAt
  <2>. HIDE DEF n
  <2>2. n < Len(h) /\ h[n + 1].lsn \in Nat
    <3>1. n < Len(h)
      BY <1>1, <1>3, <1>5
    <3>. QED  BY <1>1, <3>1, EntryType
  <2>3. n < Len(g) => g[n + 1].lsn \in Nat
    BY <1>1, EntryType
  <2>4. h[n + 1].lsn > lsn /\ (n < Len(g) => g[n + 1].lsn > lsn)
    BY <2>1, <2>2, <2>3 DEF MinOf, TermEnd
  <2>. QED  BY <1>1, <1>2, <1>3, <2>4, AgreeBelow
<1>. QED  BY <1>4, <1>5

\* The terms and LSNs of a history go up when those of the leaders' do.
LEMMA PrefixOrdered ==
  ASSUME NEW H, \A a \in H : Ordered(a), NEW h \in Seq(TermLsn), PrefixIn(h, H)
  PROVE  Ordered(h)
<1>1. h # << >> => SubSeq(h, 1, Len(h)) = h /\ Len(h) \in 1..Len(h)
  BY SubSeqFull
<1>2. h # << >> => h \in H
  BY <1>1 DEF PrefixIn
<1>3. h = << >> => Len(h) = 0
  OBVIOUS
<1>. QED  BY <1>2, <1>3 DEF Ordered

\* The history that up_to cuts is one again.
LEMMA UpToPrefix ==
  ASSUME NEW H, NEW h \in Seq(TermLsn), PrefixIn(h, H), NEW f \in Nat
  PROVE  /\ UpTo(h, f) \in Seq(TermLsn) /\ PrefixIn(UpTo(h, f), H)
         /\ \A i \in 1..Len(UpTo(h, f)) :
               i \in 1..Len(h) /\ UpTo(h, f)[i] = h[i] /\ UpTo(h, f)[i].lsn <= f
<1> DEFINE k == SwitchesUpTo(h, f)
           g == SubSeq(h, 1, k)
<1>1. k \in 0..Len(h) /\ \A i \in 1..k : h[i].lsn <= f
  BY SwitchesFacts
<1>. HIDE DEF k
<1>2. g \in Seq(TermLsn) /\ Len(g) = k /\ \A i \in 1..k : g[i] = h[i]
  BY <1>1
<1>3. ASSUME NEW i \in 1..Len(g) PROVE SubSeq(g, 1, i) \in H
  <2>1. SubSeq(g, 1, i) = SubSeq(h, 1, i)
    BY <1>1, <1>2
  <2>2. i \in 1..Len(h)
    BY <1>1, <1>2
  <2>. QED  BY <2>1, <2>2 DEF PrefixIn
<1>4. UpTo(h, f) = g
  BY DEF UpTo, k
<1>. HIDE DEF g
<1>. QED  BY <1>1, <1>2, <1>3, <1>4 DEF PrefixIn

\* More leaders, and nothing changes for the histories there are.
LEMMA PrefixGrows ==
  ASSUME NEW H, NEW J, H \subseteq J, NEW h, PrefixIn(h, H)
  PROVE  PrefixIn(h, J)
BY DEF PrefixIn

-----------------------------------------------------------------------------
(***************************************************************************)
(* The inductive invariant.                                                *)
(***************************************************************************)
Leaders == {propTh[p] : p \in {q \in Proposers : Elected(q)}}

\* Histories are built from those of earlier leaders, and go up.
LeaderInv ==
    \A p \in Proposers : Elected(p) => PrefixIn(propTh[p], Leaders) /\ Ordered(propTh[p])

\* A safekeeper's history is built from those of leaders that it knows the terms
\* of, and its WAL is what the history says.
WalOK(s) ==
    /\ PrefixIn(th[s], Leaders)
    /\ \A i \in 1..Len(th[s]) : th[s][i].term <= term[s]
    /\ tlStart[s] = 0 => wal[s] = << >>
    /\ Agrees(wal[s], th[s])

WalInv == \A s \in Safekeepers : WalOK(s)

\* As long as its term is that of p, s has adopted the history of p.
Joined(p, s) ==
    /\ term[s] >= propTerm[p]
    /\ term[s] = propTerm[p] => th[s] = propTh[p]

(***************************************************************************)
(* ProposerElected keeps only WAL of the leader; AppendRequest carries WAL *)
(* of the leader; and what is left to flush comes from a leader whose      *)
(* history has been adopted.                                               *)
(***************************************************************************)
MsgOK(p, s, m) ==
    /\ m.type = "elected" =>
          /\ Elected(p) /\ term[s] >= propTerm[p]
          /\ term[s] = propTerm[p] => AgreesTo(wal[s], propTh[p], m.start)
    /\ m.type = "append" =>
          /\ Elected(p)
          /\ \A k \in 1..Len(m.entries) :
                m.entries[k] = TermOfRecord(propTh[p], m.begin + k - 1)
    /\ m.type = "flush" => Elected(p) /\ Joined(p, s)

MsgInv ==
    \A p \in Proposers, s \in Safekeepers, c \in Channels :
        \A i \in 1..Len(net[p][s][c]) : MsgOK(p, s, net[p][s][c][i])

HasElected(q) == \E i \in 1..Len(q) : q[i].type = "elected"

\* No AppendRequest comes before the ProposerElected of its connection.
QueueOrdered(q, joined) ==
    \A i \in 1..Len(q) : q[i].type = "append" =>
        joined \/ \E j \in 1..(i - 1) : q[j].type = "elected"

OrderOK(p, s) ==
    /\ \A c \in Channels : QueueOrdered(net[p][s][c], Joined(p, s))
    /\ conn[p][s] = "active" /\ link[p][s] => Joined(p, s) \/ HasElected(net[p][s]["cur"])

OrderInv == \A p \in Proposers, s \in Safekeepers : OrderOK(p, s)

NoOther(p) == \A q \in Proposers : Elected(q) /\ propTerm[q] = propTerm[p] => q = p

(***************************************************************************)
(* What a vote says of a safekeeper stays true while the safekeeper keeps  *)
(* the term, except that it may lose WAL again and may adopt the history   *)
(* of the very proposer.  A vote for p is worth nothing when another       *)
(* proposer has been elected in the same term.                             *)
(***************************************************************************)
SnapOK(p, s, h, f) ==
    /\ nConnected[p] >= QuorumSize
    /\ PrefixIn(h, Leaders)
    /\ \A i \in 1..Len(h) : h[i].term <= propTerm[p] /\ h[i].lsn <= f
    /\ term[s] >= propTerm[p]
    /\ NoOther(p) /\ term[s] = propTerm[p] /\ ~(Elected(p) /\ th[s] = propTh[p]) =>
          StartLsn + Len(wal[s]) <= MaxOf(f, StartLsn) /\ Agrees(wal[s], h)

Below(h, t) == \A i \in 1..Len(h) : h[i].term < t

VoteOK(p, s, v) == SnapOK(p, s, v.th, v.flush) /\ Below(v.th, propTerm[p])

\* A reply is the vote of a safekeeper or, unless it tells of a higher term, the
\* acknowledgement of one that has adopted the history of p.
ReplyOK(p, s, r) ==
    /\ r.type = "vote" =>
          /\ nConnected[p] >= QuorumSize
          /\ r.given => r.term = propTerm[p] /\ Below(r.th, propTerm[p])
          /\ r.term <= propTerm[p] => SnapOK(p, s, r.th, r.flush)
    /\ r.type = "append" =>
          /\ Elected(p)
          /\ r.term <= propTerm[p] => Joined(p, s) /\ r.term = propTerm[p]

SnapInv ==
    \A p \in Proposers, s \in Safekeepers :
        /\ conn[p][s] = "idle" => VoteOK(p, s, vote[p][s])
        /\ ReplyOK(p, s, rep[p][s])

\* The WAL that a donor has is what its leader recovers from it.
DonorOK(p, d) ==
    /\ Elected(p) /\ term[d] >= propTerm[p]
    /\ term[d] = propTerm[p] /\ th[d] # propTh[p] =>
          StartLsn + Len(wal[d]) <= PropEpochStartLsn(p) /\ Agrees(wal[d], propTh[p])

DonorInv == \A p \in Proposers : \A d \in donor[p] : DonorOK(p, d)

\* Whoever has acknowledged WAL to a leader has adopted its history.
AckJoined ==
    \A p \in Proposers, s \in Safekeepers : ackFlush[p][s] > 0 => Elected(p) /\ Joined(p, s)

HistoryInv ==
    LeaderInv /\ WalInv /\ MsgInv /\ OrderInv /\ SnapInv /\ DonorInv /\ AckJoined

-----------------------------------------------------------------------------
(***************************************************************************)
(* What all steps have in common.  The term of a safekeeper goes up.  It   *)
(* keeps its history and may lose WAL, or it follows the leader of its new *)
(* term.  A leader keeps its term and its history.                         *)
(***************************************************************************)
Evolves(s) ==
    /\ term'[s] >= term[s]
    /\ \/ /\ th'[s] = th[s] /\ Len(wal'[s]) <= Len(wal[s])
          /\ \A i \in 1..Len(wal'[s]) : wal'[s][i] = wal[s][i]
       \/ \E p \in Proposers : Elected(p) /\ term'[s] = propTerm[p] /\ th'[s] = propTh[p]

LeaderKept(p) ==
    /\ Elected(p) => propTh'[p] = propTh[p]
    /\ nConnected[p] >= QuorumSize => propTerm'[p] = propTerm[p] /\ nConnected'[p] >= QuorumSize

Progress ==
    /\ TypeInv /\ TypeInv' /\ ElectionSafety
    /\ \A s \in Safekeepers : Evolves(s)
    /\ \A p \in Proposers : LeaderKept(p)

LEMMA StateTypes ==
  ASSUME TypeInv, NEW s \in Safekeepers, NEW p \in Proposers
  PROVE  /\ term[s] \in Nat /\ propTerm[p] \in Nat /\ nConnected[p] \in Nat
         /\ th[s] \in Seq(TermLsn) /\ propTh[p] \in Seq(TermLsn)
         /\ wal[s] \in Seq(Nat) /\ flushed[s] \in Nat /\ commit[s] \in Nat
         /\ Elected(p) => nConnected[p] >= QuorumSize
BY DEF TypeInv, TypeOK, SafekeeperTypeOK, ProposerTypeOK, ProposerInv

LEMMA NextTypes ==
  ASSUME TypeInv', NEW s \in Safekeepers, NEW p \in Proposers
  PROVE  /\ term'[s] \in Nat /\ propTerm'[p] \in Nat /\ nConnected'[p] \in Nat
         /\ th'[s] \in Seq(TermLsn) /\ propTh'[p] \in Seq(TermLsn)
         /\ wal'[s] \in Seq(Nat) /\ flushed'[s] \in Nat /\ commit'[s] \in Nat
BY DEF TypeInv, TypeOK, SafekeeperTypeOK, ProposerTypeOK

LEMMA LeaderStays ==
  ASSUME Progress, NEW p \in Proposers, Elected(p)
  PROVE  /\ Elected(p)' /\ propTh'[p] = propTh[p] /\ propTerm'[p] = propTerm[p]
         /\ PropEpochStartLsn(p)' = PropEpochStartLsn(p)
<1>1. nConnected[p] >= QuorumSize
  BY DEF Progress, TypeInv, ProposerInv
<1>. QED  BY <1>1 DEF Progress, LeaderKept, Elected, PropEpochStartLsn

LEMMA LeadersGrow ==
  ASSUME Progress
  PROVE  Leaders \subseteq Leaders'
BY LeaderStays DEF Leaders

\* There is one history per term, by election safety.
LEMMA LeadersAre ==
  ASSUME TypeInv, ElectionSafety
  PROVE  LeaderHistories(Leaders)
<1>1. ASSUME NEW p \in Proposers, Elected(p)
      PROVE  propTh[p] \in Seq(TermLsn) /\ propTh[p] # << >> /\ propTh[p][Len(propTh[p])].term = propTerm[p]
  BY <1>1 DEF TypeInv, TypeOK, ProposerTypeOK, ProposerInv, Elected
<1>. QED  BY <1>1 DEF LeaderHistories, Leaders, ElectionSafety

LEMMA JoinedStays ==
  ASSUME Progress, NEW p \in Proposers, NEW s \in Safekeepers, Elected(p), Joined(p, s)
  PROVE  Joined(p, s)'
<1>1. propTh'[p] = propTh[p] /\ propTerm'[p] = propTerm[p]
  BY LeaderStays
<1>2. term[s] \in Nat /\ propTerm[p] \in Nat /\ term'[s] \in Nat
  BY StateTypes, NextTypes DEF Progress
<1>3. term'[s] >= term[s] /\ Evolves(s)
  BY DEF Progress, Evolves
<1>4. ASSUME term'[s] = propTerm[p] PROVE th'[s] = propTh[p]
  <2>1. th[s] = propTh[p]
    BY <1>2, <1>3, <1>4 DEF Joined
  <2>2. ASSUME NEW q \in Proposers, Elected(q), term'[s] = propTerm[q] PROVE q = p
    BY <1>4, <2>2 DEF Progress, ElectionSafety
  <2>. QED  BY <1>3, <2>1, <2>2 DEF Evolves
<1>. QED  BY <1>1, <1>2, <1>3, <1>4 DEF Joined

\* What is said of a safekeeper's WAL when the WAL gets shorter.
LEMMA ShorterAgrees ==
  ASSUME NEW w, NEW u, Len(w) \in Nat, Len(u) \in Nat, Len(u) <= Len(w),
         \A i \in 1..Len(u) : u[i] = w[i], NEW h
  PROVE  /\ Agrees(w, h) => Agrees(u, h)
         /\ \A lsn \in Nat : AgreesTo(w, h, lsn) => AgreesTo(u, h, lsn)
<1>1. \A i \in 1..Len(u) : i \in 1..Len(w)
  OBVIOUS
<1>. QED  BY <1>1 DEF Agrees, AgreesTo

\* A safekeeper whose term is that of a leader keeps its history or has the
\* leader's.
LEMMA EvolvesUnder ==
  ASSUME Progress, NEW p \in Proposers, NEW s \in Safekeepers, NoOther(p),
         term[s] >= propTerm[p], term'[s] = propTerm[p]
  PROVE  /\ term[s] = propTerm[p]
         /\ \/ /\ th'[s] = th[s] /\ Len(wal'[s]) <= Len(wal[s])
               /\ \A i \in 1..Len(wal'[s]) : wal'[s][i] = wal[s][i]
            \/ Elected(p) /\ th'[s] = propTh[p]
<1>1. term[s] \in Nat /\ propTerm[p] \in Nat /\ term'[s] \in Nat
  BY StateTypes, NextTypes DEF Progress
<1>2. term'[s] >= term[s] /\ Evolves(s)
  BY DEF Progress, Evolves
<1>3. ASSUME NEW q \in Proposers, Elected(q), term'[s] = propTerm[q] PROVE q = p
  BY <1>3 DEF NoOther
<1>. QED  BY <1>1, <1>2, <1>3 DEF Evolves

LEMMA LeaderAlone ==
  ASSUME ElectionSafety, NEW p \in Proposers, Elected(p)
  PROVE  NoOther(p)
BY DEF ElectionSafety, NoOther

LEMMA MsgStays ==
  ASSUME Progress, WalInv', NEW p \in Proposers, NEW s \in Safekeepers, NEW m \in Messages,
         MsgOK(p, s, m)
  PROVE  MsgOK(p, s, m)'
<1>1. ASSUME Elected(p)
      PROVE  Elected(p)' /\ propTh'[p] = propTh[p] /\ propTerm'[p] = propTerm[p]
  BY <1>1, LeaderStays
<1>2. CASE m.type = "elected"
  <2>1. Elected(p) /\ term[s] >= propTerm[p] /\ m.start \in Nat
        /\ (term[s] = propTerm[p] => AgreesTo(wal[s], propTh[p], m.start))
    BY <1>2 DEF MsgOK, Messages
  <2>2. term'[s] >= propTerm[p]
    <3>1. term'[s] >= term[s] /\ term[s] \in Nat /\ propTerm[p] \in Nat /\ term'[s] \in Nat
      BY StateTypes, NextTypes DEF Progress, Evolves
    <3>. QED  BY <2>1, <3>1
  <2>3. ASSUME term'[s] = propTerm[p] PROVE AgreesTo(wal'[s], propTh[p], m.start)
    <3>1. NoOther(p)
      BY <2>1, LeaderAlone DEF Progress
    <3>2. /\ term[s] = propTerm[p]
          /\ \/ /\ th'[s] = th[s] /\ Len(wal'[s]) <= Len(wal[s])
                /\ \A i \in 1..Len(wal'[s]) : wal'[s][i] = wal[s][i]
             \/ th'[s] = propTh[p]
      BY <2>1, <2>3, <3>1, EvolvesUnder
    <3>3. CASE th'[s] = propTh[p]
      <4>1. Agrees(wal'[s], th'[s])
        BY DEF WalInv, WalOK
      <4>. QED  BY <3>3, <4>1 DEF Agrees, AgreesTo
    <3>4. CASE Len(wal'[s]) <= Len(wal[s]) /\ \A i \in 1..Len(wal'[s]) : wal'[s][i] = wal[s][i]
      <4>1. Len(wal[s]) \in Nat /\ Len(wal'[s]) \in Nat
        BY StateTypes, NextTypes DEF Progress
      <4>. QED  BY <2>1, <3>2, <3>4, <4>1, ShorterAgrees
    <3>. QED  BY <3>2, <3>3, <3>4
  <2>. QED  BY <1>1, <1>2, <2>1, <2>2, <2>3 DEF MsgOK
<1>3. CASE m.type = "append"
  BY <1>1, <1>3 DEF MsgOK
<1>4. CASE m.type = "flush"
  BY <1>1, <1>4, JoinedStays DEF MsgOK
<1>5. CASE m.type \notin {"elected", "append", "flush"}
  BY <1>5 DEF MsgOK
<1>. QED  BY <1>2, <1>3, <1>4, <1>5

LEMMA SnapStays ==
  ASSUME Progress, NEW p \in Proposers, NEW s \in Safekeepers, NEW h, NEW f \in Nat,
         SnapOK(p, s, h, f)
  PROVE  SnapOK(p, s, h, f)' /\ propTerm'[p] = propTerm[p]
<1>1. /\ nConnected[p] >= QuorumSize /\ nConnected'[p] >= QuorumSize
      /\ propTerm'[p] = propTerm[p]
  BY DEF SnapOK, Progress, LeaderKept
<1>2. term'[s] >= propTerm[p] /\ term[s] >= propTerm[p]
  <2>1. term'[s] >= term[s] /\ term[s] \in Nat /\ propTerm[p] \in Nat /\ term'[s] \in Nat
    BY StateTypes, NextTypes DEF Progress, Evolves
  <2>. QED  BY <2>1 DEF SnapOK
<1>3. PrefixIn(h, Leaders')
  BY LeadersGrow, PrefixGrows DEF SnapOK
<1>4. ASSUME NoOther(p)', term'[s] = propTerm[p], ~(Elected(p)' /\ th'[s] = propTh'[p])
      PROVE  StartLsn + Len(wal'[s]) <= MaxOf(f, StartLsn) /\ Agrees(wal'[s], h)
  <2>1. NoOther(p)
    <3>1. ASSUME NEW q \in Proposers, Elected(q), propTerm[q] = propTerm[p]
          PROVE  Elected(q)' /\ propTerm'[q] = propTerm'[p]
      BY <1>1, <3>1, LeaderStays
    <3>. QED  BY <1>4, <3>1 DEF NoOther
  <2>2. Elected(p) => Elected(p)' /\ propTh'[p] = propTh[p]
    BY LeaderStays
  <2>3. /\ term[s] = propTerm[p] /\ ~(Elected(p) /\ th[s] = propTh[p])
        /\ Len(wal'[s]) <= Len(wal[s])
        /\ \A i \in 1..Len(wal'[s]) : wal'[s][i] = wal[s][i]
    BY <1>2, <1>4, <2>1, <2>2, EvolvesUnder
  <2>4. StartLsn + Len(wal[s]) <= MaxOf(f, StartLsn) /\ Agrees(wal[s], h)
    BY <2>1, <2>3 DEF SnapOK
  <2>5. Len(wal[s]) \in Nat /\ Len(wal'[s]) \in Nat
    BY StateTypes, NextTypes DEF Progress
  <2>6. Agrees(wal'[s], h)
    BY <2>3, <2>4, <2>5, ShorterAgrees
  <2>. QED  BY <2>3, <2>4, <2>5, <2>6 DEF StartLsn, MaxOf
<1>. QED  BY <1>1, <1>2, <1>3, <1>4 DEF SnapOK

LEMMA ReplyStays ==
  ASSUME Progress, NEW p \in Proposers, NEW s \in Safekeepers, NEW r \in Replies,
         ReplyOK(p, s, r)
  PROVE  ReplyOK(p, s, r)'
<1>1. CASE r.type = "vote"
  <2>1. /\ nConnected[p] >= QuorumSize /\ nConnected'[p] >= QuorumSize
        /\ propTerm'[p] = propTerm[p] /\ r.flush \in Nat
    BY <1>1 DEF ReplyOK, Progress, LeaderKept, Replies, NoReply
  <2>2. r.term <= propTerm[p] => SnapOK(p, s, r.th, r.flush)'
    BY <1>1, <2>1, SnapStays DEF ReplyOK
  <2>. QED  BY <1>1, <2>1, <2>2 DEF ReplyOK
<1>2. CASE r.type = "append"
  BY <1>2, LeaderStays, JoinedStays DEF ReplyOK
<1>3. CASE r.type \notin {"vote", "append"}
  BY <1>3 DEF ReplyOK
<1>. QED  BY <1>1, <1>2, <1>3

LEMMA EpochStartType ==
  ASSUME TypeInv, NEW p \in Proposers, Elected(p)
  PROVE  PropEpochStartLsn(p) \in Nat /\ PropEpochStartLsn(p) >= StartLsn
<1>1. propTh[p] \in Seq(TermLsn) /\ propTh[p] # << >>
  BY DEF TypeInv, TypeOK, ProposerTypeOK, Elected
<1>2. Len(propTh[p]) \in 1..Len(propTh[p])
  BY <1>1
<1>. QED  BY <1>1, <1>2, EntryType DEF PropEpochStartLsn

LEMMA DonorStays ==
  ASSUME Progress, NEW p \in Proposers, NEW d \in Safekeepers, DonorOK(p, d)
  PROVE  DonorOK(p, d)'
<1>1. /\ Elected(p) /\ Elected(p)' /\ propTh'[p] = propTh[p] /\ propTerm'[p] = propTerm[p]
      /\ PropEpochStartLsn(p)' = PropEpochStartLsn(p)
  BY LeaderStays DEF DonorOK
<1>2. term'[d] >= propTerm[p] /\ term[d] >= propTerm[p]
  <2>1. term'[d] >= term[d] /\ term[d] \in Nat /\ propTerm[p] \in Nat /\ term'[d] \in Nat
    BY StateTypes, NextTypes DEF Progress, Evolves
  <2>. QED  BY <2>1 DEF DonorOK
<1>3. ASSUME term'[d] = propTerm[p], th'[d] # propTh[p]
      PROVE  StartLsn + Len(wal'[d]) <= PropEpochStartLsn(p) /\ Agrees(wal'[d], propTh[p])
  <2>1. NoOther(p)
    BY <1>1, LeaderAlone DEF Progress
  <2>2. /\ term[d] = propTerm[p] /\ th[d] # propTh[p]
        /\ Len(wal'[d]) <= Len(wal[d])
        /\ \A i \in 1..Len(wal'[d]) : wal'[d][i] = wal[d][i]
    BY <1>2, <1>3, <2>1, EvolvesUnder
  <2>3. StartLsn + Len(wal[d]) <= PropEpochStartLsn(p) /\ Agrees(wal[d], propTh[p])
    BY <2>2 DEF DonorOK
  <2>4. Len(wal[d]) \in Nat /\ Len(wal'[d]) \in Nat /\ PropEpochStartLsn(p) \in Nat
    BY <1>1, EpochStartType, StateTypes, NextTypes DEF Progress
  <2>5. Agrees(wal'[d], propTh[p])
    BY <2>2, <2>3, <2>4, ShorterAgrees
  <2>. QED  BY <2>2, <2>3, <2>4, <2>5 DEF StartLsn
<1>. QED  BY <1>1, <1>2, <1>3 DEF DonorOK

-----------------------------------------------------------------------------
(***************************************************************************)
(* Steps that send no message but proper ones, and record nothing but      *)
(* proper votes, donors and acknowledgements, preserve HistoryInv.         *)
(***************************************************************************)
MsgStep ==
    \A p \in Proposers, s \in Safekeepers, c \in Channels :
        \A i \in 1..Len(net'[p][s][c]) :
            \/ MsgOK(p, s, net[p][s][c][i])'
            \/ \E k \in Channels : \E j \in 1..Len(net[p][s][k]) :
                  net'[p][s][c][i] = net[p][s][k][j]

VoteStep ==
    \A p \in Proposers, s \in Safekeepers :
        /\ conn'[p][s] = "idle" =>
              \/ conn[p][s] = "idle" /\ vote'[p][s] = vote[p][s]
              \/ VoteOK(p, s, vote[p][s])'
        /\ rep'[p][s] = rep[p][s] \/ ReplyOK(p, s, rep[p][s])'

AckStep ==
    /\ \A p \in Proposers : \A d \in donor'[p] : d \in donor[p] \/ DonorOK(p, d)'
    /\ \A p \in Proposers, s \in Safekeepers :
          \/ ackFlush'[p][s] = ackFlush[p][s]
          \/ Elected(p)' /\ Joined(p, s)'

LEMMA MessageType ==
  ASSUME TypeInv, NEW p \in Proposers, NEW s \in Safekeepers, NEW c \in Channels
  PROVE  /\ net[p][s][c] \in Seq(Messages)
         /\ \A i \in 1..Len(net[p][s][c]) : net[p][s][c][i] \in Messages
<1>1. net[p][s][c] \in Seq(Messages)
  BY DEF TypeInv, TypeOK, LinkTypeOK
<1>. QED  BY <1>1

LEMMA VoteTypes ==
  ASSUME TypeInv, NEW p \in Proposers, NEW s \in Safekeepers
  PROVE  /\ vote[p][s] \in Votes /\ vote[p][s].flush \in Nat /\ vote[p][s].th \in Seq(TermLsn)
         /\ rep[p][s] \in Replies
         /\ rep[p][s].type = "vote" => rep[p][s].flush \in Nat /\ rep[p][s].th \in Seq(TermLsn)
<1>1. vote[p][s] \in Votes /\ rep[p][s] \in Replies
  BY DEF TypeInv, TypeOK, ProposerTypeOK, LinkTypeOK
<1>2. ASSUME NEW r \in Replies, r.type = "vote" PROVE r.flush \in Nat /\ r.th \in Seq(TermLsn)
  BY <1>2 DEF Replies, NoReply
<1>. QED  BY <1>1, <1>2 DEF Votes

LEMMA HistoryStep ==
  ASSUME Progress, HistoryInv, LeaderInv', WalInv', OrderInv', MsgStep, VoteStep, AckStep
  PROVE  HistoryInv'
<1>1. MsgInv'
  <2>1. SUFFICES ASSUME NEW p \in Proposers, NEW s \in Safekeepers, NEW c \in Channels,
                        NEW i \in 1..Len(net'[p][s][c])
                 PROVE  MsgOK(p, s, net[p][s][c][i])'
    BY DEF MsgInv
  <2>2. ASSUME NEW k \in Channels, NEW j \in 1..Len(net[p][s][k]),
               net'[p][s][c][i] = net[p][s][k][j]
        PROVE  MsgOK(p, s, net[p][s][c][i])'
    <3>1. net[p][s][k][j] \in Messages /\ MsgOK(p, s, net[p][s][k][j])
      BY MessageType DEF Progress, HistoryInv, MsgInv
    <3>2. ASSUME NEW m \in Messages, MsgOK(p, s, m) PROVE MsgOK(p, s, m)'
      BY <3>2, MsgStays
    <3>. QED  BY <2>2, <3>1, <3>2
  <2>. QED  BY <2>2 DEF MsgStep
<1>2. SnapInv'
  <2>1. SUFFICES ASSUME NEW p \in Proposers, NEW s \in Safekeepers
                 PROVE  /\ conn'[p][s] = "idle" => VoteOK(p, s, vote[p][s])'
                        /\ ReplyOK(p, s, rep[p][s])'
    BY DEF SnapInv
  <2>2. /\ conn[p][s] = "idle" => VoteOK(p, s, vote[p][s])
        /\ ReplyOK(p, s, rep[p][s])
    BY DEF HistoryInv, SnapInv
  <2>3. ASSUME conn[p][s] = "idle", vote'[p][s] = vote[p][s]
        PROVE  VoteOK(p, s, vote[p][s])'
    <3>1. SnapOK(p, s, vote[p][s].th, vote[p][s].flush) /\ vote[p][s].flush \in Nat
      BY <2>2, <2>3, VoteTypes DEF VoteOK, Progress
    <3>2. ASSUME NEW h, NEW f \in Nat, SnapOK(p, s, h, f)
          PROVE  SnapOK(p, s, h, f)' /\ propTerm'[p] = propTerm[p]
      BY <3>2, SnapStays
    <3>. QED  BY <2>2, <2>3, <3>1, <3>2 DEF VoteOK
  <2>4. ASSUME rep'[p][s] = rep[p][s] PROVE ReplyOK(p, s, rep[p][s])'
    <3>1. rep[p][s] \in Replies
      BY VoteTypes DEF Progress
    <3>2. ASSUME NEW r \in Replies, ReplyOK(p, s, r) PROVE ReplyOK(p, s, r)'
      BY <3>2, ReplyStays
    <3>. QED  BY <2>2, <2>4, <3>1, <3>2
  <2>. QED  BY <2>3, <2>4 DEF VoteStep
<1>3. DonorInv'
  <2>1. SUFFICES ASSUME NEW p \in Proposers, NEW d \in donor'[p] PROVE DonorOK(p, d)'
    BY DEF DonorInv
  <2>2. ASSUME d \in donor[p] PROVE DonorOK(p, d)'
    <3>1. d \in Safekeepers /\ DonorOK(p, d)
      BY <2>2 DEF Progress, TypeInv, TypeOK, ProposerTypeOK, HistoryInv, DonorInv
    <3>. QED  BY <3>1, DonorStays
  <2>. QED  BY <2>2 DEF AckStep
<1>4. AckJoined'
  <2>1. SUFFICES ASSUME NEW p \in Proposers, NEW s \in Safekeepers, ackFlush'[p][s] > 0,
                        ackFlush'[p][s] = ackFlush[p][s]
                 PROVE  Elected(p)' /\ Joined(p, s)'
    BY DEF AckJoined, AckStep
  <2>2. Elected(p) /\ Joined(p, s)
    BY <2>1 DEF HistoryInv, AckJoined
  <2>. QED  BY <2>2, LeaderStays, JoinedStays
<1>. QED  BY <1>1, <1>2, <1>3, <1>4 DEF HistoryInv

-----------------------------------------------------------------------------
\* Queues.
LEMMA QueueStays ==
  ASSUME Progress, NEW p \in Proposers, NEW s \in Safekeepers, NEW q,
         \A i \in 1..Len(q) : q[i].type = "append" => Elected(p),
         QueueOrdered(q, Joined(p, s))
  PROVE  QueueOrdered(q, Joined(p, s)')
BY JoinedStays DEF QueueOrdered

LEMMA OrderedWhenJoined ==
  ASSUME NEW q, NEW joined, joined
  PROVE  QueueOrdered(q, joined)
BY DEF QueueOrdered

LEMMA OrderedTail ==
  ASSUME NEW q \in Seq(Messages), q # << >>, NEW joined, QueueOrdered(q, joined),
         Head(q).type # "elected"
  PROVE  QueueOrdered(Tail(q), joined) /\ (HasElected(q) => HasElected(Tail(q)))
<1>1. /\ Len(Tail(q)) = Len(q) - 1 /\ Len(q) \in Nat /\ Head(q) = q[1]
      /\ \A i \in 1..Len(Tail(q)) : Tail(q)[i] = q[i + 1]
  BY HeadTailProperties
<1>. DEFINE r == Tail(q)
<1>. HIDE DEF r
<1>2. ASSUME NEW i \in 1..Len(r), r[i].type = "append", ~joined
      PROVE  \E j \in 1..(i - 1) : r[j].type = "elected"
  <2>1. i + 1 \in 1..Len(q) /\ q[i + 1].type = "append"
    BY <1>1, <1>2 DEF r
  <2>2. PICK j \in 1..(i + 1 - 1) : q[j].type = "elected"
    BY <1>2, <2>1 DEF QueueOrdered
  <2>3. j # 1
    BY <1>1, <2>2
  <2>4. j - 1 \in 1..(i - 1) /\ r[j - 1] = q[j]
    BY <1>1, <1>2, <2>2, <2>3 DEF r
  <2>. QED  BY <2>2, <2>4
<1>3. ASSUME NEW i \in 1..Len(q), q[i].type = "elected"
      PROVE  \E j \in 1..Len(r) : r[j].type = "elected"
  <2>1. i # 1
    BY <1>1, <1>3
  <2>2. i - 1 \in 1..Len(r) /\ r[i - 1] = q[i]
    BY <1>1, <2>1 DEF r
  <2>. QED  BY <1>3, <2>2
<1>. QED  BY <1>2, <1>3 DEF QueueOrdered, HasElected, r

LEMMA OrderedAppend ==
  ASSUME NEW q \in Seq(Messages), NEW m \in Messages, NEW joined, QueueOrdered(q, joined),
         m.type = "append" => joined \/ HasElected(q)
  PROVE  /\ QueueOrdered(Append(q, m), joined)
         /\ HasElected(q) \/ m.type = "elected" => HasElected(Append(q, m))
<1>. DEFINE r == Append(q, m)
<1>1. /\ Len(r) = Len(q) + 1 /\ Len(q) \in Nat /\ r[Len(q) + 1] = m
      /\ \A i \in 1..Len(q) : r[i] = q[i]
  BY AppendProperties
<1>. HIDE DEF r
<1>2. ASSUME NEW i \in 1..Len(r), r[i].type = "append", ~joined
      PROVE  \E j \in 1..(i - 1) : r[j].type = "elected"
  <2>1. CASE i = Len(q) + 1
    <3>1. PICK j \in 1..Len(q) : q[j].type = "elected"
      BY <1>1, <1>2, <2>1 DEF HasElected
    <3>. QED  BY <1>1, <2>1, <3>1
  <2>2. CASE i \in 1..Len(q)
    <3>1. PICK j \in 1..(i - 1) : q[j].type = "elected"
      BY <1>1, <1>2, <2>2 DEF QueueOrdered
    <3>2. j \in 1..Len(q)
      BY <1>1, <2>2
    <3>. QED  BY <1>1, <3>1, <3>2
  <2>. QED  BY <1>1, <2>1, <2>2
<1>3. ASSUME NEW i \in 1..Len(q), q[i].type = "elected"
      PROVE  \E j \in 1..Len(r) : r[j].type = "elected"
  BY <1>1, <1>3
<1>4. ASSUME m.type = "elected" PROVE \E j \in 1..Len(r) : r[j].type = "elected"
  BY <1>1, <1>4
<1>. QED  BY <1>2, <1>3, <1>4 DEF QueueOrdered, HasElected, r

LEMMA EmptyOrdered ==
  ASSUME NEW joined
  PROVE  QueueOrdered(<< >>, joined)
BY DEF QueueOrdered

\* A connection whose queues are as they were.
LEMMA OrderStays ==
  ASSUME Progress, MsgInv, NEW p \in Proposers, NEW s \in Safekeepers, OrderOK(p, s),
         net'[p][s] = net[p][s],
         conn'[p][s] = "active" /\ link'[p][s] => conn[p][s] = "active" /\ link[p][s]
  PROVE  OrderOK(p, s)'
<1>1. ASSUME NEW c \in Channels PROVE QueueOrdered(net[p][s][c], Joined(p, s)')
  <2>1. \A i \in 1..Len(net[p][s][c]) : net[p][s][c][i].type = "append" => Elected(p)
    BY DEF MsgInv, MsgOK
  <2>2. QueueOrdered(net[p][s][c], Joined(p, s))
    BY DEF OrderOK
  <2>. QED  BY <2>1, <2>2, QueueStays
<1>2. ASSUME conn[p][s] = "active", link[p][s]
      PROVE  Joined(p, s)' \/ HasElected(net[p][s]["cur"])
  <2>1. Elected(p)
    BY <1>2 DEF Progress, TypeInv, ConnInv, ConnOK
  <2>. QED  BY <1>2, <2>1, JoinedStays DEF OrderOK
<1>. QED  BY <1>1, <1>2 DEF OrderOK

\* One queue is replaced.
LEMMA OrderStep ==
  ASSUME Progress, MsgInv, OrderInv,
         NEW p \in Proposers, NEW s \in Safekeepers, NEW c \in Channels, NEW q,
         \A x \in Proposers, y \in Safekeepers : x # p \/ y # s => net'[x][y] = net[x][y],
         \A z \in Channels : net'[p][s][z] = IF z = c THEN q ELSE net[p][s][z],
         \A x \in Proposers, y \in Safekeepers :
            conn'[x][y] = "active" /\ link'[x][y] => conn[x][y] = "active" /\ link[x][y],
         QueueOrdered(q, Joined(p, s)'),
         c = "cur" /\ conn[p][s] = "active" /\ link'[p][s] => Joined(p, s)' \/ HasElected(q)
  PROVE  OrderInv'
<1>1. ASSUME NEW x \in Proposers, NEW y \in Safekeepers, x # p \/ y # s PROVE OrderOK(x, y)'
  <2>1. net'[x][y] = net[x][y] /\ OrderOK(x, y)
    BY <1>1 DEF OrderInv
  <2>. QED  BY <2>1, OrderStays
<1>2. OrderOK(p, s)'
  <2>1. ASSUME NEW z \in Channels PROVE QueueOrdered(net'[p][s][z], Joined(p, s)')
    <3>1. CASE z = c
      BY <3>1
    <3>2. CASE z # c
      <4>1. \A i \in 1..Len(net[p][s][z]) : net[p][s][z][i].type = "append" => Elected(p)
        BY DEF MsgInv, MsgOK
      <4>2. QueueOrdered(net[p][s][z], Joined(p, s))
        BY DEF OrderInv, OrderOK
      <4>. QED  BY <3>2, <4>1, <4>2, QueueStays
    <3>. QED  BY <3>1, <3>2
  <2>2. ASSUME conn'[p][s] = "active", link'[p][s]
        PROVE  Joined(p, s)' \/ HasElected(net'[p][s]["cur"])
    <3>1. conn[p][s] = "active" /\ link[p][s] /\ "cur" \in Channels
      BY <2>2 DEF Channels
    <3>2. CASE c = "cur"
      BY <2>2, <3>1, <3>2
    <3>3. CASE c # "cur"
      <4>1. Elected(p) /\ OrderOK(p, s)
        BY <3>1 DEF Progress, TypeInv, ConnInv, ConnOK, OrderInv
      <4>. QED  BY <3>1, <3>3, <4>1, JoinedStays DEF OrderOK
    <3>. QED  BY <3>2, <3>3
  <2>. QED  BY <2>1, <2>2 DEF OrderOK
<1>. QED  BY <1>1, <1>2 DEF OrderInv

-----------------------------------------------------------------------------
(***************************************************************************)
(* Steps of safekeepers.                                                   *)
(***************************************************************************)
SameElsewhere(s) ==
    \A y \in Safekeepers : y # s =>
        term'[y] = term[y] /\ th'[y] = th[y] /\ wal'[y] = wal[y] /\ tlStart'[y] = tlStart[y]

\* One queue becomes q: messages are taken from it, a flush may be left behind,
\* or the connection ends.
TakenFrom(p, s, c, q) ==
    /\ net' = [net EXCEPT ![p][s][c] = q]
    /\ \A i \in 1..Len(q) :
          \/ q[i].type = "flush" /\ Elected(p) /\ Joined(p, s)'
          \/ \E j \in 1..Len(net[p][s][c]) : q[i] = net[p][s][c][j]
    /\ \/ q = << >> /\ (c = "cur" => ~link'[p][s])
       \/ Joined(p, s)'
       \/ /\ net[p][s][c] # << >> /\ q = Tail(net[p][s][c])
          /\ Head(net[p][s][c]).type # "elected"
    /\ \A x \in Proposers, y \in Safekeepers : link'[x][y] => link[x][y]

RepliesOK ==
    \A p \in Proposers, s \in Safekeepers :
        rep'[p][s] = rep[p][s] \/ ReplyOK(p, s, rep[p][s])'

LEMMA SafekeeperProgress ==
  ASSUME TypeInv, TypeInv', ElectionInv, UNCHANGED propVars, NEW s \in Safekeepers,
         SameElsewhere(s), Evolves(s)
  PROVE  Progress
<1>1. \A p \in Proposers : LeaderKept(p)
  BY DEF propVars, LeaderKept
<1>2. ASSUME NEW y \in Safekeepers, y # s PROVE Evolves(y)
  <2>1. term'[y] = term[y] /\ th'[y] = th[y] /\ wal'[y] = wal[y]
    BY <1>2 DEF SameElsewhere
  <2>2. term[y] \in Nat /\ Len(wal[y]) \in Nat
    BY DEF TypeInv, TypeOK, SafekeeperTypeOK
  <2>. QED  BY <2>1, <2>2 DEF Evolves
<1>. QED  BY <1>1, <1>2, ElectionInvSafe DEF Progress

LEMMA SafekeeperHistory ==
  ASSUME TypeInv, TypeInv', ElectionInv, HistoryInv, UNCHANGED propVars,
         NEW s \in Safekeepers, SameElsewhere(s), Evolves(s), WalOK(s)',
         OrderInv', MsgStep, RepliesOK
  PROVE  HistoryInv'
<1>1. Progress
  BY SafekeeperProgress
<1>2. /\ UNCHANGED <<propTh, propTerm, conn, vote, donor, ackFlush>>
      /\ Leaders' = Leaders
  BY DEF propVars, Leaders, Elected
<1>3. LeaderInv'
  BY <1>2 DEF HistoryInv, LeaderInv, Elected
<1>4. WalInv'
  <2>1. ASSUME NEW y \in Safekeepers, y # s PROVE WalOK(y)'
    <3>1. WalOK(y)
      BY DEF HistoryInv, WalInv
    <3>. QED  BY <1>2, <2>1, <3>1 DEF SameElsewhere, WalOK
  <2>. QED  BY <2>1 DEF WalInv
<1>5. VoteStep /\ AckStep
  BY <1>2 DEF VoteStep, AckStep, RepliesOK
<1>. QED  BY <1>1, <1>3, <1>4, <1>5, HistoryStep

\* A safekeeper takes a message from one connection, or ends it.
LEMMA SafekeeperQueue ==
  ASSUME TypeInv, TypeInv', ElectionInv, HistoryInv, UNCHANGED propVars,
         NEW p \in Proposers, NEW s \in Safekeepers, NEW c \in Channels, NEW q,
         SameElsewhere(s), Evolves(s), WalOK(s)', TakenFrom(p, s, c, q), RepliesOK
  PROVE  HistoryInv'
<1>1. Progress /\ UNCHANGED <<propTh, conn>> /\ MsgInv /\ OrderInv
  BY SafekeeperProgress DEF propVars, HistoryInv
<1>2. net \in NetType
  BY DEF TypeInv, TypeOK, LinkTypeOK, NetType
<1>3. /\ \A x \in Proposers, y \in Safekeepers : x # p \/ y # s => net'[x][y] = net[x][y]
      /\ \A z \in Channels : net'[p][s][z] = IF z = c THEN q ELSE net[p][s][z]
  BY <1>2 DEF NetType, TakenFrom
<1>4. MsgStep
  <2>1. ASSUME NEW x \in Proposers, NEW y \in Safekeepers, NEW z \in Channels,
               NEW i \in 1..Len(net'[x][y][z])
        PROVE  \/ MsgOK(x, y, net[x][y][z][i])'
               \/ \E k \in Channels : \E j \in 1..Len(net[x][y][k]) :
                     net'[x][y][z][i] = net[x][y][k][j]
    <3>1. CASE x = p /\ y = s /\ z = c
      <4>1. net'[x][y][z] = q /\ i \in 1..Len(q)
        BY <1>3, <2>1, <3>1
      <4>2. CASE q[i].type = "flush" /\ Elected(p) /\ Joined(p, s)'
        BY <1>1, <3>1, <4>1, <4>2 DEF MsgOK, Elected
      <4>3. CASE \E j \in 1..Len(net[p][s][c]) : q[i] = net[p][s][c][j]
        BY <3>1, <4>1, <4>3
      <4>. QED  BY <4>1, <4>2, <4>3 DEF TakenFrom
    <3>2. CASE ~(x = p /\ y = s /\ z = c)
      <4>1. net'[x][y][z] = net[x][y][z]
        BY <1>3, <3>2
      <4>. QED  BY <2>1, <4>1
    <3>. QED  BY <3>1, <3>2
  <2>. QED  BY <2>1 DEF MsgStep
<1>5. /\ QueueOrdered(q, Joined(p, s)')
      /\ c = "cur" /\ conn[p][s] = "active" /\ link'[p][s] => Joined(p, s)' \/ HasElected(q)
  <2>1. CASE q = << >> /\ (c = "cur" => ~link'[p][s])
    BY <2>1, EmptyOrdered
  <2>2. CASE Joined(p, s)'
    BY <2>2, OrderedWhenJoined
  <2>3. CASE /\ net[p][s][c] # << >> /\ q = Tail(net[p][s][c])
             /\ Head(net[p][s][c]).type # "elected"
    <3>1. net[p][s][c] \in Seq(Messages)
      BY MessageType
    <3>2. OrderOK(p, s)
      BY <1>1 DEF OrderInv
    <3>3. QueueOrdered(net[p][s][c], Joined(p, s)')
      <4>1. \A i \in 1..Len(net[p][s][c]) : net[p][s][c][i].type = "append" => Elected(p)
        BY <1>1 DEF MsgInv, MsgOK
      <4>. QED  BY <1>1, <3>2, <4>1, QueueStays DEF OrderOK
    <3>4. /\ QueueOrdered(q, Joined(p, s)')
          /\ HasElected(net[p][s][c]) => HasElected(q)
      BY <2>3, <3>1, <3>3, OrderedTail
    <3>5. ASSUME c = "cur", conn[p][s] = "active", link'[p][s]
          PROVE  Joined(p, s)' \/ HasElected(q)
      <4>1. link[p][s] /\ Elected(p)
        BY <3>5 DEF TypeInv, ConnInv, ConnOK, TakenFrom
      <4>2. Joined(p, s) \/ HasElected(net[p][s][c])
        BY <3>2, <3>5, <4>1 DEF OrderOK
      <4>. QED  BY <1>1, <3>4, <4>1, <4>2, JoinedStays
    <3>. QED  BY <3>4, <3>5
  <2>. QED  BY <2>1, <2>2, <2>3 DEF TakenFrom
<1>6. OrderInv'
  <2>1. \A x \in Proposers, y \in Safekeepers :
            conn'[x][y] = "active" /\ link'[x][y] => conn[x][y] = "active" /\ link[x][y]
    BY <1>1 DEF TakenFrom
  <2>. QED  BY <1>1, <1>3, <1>5, <2>1, OrderStep
<1>. QED  BY <1>4, <1>6, SafekeeperHistory

\* A safekeeper that keeps history and WAL.
LEMMA SameWal ==
  ASSUME TypeInv, HistoryInv, NEW s \in Safekeepers, UNCHANGED <<th, tlStart, wal, propTh>>,
         term'[s] \in Nat, term'[s] >= term[s]
  PROVE  Evolves(s) /\ WalOK(s)'
<1>1. Leaders' = Leaders
  BY DEF Leaders, Elected
<1>2. term[s] \in Nat /\ Len(wal[s]) \in Nat /\ th[s] \in Seq(TermLsn)
  BY DEF TypeInv, TypeOK, SafekeeperTypeOK
<1>3. \A i \in 1..Len(th[s]) : th[s][i].term \in Nat
  BY <1>2, EntryType
<1>4. WalOK(s)
  BY DEF HistoryInv, WalInv
<1>5. \A i \in 1..Len(th[s]) : th[s][i].term <= term'[s]
  BY <1>2, <1>3, <1>4 DEF WalOK
<1>. QED  BY <1>1, <1>2, <1>4, <1>5 DEF Evolves, WalOK

\* The message at the head of a queue, and the queue without it.
LEMMA QueueTail ==
  ASSUME TypeInv, HistoryInv, NEW p \in Proposers, NEW s \in Safekeepers, NEW c \in Channels,
         net[p][s][c] # << >>
  PROVE  /\ Head(net[p][s][c]) \in Messages /\ MsgOK(p, s, Head(net[p][s][c]))
         /\ \A i \in 1..Len(Tail(net[p][s][c])) :
               \E j \in 1..Len(net[p][s][c]) : Tail(net[p][s][c])[i] = net[p][s][c][j]
<1>. DEFINE q == net[p][s][c]
<1>1. q \in Seq(Messages) /\ \A i \in 1..Len(q) : q[i] \in Messages /\ MsgOK(p, s, q[i])
  BY MessageType DEF HistoryInv, MsgInv
<1>. HIDE DEF q
<1>2. /\ Len(Tail(q)) = Len(q) - 1 /\ Len(q) \in Nat /\ Head(q) = q[1] /\ Len(q) >= 1
      /\ \A i \in 1..Len(Tail(q)) : Tail(q)[i] = q[i + 1]
  BY <1>1, HeadTailProperties DEF q
<1>3. \A i \in 1..Len(Tail(q)) : i + 1 \in 1..Len(q)
  BY <1>2
<1>. QED  BY <1>1, <1>2, <1>3 DEF q

(***************************************************************************)
(* handle_vote_request: the vote says what WAL the safekeeper has.         *)
(***************************************************************************)
LEMMA HandleVoteRequestHistory ==
  ASSUME TypeInv, TypeInv', ElectionInv, HistoryInv,
         NEW p \in Proposers, NEW s \in Safekeepers, NEW c \in Channels,
         HandleVoteRequest(p, s, c)
  PROVE  HistoryInv'
<1>f. PICK f : f = MaxOf(WriteLsn(s), tlStart[s])
  OBVIOUS
<1>h. PICK h : h = UpTo(th[s], f)
  OBVIOUS
<1>r. PICK r : r = [type  |-> "vote", given |-> GivesVote(s, propTerm[p]),
                    term  |-> MaxOf(term[s], propTerm[p]), flush |-> f, th |-> h]
  OBVIOUS
<1>1. /\ net[p][s][c] # << >> /\ Head(net[p][s][c]).type = "vote"
      /\ net' = [net EXCEPT ![p][s][c] = Tail(net[p][s][c])] /\ Reply(p, s, c, r)
      /\ term' = [term EXCEPT ![s] = IF GivesVote(s, propTerm[p]) THEN propTerm[p] ELSE @]
      /\ UNCHANGED <<th, tlStart, wal, link>>
      /\ UNCHANGED propVars
  BY <1>f, <1>h, <1>r DEF HandleVoteRequest, HeadIs, Consume, GetTermHistory
<1>2. UNCHANGED <<propTh, propTerm, nConnected>> /\ Leaders' = Leaders
  BY <1>1 DEF propVars, Leaders, Elected
<1>3. /\ term[s] \in Nat /\ propTerm[p] \in Nat /\ th[s] \in Seq(TermLsn)
      /\ wal[s] \in Seq(Nat) /\ tlStart[s] \in {0, StartLsn} /\ term \in [Safekeepers -> Nat]
  BY DEF TypeInv, TypeOK, SafekeeperTypeOK, ProposerTypeOK
<1>4. /\ term'[s] = IF term[s] < propTerm[p] THEN propTerm[p] ELSE term[s]
      /\ term'[s] \in Nat /\ term'[s] >= term[s] /\ term'[s] >= propTerm[p]
  BY <1>1, <1>3 DEF GivesVote
<1>5. SameElsewhere(s)
  BY <1>1, <1>3 DEF SameElsewhere
<1>6. Evolves(s) /\ WalOK(s)'
  BY <1>1, <1>2, <1>4, SameWal
<1>7. f \in Nat /\ StartLsn + Len(wal[s]) <= MaxOf(f, StartLsn)
      /\ \A i \in 1..Len(wal[s]) : StartLsn + i <= f
  <2>1. /\ WriteLsn(s) \in Nat /\ Len(wal[s]) \in Nat
        /\ tlStart[s] # 0 => WriteLsn(s) = StartLsn + Len(wal[s])
        /\ tlStart[s] = 0 => WriteLsn(s) = 0
    BY SafekeeperFacts
  <2>2. tlStart[s] = 0 => Len(wal[s]) = 0
    BY DEF HistoryInv, WalInv, WalOK
  <2>. QED  BY <1>f, <1>3, <2>1, <2>2 DEF MaxOf, StartLsn
<1>8. /\ PrefixIn(h, Leaders) /\ h \in Seq(TermLsn)
      /\ \A i \in 1..Len(h) : h[i].term <= term[s] /\ h[i].lsn <= f /\ h[i].term \in Nat
  <2>1. PrefixIn(th[s], Leaders) /\ \A i \in 1..Len(th[s]) : th[s][i].term <= term[s]
    BY DEF HistoryInv, WalInv, WalOK
  <2>2. /\ h \in Seq(TermLsn) /\ PrefixIn(h, Leaders)
        /\ \A i \in 1..Len(h) : i \in 1..Len(th[s]) /\ h[i] = th[s][i] /\ h[i].lsn <= f
    BY <1>h, <1>3, <1>7, <2>1, UpToPrefix
  <2>3. \A i \in 1..Len(th[s]) : th[s][i].term \in Nat
    BY <1>3, EntryType
  <2>. QED  BY <2>1, <2>2, <2>3
<1>9. Agrees(wal[s], h)
  <2>1. ASSUME NEW i \in 1..Len(wal[s]) PROVE wal[s][i] = TermOfRecord(h, StartLsn + i - 1)
    <3>1. wal[s][i] = TermOfRecord(th[s], StartLsn + i - 1)
      BY DEF HistoryInv, WalInv, WalOK, Agrees
    <3>2. StartLsn + i - 1 \in 0..f
      BY <1>3, <1>7 DEF StartLsn
    <3>. QED  BY <1>3, <1>7, <3>1, <3>2, <1>h, UpToAgrees
  <2>. QED  BY <2>1 DEF Agrees
<1>10. nConnected[p] >= QuorumSize
  <2>1. net[p][s][c] \in Seq(Messages)
    BY MessageType
  <2>2. 1 \in DOMAIN net[p][s][c] /\ net[p][s][c][1].type = "vote"
    BY <1>1, <2>1
  <2>. QED  BY <2>2 DEF ElectionInv, RequestInv
<1>11. term[s] <= propTerm[p] => SnapOK(p, s, h, f)'
  <2>1. ASSUME term[s] <= propTerm[p] PROVE \A i \in 1..Len(h) : h[i].term <= propTerm[p]
    BY <1>3, <1>8, <2>1
  <2>. QED  BY <1>1, <1>2, <1>4, <1>7, <1>8, <1>9, <1>10, <2>1 DEF SnapOK
<1>12. ReplyOK(p, s, r)'
  <2>1. /\ r.type = "vote" /\ r.given = GivesVote(s, propTerm[p])
        /\ r.term = MaxOf(term[s], propTerm[p]) /\ r.flush = f /\ r.th = h
    BY <1>r
  <2>2. ASSUME r.given PROVE r.term = propTerm[p] /\ Below(h, propTerm[p])
    <3>1. term[s] < propTerm[p]
      BY <2>1, <2>2 DEF GivesVote
    <3>2. \A i \in 1..Len(h) : h[i].term < propTerm[p]
      BY <1>3, <1>8, <3>1
    <3>3. r.term = propTerm[p]
      BY <1>3, <2>1, <3>1 DEF MaxOf
    <3>. QED  BY <3>2, <3>3 DEF Below
  <2>3. r.term <= propTerm[p] => term[s] <= propTerm[p]
    BY <1>3, <2>1 DEF MaxOf
  <2>. QED  BY <1>2, <1>10, <1>11, <2>1, <2>2, <2>3 DEF ReplyOK
<1>13. RepliesOK
  <2>1. rep \in [Proposers -> [Safekeepers -> Replies]]
    BY DEF TypeInv, TypeOK, LinkTypeOK
  <2>2. \A x \in Proposers, y \in Safekeepers :
            rep'[x][y] = rep[x][y] \/ (x = p /\ y = s /\ rep'[x][y] = r)
    BY <1>1, <2>1 DEF Reply
  <2>. QED  BY <1>12, <2>2 DEF RepliesOK
<1>14. TakenFrom(p, s, c, Tail(net[p][s][c]))
  BY <1>1, QueueTail DEF TakenFrom
<1>. QED  BY <1>1, <1>5, <1>6, <1>13, <1>14, SafekeeperQueue

\* A leader's terms end with its own.
LEMMA LeaderTerms ==
  ASSUME TypeInv, LeaderInv, NEW p \in Proposers, Elected(p)
  PROVE  /\ propTh[p] \in Seq(TermLsn) /\ propTh[p] # << >> /\ Len(propTh[p]) \in 1..Len(propTh[p])
         /\ propTh[p][Len(propTh[p])].term = propTerm[p] /\ propTh[p][1].lsn = StartLsn
         /\ PrefixIn(propTh[p], Leaders) /\ Ordered(propTh[p])
         /\ \A i \in 1..Len(propTh[p]) : propTh[p][i].term <= propTerm[p]
<1>1. /\ propTh[p] \in Seq(TermLsn) /\ propTh[p] # << >>
      /\ propTh[p][Len(propTh[p])].term = propTerm[p] /\ propTh[p][1].lsn = StartLsn
  BY DEF TypeInv, TypeOK, ProposerTypeOK, ProposerInv, Elected
<1>2. Len(propTh[p]) \in 1..Len(propTh[p])
  BY <1>1
<1>3. PrefixIn(propTh[p], Leaders) /\ Ordered(propTh[p])
  BY DEF LeaderInv
<1>4. ASSUME NEW i \in 1..Len(propTh[p]) PROVE propTh[p][i].term <= propTerm[p]
  <2>1. i < Len(propTh[p]) => propTh[p][i].term < propTerm[p]
    BY <1>1, <1>2, <1>3 DEF Ordered
  <2>2. propTh[p][i].term \in Nat /\ propTerm[p] \in Nat
    BY <1>1, EntryType DEF TypeInv, TypeOK, ProposerTypeOK
  <2>. QED  BY <1>1, <2>1, <2>2
<1>. QED  BY <1>1, <1>2, <1>3, <1>4

(***************************************************************************)
(* handle_elected: what is left of the WAL after truncation is WAL of the  *)
(* leader.                                                                 *)
(***************************************************************************)
LEMMA HandleElectedHistory ==
  ASSUME TypeInv, TypeInv', ElectionInv, HistoryInv,
         NEW p \in Proposers, NEW s \in Safekeepers, NEW c \in Channels,
         HandleElected(p, s, c)
  PROVE  HistoryInv'
<1> DEFINE start == Head(net[p][s][c]).start
<1>1. /\ net[p][s][c] # << >> /\ Head(net[p][s][c]).type = "elected"
      /\ term' = [term EXCEPT ![s] = MaxOf(term[s], propTerm[p])]
      /\ rep' = rep
      /\ UNCHANGED propVars
  BY DEF HandleElected, HeadIs
<1>2. /\ start \in Nat /\ start >= StartLsn /\ (tlStart[s] = 0 => start = StartLsn)
      /\ MsgOK(p, s, Head(net[p][s][c]))
  BY <1>1, HeadType, QueueTail DEF ElectedMsgOK
<1>3. /\ Elected(p) /\ term[s] >= propTerm[p]
      /\ term[s] = propTerm[p] => AgreesTo(wal[s], propTh[p], start)
  BY <1>1, <1>2 DEF MsgOK
<1>. HIDE DEF start
<1>4. term[s] \in Nat /\ propTerm[p] \in Nat /\ term \in [Safekeepers -> Nat]
  BY DEF TypeInv, TypeOK, SafekeeperTypeOK, ProposerTypeOK
<1>5. term' = term
  BY <1>1, <1>3, <1>4 DEF MaxOf
<1>6. UNCHANGED <<propTh, propTerm>> /\ Leaders' = Leaders /\ RepliesOK
  BY <1>1 DEF propVars, Leaders, Elected, RepliesOK
<1>7. \A i \in 1..Len(Tail(net[p][s][c])) :
         \E j \in 1..Len(net[p][s][c]) : Tail(net[p][s][c])[i] = net[p][s][c][j]
  BY <1>1, QueueTail
<1>8. CASE /\ term[s] > propTerm[p] /\ Consume(p, s, c)
           /\ UNCHANGED <<th, tlStart, pCommit, wal, flushed, commit, epochStartLsn, link>>
  <2>1. Evolves(s) /\ WalOK(s)' /\ SameElsewhere(s)
    BY <1>4, <1>5, <1>6, <1>8, SameWal DEF SameElsewhere
  <2>2. Joined(p, s)'
    BY <1>4, <1>5, <1>6, <1>8 DEF Joined
  <2>3. TakenFrom(p, s, c, Tail(net[p][s][c]))
    BY <1>7, <1>8, <2>2 DEF TakenFrom, Consume
  <2>. QED  BY <1>1, <1>6, <2>1, <2>3, SafekeeperQueue
<1>9. CASE Bail(p, s, c) /\ UNCHANGED <<th, tlStart, wal, flushed, commit, epochStartLsn>>
  <2>1. Evolves(s) /\ WalOK(s)' /\ SameElsewhere(s)
    BY <1>4, <1>5, <1>6, <1>9, SameWal DEF SameElsewhere
  <2>2. TakenFrom(p, s, c, << >>)
    <3>1. link \in [Proposers -> [Safekeepers -> BOOLEAN]]
      BY DEF TypeInv, TypeOK, LinkTypeOK
    <3>. QED  BY <1>9, <3>1 DEF TakenFrom, Bail
  <2>. QED  BY <1>1, <1>6, <2>1, <2>2, SafekeeperQueue
<1>10. CASE /\ term[s] <= propTerm[p] /\ ~TruncateRefused(s, start)
            /\ wal'     = [wal EXCEPT ![s] = Truncated(s, start)]
            /\ tlStart' = [tlStart EXCEPT ![s] = IF @ = 0 THEN StartLsn ELSE @]
            /\ th'      = [th EXCEPT ![s] = propTh[p]]
            /\ Consume(p, s, c)
            /\ UNCHANGED link
  <2>1. /\ th'[s] = propTh[p] /\ wal'[s] = Truncated(s, start) /\ tlStart'[s] # 0
        /\ SameElsewhere(s)
    BY <1>5, <1>10 DEF SameElsewhere, TypeInv, TypeOK, SafekeeperTypeOK, StartLsn
  <2>2. term'[s] = propTerm[p] /\ term[s] = propTerm[p]
    BY <1>3, <1>4, <1>5, <1>10
  <2>3. Evolves(s)
    BY <1>3, <1>4, <1>5, <2>1, <2>2 DEF Evolves
  <2>4. WalOK(s)'
    <3>1. /\ PrefixIn(propTh[p], Leaders)
          /\ \A i \in 1..Len(propTh[p]) : propTh[p][i].term <= propTerm[p]
      BY <1>3, LeaderTerms DEF HistoryInv
    <3>2. Agrees(wal'[s], propTh[p])
      <4>1. Len(wal'[s]) = start - StartLsn /\ wal[s] \in Seq(Nat)
        BY <1>2, <1>10, <2>1, TruncatedType DEF TypeInv, TypeOK, SafekeeperTypeOK
      <4>2. start - StartLsn \in 0..Len(wal[s])
        <5>1. /\ Len(wal[s]) \in Nat
              /\ tlStart[s] # 0 => WriteLsn(s) = StartLsn + Len(wal[s]) /\ WriteLsn(s) >= StartLsn
          BY SafekeeperFacts
        <5>. QED  BY <1>2, <1>10, <5>1 DEF TruncateRefused, StartLsn
      <4>3. \A i \in 1..(start - StartLsn) : wal'[s][i] = wal[s][i]
        BY <2>1, <4>1, <4>2 DEF Truncated
      <4>4. AgreesTo(wal[s], propTh[p], start)
        BY <1>3, <2>2
      <4>5. ASSUME NEW i \in 1..Len(wal'[s])
            PROVE  wal'[s][i] = TermOfRecord(propTh[p], StartLsn + i - 1)
        <5>1. i \in 1..Len(wal[s]) /\ StartLsn + i <= start /\ wal'[s][i] = wal[s][i]
          BY <1>2, <4>1, <4>2, <4>3 DEF StartLsn
        <5>. QED  BY <4>4, <5>1 DEF AgreesTo
      <4>. QED  BY <4>5 DEF Agrees
    <3>. QED  BY <1>6, <2>1, <2>2, <3>1, <3>2 DEF WalOK
  <2>5. Joined(p, s)'
    BY <1>4, <1>6, <2>1, <2>2 DEF Joined
  <2>6. TakenFrom(p, s, c, Tail(net[p][s][c]))
    BY <1>7, <1>10, <2>5 DEF TakenFrom, Consume
  <2>. QED  BY <1>1, <1>6, <2>1, <2>3, <2>4, <2>6, SafekeeperQueue
<1>. QED  BY <1>8, <1>9, <1>10 DEF HandleElected, start

\* The AppendRequest that is processed next comes from a leader that the
\* safekeeper has joined.
LEMMA NextAppendFacts ==
  ASSUME TypeInv, HistoryInv, NEW p \in Proposers, NEW s \in Safekeepers, NEW c \in Channels,
         NextAppend(p, s, c) # << >>, Head(NextAppend(p, s, c)).type = "append"
  PROVE  LET q == NextAppend(p, s, c)
             n == <<[type |-> "flush"]>> \o Tail(q)
         IN  /\ Elected(p) /\ Joined(p, s)
             /\ Head(q) \in Messages /\ MsgOK(p, s, Head(q))
             /\ \A i \in 1..Len(n) :
                   n[i].type = "flush" \/ \E j \in 1..Len(net[p][s][c]) : n[i] = net[p][s][c][j]
<1> DEFINE old == net[p][s][c]
           q == NextAppend(p, s, c)
           n == <<[type |-> "flush"]>> \o Tail(q)
<1>1. old \in Seq(Messages) /\ \A i \in 1..Len(old) : old[i] \in Messages /\ MsgOK(p, s, old[i])
  BY MessageType DEF HistoryInv, MsgInv
<1>2. QueueOrdered(old, Joined(p, s))
  BY DEF HistoryInv, OrderInv, OrderOK
<1>3. \/ q = old
      \/ q = Tail(old) /\ old # << >> /\ Head(old).type = "flush"
  BY DEF NextAppend, HeadIs
<1>. HIDE DEF q, old
<1>4. /\ q \in Seq(Messages) /\ Len(q) >= 1
      /\ \E k \in {0, 1} :
            /\ Len(q) = Len(old) - k /\ \A i \in 1..Len(q) : q[i] = old[i + k]
            /\ k = 1 => old[1].type = "flush"
  <2>1. q # << >>
    BY DEF q
  <2>2. CASE q = old
    BY <1>1, <2>1, <2>2
  <2>3. CASE q = Tail(old) /\ old # << >> /\ Head(old).type = "flush"
    <3>1. /\ q \in Seq(Messages) /\ Len(q) = Len(old) - 1
          /\ \A i \in 1..Len(q) : q[i] = old[i + 1]
      BY <1>1, <2>3, HeadTailProperties
    <3>2. old[1].type = "flush" /\ Len(q) >= 1
      BY <1>1, <2>1, <2>3, <3>1
    <3>3. 1 \in {0, 1}
      OBVIOUS
    <3>. QED  BY <3>1, <3>2, <3>3
  <2>. QED  BY <1>3, <2>2, <2>3
<1>5. PICK k \in {0, 1} :
         /\ Len(q) = Len(old) - k /\ \A i \in 1..Len(q) : q[i] = old[i + k]
         /\ k = 1 => old[1].type = "flush"
  BY <1>4
<1>6. Head(q) = old[1 + k] /\ 1 + k \in 1..Len(old) /\ old[1 + k].type = "append"
  <2>1. Head(q) = q[1] /\ 1 \in 1..Len(q) /\ Len(old) \in Nat
    BY <1>1, <1>4
  <2>2. Head(q) = old[1 + k] /\ 1 + k \in 1..Len(old)
    BY <1>5, <2>1
  <2>. QED  BY <2>2 DEF q
<1>7. Elected(p) /\ Head(q) \in Messages /\ MsgOK(p, s, Head(q))
  BY <1>1, <1>6 DEF MsgOK
<1>8. Joined(p, s)
  <2>1. ASSUME NEW j \in 1..(1 + k - 1), old[j].type = "elected" PROVE FALSE
    <3>1. k = 1 /\ j = 1
      BY <2>1
    <3>. QED  BY <1>5, <2>1, <3>1
  <2>. QED  BY <1>2, <1>6, <2>1 DEF QueueOrdered
<1>9. ASSUME NEW i \in 1..Len(n)
      PROVE  n[i].type = "flush" \/ \E j \in 1..Len(old) : n[i] = old[j]
  <2>1. /\ Tail(q) \in Seq(Messages) /\ Len(Tail(q)) = Len(q) - 1
        /\ \A j \in 1..Len(Tail(q)) : Tail(q)[j] = q[j + 1]
    BY <1>4, HeadTailProperties
  <2>2. <<[type |-> "flush"]>> \in Seq(Messages)
    BY DEF Messages
  <2>3. /\ Len(n) = Len(q) /\ n[1] = [type |-> "flush"]
        /\ \A j \in 2..Len(n) : n[j] = q[j]
    BY <1>4, <2>1, <2>2, ConcatProperties
  <2>. HIDE DEF n
  <2>4. CASE i = 1
    BY <2>3, <2>4
  <2>5. CASE i # 1
    <3>1. i \in 2..Len(n) /\ i \in 1..Len(q)
      BY <1>4, <1>9, <2>3, <2>5
    <3>2. n[i] = old[i + k] /\ i + k \in 1..Len(old)
      BY <1>1, <1>4, <1>5, <2>3, <3>1
    <3>. QED  BY <3>2
  <2>. QED  BY <2>4, <2>5
<1>. QED  BY <1>7, <1>8, <1>9 DEF q, old

(***************************************************************************)
(* handle_append_request writes WAL of the leader behind WAL of the        *)
(* leader.                                                                 *)
(***************************************************************************)
LEMMA HandleAppendRequestHistory ==
  ASSUME TypeInv, TypeInv', ElectionInv, HistoryInv,
         NEW p \in Proposers, NEW s \in Safekeepers, NEW c \in Channels,
         HandleAppendRequest(p, s, c)
  PROVE  HistoryInv'
<1> DEFINE q == NextAppend(p, s, c)
           m == Head(q)
           n == <<[type |-> "flush"]>> \o Tail(q)
<1>r. PICK r : r = [type |-> "append", term |-> term[s], flush |-> 0]
  OBVIOUS
<1>1. q # << >> /\ m.type = "append" /\ UNCHANGED propVars
  BY DEF HandleAppendRequest
<1>2. /\ Elected(p) /\ Joined(p, s) /\ m \in Messages /\ MsgOK(p, s, m)
      /\ \A i \in 1..Len(n) :
            n[i].type = "flush" \/ \E j \in 1..Len(net[p][s][c]) : n[i] = net[p][s][c][j]
  BY <1>1, NextAppendFacts
<1>3. m.entries \in Seq(Nat) /\ m.begin \in Nat
  <2>1. ASSUME NEW x \in Messages, x.type = "append" PROVE x.entries \in Seq(Nat) /\ x.begin \in Nat
    BY <2>1 DEF Messages
  <2>. QED  BY <1>1, <1>2, <2>1
<1>4. \A k \in 1..Len(m.entries) : m.entries[k] = TermOfRecord(propTh[p], m.begin + k - 1)
  BY <1>1, <1>2 DEF MsgOK
<1>5. UNCHANGED <<propTh, propTerm>> /\ Leaders' = Leaders /\ Elected(p)'
  BY <1>1, <1>2 DEF propVars, Leaders, Elected
<1>6. /\ term[s] \in Nat /\ propTerm[p] \in Nat /\ wal[s] \in Seq(Nat)
      /\ wal \in [Safekeepers -> Seq(Nat)]
      /\ rep \in [Proposers -> [Safekeepers -> Replies]]
      /\ link \in [Proposers -> [Safekeepers -> BOOLEAN]]
  BY DEF TypeInv, TypeOK, SafekeeperTypeOK, ProposerTypeOK, LinkTypeOK
<1>. HIDE DEF m, n, q
<1>7. CASE Bail(p, s, c) /\ UNCHANGED <<skVars, rep>>
  <2>1. UNCHANGED <<term, th, tlStart, wal>> /\ RepliesOK
    BY <1>7 DEF skVars, RepliesOK
  <2>2. Evolves(s) /\ WalOK(s)' /\ SameElsewhere(s)
    BY <1>5, <1>6, <2>1, SameWal DEF SameElsewhere
  <2>3. TakenFrom(p, s, c, << >>)
    BY <1>6, <1>7 DEF TakenFrom, Bail
  <2>. QED  BY <1>1, <2>1, <2>2, <2>3, SafekeeperQueue
<1>8. CASE /\ term[s] > propTerm[p] /\ net' = [net EXCEPT ![p][s][c] = n]
           /\ Reply(p, s, c, r) /\ UNCHANGED <<skVars, link>>
  <2>1. UNCHANGED <<term, th, tlStart, wal>>
    BY <1>8 DEF skVars
  <2>2. Evolves(s) /\ WalOK(s)' /\ SameElsewhere(s)
    BY <1>5, <1>6, <2>1, SameWal DEF SameElsewhere
  <2>3. Joined(p, s)'
    BY <1>5, <1>6, <1>8, <2>1 DEF Joined
  <2>4. RepliesOK
    <3>1. ReplyOK(p, s, r)'
      <4>1. r.type = "append" /\ r.term = term[s] /\ ~(term[s] <= propTerm[p])
        BY <1>r, <1>6, <1>8
      <4>. QED  BY <1>5, <4>1 DEF ReplyOK
    <3>2. \A x \in Proposers, y \in Safekeepers :
             rep'[x][y] = rep[x][y] \/ (x = p /\ y = s /\ rep'[x][y] = r)
      BY <1>6, <1>8 DEF Reply
    <3>. QED  BY <3>1, <3>2 DEF RepliesOK
  <2>5. TakenFrom(p, s, c, n)
    BY <1>2, <1>8, <2>3 DEF TakenFrom
  <2>. QED  BY <1>1, <2>2, <2>4, <2>5, SafekeeperQueue
<1>9. CASE /\ term[s] = propTerm[p]
           /\ m.entries # << >> => ~WriteRefused(s, m.begin)
           /\ wal' = [wal EXCEPT ![s] = wal[s] \o m.entries]
           /\ net' = [net EXCEPT ![p][s][c] = n]
           /\ UNCHANGED <<term, th, tlStart, rep, link>>
  <2>1. th[s] = propTh[p] /\ SameElsewhere(s) /\ RepliesOK
    BY <1>2, <1>6, <1>9 DEF Joined, SameElsewhere, RepliesOK
  <2>2. Evolves(s)
    BY <1>2, <1>6, <1>9, <2>1 DEF Evolves
  <2>3. tlStart[s] # 0 /\ WriteLsn(s) = StartLsn + Len(wal[s]) /\ Len(wal[s]) \in Nat
    <3>1. th[s] # << >>
      BY <1>2, <2>1 DEF Elected
    <3>2. tlStart[s] # 0
      BY <3>1 DEF TypeInv, SafekeeperInv
    <3>. QED  BY <3>2, SafekeeperFacts
  <2>4. m.entries # << >> => m.begin = StartLsn + Len(wal[s])
    BY <1>3, <1>9, <2>3 DEF WriteRefused, StartLsn
  <2>5. /\ wal'[s] = wal[s] \o m.entries
        /\ Len(wal'[s]) = Len(wal[s]) + Len(m.entries)
        /\ \A i \in 1..Len(wal[s]) : wal'[s][i] = wal[s][i]
        /\ \A i \in 1..Len(m.entries) : wal'[s][Len(wal[s]) + i] = m.entries[i]
    <3>1. wal'[s] = wal[s] \o m.entries
      BY <1>6, <1>9
    <3>2. ASSUME NEW w \in Seq(Nat), NEW e \in Seq(Nat)
          PROVE  /\ Len(w \o e) = Len(w) + Len(e)
                 /\ \A i \in 1..Len(w) : (w \o e)[i] = w[i]
                 /\ \A i \in 1..Len(e) : (w \o e)[Len(w) + i] = e[i]
      OBVIOUS
    <3>. QED  BY <1>3, <1>6, <3>1, <3>2
  <2>6. Agrees(wal'[s], th[s])
    <3>1. Agrees(wal[s], th[s])
      BY DEF HistoryInv, WalInv, WalOK
    <3>2. ASSUME NEW i \in 1..Len(wal'[s])
          PROVE  wal'[s][i] = TermOfRecord(th[s], StartLsn + i - 1)
      <4>1. CASE i \in 1..Len(wal[s])
        BY <2>5, <3>1, <4>1 DEF Agrees
      <4>2. CASE i \notin 1..Len(wal[s])
        <5>1. PICK k \in 1..Len(m.entries) : i = Len(wal[s]) + k
          <6>1. \A a, b \in Nat : \A x \in 1..(a + b) : x \notin 1..a => \E k \in 1..b : x = a + k
            <7>1. \A a, b \in Nat : \A x \in 1..(a + b) :
                     x \notin 1..a => x - a \in 1..b /\ x = a + (x - a)
              OBVIOUS
            <7>. QED  BY <7>1
          <6>2. Len(m.entries) \in Nat
            BY <1>3
          <6>3. i \in 1..(Len(wal[s]) + Len(m.entries))
            <7>1. i \in 1..Len(wal'[s])
              OBVIOUS
            <7>. QED  BY <2>5, <7>1
          <6>. QED  BY <2>3, <4>2, <6>1, <6>2, <6>3
        <5>2. m.entries # << >>
          BY <5>1
        <5>3. m.begin + k - 1 = StartLsn + i - 1
          BY <2>3, <2>4, <5>1, <5>2 DEF StartLsn
        <5>4. wal'[s][i] = m.entries[k]
          BY <2>5, <5>1
        <5>. QED  BY <1>4, <2>1, <5>3, <5>4
      <4>. QED  BY <4>1, <4>2
    <3>. QED  BY <3>2 DEF Agrees
  <2>7. WalOK(s)'
    <3>1. WalOK(s)
      BY DEF HistoryInv, WalInv
    <3>. QED  BY <1>5, <1>9, <2>3, <2>6, <3>1 DEF WalOK
  <2>8. TakenFrom(p, s, c, n)
    <3>1. Joined(p, s)'
      BY <1>2, <1>5, <1>9 DEF Joined
    <3>. QED  BY <1>2, <1>9, <3>1 DEF TakenFrom
  <2>. QED  BY <1>1, <2>1, <2>2, <2>7, <2>8, SafekeeperQueue
<1>. QED  BY <1>r, <1>7, <1>8, <1>9 DEF HandleAppendRequest, q, m, n

\* handle_flush acknowledges only WAL of a leader that has been joined.
LEMMA HandleFlushHistory ==
  ASSUME TypeInv, TypeInv', ElectionInv, HistoryInv,
         NEW p \in Proposers, NEW s \in Safekeepers, NEW c \in Channels,
         HandleFlush(p, s, c)
  PROVE  HistoryInv'
<1>1. PICK f : /\ net[p][s][c] # << >> /\ Head(net[p][s][c]).type = "flush"
               /\ Consume(p, s, c)
               /\ Reply(p, s, c, [type |-> "append", term |-> term[s], flush |-> f])
               /\ UNCHANGED <<term, th, tlStart, wal, link>>
               /\ UNCHANGED propVars
  BY DEF HandleFlush, HeadIs
<1>r. PICK r : r = [type |-> "append", term |-> term[s], flush |-> f]
  OBVIOUS
<1>2. Elected(p) /\ Joined(p, s)
  BY <1>1, QueueTail DEF MsgOK
<1>3. UNCHANGED <<propTh, propTerm>> /\ Elected(p)' /\ Joined(p, s)'
  BY <1>1, <1>2 DEF propVars, Elected, Joined
<1>4. /\ term[s] \in Nat /\ propTerm[p] \in Nat
      /\ rep \in [Proposers -> [Safekeepers -> Replies]]
  BY DEF TypeInv, TypeOK, SafekeeperTypeOK, ProposerTypeOK, LinkTypeOK
<1>5. Evolves(s) /\ WalOK(s)' /\ SameElsewhere(s)
  BY <1>1, <1>3, <1>4, SameWal DEF SameElsewhere
<1>6. RepliesOK
  <2>1. ReplyOK(p, s, r)'
    <3>1. r.type = "append" /\ r.term = term[s] /\ (term[s] <= propTerm[p] => term[s] = propTerm[p])
      BY <1>r, <1>2, <1>4 DEF Joined
    <3>. QED  BY <1>3, <3>1 DEF ReplyOK
  <2>2. \A x \in Proposers, y \in Safekeepers :
           rep'[x][y] = rep[x][y] \/ (x = p /\ y = s /\ rep'[x][y] = r)
    BY <1>r, <1>1, <1>4 DEF Reply
  <2>. QED  BY <2>1, <2>2 DEF RepliesOK
<1>7. TakenFrom(p, s, c, Tail(net[p][s][c]))
  BY <1>1, <1>3, QueueTail DEF TakenFrom, Consume
<1>. QED  BY <1>1, <1>5, <1>6, <1>7, SafekeeperQueue

(***************************************************************************)
(* Restarts: connections are gone and WAL may be lost, the history stays.  *)
(***************************************************************************)
LEMMA RestartHistory ==
  ASSUME TypeInv, TypeInv', ElectionInv, HistoryInv,
         NEW s \in Safekeepers, NEW w \in Seq(Nat), NEW saved,
         RestartWith(s, w, saved, th[s]),
         Len(w) <= Len(wal[s]), \A i \in 1..Len(w) : w[i] = wal[s][i],
         \A y \in Safekeepers : y # s => term'[y] = term[y],
         term'[s] \in Nat, term'[s] >= term[s]
  PROVE  HistoryInv'
<1>1. /\ th' = th /\ tlStart' = tlStart /\ rep' = rep
      /\ UNCHANGED propVars
      /\ wal' = [wal EXCEPT ![s] = w]
      /\ net' = [p \in Proposers |-> [net[p] EXCEPT ![s] = [c \in Channels |-> << >>]]]
      /\ link' = [p \in Proposers |-> [link[p] EXCEPT ![s] = FALSE]]
  BY DEF RestartWith, TypeInv, TypeOK, SafekeeperTypeOK
<1>2. /\ net \in NetType /\ wal \in [Safekeepers -> Seq(Nat)] /\ term[s] \in Nat
      /\ link \in [Proposers -> [Safekeepers -> BOOLEAN]] /\ th[s] \in Seq(TermLsn)
  BY DEF TypeInv, TypeOK, LinkTypeOK, NetType, SafekeeperTypeOK
<1>3. /\ \A x \in Proposers : \A z \in Channels : net'[x][s][z] = << >>
      /\ \A x \in Proposers, y \in Safekeepers : y # s => net'[x][y] = net[x][y]
      /\ \A x \in Proposers, y \in Safekeepers : link'[x][y] => link[x][y] /\ y # s
      /\ wal'[s] = w
  BY <1>1, <1>2 DEF NetType
<1>4. SameElsewhere(s)
  BY <1>1, <1>2 DEF SameElsewhere
<1>5. Evolves(s)
  BY <1>1, <1>3 DEF Evolves
<1>6. WalOK(s)'
  <2>1. WalOK(s) /\ Leaders' = Leaders
    BY <1>1 DEF HistoryInv, WalInv, propVars, Leaders, Elected
  <2>2. Agrees(w, th[s])
    <3>1. Len(w) \in Nat /\ Len(wal[s]) \in Nat /\ Agrees(wal[s], th[s])
      BY <1>2, <2>1 DEF WalOK
    <3>. QED  BY <3>1, ShorterAgrees
  <2>3. \A i \in 1..Len(th[s]) : th[s][i].term <= term'[s]
    <3>1. \A i \in 1..Len(th[s]) : th[s][i].term \in Nat
      BY <1>2, EntryType
    <3>. QED  BY <1>2, <2>1, <3>1 DEF WalOK
  <2>4. tlStart[s] = 0 => w = << >>
    <3>1. tlStart[s] = 0 => Len(wal[s]) = 0
      BY <2>1 DEF WalOK
    <3>. QED  BY <3>1
  <2>. QED  BY <1>1, <1>3, <2>1, <2>2, <2>3, <2>4 DEF WalOK
<1>7. Progress
  BY <1>1, <1>4, <1>5, SafekeeperProgress
<1>8. MsgStep
  <2>1. ASSUME NEW x \in Proposers, NEW y \in Safekeepers, NEW z \in Channels,
               NEW i \in 1..Len(net'[x][y][z])
        PROVE  i \in 1..Len(net[x][y][z]) /\ net'[x][y][z][i] = net[x][y][z][i]
    <3>1. y # s
      BY <1>3, <2>1
    <3>2. net'[x][y][z] = net[x][y][z]
      BY <1>3, <3>1
    <3>. QED  BY <2>1, <3>2
  <2>. QED  BY <2>1 DEF MsgStep
<1>9. OrderInv'
  <2>1. SUFFICES ASSUME NEW x \in Proposers, NEW y \in Safekeepers PROVE OrderOK(x, y)'
    BY DEF OrderInv
  <2>2. CASE y = s
    <3>1. \A z \in Channels : QueueOrdered(net'[x][y][z], Joined(x, y)')
      BY <1>3, <2>2, EmptyOrdered
    <3>. QED  BY <1>3, <2>2, <3>1 DEF OrderOK
  <2>3. CASE y # s
    <3>1. net'[x][y] = net[x][y] /\ OrderOK(x, y) /\ MsgInv /\ conn' = conn
      BY <1>1, <1>3, <2>3 DEF HistoryInv, OrderInv, propVars
    <3>. QED  BY <1>3, <1>7, <3>1, OrderStays
  <2>. QED  BY <2>2, <2>3
<1>10. RepliesOK
  BY <1>1 DEF RepliesOK
<1>. QED  BY <1>1, <1>4, <1>5, <1>6, <1>8, <1>9, <1>10, SafekeeperHistory

\* What survives is a prefix.
LEMMA SurvivingPrefix ==
  ASSUME TypeInv, NEW s \in Safekeepers, NEW w \in SurvivingWal(s)
  PROVE  w \in Seq(Nat) /\ Len(w) <= Len(wal[s]) /\ \A i \in 1..Len(w) : w[i] = wal[s][i]
<1>1. PICK k \in 0..Len(wal[s]) : w = SubSeq(wal[s], 1, k)
  BY DEF SurvivingWal
<1>2. wal[s] \in Seq(Nat)
  BY DEF TypeInv, TypeOK, SafekeeperTypeOK
<1>3. Len(w) = k /\ \A i \in 1..k : w[i] = wal[s][i]
  BY <1>1, <1>2
<1>. QED  BY <1>1, <1>2, <1>3, SurvivingWalType

LEMMA SafekeeperRestartHistory ==
  ASSUME TypeInv, TypeInv', ElectionInv, HistoryInv, NEW s \in Safekeepers, SafekeeperRestart(s)
  PROVE  HistoryInv'
<1>1. PICK w \in SurvivingWal(s) : RestartWith(s, w, pCommit[s], th[s])
  BY DEF SafekeeperRestart
<1>2. term' = term /\ term[s] \in Nat
  BY DEF SafekeeperRestart, SavedTerm, TypeInv, TypeOK, SafekeeperTypeOK
<1>3. w \in Seq(Nat) /\ Len(w) <= Len(wal[s]) /\ \A i \in 1..Len(w) : w[i] = wal[s][i]
  BY SurvivingPrefix
<1>. QED  BY <1>1, <1>2, <1>3, RestartHistory

LEMMA CrashInElectedHistory ==
  ASSUME TypeInv, TypeInv', ElectionInv, HistoryInv,
         NEW p \in Proposers, NEW s \in Safekeepers, NEW c \in Channels, CrashInElected(p, s, c)
  PROVE  HistoryInv'
<1> DEFINE start == Head(net[p][s][c]).start
           saved == IF term[s] < propTerm[p] THEN commit[s] ELSE pCommit[s]
<1>1. /\ net[p][s][c] # << >> /\ Head(net[p][s][c]).type = "elected"
      /\ ~TruncateRefused(s, start) /\ term[s] <= propTerm[p]
      /\ term' = [term EXCEPT ![s] = propTerm[p]]
  BY DEF CrashInElected, HeadIs
<1>2. PICK w \in {Truncated(s, start)} \union SurvivingWal(s) : RestartWith(s, w, saved, th[s])
  BY DEF CrashInElected, HistoryDuringTruncate
<1>3. start \in Nat /\ start >= StartLsn /\ (tlStart[s] = 0 => start = StartLsn)
  BY <1>1, HeadType DEF ElectedMsgOK
<1>. HIDE DEF start, saved
<1>4. w \in Seq(Nat) /\ Len(w) <= Len(wal[s]) /\ \A i \in 1..Len(w) : w[i] = wal[s][i]
  <2>1. CASE w = Truncated(s, start)
    <3>1. /\ Truncated(s, start) \in Seq(Nat) /\ Len(Truncated(s, start)) = start - StartLsn
          /\ wal[s] \in Seq(Nat)
      BY <1>1, <1>3, TruncatedType DEF TypeInv, TypeOK, SafekeeperTypeOK
    <3>2. start - StartLsn \in 0..Len(wal[s])
      <4>1. /\ Len(wal[s]) \in Nat
            /\ tlStart[s] # 0 => WriteLsn(s) = StartLsn + Len(wal[s]) /\ WriteLsn(s) >= StartLsn
        BY SafekeeperFacts
      <4>. QED  BY <1>1, <1>3, <4>1 DEF TruncateRefused, StartLsn
    <3>3. \A i \in 1..(start - StartLsn) : w[i] = wal[s][i]
      BY <2>1, <3>1, <3>2 DEF Truncated
    <3>. QED  BY <2>1, <3>1, <3>2, <3>3
  <2>2. CASE w \in SurvivingWal(s)
    BY <2>2, SurvivingPrefix
  <2>. QED  BY <1>2, <2>1, <2>2
<1>5. term[s] \in Nat /\ propTerm[p] \in Nat /\ term \in [Safekeepers -> Nat]
  BY DEF TypeInv, TypeOK, SafekeeperTypeOK, ProposerTypeOK
<1>6. term'[s] = propTerm[p] /\ \A y \in Safekeepers : y # s => term'[y] = term[y]
  BY <1>1, <1>5
<1>. QED  BY <1>1, <1>2, <1>4, <1>5, <1>6, RestartHistory

\* Steps that change nothing but a commit_lsn or what the broker holds, and none.
LEMMA IdleHistory ==
  ASSUME TypeInv, TypeInv', ElectionInv, HistoryInv,
         UNCHANGED <<term, th, tlStart, wal, net, rep, link>>, UNCHANGED propVars
  PROVE  HistoryInv'
<1>1. UNCHANGED <<conn, propTerm, nConnected, vote, propTh, donor, ackFlush>>
  BY DEF propVars
<1>2. LeaderInv' /\ WalInv'
  BY <1>1 DEF HistoryInv, LeaderInv, WalInv, WalOK, Leaders, Elected
<1>3. MsgInv' /\ OrderInv'
  <2>1. \A p \in Proposers, s \in Safekeepers : Joined(p, s)' = Joined(p, s)
    BY <1>1 DEF Joined
  <2>2. MsgInv'
    <3>1. ASSUME NEW p \in Proposers, NEW s \in Safekeepers, NEW m, MsgOK(p, s, m)
          PROVE  MsgOK(p, s, m)'
      BY <1>1, <2>1, <3>1 DEF MsgOK, Elected
    <3>. QED  BY <3>1 DEF HistoryInv, MsgInv
  <2>3. OrderInv'
    BY <1>1, <2>1 DEF HistoryInv, OrderInv, OrderOK
  <2>. QED  BY <2>2, <2>3
<1>4. SnapInv'
  <2>1. Leaders' = Leaders /\ \A p \in Proposers : NoOther(p)' = NoOther(p)
    BY <1>1 DEF Leaders, Elected, NoOther
  <2>2. ASSUME NEW p \in Proposers, NEW s \in Safekeepers, NEW h, NEW f
        PROVE  SnapOK(p, s, h, f)' = SnapOK(p, s, h, f)
    BY <1>1, <2>1 DEF SnapOK, Elected
  <2>. QED  BY <1>1, <2>2 DEF HistoryInv, SnapInv, VoteOK, ReplyOK, Joined, Elected
<1>5. DonorInv' /\ AckJoined'
  BY <1>1 DEF HistoryInv, DonorInv, DonorOK, AckJoined, Joined, Elected, PropEpochStartLsn
<1>. QED  BY <1>2, <1>3, <1>4, <1>5 DEF HistoryInv

LEMMA LsnStepHistory ==
  ASSUME TypeInv, TypeInv', ElectionInv, HistoryInv, NEW s \in Safekeepers,
         PersistControlFile(s) \/ PublishInfo(s) \/ RecordSafekeeperInfo(s)
  PROVE  HistoryInv'
<1>1. /\ UNCHANGED <<term, th, tlStart, wal, net, rep, link>>
      /\ UNCHANGED propVars
  BY DEF PersistControlFile, PublishInfo, RecordSafekeeperInfo, skVars, linkVars
<1>. QED  BY <1>1, IdleHistory

-----------------------------------------------------------------------------
(***************************************************************************)
(* Steps of proposers.                                                     *)
(***************************************************************************)
KeptConn(p, s) ==
    /\ net'[p][s] = net[p][s]
    /\ conn'[p][s] = "active" /\ link'[p][s] => conn[p][s] = "active" /\ link[p][s]

SentOK(p, s, m) ==
    /\ m \in Messages /\ net'[p][s] = Queued(net[p][s], m) /\ MsgOK(p, s, m)'
    /\ m.type = "append" => conn[p][s] = "active" /\ link[p][s]
    /\ conn'[p][s] = "active" /\ link'[p][s] =>
          m.type = "elected" \/ (conn[p][s] = "active" /\ link[p][s])

\* At most one message to each safekeeper.
SendStep ==
    \A p \in Proposers, s \in Safekeepers : KeptConn(p, s) \/ \E m : SentOK(p, s, m)

LEMMA SendStepOK ==
  ASSUME Progress, MsgInv, OrderInv, SendStep
  PROVE  MsgStep /\ OrderInv'
<1>1. ASSUME NEW p \in Proposers, NEW s \in Safekeepers, KeptConn(p, s)
      PROVE  OrderOK(p, s)'
  <2>1. OrderOK(p, s) /\ net'[p][s] = net[p][s]
        /\ (conn'[p][s] = "active" /\ link'[p][s] => conn[p][s] = "active" /\ link[p][s])
    BY <1>1 DEF OrderInv, KeptConn
  <2>. QED  BY <2>1, OrderStays
<1>2. ASSUME NEW p \in Proposers, NEW s \in Safekeepers, NEW m, SentOK(p, s, m)
      PROVE  /\ OrderOK(p, s)'
             /\ \A c \in Channels : \A i \in 1..Len(net'[p][s][c]) :
                   \/ i \in 1..Len(net[p][s][c]) /\ net'[p][s][c][i] = net[p][s][c][i]
                   \/ net'[p][s][c][i] = m
  <2>1. /\ m \in Messages /\ "cur" \in Channels /\ "old" \in Channels
        /\ net[p][s] \in [Channels -> Seq(Messages)]
    BY <1>2 DEF SentOK, Progress, TypeInv, TypeOK, LinkTypeOK, Channels
  <2>2. /\ net'[p][s]["cur"] = Append(net[p][s]["cur"], m)
        /\ net'[p][s]["old"] = net[p][s]["old"]
        /\ net[p][s]["cur"] \in Seq(Messages)
    BY <1>2, <2>1 DEF SentOK, Queued
  <2>3. OrderOK(p, s) /\ Channels = {"cur", "old"}
    BY DEF OrderInv, Channels
  <2>4. ASSUME NEW c \in Channels PROVE QueueOrdered(net[p][s][c], Joined(p, s)')
    <3>1. \A i \in 1..Len(net[p][s][c]) : net[p][s][c][i].type = "append" => Elected(p)
      BY DEF MsgInv, MsgOK
    <3>. QED  BY <2>3, <3>1, QueueStays DEF OrderOK
  <2>5. ASSUME conn[p][s] = "active", link[p][s]
        PROVE  Joined(p, s)' \/ HasElected(net[p][s]["cur"])
    <3>1. Elected(p)
      BY <2>5 DEF Progress, TypeInv, ConnInv, ConnOK
    <3>. QED  BY <2>3, <2>5, <3>1, JoinedStays DEF OrderOK
  <2>6. /\ QueueOrdered(net'[p][s]["cur"], Joined(p, s)')
        /\ HasElected(net[p][s]["cur"]) \/ m.type = "elected" => HasElected(net'[p][s]["cur"])
    <3>1. QueueOrdered(net[p][s]["cur"], Joined(p, s)')
      BY <2>1, <2>4
    <3>2. m.type = "append" => Joined(p, s)' \/ HasElected(net[p][s]["cur"])
      BY <1>2, <2>5 DEF SentOK
    <3>. QED  BY <2>1, <2>2, <3>1, <3>2, OrderedAppend
  <2>7. OrderOK(p, s)'
    <3>1. \A c \in Channels : QueueOrdered(net'[p][s][c], Joined(p, s)')
      BY <2>2, <2>3, <2>4, <2>6
    <3>2. conn'[p][s] = "active" /\ link'[p][s] => Joined(p, s)' \/ HasElected(net'[p][s]["cur"])
      BY <1>2, <2>5, <2>6 DEF SentOK
    <3>. QED  BY <3>1, <3>2 DEF OrderOK
  <2>8. ASSUME NEW c \in Channels, NEW i \in 1..Len(net'[p][s][c])
        PROVE  \/ i \in 1..Len(net[p][s][c]) /\ net'[p][s][c][i] = net[p][s][c][i]
               \/ net'[p][s][c][i] = m
    <3>1. CASE c = "old"
      BY <2>2, <2>8, <3>1
    <3>2. CASE c = "cur"
      <4>1. ASSUME NEW q \in Seq(Messages), NEW j \in 1..Len(Append(q, m))
            PROVE  (j \in 1..Len(q) /\ Append(q, m)[j] = q[j]) \/ Append(q, m)[j] = m
        BY <2>1, <4>1, AppendProperties
      <4>2. i \in 1..Len(Append(net[p][s]["cur"], m))
        BY <2>2, <2>8, <3>2
      <4>. QED  BY <2>2, <3>2, <4>1, <4>2
    <3>. QED  BY <2>3, <3>1, <3>2
  <2>. QED  BY <2>7, <2>8
<1>3. OrderInv'
  BY <1>1, <1>2 DEF OrderInv, SendStep
<1>4. MsgStep
  <2>1. ASSUME NEW p \in Proposers, NEW s \in Safekeepers, NEW c \in Channels,
               NEW i \in 1..Len(net'[p][s][c])
        PROVE  \/ MsgOK(p, s, net[p][s][c][i])'
               \/ i \in 1..Len(net[p][s][c]) /\ net'[p][s][c][i] = net[p][s][c][i]
    <3>1. CASE KeptConn(p, s)
      BY <2>1, <3>1 DEF KeptConn
    <3>2. ASSUME NEW m, SentOK(p, s, m)
          PROVE  \/ MsgOK(p, s, net[p][s][c][i])'
                 \/ i \in 1..Len(net[p][s][c]) /\ net'[p][s][c][i] = net[p][s][c][i]
      <4>1. CASE net'[p][s][c][i] = m
        BY <3>2, <4>1 DEF SentOK
      <4>. QED  BY <1>2, <2>1, <3>2, <4>1
    <3>. QED  BY <3>1, <3>2 DEF SendStep
  <2>. QED  BY <2>1 DEF MsgStep
<1>. QED  BY <1>3, <1>4

LEMMA ProposerProgress ==
  ASSUME TypeInv, TypeInv', ElectionInv, UNCHANGED skVars, \A p \in Proposers : LeaderKept(p)
  PROVE  Progress
<1>1. ASSUME NEW s \in Safekeepers PROVE Evolves(s)
  <2>1. term'[s] = term[s] /\ th'[s] = th[s] /\ wal'[s] = wal[s]
    BY DEF skVars
  <2>2. term[s] \in Nat /\ Len(wal[s]) \in Nat
    BY DEF TypeInv, TypeOK, SafekeeperTypeOK
  <2>. QED  BY <2>1, <2>2 DEF Evolves
<1>. QED  BY <1>1, ElectionInvSafe DEF Progress

LEMMA WalInvStays ==
  ASSUME WalInv, UNCHANGED skVars, Leaders \subseteq Leaders'
  PROVE  WalInv'
<1>1. SUFFICES ASSUME NEW s \in Safekeepers PROVE WalOK(s)'
  BY DEF WalInv
<1>2. WalOK(s) /\ term' = term /\ th' = th /\ wal' = wal /\ tlStart' = tlStart
  BY DEF WalInv, skVars
<1>3. PrefixIn(th[s], Leaders')
  BY <1>2, PrefixGrows DEF WalOK
<1>. QED  BY <1>2, <1>3 DEF WalOK

\* As long as no leader is elected.
LEMMA ProposerHistory ==
  ASSUME TypeInv, TypeInv', ElectionInv, HistoryInv, UNCHANGED skVars,
         \A p \in Proposers : LeaderKept(p), propTh' = propTh,
         OrderInv', MsgStep, VoteStep, AckStep
  PROVE  HistoryInv'
<1>1. Progress /\ Leaders' = Leaders
  BY ProposerProgress DEF Leaders, Elected
<1>2. LeaderInv'
  BY <1>1 DEF HistoryInv, LeaderInv, Elected
<1>3. WalInv'
  BY <1>1, WalInvStays DEF HistoryInv
<1>. QED  BY <1>1, <1>2, <1>3, HistoryStep

LEMMA NoReplyOK ==
  ASSUME NEW p, NEW s
  PROVE  ReplyOK(p, s, NoReply)
BY DEF ReplyOK, NoReply

\* What Die leaves of connections and votes.
LEMMA DieVoteStep ==
  ASSUME TypeInv, NEW p \in Proposers, Die(p), net' = net
  PROVE  VoteStep /\ SendStep
<1>1. \A x \in Proposers, y \in Safekeepers :
         \/ x = p /\ conn'[x][y] = "offline" /\ rep'[x][y] = NoReply
         \/ conn'[x][y] = conn[x][y] /\ vote'[x][y] = vote[x][y] /\ rep'[x][y] = rep[x][y]
  BY DieType
<1>2. VoteStep
  <2>1. ASSUME NEW x \in Proposers, NEW y \in Safekeepers
        PROVE  /\ conn'[x][y] = "idle" => conn[x][y] = "idle" /\ vote'[x][y] = vote[x][y]
               /\ rep'[x][y] = rep[x][y] \/ ReplyOK(x, y, rep[x][y])'
    <3>1. CASE x = p /\ conn'[x][y] = "offline" /\ rep'[x][y] = NoReply
      BY <3>1 DEF ReplyOK, NoReply
    <3>2. CASE conn'[x][y] = conn[x][y] /\ vote'[x][y] = vote[x][y] /\ rep'[x][y] = rep[x][y]
      BY <3>2
    <3>. QED  BY <1>1, <3>1, <3>2
  <2>. QED  BY <2>1 DEF VoteStep
<1>3. SendStep
  <2>1. link \in [Proposers -> [Safekeepers -> BOOLEAN]]
    BY DEF TypeInv, TypeOK, LinkTypeOK
  <2>2. ASSUME NEW x \in Proposers, NEW y \in Safekeepers PROVE KeptConn(x, y)
    <3>1. x # p => link'[x][y] = link[x][y]
      BY <2>1 DEF Die
    <3>2. x = p => conn'[x][y] = "offline"
      BY DEF Die, TypeInv, TypeOK, ProposerTypeOK
    <3>. QED  BY <1>1, <3>1, <3>2 DEF KeptConn
  <2>. QED  BY <2>2 DEF SendStep
<1>. QED  BY <1>2, <1>3

LEMMA DieHistory ==
  ASSUME TypeInv, TypeInv', ElectionInv, HistoryInv, UNCHANGED skVars,
         NEW p \in Proposers, Die(p), \A x \in Proposers : LeaderKept(x),
         UNCHANGED <<propTh, donor, ackFlush, net>>
  PROVE  HistoryInv'
<1>1. VoteStep /\ SendStep /\ Progress
  BY DieVoteStep, ProposerProgress
<1>2. MsgStep /\ OrderInv'
  BY <1>1, SendStepOK DEF HistoryInv
<1>3. AckStep
  BY DEF AckStep
<1>. QED  BY <1>1, <1>2, <1>3, ProposerHistory

\* The term of a proposer changes only before a quorum has greeted it.
LEMMA GreetKeepsLeaders ==
  ASSUME TypeInv, NEW p \in Proposers, NEW s \in Safekeepers, Greet(p, s)
  PROVE  \A x \in Proposers : LeaderKept(x)
<1> DEFINE n == nConnected[p] + 1
<1>1. nConnected' = [nConnected EXCEPT ![p] = n] /\ UNCHANGED propTh
  BY DEF Greet
<1>2. /\ nConnected \in [Proposers -> Nat] /\ propTerm \in [Proposers -> Nat]
      /\ QuorumSize \in Nat
  BY QuorumSizeType DEF TypeInv, TypeOK, ProposerTypeOK
<1>3. nConnected'[p] = n /\ \A x \in Proposers : nConnected'[x] >= nConnected[x] /\ nConnected'[x] \in Nat
  BY <1>1, <1>2
<1>4. \E t : propTerm' = [propTerm EXCEPT ![p] = t]
           /\ (t = propTerm[p] \/ n <= QuorumSize)
  <2>1. \/ n < QuorumSize /\ propTerm' = [propTerm EXCEPT ![p] = MaxOf(propTerm[p], term[s])]
        \/ UNCHANGED propTerm
        \/ propTerm' = [propTerm EXCEPT ![p] =
              IF n = QuorumSize THEN MaxOf(propTerm[p], term[s]) + 1 ELSE propTerm[p]]
    BY <1>3 DEF Greet
  <2>2. propTerm = [propTerm EXCEPT ![p] = propTerm[p]]
    BY <1>2
  <2>. QED  BY <1>2, <2>1, <2>2
<1>5. \A x \in Proposers : propTerm'[x] = propTerm[x] \/ nConnected[x] < QuorumSize
  BY <1>2, <1>4
<1>. QED  BY <1>1, <1>2, <1>3, <1>5 DEF LeaderKept

LEMMA GreetHistory ==
  ASSUME TypeInv, TypeInv', ElectionInv, HistoryInv,
         NEW p \in Proposers, NEW s \in Safekeepers, Greet(p, s)
  PROVE  HistoryInv'
<1> DEFINE n == nConnected[p] + 1
           voters == {v \in Safekeepers : conn[p][v] = "voting"} \union {s}
           opened == [link[p] EXCEPT ![s] = TRUE]
           m == [type |-> "vote"]
<1>1. /\ nConnected' = [nConnected EXCEPT ![p] = n]
      /\ UNCHANGED skVars
      /\ UNCHANGED <<propTh, donor, ackFlush>>
      /\ conn[p][s] = "offline"
  BY DEF Greet
<1>2. /\ nConnected \in [Proposers -> Nat] /\ propTerm \in [Proposers -> Nat]
      /\ conn \in [Proposers -> [Safekeepers -> ConnStates]]
      /\ link \in [Proposers -> [Safekeepers -> BOOLEAN]]
      /\ net \in NetType /\ QuorumSize \in Nat
  BY QuorumSizeType DEF TypeInv, TypeOK, ProposerTypeOK, LinkTypeOK, NetType
<1>3. nConnected'[p] = n /\ \A x \in Proposers : nConnected'[x] >= nConnected[x] /\ nConnected'[x] \in Nat
  BY <1>1, <1>2
<1>4. \A x \in Proposers : LeaderKept(x)
  BY GreetKeepsLeaders
<1>5. CASE Die(p) /\ UNCHANGED net
  BY <1>1, <1>4, <1>5, DieHistory
<1>6. ASSUME UNCHANGED <<vote, rep>>, SendStep,
             \A x \in Proposers, y \in Safekeepers : conn'[x][y] = "idle" => conn[x][y] = "idle"
      PROVE  HistoryInv'
  <2>1. VoteStep /\ AckStep
    BY <1>1, <1>6 DEF VoteStep, AckStep
  <2>2. MsgStep /\ OrderInv'
    BY <1>1, <1>4, <1>6, ProposerProgress, SendStepOK DEF HistoryInv
  <2>. QED  BY <1>1, <1>4, <2>1, <2>2, ProposerHistory
<1>7. CASE /\ conn' = [conn EXCEPT ![p][s] = "voting"]
           /\ link' = [link EXCEPT ![p] = opened]
           /\ UNCHANGED <<vote, net, rep>>
  <2>1. \A x \in Proposers, y \in Safekeepers :
           /\ conn'[x][y] = IF x = p /\ y = s THEN "voting" ELSE conn[x][y]
           /\ x # p \/ y # s => link'[x][y] = link[x][y]
    BY <1>2, <1>7
  <2>2. ASSUME NEW x \in Proposers, NEW y \in Safekeepers PROVE KeptConn(x, y)
    <3>1. net'[x][y] = net[x][y]
      BY <1>7
    <3>2. CASE x = p /\ y = s
      BY <2>1, <3>1, <3>2 DEF KeptConn
    <3>3. CASE x # p \/ y # s
      <4>1. conn'[x][y] = conn[x][y] /\ link'[x][y] = link[x][y]
        BY <2>1, <3>3
      <4>. QED  BY <3>1, <4>1 DEF KeptConn
    <3>. QED  BY <3>2, <3>3
  <2>3. SendStep
    BY <2>2 DEF SendStep
  <2>. QED  BY <1>6, <1>7, <2>1, <2>3
<1>8. CASE /\ n >= QuorumSize
           /\ conn' = [conn EXCEPT ![p] = [v \in Safekeepers |->
                          IF v \in voters THEN "wait_verdict" ELSE conn[p][v]]]
           /\ link' = [link EXCEPT ![p] = opened]
           /\ net'  = [net EXCEPT ![p] = [v \in Safekeepers |->
                          IF v \in voters /\ opened[v]
                          THEN Queued(net[p][v], m)
                          ELSE net[p][v]]]
           /\ UNCHANGED <<vote, rep>>
  <2>1. \A x \in Proposers, y \in Safekeepers :
           /\ conn'[x][y] = IF x = p /\ y \in voters THEN "wait_verdict" ELSE conn[x][y]
           /\ x # p \/ y # s => link'[x][y] = link[x][y]
           /\ \/ net'[x][y] = net[x][y]
              \/ x = p /\ y \in voters /\ net'[x][y] = Queued(net[x][y], m)
    BY <1>2, <1>8 DEF NetType
  <2>2. s \in voters /\ m \in Messages /\ m.type = "vote"
    BY DEF Messages
  <2>. HIDE DEF m, voters
  <2>3. ASSUME NEW x \in Proposers, NEW y \in Safekeepers
        PROVE  KeptConn(x, y) \/ \E k : SentOK(x, y, k)
    <3>1. conn'[x][y] = "active" /\ link'[x][y] => conn[x][y] = "active" /\ link[x][y]
      BY <2>1, <2>2
    <3>2. CASE net'[x][y] = net[x][y]
      BY <3>1, <3>2 DEF KeptConn
    <3>3. CASE net'[x][y] = Queued(net[x][y], m)
      <4>1. ASSUME NEW k, k = m PROVE SentOK(x, y, k)
        BY <2>2, <3>1, <3>3, <4>1 DEF SentOK, MsgOK
      <4>. QED  BY <4>1
    <3>. QED  BY <2>1, <3>2, <3>3
  <2>4. SendStep
    BY <2>3 DEF SendStep
  <2>. QED  BY <1>6, <1>8, <2>1, <2>4
<1>. QED  BY <1>3, <1>5, <1>7, <1>8 DEF Greet

LEMMA SameTermKept ==
  ASSUME UNCHANGED <<propTerm, nConnected, propTh>>
  PROVE  \A p \in Proposers : LeaderKept(p)
BY DEF LeaderKept

LEMMA WalProposerBroadcastHistory ==
  ASSUME TypeInv, TypeInv', ElectionInv, HistoryInv, NEW p \in Proposers, WalProposerBroadcast(p)
  PROVE  HistoryInv'
<1>1. /\ UNCHANGED skVars
      /\ UNCHANGED <<conn, propTerm, nConnected, vote, propTh, donor, ackFlush, net, rep, link>>
  BY DEF WalProposerBroadcast, linkVars
<1>2. SendStep /\ VoteStep /\ AckStep
  BY <1>1 DEF SendStep, KeptConn, VoteStep, AckStep
<1>3. \A x \in Proposers : LeaderKept(x)
  BY <1>1, SameTermKept
<1>4. MsgStep /\ OrderInv'
  BY <1>1, <1>2, <1>3, ProposerProgress, SendStepOK DEF HistoryInv
<1>. QED  BY <1>1, <1>2, <1>3, <1>4, ProposerHistory

LEMMA RecvAppendResponseHistory ==
  ASSUME TypeInv, TypeInv', ElectionInv, HistoryInv,
         NEW p \in Proposers, NEW s \in Safekeepers, RecvAppendResponse(p, s)
  PROVE  HistoryInv'
<1>1. /\ UNCHANGED skVars
      /\ UNCHANGED <<propTerm, nConnected, propTh, donor, net>>
      /\ rep[p][s].type = "append"
  BY DEF RecvAppendResponse
<1>2. \A x \in Proposers : LeaderKept(x)
  BY <1>1, SameTermKept
<1>3. CASE Die(p) /\ UNCHANGED ackFlush
  BY <1>1, <1>2, <1>3, DieHistory
<1>4. CASE /\ rep[p][s].term <= propTerm[p]
           /\ ackFlush' = [ackFlush EXCEPT ![p][s] = rep[p][s].flush]
           /\ rep' = [rep EXCEPT ![p][s] = NoReply]
           /\ UNCHANGED <<conn, vote, link>>
  <2>0. /\ ackFlush \in [Proposers -> [Safekeepers -> Nat]]
        /\ rep \in [Proposers -> [Safekeepers -> Replies]]
    BY DEF TypeInv, TypeOK, ProposerTypeOK, LinkTypeOK
  <2>1. \A x \in Proposers, y \in Safekeepers :
           x # p \/ y # s => ackFlush'[x][y] = ackFlush[x][y] /\ rep'[x][y] = rep[x][y]
    BY <1>4, <2>0
  <2>2. rep'[p][s] = NoReply
    BY <1>4, <2>0
  <2>3. Elected(p)' /\ Joined(p, s)'
    <3>1. Elected(p) /\ Joined(p, s)
      BY <1>1, <1>4 DEF HistoryInv, SnapInv, ReplyOK
    <3>. QED  BY <1>1, <3>1 DEF Elected, Joined, skVars
  <2>4. AckStep
    BY <1>1, <2>1, <2>3 DEF AckStep
  <2>5. VoteStep
    <3>1. ReplyOK(p, s, rep[p][s])'
      BY <2>2 DEF ReplyOK, NoReply
    <3>. QED  BY <1>4, <2>1, <3>1 DEF VoteStep
  <2>6. SendStep
    BY <1>1, <1>4 DEF SendStep, KeptConn
  <2>7. MsgStep /\ OrderInv'
    BY <1>1, <1>2, <2>6, ProposerProgress, SendStepOK DEF HistoryInv
  <2>. QED  BY <1>1, <1>2, <2>4, <2>5, <2>7, ProposerHistory
<1>. QED  BY <1>3, <1>4 DEF RecvAppendResponse

LEMMA ShutdownConnectionHistory ==
  ASSUME TypeInv, TypeInv', ElectionInv, HistoryInv,
         NEW p \in Proposers, NEW s \in Safekeepers, ShutdownConnection(p, s)
  PROVE  HistoryInv'
<1> DEFINE q == [c \in Channels |-> IF c = "old" THEN net[p][s]["cur"] ELSE << >>]
<1>1. /\ UNCHANGED skVars
      /\ UNCHANGED <<propTerm, nConnected, propTh, donor>>
      /\ conn' = [conn EXCEPT ![p][s] = "offline"]
      /\ vote' = [vote EXCEPT ![p][s] = NoVote]
      /\ ackFlush' = [ackFlush EXCEPT ![p][s] = ackFlush[p][s]]
      /\ link' = [link EXCEPT ![p][s] = FALSE]
      /\ rep'  = [rep EXCEPT ![p][s] = NoReply]
      /\ net' = [net EXCEPT ![p][s] = q]
  BY DEF ShutdownConnection, AckAfterShutdown
<1>2. \A x \in Proposers : LeaderKept(x)
  BY <1>1, SameTermKept
<1>3. /\ net \in NetType /\ conn \in [Proposers -> [Safekeepers -> ConnStates]]
      /\ vote \in [Proposers -> [Safekeepers -> Votes]]
      /\ rep \in [Proposers -> [Safekeepers -> Replies]]
      /\ link \in [Proposers -> [Safekeepers -> BOOLEAN]]
      /\ ackFlush \in [Proposers -> [Safekeepers -> Nat]]
  BY DEF TypeInv, TypeOK, ProposerTypeOK, LinkTypeOK, NetType
<1>4. /\ \A x \in Proposers, y \in Safekeepers : x # p \/ y # s =>
            /\ conn'[x][y] = conn[x][y] /\ vote'[x][y] = vote[x][y] /\ rep'[x][y] = rep[x][y]
            /\ link'[x][y] = link[x][y] /\ net'[x][y] = net[x][y]
      /\ conn'[p][s] = "offline" /\ rep'[p][s] = NoReply
      /\ \A c \in Channels : net'[p][s][c] = IF c = "old" THEN net[p][s]["cur"] ELSE << >>
      /\ ackFlush' = ackFlush /\ "cur" \in Channels
  BY <1>1, <1>3 DEF NetType, Channels
<1>. HIDE DEF q
<1>5. Progress
  BY <1>1, <1>2, ProposerProgress
<1>6. OrderInv'
  <2>1. SUFFICES ASSUME NEW x \in Proposers, NEW y \in Safekeepers PROVE OrderOK(x, y)'
    BY DEF OrderInv
  <2>2. OrderInv /\ MsgInv
    BY DEF HistoryInv
  <2>3. CASE x = p /\ y = s
    <3>1. QueueOrdered(net[p][s]["cur"], Joined(p, s)')
      <4>1. \A i \in 1..Len(net[p][s]["cur"]) : net[p][s]["cur"][i].type = "append" => Elected(p)
        BY <1>4, <2>2 DEF MsgInv, MsgOK
      <4>2. QueueOrdered(net[p][s]["cur"], Joined(p, s))
        BY <1>4, <2>2 DEF OrderInv, OrderOK
      <4>. QED  BY <1>5, <4>1, <4>2, QueueStays
    <3>2. \A c \in Channels : QueueOrdered(net'[p][s][c], Joined(p, s)')
      BY <1>4, <3>1, EmptyOrdered
    <3>. QED  BY <1>4, <2>3, <3>2 DEF OrderOK
  <2>4. CASE ~(x = p /\ y = s)
    <3>1. /\ net'[x][y] = net[x][y] /\ OrderOK(x, y)
          /\ conn'[x][y] = conn[x][y] /\ link'[x][y] = link[x][y]
      BY <1>4, <2>2, <2>4 DEF OrderInv
    <3>. QED  BY <1>5, <2>2, <3>1, OrderStays
  <2>. QED  BY <2>3, <2>4
<1>7. MsgStep
  <2>1. ASSUME NEW x \in Proposers, NEW y \in Safekeepers, NEW c \in Channels,
               NEW i \in 1..Len(net'[x][y][c])
        PROVE  \E k \in Channels : i \in 1..Len(net[x][y][k]) /\ net'[x][y][c][i] = net[x][y][k][i]
    <3>1. CASE x = p /\ y = s
      <4>1. c = "old"
        BY <1>4, <2>1, <3>1
      <4>. QED  BY <1>4, <2>1, <3>1, <4>1
    <3>2. CASE ~(x = p /\ y = s)
      <4>1. net'[x][y] = net[x][y]
        BY <1>4, <3>2
      <4>. QED  BY <2>1, <4>1
    <3>. QED  BY <3>1, <3>2
  <2>. QED  BY <2>1 DEF MsgStep
<1>8. VoteStep
  <2>1. ReplyOK(p, s, rep[p][s])'
    BY <1>4 DEF ReplyOK, NoReply
  <2>2. ASSUME NEW x \in Proposers, NEW y \in Safekeepers
        PROVE  /\ conn'[x][y] = "idle" => conn[x][y] = "idle" /\ vote'[x][y] = vote[x][y]
               /\ rep'[x][y] = rep[x][y] \/ ReplyOK(x, y, rep[x][y])'
    BY <1>4, <2>1
  <2>. QED  BY <2>2 DEF VoteStep
<1>9. AckStep
  BY <1>1, <1>4 DEF AckStep
<1>. QED  BY <1>1, <1>2, <1>6, <1>7, <1>8, <1>9, ProposerHistory

\* A WAL is of its last term from where that begins.
LEMMA LastTerm ==
  ASSUME NEW h \in Seq(TermLsn), h # << >>, Ordered(h), NEW lsn \in Nat, lsn >= h[Len(h)].lsn
  PROVE  TermOfRecord(h, lsn) = h[Len(h)].term
<1>1. Len(h) \in 0..Len(h) /\ Len(h) \in 1..Len(h)
  OBVIOUS
<1>2. ASSUME NEW i \in 1..Len(h) PROVE h[i].lsn <= lsn
  <2>1. h[i].lsn \in Nat /\ h[Len(h)].lsn \in Nat
    BY <1>1, EntryType
  <2>2. i = Len(h) \/ h[i].lsn <= h[Len(h)].lsn
    BY <1>1 DEF Ordered
  <2>. QED  BY <2>1, <2>2
<1>3. SwitchesUpTo(h, lsn) = Len(h)
  BY <1>1, <1>2, SwitchesUnique
<1>. QED  BY <1>1, <1>3, TermOfRecordIs

\* The WAL that a donor serves is that of the leader.
LEMMA DonorServesLeader ==
  ASSUME TypeInv, HistoryInv, NEW p \in Proposers, Elected(p), NEW d \in GetDonor(p),
         NEW end \in Nat, DonorServes(p, d, end), NEW l \in Nat, StartLsn <= l, l < end
  PROVE  RecordAt(d, l) = TermOfRecord(propTh[p], l)
<1>1. /\ donor[p] \subseteq Safekeepers /\ PropEpochStartLsn(p) \in Nat
      /\ \A x \in Safekeepers : ackFlush[p][x] \in Nat
  BY EpochStartType DEF TypeInv, TypeOK, ProposerTypeOK
<1>2. d \in Safekeepers /\ (d \in donor[p] \/ ackFlush[p][d] > 0)
  BY <1>1 DEF GetDonor
<1>3. term[d] = propTerm[p] /\ FlushLsn(d) >= end
  BY DEF DonorServes
<1>4. Agrees(wal[d], propTh[p])
  <2>1. CASE th[d] = propTh[p]
    BY <1>2, <2>1 DEF HistoryInv, WalInv, WalOK
  <2>2. CASE d \in donor[p] /\ th[d] # propTh[p]
    BY <1>3, <2>2 DEF HistoryInv, DonorInv, DonorOK
  <2>3. CASE ackFlush[p][d] > 0
    <3>1. Joined(p, d)
      BY <1>2, <2>3 DEF HistoryInv, AckJoined
    <3>. QED  BY <1>2, <1>3, <3>1 DEF HistoryInv, WalInv, WalOK, Joined
  <2>. QED  BY <1>2, <2>1, <2>2, <2>3
<1>5. l - StartLsn + 1 \in 1..Len(wal[d])
  <2>1. /\ wal[d] \in Seq(Nat) /\ flushed[d] \in Nat /\ tlStart[d] \in {0, StartLsn}
        /\ flushed[d] <= WriteLsn(d)
    BY <1>2 DEF TypeInv, TypeOK, SafekeeperTypeOK, SafekeeperInv
  <2>. QED  BY <1>3, <2>1 DEF FlushLsn, WriteLsn, MaxOf, StartLsn
<1>6. PICK i \in 1..Len(wal[d]) : i = l - StartLsn + 1
  BY <1>5
<1>7. StartLsn + i - 1 = l
  BY <1>6 DEF StartLsn
<1>. QED  BY <1>4, <1>6, <1>7 DEF Agrees, RecordAt

LEMMA SendAppendRequestHistory ==
  ASSUME TypeInv, TypeInv', ElectionInv, HistoryInv,
         NEW p \in Proposers, NEW s \in Safekeepers, SendAppendRequest(p, s)
  PROVE  HistoryInv'
<1> DEFINE begin == streamingAt[p][s]
           end == MinOf(begin + MAX_SEND_SIZE, availableLsn[p])
           m(e) == [type |-> "append", begin |-> begin, entries |-> e, commit |-> QuorumAck(p)]
           own == [i \in 1..(end - begin) |-> propTerm[p]]
           fetched(d) == [i \in 1..(end - begin) |-> RecordAt(d, begin + i - 1)]
           sent(e) == net' = [net EXCEPT ![p][s]["cur"] = Append(net[p][s]["cur"], m(e))]
           good(e) == \A i \in 1..Len(e) : e[i] = TermOfRecord(propTh[p], begin + i - 1)
<1>1. /\ UNCHANGED skVars
      /\ UNCHANGED <<conn, propTerm, nConnected, vote, propTh, donor, ackFlush, rep, link>>
      /\ conn[p][s] = "active" /\ link[p][s]
      /\ \/ begin >= PropEpochStartLsn(p) /\ sent(own)
         \/ \E d \in GetDonor(p) : DonorServes(p, d, end) /\ sent(fetched(d))
  BY DEF SendAppendRequest
<1>2. /\ begin \in Nat /\ begin >= StartLsn /\ end \in Nat /\ end >= StartLsn
      /\ propTerm[p] \in Nat /\ Elected(p)
  <2>1. ConnOK(p, s)
    BY DEF TypeInv, ConnInv
  <2>2. begin >= StartLsn /\ Elected(p)
    BY <1>1, <2>1 DEF ConnOK
  <2>3. availableLsn[p] >= StartLsn
    BY <2>2 DEF TypeInv, ProposerInv
  <2>4. begin \in Nat /\ availableLsn[p] \in Nat /\ propTerm[p] \in Nat
    BY DEF TypeInv, TypeOK, ProposerTypeOK
  <2>. QED  BY <2>2, <2>3, <2>4, BoundsAssumption DEF MinOf, StartLsn
<1>. HIDE DEF begin, end
<1>3. ASSUME begin >= PropEpochStartLsn(p) PROVE own \in Seq(Nat) /\ good(own)
  <2>1. /\ end - begin \in Int
        /\ \A i \in 1..(end - begin) : own[i] \in Nat
        /\ own = [i \in 1..(end - begin) |-> own[i]]
        /\ DOMAIN own = 1..(end - begin)
    BY <1>2
  <2>2. own \in Seq(Nat)
    <3>. HIDE DEF own
    <3>. QED  BY <2>1, EntriesType
  <2>3. ASSUME NEW i \in 1..Len(own) PROVE own[i] = TermOfRecord(propTh[p], begin + i - 1)
    <3>1. i \in 1..(end - begin) /\ i >= 1
      <4>. HIDE DEF own
      <4>1. DOMAIN own = 1..Len(own) /\ i \in 1..Len(own) /\ i \in Nat /\ i >= 1
        BY <2>2, <2>3
      <4>2. i \in DOMAIN own
        BY <4>1
      <4>. QED  BY <2>1, <4>1, <4>2
    <3>2. own[i] = propTerm[p]
      BY <3>1
    <3>3. /\ propTh[p] \in Seq(TermLsn) /\ propTh[p] # << >> /\ Ordered(propTh[p])
          /\ propTh[p][Len(propTh[p])].term = propTerm[p]
      BY <1>2, LeaderTerms DEF HistoryInv
    <3>4. PropEpochStartLsn(p) \in Nat
      BY <1>2, EpochStartType
    <3>5. begin + i - 1 \in Nat /\ begin + i - 1 >= propTh[p][Len(propTh[p])].lsn
      <4>. HIDE DEF own
      <4>1. i \in Nat /\ i >= 1
        BY <1>2, <3>1
      <4>2. PropEpochStartLsn(p) = propTh[p][Len(propTh[p])].lsn
        BY DEF PropEpochStartLsn
      <4>. QED  BY <1>2, <1>3, <3>4, <4>1, <4>2
    <3>. QED  BY <3>2, <3>3, <3>5, LastTerm
  <2>. QED  BY <2>2, <2>3
<1>4. ASSUME NEW d \in GetDonor(p), DonorServes(p, d, end)
      PROVE  fetched(d) \in Seq(Nat) /\ good(fetched(d))
  <2> DEFINE e == fetched(d)
  <2>1. e \in Seq(Nat) /\ DOMAIN e = 1..(end - begin)
    BY <1>2, <1>4, DonorWal
  <2>2. ASSUME NEW i \in 1..Len(e) PROVE e[i] = TermOfRecord(propTh[p], begin + i - 1)
    <3>1. i \in 1..(end - begin)
      <4>. HIDE DEF e
      <4>1. DOMAIN e = 1..Len(e) /\ i \in 1..Len(e)
        BY <2>1, <2>2
      <4>. QED  BY <2>1, <4>1
    <3>2. e[i] = RecordAt(d, begin + i - 1)
      BY <3>1
    <3>3. begin + i - 1 \in Nat /\ begin + i - 1 < end /\ StartLsn <= begin + i - 1
      BY <1>2, <3>1 DEF StartLsn
    <3>. QED  BY <1>2, <1>4, <3>2, <3>3, DonorServesLeader
  <2>. QED  BY <2>1, <2>2
<1>. HIDE DEF own, fetched, good
<1>5. PICK e \in Seq(Nat) : sent(e) /\ good(e)
  BY <1>1, <1>3, <1>4
<1>6. PICK k : k = m(e)
  OBVIOUS
<1>7. /\ k \in Messages /\ k.type = "append" /\ k.entries = e /\ k.begin = begin
  <2>1. QuorumAck(p) \in Nat
    BY QuorumAckType
  <2>. QED  BY <1>2, <1>6, <2>1 DEF Messages
<1>8. net \in NetType /\ "cur" \in Channels
  BY DEF TypeInv, TypeOK, LinkTypeOK, NetType, Channels
<1>9. /\ \A x \in Proposers, y \in Safekeepers : x # p \/ y # s => net'[x][y] = net[x][y]
      /\ net'[p][s] = Queued(net[p][s], k)
  BY <1>5, <1>6, <1>8 DEF NetType, Queued
<1>10. MsgOK(p, s, k)'
  <2>1. \A i \in 1..Len(e) : e[i] = TermOfRecord(propTh'[p], k.begin + i - 1)
    BY <1>1, <1>5, <1>7 DEF good
  <2>. QED  BY <1>1, <1>2, <1>7, <2>1 DEF MsgOK, Elected
<1>11. SendStep
  <2>1. SentOK(p, s, k)
    BY <1>1, <1>7, <1>9, <1>10 DEF SentOK
  <2>2. ASSUME NEW x \in Proposers, NEW y \in Safekeepers, x # p \/ y # s PROVE KeptConn(x, y)
    BY <1>1, <1>9, <2>2 DEF KeptConn
  <2>. QED  BY <2>1, <2>2 DEF SendStep
<1>12. VoteStep /\ AckStep
  BY <1>1 DEF VoteStep, AckStep
<1>13. \A x \in Proposers : LeaderKept(x)
  BY <1>1, SameTermKept
<1>14. MsgStep /\ OrderInv'
  BY <1>1, <1>11, <1>13, ProposerProgress, SendStepOK DEF HistoryInv
<1>. QED  BY <1>1, <1>12, <1>13, <1>14, ProposerHistory

-----------------------------------------------------------------------------
(***************************************************************************)
(* The election.                                                           *)
(***************************************************************************)

\* A leader has counted the votes of a quorum, and so is elected only once.
CountedInv == \A p \in Proposers : Elected(p) => nVotes[p] >= QuorumSize

LEMMA CountedStep ==
  ASSUME TypeInv, CountedInv, NEW p \in Proposers, NEW s \in Safekeepers, RecvVoteResponse(p, s)
  PROVE  CountedInv'
<1>1. /\ nVotes \in [Proposers -> Nat] /\ propTh \in [Proposers -> Seq(TermLsn)]
      /\ QuorumSize \in Nat
  BY QuorumSizeType DEF TypeInv, TypeOK, ProposerTypeOK
<1>2. CASE UNCHANGED propTh /\ (UNCHANGED nVotes \/ nVotes' = [nVotes EXCEPT ![p] = nVotes[p] + 1])
  <2>1. \A x \in Proposers : nVotes'[x] >= nVotes[x] /\ nVotes'[x] \in Nat
    BY <1>1, <1>2, SMTT(30)
  <2>. QED  BY <1>1, <1>2, <2>1 DEF CountedInv, Elected
<1>3. ASSUME NEW h, propTh' = [propTh EXCEPT ![p] = h], nVotes[p] + 1 = QuorumSize,
             nVotes' = [nVotes EXCEPT ![p] = nVotes[p] + 1]
      PROVE  CountedInv'
  <2>1. nVotes'[p] = QuorumSize
        /\ \A x \in Proposers : x # p => nVotes'[x] = nVotes[x] /\ propTh'[x] = propTh[x]
    BY <1>1, <1>3
  <2>. QED  BY <1>1, <2>1 DEF CountedInv, Elected
<1>. QED  BY <1>2, <1>3 DEF RecvVoteResponse

LEMMA CountedKept ==
  ASSUME CountedInv, UNCHANGED <<nVotes, propTh>>
  PROVE  CountedInv'
BY DEF CountedInv, Elected

\* A history and one more switch.
LEMMA AppendedHistory ==
  ASSUME NEW H, NEW g \in Seq(TermLsn), NEW e \in TermLsn, PrefixIn(g, H), Append(g, e) \in H,
         Ordered(g), \A i \in 1..Len(g) : g[i].term < e.term /\ g[i].lsn <= e.lsn
  PROVE  PrefixIn(Append(g, e), H) /\ Ordered(Append(g, e))
<1> DEFINE h == Append(g, e)
<1>1. /\ h \in Seq(TermLsn) /\ Len(h) = Len(g) + 1 /\ Len(g) \in Nat
      /\ \A i \in 1..Len(g) : h[i] = g[i]
      /\ h[Len(g) + 1] = e
  OBVIOUS
<1>. HIDE DEF h
<1>2. ASSUME NEW i \in 1..Len(h) PROVE SubSeq(h, 1, i) \in H
  <2>1. CASE i = Len(h)
    <3>1. SubSeq(h, 1, i) = h
      BY <1>1, <2>1
    <3>. QED  BY <3>1 DEF h
  <2>2. CASE i # Len(h)
    <3>1. i \in 1..Len(g)
      BY <1>1, <2>2
    <3>2. SubSeq(h, 1, i) = SubSeq(g, 1, i)
      BY <1>1, <3>1
    <3>. QED  BY <3>1, <3>2 DEF PrefixIn
  <2>. QED  BY <2>1, <2>2
<1>3. ASSUME NEW i \in 1..Len(h), NEW j \in 1..Len(h), i < j
      PROVE  h[i].term < h[j].term /\ h[i].lsn <= h[j].lsn
  <2>1. i \in 1..Len(g) /\ h[i] = g[i]
    BY <1>1, <1>3
  <2>2. CASE j = Len(g) + 1
    BY <1>1, <2>1, <2>2
  <2>3. CASE j # Len(g) + 1
    <3>1. j \in 1..Len(g) /\ h[j] = g[j]
      BY <1>1, <2>3
    <3>. QED  BY <1>3, <2>1, <3>1 DEF Ordered
  <2>. QED  BY <2>2, <2>3
<1>. QED  BY <1>2, <1>3 DEF PrefixIn, Ordered, h

\* WAL before the last switch of a history, and of the history without it.
LEMMA AppendedAgrees ==
  ASSUME NEW g \in Seq(TermLsn), NEW e \in TermLsn, NEW w \in Seq(Nat), Agrees(w, g),
         StartLsn + Len(w) <= e.lsn
  PROVE  Agrees(w, Append(g, e))
<1> DEFINE h == Append(g, e)
<1>1. /\ h \in Seq(TermLsn) /\ Len(h) = Len(g) + 1 /\ Len(g) \in Nat
      /\ \A i \in 1..Len(g) : h[i] = g[i]
      /\ h[Len(g) + 1] = e
  OBVIOUS
<1>. HIDE DEF h
<1>2. e.lsn \in Nat /\ Len(w) \in Nat
  BY DEF TermLsn
<1>3. ASSUME NEW i \in 1..Len(w) PROVE w[i] = TermOfRecord(h, StartLsn + i - 1)
  <2>1. PICK l \in Nat : l = StartLsn + i - 1 /\ l < e.lsn
    BY <1>2 DEF StartLsn
  <2>2. Len(g) \in 0..Len(h) /\ Len(g) \in 0..Len(g)
    BY <1>1
  <2>3. TermOfRecord(h, l) = TermOfRecord(g, l)
    <3>1. /\ \A k \in 1..Len(g) : h[k] = g[k]
          /\ Len(g) < Len(h) => h[Len(g) + 1].lsn > l
          /\ Len(g) < Len(g) => g[Len(g) + 1].lsn > l
      BY <1>1, <1>2, <2>1
    <3>. QED  BY <1>1, <2>2, <3>1, AgreeBelow
  <2>. QED  BY <2>1, <2>3 DEF Agrees
<1>. QED  BY <1>3 DEF Agrees, h

\* WAL with the voter's history, up to where the leader begins to stream.
LEMMA StartAgreesTo ==
  ASSUME NEW H, LeaderHistories(H), NEW h \in Seq(TermLsn), NEW g \in Seq(TermLsn),
         PrefixIn(h, H), PrefixIn(g, H), Ordered(h), Ordered(g), NEW t \in Nat,
         h # << >>, h[1].lsn = StartLsn, h[Len(h)].term = t,
         \A i \in 1..Len(g) : g[i].term <= t,
         NEW flush \in Nat, NEW w \in Seq(Nat), Agrees(w, g),
         NEW start \in Nat, start = StartStreamingAt(h, t, g, flush)
  PROVE  AgreesTo(w, h, start)
<1>1. ASSUME NEW i \in 1..Len(w), StartLsn + i <= start
      PROVE  w[i] = TermOfRecord(h, StartLsn + i - 1)
  <2>1. PICK l \in Nat : l = StartLsn + i - 1 /\ StartLsn <= l /\ l < start
    BY <1>1 DEF StartLsn
  <2>2. TermOfRecord(g, l) = TermOfRecord(h, l)
    BY <2>1, StartAgrees, SMTT(30)
  <2>. QED  BY <2>1, <2>2 DEF Agrees
<1>. QED  BY <1>1 DEF AgreesTo

\* The same of the next state: ProposerElected is right.
LEMMA ElectedMsg ==
  ASSUME TypeInv', ElectionSafety', LeaderInv', WalInv',
         NEW p \in Proposers, NEW y \in Safekeepers, Elected(p)', NEW u \in Votes,
         SnapOK(p, y, u.th, u.flush)', NEW start \in Nat,
         start = StartStreamingAt(propTh'[p], propTerm'[p], u.th, u.flush),
         NEW m, m.type = "elected", m.start = start
  PROVE  MsgOK(p, y, m)'
<1>1. /\ u.th \in Seq(TermLsn) /\ u.flush \in Nat
      /\ propTh'[p] \in Seq(TermLsn) /\ propTerm'[p] \in Nat /\ wal'[y] \in Seq(Nat)
  BY NextTypes DEF Votes
<1>2. LeaderHistories(Leaders') /\ \A a \in Leaders' : Ordered(a)
  <2>1. ASSUME NEW x \in Proposers, Elected(x)'
        PROVE  /\ propTh'[x] \in Seq(TermLsn) /\ propTh'[x] # << >>
               /\ propTh'[x][Len(propTh'[x])].term = propTerm'[x]
               /\ Ordered(propTh'[x])
    BY <2>1 DEF TypeInv, TypeOK, ProposerTypeOK, ProposerInv, Elected, LeaderInv
  <2>. QED  BY <2>1 DEF LeaderHistories, Leaders, ElectionSafety
<1>3. /\ term'[y] >= propTerm'[p] /\ PrefixIn(u.th, Leaders')
      /\ \A i \in 1..Len(u.th) : u.th[i].term <= propTerm'[p]
  BY DEF SnapOK
<1>4. ASSUME term'[y] = propTerm'[p] PROVE AgreesTo(wal'[y], propTh'[p], start)
  <2>1. CASE th'[y] = propTh'[p]
    <3>1. Agrees(wal'[y], propTh'[p])
      BY <2>1 DEF WalInv, WalOK
    <3>. QED  BY <3>1 DEF Agrees, AgreesTo
  <2>2. CASE th'[y] # propTh'[p]
    <3>1. NoOther(p)'
      BY DEF NoOther, ElectionSafety
    <3>2. Agrees(wal'[y], u.th)
      BY <1>4, <2>2, <3>1 DEF SnapOK
    <3>3. Ordered(u.th)
      BY <1>1, <1>2, <1>3, PrefixOrdered
    <3>4. /\ propTh'[p] # << >> /\ propTh'[p][1].lsn = StartLsn
          /\ propTh'[p][Len(propTh'[p])].term = propTerm'[p]
          /\ PrefixIn(propTh'[p], Leaders') /\ Ordered(propTh'[p])
      BY DEF TypeInv, ProposerInv, LeaderInv, Elected
    <3>. QED  BY <1>1, <1>2, <1>3, <3>2, <3>3, <3>4, StartAgreesTo
  <2>. QED  BY <2>1, <2>2
<1>. QED  BY <1>3, <1>4 DEF MsgOK

\* SendProposerElected only changes what concerns the connections to S.
LEMMA SendElectedSteps ==
  ASSUME TypeInv, TypeInv', NEW p \in Proposers, NEW S \in SUBSET Safekeepers,
         NEW v \in [Safekeepers -> Votes], NEW h, SendProposerElected(p, S, v, h), link' = link,
         \A y \in S : \A m :
            m.type = "elected" /\ m.start = StartStreamingAt(h, propTerm[p], v[y].th, v[y].flush)
               => m.start \in Nat /\ MsgOK(p, y, m)'
  PROVE  SendStep /\ VoteStep
<1> DEFINE start(y) == StartStreamingAt(h, propTerm[p], v[y].th, v[y].flush)
           m(y) == [type |-> "elected", start |-> start(y)]
<1>1. /\ conn \in [Proposers -> [Safekeepers -> ConnStates]]
      /\ vote \in [Proposers -> [Safekeepers -> Votes]]
      /\ rep \in [Proposers -> [Safekeepers -> Replies]]
      /\ net \in NetType
  BY DEF TypeInv, TypeOK, ProposerTypeOK, LinkTypeOK, NetType
<1>2. /\ conn' = [conn EXCEPT ![p] = [y \in Safekeepers |->
                     IF y \in S THEN "active" ELSE conn[p][y]]]
      /\ net'  = [net EXCEPT ![p] = [y \in Safekeepers |->
                     IF y \in S /\ link[p][y] THEN Queued(net[p][y], m(y)) ELSE net[p][y]]]
      /\ vote' = [vote EXCEPT ![p] = [y \in Safekeepers |->
                     IF y \in S THEN NoVote ELSE vote[p][y]]]
      /\ rep'  = [rep EXCEPT ![p] = [y \in Safekeepers |->
                     IF y \in S THEN NoReply ELSE rep[p][y]]]
  BY DEF SendProposerElected
<1>3. ASSUME NEW y \in S, NEW k, k = m(y)
      PROVE  k \in Messages /\ k.type = "elected" /\ MsgOK(p, y, k)'
  <2>1. k.type = "elected" /\ k.start = start(y)
    BY <1>3
  <2>2. k.start \in Nat /\ MsgOK(p, y, k)'
    BY <2>1
  <2>3. start(y) \in Nat
    BY <2>1, <2>2
  <2>. HIDE DEF start
  <2>4. k \in Messages
    BY <1>3, <2>3 DEF Messages
  <2>. QED  BY <2>1, <2>2, <2>4
<1>. HIDE DEF m
<1>4. \A x \in Proposers, y \in Safekeepers : ~(x = p /\ y \in S) =>
         /\ conn'[x][y] = conn[x][y] /\ vote'[x][y] = vote[x][y] /\ rep'[x][y] = rep[x][y]
         /\ net'[x][y] = net[x][y]
  BY <1>1, <1>2 DEF NetType
<1>5. \A y \in S :
         /\ conn'[p][y] = "active" /\ rep'[p][y] = NoReply
         /\ net'[p][y] = IF link[p][y] THEN Queued(net[p][y], m(y)) ELSE net[p][y]
  BY <1>1, <1>2 DEF NetType
<1>6. SendStep
  <2>1. ASSUME NEW x \in Proposers, NEW y \in Safekeepers
        PROVE  KeptConn(x, y) \/ \E k : SentOK(x, y, k)
    <3>1. CASE ~(x = p /\ y \in S)
      BY <1>4, <3>1 DEF KeptConn
    <3>2. CASE x = p /\ y \in S /\ ~link[p][y]
      BY <1>5, <3>2 DEF KeptConn
    <3>3. CASE x = p /\ y \in S /\ link[p][y]
      <4>1. PICK k : k = m(y)
        OBVIOUS
      <4>2. k \in Messages /\ k.type = "elected" /\ net'[p][y] = Queued(net[p][y], k)
        BY <1>3, <1>5, <3>3, <4>1
      <4>3. MsgOK(p, y, k)'
        BY <1>3, <3>3, <4>1
      <4>. QED  BY <3>3, <4>2, <4>3 DEF SentOK
    <3>. QED  BY <3>1, <3>2, <3>3
  <2>. QED  BY <2>1 DEF SendStep
<1>7. VoteStep
  <2>1. ASSUME NEW x \in Proposers, NEW y \in Safekeepers
        PROVE  /\ conn'[x][y] = "idle" => conn[x][y] = "idle" /\ vote'[x][y] = vote[x][y]
               /\ rep'[x][y] = rep[x][y] \/ ReplyOK(x, y, rep[x][y])'
    <3>1. CASE ~(x = p /\ y \in S)
      BY <1>4, <3>1
    <3>2. CASE x = p /\ y \in S
      BY <1>5, <3>2 DEF ReplyOK, NoReply
    <3>. QED  BY <3>1, <3>2
  <2>. QED  BY <2>1 DEF VoteStep
<1>. QED  BY <1>6, <1>7

\* SendProposerElected to safekeepers with good votes, by a leader in the next
\* state.
LEMMA SendElectedHistory ==
  ASSUME HistoryInv, Progress, ElectionSafety', LeaderInv', WalInv', AckStep,
         NEW p \in Proposers, NEW S \in SUBSET Safekeepers, NEW v \in [Safekeepers -> Votes],
         SendProposerElected(p, S, v, propTh'[p]), link' = link,
         nConnected[p] >= QuorumSize, Elected(p)',
         \A y \in S : WalInfoOK(v[y].th, v[y].flush) /\ SnapOK(p, y, v[y].th, v[y].flush)
  PROVE  HistoryInv'
<1>1. /\ TypeInv /\ TypeInv' /\ propTerm'[p] = propTerm[p]
      /\ propTh'[p] \in Seq(TermLsn) /\ propTerm[p] \in Nat
  BY StateTypes, NextTypes DEF Progress, LeaderKept, TypeInv, TypeOK, ProposerTypeOK
<1>2. /\ propTh'[p] # << >> /\ propTh'[p][1].lsn = StartLsn
      /\ propTh'[p][Len(propTh'[p])].term = propTerm[p]
  BY <1>1 DEF TypeInv, ProposerInv, Elected
<1>3. ASSUME NEW y \in S
      PROVE  \A m :
         m.type = "elected" /\ m.start = StartStreamingAt(propTh'[p], propTerm[p], v[y].th, v[y].flush)
            => m.start \in Nat /\ MsgOK(p, y, m)'
  <2>1. PICK start : start = StartStreamingAt(propTh'[p], propTerm[p], v[y].th, v[y].flush)
    OBVIOUS
  <2>2. PICK u \in Votes : u = v[y]
    OBVIOUS
  <2>3. u.th \in Seq(TermLsn) /\ u.flush \in Nat
    BY DEF Votes
  <2>4. WalInfoOK(u.th, u.flush) /\ SnapOK(p, y, u.th, u.flush)
    BY <2>2
  <2>5. start \in Nat
    BY <1>1, <1>2, <2>1, <2>2, <2>3, <2>4, StartStreamingAtType
  <2>6. SnapOK(p, y, u.th, u.flush)'
    BY <2>3, <2>4, SnapStays
  <2>7. start = StartStreamingAt(propTh'[p], propTerm'[p], u.th, u.flush)
    BY <1>1, <2>1, <2>2
  <2>8. ASSUME NEW m, m.type = "elected", m.start = start PROVE MsgOK(p, y, m)'
    BY <1>1, <2>5, <2>6, <2>7, <2>8, ElectedMsg
  <2>. QED  BY <2>1, <2>5, <2>8
<1>4. SendStep /\ VoteStep
  <2>1. PICK h : h = propTh'[p]
    OBVIOUS
  <2>2. SendProposerElected(p, S, v, h)
    BY <2>1
  <2>3. \A y \in S : \A m :
           m.type = "elected" /\ m.start = StartStreamingAt(h, propTerm[p], v[y].th, v[y].flush)
              => m.start \in Nat /\ MsgOK(p, y, m)'
    BY <1>3, <2>1
  <2>. QED  BY <1>1, <2>2, <2>3, SendElectedSteps
<1>5. MsgStep /\ OrderInv'
  BY <1>4, SendStepOK DEF HistoryInv
<1>. QED  BY <1>4, <1>5, HistoryStep

\* The new leader's history is that of a voter and one entry more.
LEMMA NewLeader ==
  ASSUME TypeInv, TypeInv', ElectionInv, ElectionSafety', HistoryInv, UNCHANGED skVars,
         UNCHANGED <<propTerm, nConnected, ackFlush>>,
         NEW p \in Proposers, ~Elected(p), NEW d \in Safekeepers, NEW u \in Votes,
         WalInfoOK(u.th, u.flush), VoteOK(p, d, u),
         propTh' = [propTh EXCEPT ![p] = NewHistory(p, u)], donor' = [donor EXCEPT ![p] = {d}]
  PROVE  Progress /\ LeaderInv' /\ WalInv' /\ AckStep /\ Elected(p)'
<1>1. PICK e : e = [term |-> propTerm[p], lsn |-> IF u.flush = 0 THEN StartLsn ELSE u.flush]
  OBVIOUS
<1>2. /\ u.th \in Seq(TermLsn) /\ u.flush \in Nat /\ propTerm[p] \in Nat
      /\ propTh \in [Proposers -> Seq(TermLsn)] /\ donor \in [Proposers -> SUBSET Safekeepers]
  BY DEF Votes, TypeInv, TypeOK, ProposerTypeOK
<1>3. /\ e \in TermLsn /\ e.term = propTerm[p] /\ e.lsn = MaxOf(u.flush, StartLsn)
      /\ e.lsn \in Nat /\ e.lsn >= u.flush
  BY <1>1, <1>2 DEF TermLsn, MaxOf, StartLsn
<1>4. PICK h : h = Append(u.th, e) /\ h \in Seq(TermLsn)
  <2>1. Append(u.th, e) \in Seq(TermLsn)
    BY <1>2, <1>3
  <2>. QED  BY <2>1
<1>5a. h # << >> /\ Len(h) = Len(u.th) + 1 /\ h[Len(h)] = e
  BY <1>2, <1>3, <1>4, AppendProperties
<1>5b. h = NewHistory(p, u)
  BY <1>1, <1>4 DEF NewHistory
<1>5. /\ propTh'[p] = h /\ donor'[p] = {d}
      /\ \A x \in Proposers : x # p => propTh'[x] = propTh[x] /\ donor'[x] = donor[x]
  BY <1>2, <1>5b
<1>6. \A x \in Proposers : LeaderKept(x)
  BY <1>5 DEF LeaderKept
<1>7. Progress
  BY <1>6, ProposerProgress
<1>8. Elected(p)' /\ h \in Leaders' /\ Leaders \subseteq Leaders'
  BY <1>5, <1>5a, <1>7, LeadersGrow DEF Elected, Leaders
<1>9. SnapOK(p, d, u.th, u.flush)' /\ Below(u.th, propTerm[p]) /\ SnapOK(p, d, u.th, u.flush)
  <2>1. SnapOK(p, d, u.th, u.flush) /\ Below(u.th, propTerm[p])
    BY DEF VoteOK
  <2>. QED  BY <1>2, <1>7, <2>1, SnapStays
<1>10. LeaderInv'
  <2>1. PrefixIn(h, Leaders') /\ Ordered(h)
    <3>1. PrefixIn(u.th, Leaders') /\ PrefixIn(u.th, Leaders)
      BY <1>9 DEF SnapOK
    <3>2. Ordered(u.th)
      <4>1. \A a \in Leaders : Ordered(a)
        BY DEF HistoryInv, LeaderInv, Leaders
      <4>. QED  BY <1>2, <3>1, <4>1, PrefixOrdered
    <3>3. ASSUME NEW i \in 1..Len(u.th) PROVE u.th[i].term < e.term /\ u.th[i].lsn <= e.lsn
      <4>1. u.th[i].lsn <= u.flush /\ u.th[i].term < propTerm[p]
        BY <1>9 DEF SnapOK, Below
      <4>2. u.th[i].lsn \in Nat
        BY <1>2, EntryType
      <4>. QED  BY <1>2, <1>3, <4>1, <4>2
    <3>. QED  BY <1>2, <1>3, <1>4, <1>8, <3>1, <3>2, <3>3, AppendedHistory
  <2>2. ASSUME NEW x \in Proposers, x # p, Elected(x)'
        PROVE  PrefixIn(propTh'[x], Leaders') /\ Ordered(propTh'[x])
    <3>1. Elected(x) /\ propTh'[x] = propTh[x]
      BY <1>5, <2>2 DEF Elected
    <3>2. PrefixIn(propTh[x], Leaders) /\ Ordered(propTh[x])
      BY <3>1 DEF HistoryInv, LeaderInv
    <3>. QED  BY <1>8, <3>1, <3>2, PrefixGrows
  <2>. QED  BY <1>5, <2>1, <2>2 DEF LeaderInv
<1>11. WalInv'
  BY <1>8, WalInvStays DEF HistoryInv
<1>12. AckStep
  <2>1. DonorOK(p, d)'
    <3>1. term'[d] >= propTerm'[p] /\ NoOther(p)'
      BY <1>8, <1>9 DEF SnapOK, NoOther, ElectionSafety
    <3>2. PropEpochStartLsn(p)' = e.lsn
      BY <1>5, <1>5a DEF PropEpochStartLsn
    <3>3. ASSUME term'[d] = propTerm'[p], th'[d] # propTh'[p]
          PROVE  StartLsn + Len(wal'[d]) <= e.lsn /\ Agrees(wal'[d], propTh'[p])
      <4>1. StartLsn + Len(wal'[d]) <= e.lsn /\ Agrees(wal'[d], u.th)
        BY <1>3, <1>9, <3>1, <3>3 DEF SnapOK
      <4>2. PICK w \in Seq(Nat) : w = wal'[d]
        BY NextTypes
      <4>3. Agrees(w, Append(u.th, e))
        BY <1>2, <1>3, <4>1, <4>2, AppendedAgrees
      <4>. QED  BY <1>4, <1>5, <4>1, <4>2, <4>3
    <3>. QED  BY <1>8, <3>1, <3>2, <3>3 DEF DonorOK
  <2>2. ASSUME NEW x \in Proposers, NEW y \in donor'[x] PROVE y \in donor[x] \/ DonorOK(x, y)'
    <3>1. CASE x = p
      BY <1>5, <2>1, <2>2, <3>1
    <3>2. CASE x # p
      BY <1>5, <2>2, <3>2
    <3>. QED  BY <3>1, <3>2
  <2>. QED  BY <2>2 DEF AckStep
<1>. QED  BY <1>7, <1>8, <1>10, <1>11, <1>12

LEMMA RecvVoteResponseHistory ==
  ASSUME TypeInv, TypeInv', ElectionInv, ElectionInv', HistoryInv, CountedInv,
         NEW p \in Proposers, NEW s \in Safekeepers, RecvVoteResponse(p, s)
  PROVE  HistoryInv'
<1> DEFINE r == rep[p][s]
           n == nVotes[p] + 1
           w == [flush |-> r.flush, th |-> r.th]
           v == [vote[p] EXCEPT ![s] = w]
           ready == {i \in Safekeepers : conn[p][i] = "idle"} \union {s}
           refused == ~r.given /\ (r.term > propTerm[p] \/ nVotes[p] < QuorumSize)
<1>1. /\ UNCHANGED skVars
      /\ UNCHANGED <<propTerm, nConnected, ackFlush>>
      /\ r.type = "vote"
  BY DEF RecvVoteResponse
<1>2. /\ r \in Replies /\ r.given \in BOOLEAN /\ r.term \in Nat /\ r.flush \in Nat
      /\ r.th \in Seq(TermLsn) /\ w \in Votes
      /\ nVotes[p] \in Nat /\ QuorumSize \in Nat /\ propTerm[p] \in Nat
      /\ vote \in [Proposers -> [Safekeepers -> Votes]]
  <2>1. /\ nVotes[p] \in Nat /\ QuorumSize \in Nat /\ propTerm[p] \in Nat
        /\ vote \in [Proposers -> [Safekeepers -> Votes]] /\ r \in Replies
    BY QuorumSizeType DEF TypeInv, TypeOK, ProposerTypeOK, LinkTypeOK
  <2>. QED  BY <1>1, <2>1, VoteReplyType
<1>3. v \in [Safekeepers -> Votes] /\ v[s] = w /\ \A y \in Safekeepers : y # s => v[y] = vote[p][y]
  BY <1>2
<1>4. /\ ReplyOK(p, s, r) /\ nConnected[p] >= QuorumSize
      /\ WalInfoOK(w.th, w.flush) /\ w.th = r.th /\ w.flush = r.flush
  BY <1>1 DEF HistoryInv, SnapInv, ReplyOK, TypeInv, ConnInv, ConnOK
<1>5. ~refused => SnapOK(p, s, w.th, w.flush)
  <2>1. ~refused => r.term <= propTerm[p]
    BY <1>1, <1>2, <1>4 DEF ReplyOK
  <2>. QED  BY <1>1, <1>4, <2>1 DEF ReplyOK
<1>6. ~refused /\ n <= QuorumSize => VoteOK(p, s, w)
  <2>1. ~refused /\ n <= QuorumSize => r.given
    BY <1>2
  <2>. QED  BY <1>1, <1>4, <1>5, <2>1 DEF ReplyOK, VoteOK
<1>7. ASSUME NEW y \in Safekeepers, conn[p][y] = "idle"
      PROVE  VoteOK(p, y, vote[p][y]) /\ WalInfoOK(vote[p][y].th, vote[p][y].flush)
  BY <1>7 DEF HistoryInv, SnapInv, TypeInv, ConnInv, ConnOK
<1>. HIDE DEF r, v, w
<1>8. CASE Die(p) /\ UNCHANGED <<nVotes, propTh, donor, availableLsn, net>>
  BY <1>1, <1>8, SameTermKept, DieHistory
<1>9. CASE /\ ~refused /\ n < QuorumSize
           /\ conn' = [conn EXCEPT ![p][s] = "idle"]
           /\ vote' = [vote EXCEPT ![p] = v]
           /\ rep'  = [rep EXCEPT ![p][s] = NoReply]
           /\ UNCHANGED <<propTh, donor, net, link>>
  <2>1. /\ conn \in [Proposers -> [Safekeepers -> ConnStates]]
        /\ rep \in [Proposers -> [Safekeepers -> Replies]]
    BY DEF TypeInv, TypeOK, ProposerTypeOK, LinkTypeOK
  <2>2. /\ conn'[p][s] = "idle" /\ vote'[p][s] = w /\ rep'[p][s] = NoReply
        /\ \A x \in Proposers, y \in Safekeepers : x # p \/ y # s =>
              conn'[x][y] = conn[x][y] /\ vote'[x][y] = vote[x][y] /\ rep'[x][y] = rep[x][y]
    BY <1>2, <1>3, <1>9, <2>1
  <2>3. \A x \in Proposers : LeaderKept(x)
    BY <1>1, <1>9, SameTermKept
  <2>4. Progress
    BY <1>1, <2>3, ProposerProgress
  <2>5. VoteStep
    <3>1. VoteOK(p, s, vote[p][s])'
      <4>1. PICK u \in Votes : u = w
        BY <1>2
      <4>2. u.flush \in Nat /\ SnapOK(p, s, u.th, u.flush) /\ Below(u.th, propTerm[p])
        BY <1>2, <1>6, <1>9, <4>1 DEF VoteOK, Votes
      <4>3. SnapOK(p, s, u.th, u.flush)' /\ Below(u.th, propTerm'[p])
        BY <1>1, <2>4, <4>2, SnapStays
      <4>4. VoteOK(p, s, u)'
        BY <4>3 DEF VoteOK
      <4>. QED  BY <2>2, <4>1, <4>4
    <3>2. ReplyOK(p, s, rep[p][s])'
      BY <2>2 DEF ReplyOK, NoReply
    <3>3. ASSUME NEW x \in Proposers, NEW y \in Safekeepers
          PROVE  /\ conn'[x][y] = "idle" =>
                       \/ conn[x][y] = "idle" /\ vote'[x][y] = vote[x][y]
                       \/ VoteOK(x, y, vote[x][y])'
                 /\ rep'[x][y] = rep[x][y] \/ ReplyOK(x, y, rep[x][y])'
      <4>1. CASE x = p /\ y = s
        BY <3>1, <3>2, <4>1
      <4>2. CASE x # p \/ y # s
        BY <2>2, <4>2
      <4>. QED  BY <4>1, <4>2
    <3>. QED  BY <3>3 DEF VoteStep
  <2>6. SendStep
    <3>1. ASSUME NEW x \in Proposers, NEW y \in Safekeepers PROVE KeptConn(x, y)
      <4>1. conn'[x][y] = "active" => conn[x][y] = "active"
        BY <2>2
      <4>. QED  BY <1>9, <4>1 DEF KeptConn
    <3>. QED  BY <3>1 DEF SendStep
  <2>7. AckStep
    BY <1>1, <1>9 DEF AckStep
  <2>8. MsgStep /\ OrderInv'
    BY <2>4, <2>6, SendStepOK DEF HistoryInv
  <2>. QED  BY <1>1, <1>9, <2>3, <2>5, <2>7, <2>8, ProposerHistory
<1>10. ElectionSafety'
  <2>1. ASSUME NEW x \in Proposers, NEW y \in Proposers, Elected(x)', Elected(y)', x # y
        PROVE  propTerm'[x] # propTerm'[y]
    <3>1. IsQuorum(Voters(x)') /\ IsQuorum(Voters(y)')
      BY <2>1 DEF ElectionInv, VotersInv
    <3>2. PICK a \in Safekeepers : a \in Voters(x)' /\ a \in Voters(y)'
      <4>1. Voters(x)' \in SUBSET Safekeepers /\ Voters(y)' \in SUBSET Safekeepers
        BY DEF Voters
      <4>. QED  BY <3>1, <4>1, QuorumsMeet
    <3>. QED  BY <2>1, <3>2 DEF Voters, ElectionInv, GrantInv
  <2>. QED  BY <2>1 DEF ElectionSafety
<1>11. CASE /\ ~refused /\ n > QuorumSize
            /\ SendProposerElected(p, {s}, v, propTh[p])
            /\ UNCHANGED <<propTh, donor, link>>
  <2>1. Elected(p) /\ Elected(p)'
    BY <1>2, <1>11 DEF TypeInv, ProposerInv, Elected
  <2>2. Progress /\ Leaders' = Leaders
    BY <1>1, <1>11, SameTermKept, ProposerProgress DEF Leaders, Elected
  <2>3. LeaderInv'
    BY <1>11, <2>2 DEF HistoryInv, LeaderInv, Elected
  <2>4. WalInv' /\ AckStep
    BY <1>1, <1>11, <2>2, WalInvStays DEF HistoryInv, AckStep
  <2>5. \A y \in {s} : WalInfoOK(v[y].th, v[y].flush) /\ SnapOK(p, y, v[y].th, v[y].flush)
    BY <1>3, <1>4, <1>5, <1>11
  <2>6. SendProposerElected(p, {s}, v, propTh'[p])
    BY <1>11
  <2>. QED  BY <1>3, <1>4, <1>10, <1>11, <2>1, <2>2, <2>3, <2>4, <2>5, <2>6, SendElectedHistory
<1>12. ASSUME ~refused, n = QuorumSize, UNCHANGED link, NEW d \in MostAdvanced(v, ready),
              propTh' = [propTh EXCEPT ![p] = NewHistory(p, v[d])],
              donor' = [donor EXCEPT ![p] = {d}],
              SendProposerElected(p, ready, v, NewHistory(p, v[d]))
       PROVE  HistoryInv'
  <2>1. ~Elected(p)
    BY <1>2, <1>12 DEF CountedInv
  <2>2. ASSUME NEW y \in ready
        PROVE  VoteOK(p, y, v[y]) /\ WalInfoOK(v[y].th, v[y].flush)
    <3>1. CASE y = s
      <4>1. n <= QuorumSize
        BY <1>2, <1>12
      <4>2. VoteOK(p, s, w)
        BY <1>6, <1>12, <4>1
      <4>. QED  BY <1>3, <1>4, <3>1, <4>2
    <3>2. CASE y # s
      BY <1>3, <1>7, <3>2
    <3>. QED  BY <3>1, <3>2
  <2>3. d \in ready /\ ready \in SUBSET Safekeepers /\ d \in Safekeepers
    BY <1>12 DEF MostAdvanced
  <2>. HIDE DEF ready
  <2>4. PICK u \in Votes : u = v[d]
    BY <1>3, <2>3
  <2>5. WalInfoOK(u.th, u.flush) /\ VoteOK(p, d, u)
    BY <2>2, <2>3, <2>4
  <2>6. propTh' = [propTh EXCEPT ![p] = NewHistory(p, u)]
    BY <1>12, <2>4
  <2>7. Progress /\ LeaderInv' /\ WalInv' /\ AckStep /\ Elected(p)'
    BY <1>1, <1>10, <1>12, <2>1, <2>3, <2>5, <2>6, NewLeader
  <2>8. \A y \in ready : WalInfoOK(v[y].th, v[y].flush) /\ SnapOK(p, y, v[y].th, v[y].flush)
    BY <2>2 DEF VoteOK
  <2>9. SendProposerElected(p, ready, v, propTh'[p])
    <3>1. propTh'[p] = NewHistory(p, v[d])
      BY <1>12 DEF TypeInv, TypeOK, ProposerTypeOK
    <3>. QED  BY <1>12, <3>1
  <2>. QED  BY <1>3, <1>4, <1>10, <1>12, <2>3, <2>7, <2>8, <2>9, SendElectedHistory
<1>. QED  BY <1>8, <1>9, <1>11, <1>12 DEF RecvVoteResponse, r, v, w

-----------------------------------------------------------------------------
LEMMA InitHistory == Init => CountedInv /\ HistoryInv
<1> SUFFICES ASSUME Init PROVE CountedInv /\ HistoryInv
  OBVIOUS
<1>1. ASSUME NEW p \in Proposers PROVE ~Elected(p) /\ donor[p] = {}
  BY DEF Init, Elected
<1>2. ASSUME NEW s \in Safekeepers PROVE th[s] = << >> /\ wal[s] = << >>
  BY DEF Init
<1>3. ASSUME NEW p \in Proposers, NEW s \in Safekeepers
      PROVE  /\ conn[p][s] = "offline" /\ rep[p][s].type = "none" /\ ackFlush[p][s] = 0
             /\ \A c \in Channels : net[p][s][c] = << >>
  BY DEF Init, NoReply
<1>4. LeaderInv /\ CountedInv /\ DonorInv
  BY <1>1 DEF LeaderInv, CountedInv, DonorInv
<1>5. WalInv
  BY <1>2 DEF WalInv, WalOK, PrefixIn, Agrees
<1>6. MsgInv /\ OrderInv
  BY <1>3 DEF MsgInv, OrderInv, OrderOK, QueueOrdered
<1>7. SnapInv /\ AckJoined
  BY <1>3 DEF SnapInv, ReplyOK, AckJoined
<1>. QED  BY <1>4, <1>5, <1>6, <1>7 DEF HistoryInv

LEMMA NextCounted == TypeInv /\ CountedInv /\ [Next]_vars => CountedInv'
<1> SUFFICES ASSUME TypeInv, CountedInv, [Next]_vars PROVE CountedInv'
  OBVIOUS
<1>1. CASE UNCHANGED <<nVotes, propTh>>
  BY <1>1, CountedKept
<1>2. ASSUME NEW p \in Proposers, NEW s \in Safekeepers, RecvVoteResponse(p, s)
      PROVE  CountedInv'
  BY <1>2, CountedStep
<1>3. ASSUME NEW p \in Proposers, NEW s \in Safekeepers, SafekeeperStep(p, s)
      PROVE  UNCHANGED <<nVotes, propTh>>
  BY <1>3 DEF SafekeeperStep, HandleVoteRequest, HandleElected, CrashInElected,
              HandleAppendRequest, HandleFlush, RestartWith, propVars
<1>4. ASSUME NEW p \in Proposers, NEW s \in Safekeepers,
             Greet(p, s) \/ SendAppendRequest(p, s) \/ RecvAppendResponse(p, s)
                \/ ShutdownConnection(p, s) \/ WalProposerBroadcast(p)
      PROVE  UNCHANGED <<nVotes, propTh>>
  BY <1>4 DEF Greet, SendAppendRequest, RecvAppendResponse, ShutdownConnection,
              WalProposerBroadcast
<1>5. ASSUME NEW s \in Safekeepers,
             PersistControlFile(s) \/ SafekeeperRestart(s) \/ PublishInfo(s)
                \/ RecordSafekeeperInfo(s)
      PROVE  UNCHANGED <<nVotes, propTh>>
  BY <1>5 DEF PersistControlFile, SafekeeperRestart, RestartWith, PublishInfo,
              RecordSafekeeperInfo, propVars
<1>6. CASE UNCHANGED vars
  BY <1>1, <1>6 DEF vars, propVars
<1>7. Safekeepers # {}
  BY SafekeepersAssumption
<1>. QED  BY <1>1, <1>2, <1>3, <1>4, <1>5, <1>6, <1>7 DEF Next, ProposerStep

\* The invariant that everything about histories and WAL follows from.
ConsensusInv == TypeInv /\ ElectionInv /\ CountedInv /\ HistoryInv

LEMMA NextHistory == ConsensusInv /\ [Next]_vars => ConsensusInv'
<1>1. SUFFICES ASSUME ConsensusInv, [Next]_vars PROVE ConsensusInv'
  OBVIOUS
<1>2. TypeInv /\ ElectionInv /\ CountedInv /\ HistoryInv
  BY <1>1 DEF ConsensusInv
<1>3. TypeInv' /\ ElectionInv' /\ CountedInv'
  BY <1>1, <1>2, NextType, NextElection, NextCounted
<1>4. CASE UNCHANGED vars
  BY <1>2, <1>3, <1>4, IdleHistory DEF vars, skVars, propVars, linkVars, ConsensusInv
<1>5. ASSUME NEW p \in Proposers, NEW s \in Safekeepers, SafekeeperStep(p, s)
      PROVE  HistoryInv'
  BY <1>2, <1>3, <1>5, HandleVoteRequestHistory, HandleElectedHistory, CrashInElectedHistory,
     HandleAppendRequestHistory, HandleFlushHistory DEF SafekeeperStep
<1>6. ASSUME NEW p \in Proposers, NEW s \in Safekeepers, ProposerStep(p, s)
      PROVE  HistoryInv'
  BY <1>2, <1>3, <1>6, GreetHistory, RecvVoteResponseHistory, SendAppendRequestHistory,
     RecvAppendResponseHistory, ShutdownConnectionHistory DEF ProposerStep
<1>7. ASSUME NEW p \in Proposers, WalProposerBroadcast(p)
      PROVE  HistoryInv'
  BY <1>2, <1>3, <1>7, WalProposerBroadcastHistory
<1>8. ASSUME NEW s \in Safekeepers,
             \/ PersistControlFile(s) \/ SafekeeperRestart(s)
             \/ PublishInfo(s) \/ RecordSafekeeperInfo(s)
      PROVE  HistoryInv'
  BY <1>2, <1>3, <1>8, SafekeeperRestartHistory, LsnStepHistory
<1>9. HistoryInv'
  BY <1>1, <1>4, <1>5, <1>6, <1>7, <1>8 DEF Next, ConsensusInv
<1>. QED  BY <1>3, <1>9 DEF ConsensusInv

LEMMA AlwaysConsensus == Spec => []ConsensusInv
<1>1. Init => ConsensusInv
  BY InitType, InitElection, InitHistory DEF ConsensusInv
<1>. QED  BY <1>1, NextHistory, PTL DEF Spec

LEMMA HistoriesBeginOnce == ConsensusInv => TermBeginsOnce
<1> SUFFICES ASSUME ConsensusInv,
                    NEW h \in Histories, NEW g \in Histories, NEW i \in DOMAIN h, NEW j \in DOMAIN g,
                    h[i].term = g[j].term
             PROVE  h[i].lsn = g[j].lsn
  BY DEF TermBeginsOnce
<1>1. LeaderHistories(Leaders)
  BY LeadersAre, ElectionInvSafe DEF ConsensusInv
<1>2. ASSUME NEW f \in Histories
      PROVE  f \in Seq(TermLsn) /\ PrefixIn(f, Leaders)
  <2>1. ASSUME NEW s \in Safekeepers, f = th[s] PROVE f \in Seq(TermLsn) /\ PrefixIn(f, Leaders)
    BY <2>1 DEF ConsensusInv, TypeInv, TypeOK, SafekeeperTypeOK, HistoryInv, WalInv, WalOK
  <2>2. ASSUME NEW p \in Proposers, f = propTh[p]
        PROVE  f \in Seq(TermLsn) /\ PrefixIn(f, Leaders)
    <3>1. CASE Elected(p)
      BY <2>2, <3>1 DEF ConsensusInv, TypeInv, TypeOK, ProposerTypeOK, HistoryInv, LeaderInv
    <3>2. CASE ~Elected(p)
      <4>1. f = << >> /\ << >> \in Seq(TermLsn) /\ Len(<< >>) = 0
        BY <2>2, <3>2 DEF Elected
      <4>2. \A k \in 1..Len(f) : FALSE
        BY <4>1
      <4>. QED  BY <4>1, <4>2 DEF PrefixIn
    <3>. QED  BY <3>1, <3>2
  <2>. QED  BY <2>1, <2>2 DEF Histories
<1>3. h \in Seq(TermLsn) /\ g \in Seq(TermLsn) /\ i \in 1..Len(h) /\ j \in 1..Len(g)
  BY <1>2
<1>4. i = j /\ \A k \in 1..i : h[k] = g[k]
  BY <1>1, <1>2, <1>3, SamePrefix
<1>5. i \in 1..i
  BY <1>3
<1>. QED  BY <1>4, <1>5

(***************************************************************************)
(* A term begins at one LSN, in the history of whichever safekeeper or     *)
(* walproposer it appears, for any number of them: the assertions of       *)
(* SendProposerElected and find_highest_common_point cannot fail.          *)
(***************************************************************************)
THEOREM EveryTermBeginsOnce == Spec => []TermBeginsOnce
BY AlwaysConsensus, HistoriesBeginOnce, PTL

LEMMA HistoryDescribesWal == ConsensusInv => WalMatchesHistory
<1> SUFFICES ASSUME ConsensusInv, NEW s \in Safekeepers,
                    NEW l \in StartLsn..(StartLsn + Len(wal[s]) - 1)
             PROVE  RecordAt(s, l) = TermOfRecord(th[s], l)
  BY DEF WalMatchesHistory
<1>1. wal[s] \in Seq(Nat) /\ Agrees(wal[s], th[s])
  BY DEF ConsensusInv, TypeInv, TypeOK, SafekeeperTypeOK, HistoryInv, WalInv, WalOK
<1>2. PICK i \in 1..Len(wal[s]) : i = l - StartLsn + 1
  BY <1>1 DEF StartLsn
<1>3. StartLsn + i - 1 = l
  BY <1>2 DEF StartLsn
<1>. QED  BY <1>1, <1>2, <1>3 DEF Agrees, RecordAt

(***************************************************************************)
(* The records of a safekeeper's WAL, flushed or not, are those that its   *)
(* persisted term history describes, for any number of safekeepers and     *)
(* walproposers: handle_elected cuts the WAL before it saves the history,  *)
(* and a crash between the two leaves WAL that the old history describes.  *)
(***************************************************************************)
THEOREM HistoryOfWal == Spec => []WalMatchesHistory
BY AlwaysConsensus, HistoryDescribesWal, PTL
-----------------------------------------------------------------------------
\* A history agrees with another at an LSN only when all switches up to there
\* are common.
LEMMA CommonWhere ==
  ASSUME NEW H, LeaderHistories(H), NEW h \in Seq(TermLsn), NEW g \in Seq(TermLsn),
         PrefixIn(h, H), PrefixIn(g, H), h # << >>, g # << >>,
         h[1].lsn = StartLsn, g[1].lsn = StartLsn, NEW lsn \in Nat, lsn >= StartLsn,
         TermOfRecord(g, lsn) = TermOfRecord(h, lsn)
  PROVE  \E k \in 1..CommonSwitches(h, g) :
            /\ k < Len(h) => h[k + 1].lsn > lsn
            /\ k < Len(g) => g[k + 1].lsn > lsn
<1>1. PICK j \in 0..Len(h) : j = SwitchesUpTo(h, lsn) /\ (j < Len(h) => h[j + 1].lsn > lsn)
  BY SwitchesFacts
<1>2. PICK k \in 0..Len(g) : k = SwitchesUpTo(g, lsn) /\ (k < Len(g) => g[k + 1].lsn > lsn)
  BY SwitchesFacts
<1>3. Len(h) \in Nat /\ Len(g) \in Nat /\ Len(h) >= 1 /\ Len(g) >= 1
  OBVIOUS
<1>4. j # 0 /\ k # 0
  <2>1. ~(h[1].lsn > lsn) /\ ~(g[1].lsn > lsn)
    BY DEF StartLsn
  <2>2. ASSUME j = 0 PROVE FALSE
    <3>1. h[0 + 1].lsn > lsn
      BY <1>1, <1>3, <2>2
    <3>. QED  BY <2>1, <3>1
  <2>3. ASSUME k = 0 PROVE FALSE
    <3>1. g[0 + 1].lsn > lsn
      BY <1>2, <1>3, <2>3
    <3>. QED  BY <2>1, <3>1
  <2>. QED  BY <2>2, <2>3
<1>5. h[j].term = g[k].term
  BY <1>1, <1>2, <1>4, TermOfRecordIs
<1>6. j = k /\ \A i \in 1..j : h[i] = g[i]
  <2>1. j \in 1..Len(h) /\ k \in 1..Len(g)
    BY <1>1, <1>2, <1>4
  <2>. QED  BY <1>5, <2>1, SamePrefix
<1>7. PICK n \in 0..Len(h) :
         /\ n = CommonSwitches(h, g) /\ n \in 0..Len(g)
         /\ n < Len(h) /\ n < Len(g) => h[n + 1].term # g[n + 1].term
  BY CommonSwitchesFacts
<1>8. k <= n
  <2>1. ASSUME n < k PROVE FALSE
    <3>1. n + 1 \in 1..j /\ n < Len(h) /\ n < Len(g)
      BY <1>1, <1>2, <1>6, <1>7, <2>1
    <3>. QED  BY <1>6, <1>7, <3>1
  <2>. QED  BY <1>2, <1>7, <2>1
<1>9. k \in 1..CommonSwitches(h, g)
  BY <1>2, <1>4, <1>7, <1>8
<1>. QED  BY <1>1, <1>2, <1>6, <1>9

\* LSNs of later switches are not lower.
LEMMA OrderedLsn ==
  ASSUME NEW h \in Seq(TermLsn), Ordered(h), NEW i \in 1..Len(h), NEW j \in 1..Len(h), i <= j
  PROVE  h[i].lsn <= h[j].lsn
<1>1. h[i].lsn \in Nat
  BY EntryType
<1>2. CASE i = j
  BY <1>1, <1>2
<1>3. CASE i < j
  BY <1>3 DEF Ordered
<1>. QED  BY <1>2, <1>3

(***************************************************************************)
(* SendProposerElected starts where the two histories part, and            *)
(* find_highest_common_point finds the same point.                         *)
(***************************************************************************)
LEMMA StartDiverges ==
  ASSUME NEW H, LeaderHistories(H), NEW h \in Seq(TermLsn), NEW g \in Seq(TermLsn),
         PrefixIn(h, H), PrefixIn(g, H), Ordered(h), Ordered(g), NEW t \in Nat, NEW f \in Nat,
         h # << >>, g # << >>, h[1].lsn = StartLsn, g[1].lsn = StartLsn, h[Len(h)].term = t,
         \A i \in 1..Len(g) : g[i].lsn <= f, f >= StartLsn,
         NEW start, start = StartStreamingAt(h, t, g, f)
  PROVE  /\ start \in StartLsn..f
         /\ start < f => TermOfRecord(g, start) # TermOfRecord(h, start)
         /\ FindHighestCommonPoint(h, g, f) # << >> => FindHighestCommonPoint(h, g, f)[1].lsn = start
<1>1. PICK n \in 0..Len(h) : n = CommonSwitches(h, g) /\ n \in 0..Len(g)
  BY CommonSwitchesFacts
<1>2. Len(h) \in Nat /\ Len(g) \in Nat /\ Len(h) \in 1..Len(h)
  OBVIOUS
<1>3. \A i \in 1..Len(h) : h[i].lsn \in Nat /\ h[i].lsn >= StartLsn /\ h[i].term \in Nat
  BY EntryType
<1>4. \A i \in 1..Len(g) : g[i].lsn \in Nat /\ g[i].lsn >= StartLsn
  BY EntryType
<1>5. ASSUME n # 0 PROVE h[n].term = t <=> n = Len(h)
  <2>1. n < Len(h) => h[n].term < h[Len(h)].term
    BY <1>1, <1>2, <1>5 DEF Ordered
  <2>2. n \in 1..Len(h)
    BY <1>1, <1>5
  <2>. QED  BY <1>1, <1>3, <2>1, <2>2
<1>6. PICK e : e = TermEnd(g, n, f)
  OBVIOUS
<1>7. e \in Nat /\ e >= StartLsn /\ e <= f /\ (e < f => n < Len(g) /\ e = g[n + 1].lsn)
  <2>1. CASE n < Len(g)
    <3>1. n + 1 \in 1..Len(g) /\ e = g[n + 1].lsn
      BY <1>1, <1>2, <1>6, <2>1 DEF TermEnd
    <3>. QED  BY <1>4, <2>1, <3>1
  <2>2. CASE ~(n < Len(g))
    <3>1. e = f
      BY <1>6, <2>2 DEF TermEnd
    <3>. QED  BY <3>1
  <2>. QED  BY <2>1, <2>2
<1>8. /\ n = 0 => start = StartLsn
      /\ n # 0 /\ n = Len(h) => start = f
      /\ n # 0 /\ n # Len(h) => start = MinOf(h[n + 1].lsn, e)
  BY <1>1, <1>5, <1>6 DEF StartStreamingAt
<1>9. n # Len(h) => n + 1 \in 1..Len(h)
  BY <1>1, <1>2
<1>10. start \in StartLsn..f
  <2>1. CASE n = 0
    BY <1>8, <2>1 DEF StartLsn
  <2>2. CASE n # 0 /\ n = Len(h)
    BY <1>8, <2>2 DEF StartLsn
  <2>3. CASE n # 0 /\ n # Len(h)
    BY <1>3, <1>7, <1>8, <1>9, <2>3 DEF MinOf, StartLsn
  <2>. QED  BY <2>1, <2>2, <2>3
<1>11. ASSUME start < f, TermOfRecord(g, start) = TermOfRecord(h, start) PROVE FALSE
  <2>1. start \in Nat /\ start >= StartLsn
    BY <1>10 DEF StartLsn
  <2>2. PICK k \in 1..n :
           /\ k < Len(h) => h[k + 1].lsn > start
           /\ k < Len(g) => g[k + 1].lsn > start
    BY <1>1, <1>11, <2>1, CommonWhere
  <2>3. n # 0 /\ n # Len(h)
    BY <1>1, <1>8, <1>10, <1>11, <2>2 DEF StartLsn
  <2>4. start = h[n + 1].lsn \/ (start = g[n + 1].lsn /\ n < Len(g))
    BY <1>7, <1>8, <1>11, <2>3 DEF MinOf
  <2>5. CASE start = h[n + 1].lsn
    <3>1. k + 1 \in 1..Len(h) /\ n + 1 \in 1..Len(h) /\ k + 1 <= n + 1 /\ k < Len(h)
      BY <1>1, <1>2, <1>9, <2>2, <2>3
    <3>2. h[k + 1].lsn <= h[n + 1].lsn /\ h[k + 1].lsn \in Nat
      BY <1>3, <3>1, OrderedLsn
    <3>. QED  BY <2>1, <2>2, <2>5, <3>1, <3>2
  <2>6. CASE start = g[n + 1].lsn /\ n < Len(g)
    <3>1. k + 1 \in 1..Len(g) /\ n + 1 \in 1..Len(g) /\ k + 1 <= n + 1 /\ k < Len(g)
      BY <1>1, <1>2, <2>2, <2>6
    <3>2. g[k + 1].lsn <= g[n + 1].lsn /\ g[k + 1].lsn \in Nat
      BY <1>4, <3>1, OrderedLsn
    <3>. QED  BY <2>1, <2>2, <2>6, <3>1, <3>2
  <2>. QED  BY <2>4, <2>5, <2>6
<1>12. FindHighestCommonPoint(h, g, f) # << >> => FindHighestCommonPoint(h, g, f)[1].lsn = start
  <2>1. CASE n = 0
    BY <1>1, <2>1 DEF FindHighestCommonPoint
  <2>2. CASE n # 0 /\ n = Len(h)
    BY <1>1, <1>8, <2>2 DEF FindHighestCommonPoint
  <2>3. CASE n # 0 /\ n # Len(h)
    BY <1>1, <1>6, <1>8, <2>3 DEF FindHighestCommonPoint
  <2>. QED  BY <2>1, <2>2, <2>3
<1>. QED  BY <1>10, <1>11, <1>12

LEMMA StartIsDivergence == ConsensusInv => DivergencePoint
<1>1. SUFFICES ASSUME ConsensusInv, NEW p \in Proposers, NEW s \in Safekeepers,
                      Elected(p), tlStart[s] # 0, term[s] <= propTerm[p],
                      NEW f, f = FlushLsn(s), NEW g, g = GetTermHistory(s, f),
                      NEW start, start = StartStreamingAt(propTh[p], propTerm[p], g, f)
               PROVE  /\ start \in StartLsn..f
                      /\ \A l \in StartLsn..(start - 1) : RecordAt(s, l) = TermOfRecord(propTh[p], l)
                      /\ start < f => RecordAt(s, start) # TermOfRecord(propTh[p], start)
                      /\ FindHighestCommonPoint(propTh[p], g, f) # << >> =>
                            FindHighestCommonPoint(propTh[p], g, f)[1].lsn = start
  BY DEF DivergencePoint
<1>2. PICK h \in Seq(TermLsn), k \in Seq(TermLsn) : h = propTh[p] /\ k = th[s]
  BY <1>1, StateTypes DEF ConsensusInv
<1>3. PICK t \in Nat : t = propTerm[p]
  BY <1>1, StateTypes DEF ConsensusInv
<1>4. /\ h # << >> /\ h[Len(h)].term = t /\ h[1].lsn = StartLsn
      /\ PrefixIn(h, Leaders) /\ Ordered(h)
  BY <1>1, <1>2, <1>3, LeaderTerms DEF ConsensusInv, HistoryInv
<1>5. /\ f \in Nat /\ f >= StartLsn /\ f <= StartLsn + Len(wal[s]) /\ Len(wal[s]) \in Nat
  <2>1. /\ tlStart[s] = StartLsn /\ flushed[s] \in Nat /\ flushed[s] <= WriteLsn(s)
        /\ WriteLsn(s) = StartLsn + Len(wal[s]) /\ Len(wal[s]) \in Nat
    BY <1>1, SafekeeperFacts DEF ConsensusInv, TypeInv, TypeOK, SafekeeperTypeOK, SafekeeperInv
  <2>. QED  BY <1>1, <2>1 DEF FlushLsn, MaxOf, StartLsn
<1>6. k # << >> /\ k[1].lsn = StartLsn /\ PrefixIn(k, Leaders)
      /\ \A i \in 1..Len(k) : k[i].term <= term[s]
  BY <1>1, <1>2 DEF ConsensusInv, TypeInv, SafekeeperInv, HistoryInv, WalInv, WalOK
<1>7. g = UpTo(k, f)
  BY <1>1, <1>2 DEF GetTermHistory
<1>8. /\ g \in Seq(TermLsn) /\ PrefixIn(g, Leaders) /\ g # << >>
      /\ \A i \in 1..Len(g) : i \in 1..Len(k) /\ g[i] = k[i] /\ g[i].lsn <= f
  BY <1>5, <1>6, <1>7, UpToPrefix, UpToType
<1>9. g[1].lsn = StartLsn
  <2>1. 1 \in 1..Len(g)
    BY <1>8
  <2>. QED  BY <1>6, <1>8, <2>1
<1>10. Ordered(g)
  <2>1. \A a \in Leaders : Ordered(a)
    BY <1>1 DEF Leaders, ConsensusInv, HistoryInv, LeaderInv
  <2>. QED  BY <1>8, <2>1, PrefixOrdered
<1>11. \A i \in 1..Len(g) : g[i].term <= t
  <2>1. term[s] \in Nat
    BY <1>1, StateTypes DEF ConsensusInv
  <2>. QED  BY <1>1, <1>2, <1>3, <1>6, <1>8, <2>1, EntryType, SMTT(30)
<1>12. LeaderHistories(Leaders)
  BY <1>1, LeadersAre, ElectionInvSafe DEF ConsensusInv
<1>13. start = StartStreamingAt(h, t, g, f)
  BY <1>1, <1>2, <1>3
<1>14. /\ start \in StartLsn..f
       /\ start < f => TermOfRecord(g, start) # TermOfRecord(h, start)
       /\ FindHighestCommonPoint(h, g, f) # << >> => FindHighestCommonPoint(h, g, f)[1].lsn = start
  <2>1. g \in Seq(TermLsn) /\ f \in Nat /\ PrefixIn(g, Leaders)
    BY <1>5, <1>8
  <2>2. \A i \in 1..Len(g) : g[i].lsn <= f
    BY <1>8
  <2>3. g # << >> /\ f >= StartLsn
    BY <1>5, <1>8
  <2>. QED  BY <1>4, <1>9, <1>10, <1>12, <1>13, <2>1, <2>2, <2>3, StartDiverges
<1>15. ASSUME NEW l \in StartLsn..(f - 1) PROVE RecordAt(s, l) = TermOfRecord(g, l)
  <2>1. l \in StartLsn..(StartLsn + Len(wal[s]) - 1) /\ l \in 0..f
    BY <1>5, <1>15 DEF StartLsn
  <2>2. RecordAt(s, l) = TermOfRecord(k, l)
    BY <1>1, <1>2, <2>1, HistoryDescribesWal DEF WalMatchesHistory
  <2>3. TermOfRecord(g, l) = TermOfRecord(k, l)
    BY <1>5, <1>7, <2>1, UpToAgrees
  <2>. QED  BY <2>2, <2>3
<1>16. ASSUME NEW l \in StartLsn..(start - 1) PROVE RecordAt(s, l) = TermOfRecord(propTh[p], l)
  <2>1. l \in Nat /\ StartLsn <= l /\ l < start /\ l \in StartLsn..(f - 1)
    BY <1>5, <1>14, <1>16 DEF StartLsn
  <2>2. TermOfRecord(g, l) = TermOfRecord(h, l)
    <3>1. l < StartStreamingAt(h, t, g, f)
      BY <1>13, <2>1
    <3>2. g \in Seq(TermLsn) /\ PrefixIn(g, Leaders) /\ f \in Nat /\ l \in Nat /\ StartLsn <= l
      BY <1>5, <1>8, <2>1
    <3>. QED  BY <1>4, <1>10, <1>11, <1>12, <3>1, <3>2, StartAgrees, SMTT(30)
  <2>. QED  BY <1>2, <1>15, <2>1, <2>2
<1>17. start < f => RecordAt(s, start) # TermOfRecord(propTh[p], start)
  <2>1. start < f => start \in StartLsn..(f - 1)
    BY <1>5, <1>14 DEF StartLsn
  <2>. QED  BY <1>2, <1>14, <1>15, <2>1
<1>. QED  BY <1>2, <1>14, <1>16, <1>17

(***************************************************************************)
(* Where a leader starts streaming is exactly where the flushed WAL of a   *)
(* safekeeper departs from its own, for any number of safekeepers,         *)
(* walproposers and terms: the computations of SendProposerElected and     *)
(* find_highest_common_point on the histories alone are exact.             *)
(***************************************************************************)
THEOREM StreamingStartsAtDivergence == Spec => []DivergencePoint
BY AlwaysConsensus, StartIsDivergence, PTL
=============================================================================
