-------------------------- MODULE WalConsensusProofs --------------------------
(***************************************************************************)
(* Type correctness and election safety of WalConsensus, proved for every  *)
(* number of safekeepers and proposers and every bound.                    *)
(***************************************************************************)
EXTENDS WalConsensus, FiniteSetTheorems, SequenceTheorems, TLAPS

(***************************************************************************)
(* What a vote says of a safekeeper's WAL: nothing yet, or a history that  *)
(* begins where the timeline does.                                         *)
(***************************************************************************)
WalInfoOK(h, flush) ==
    \/ flush = 0 /\ h = << >>
    \/ flush >= StartLsn /\ h # << >> /\ h[1].lsn = StartLsn

\* A safekeeper has a history from when it knows where the timeline starts,
\* and no WAL is flushed that is not written.
SafekeeperInv ==
    \A s \in Safekeepers :
        /\ flushed[s] <= WriteLsn(s)
        /\ tlStart[s] = 0 => th[s] = << >>
        /\ tlStart[s] # 0 => th[s] # << >> /\ th[s][1].lsn = StartLsn

\* A proposer's term is fixed once a quorum has greeted it, and its history,
\* from the election on, runs from the start of the timeline to that term.
ProposerInv ==
    \A p \in Proposers :
        /\ nVotes[p] >= QuorumSize => Elected(p)
        /\ Elected(p) => /\ propTh[p][1].lsn = StartLsn
                         /\ propTh[p][Len(propTh[p])].term = propTerm[p]
                         /\ nConnected[p] >= QuorumSize
                         /\ availableLsn[p] >= StartLsn

\* What connections carry agrees with the two sides they connect.
ConnOK(p, s) ==
    /\ conn[p][s] \in {"wait_verdict", "idle", "active"} => nConnected[p] >= QuorumSize
    /\ conn[p][s] = "active" => Elected(p) /\ streamingAt[p][s] >= StartLsn
    /\ conn[p][s] = "idle" =>
          /\ WalInfoOK(vote[p][s].th, vote[p][s].flush)
          /\ tlStart[s] = 0 => vote[p][s].flush = 0
    /\ rep[p][s].type = "vote" =>
          /\ WalInfoOK(rep[p][s].th, rep[p][s].flush)
          /\ tlStart[s] = 0 => rep[p][s].flush = 0

ConnInv == \A p \in Proposers, s \in Safekeepers : ConnOK(p, s)

ElectedMsgOK(p, s, m) ==
    m.type = "elected" =>
        /\ Elected(p)
        /\ m.start >= StartLsn
        /\ tlStart[s] = 0 => m.start = StartLsn

NetInv ==
    \A p \in Proposers, s \in Safekeepers, c \in Channels :
        \A i \in DOMAIN net[p][s][c] : ElectedMsgOK(p, s, net[p][s][c][i])

TypeInv == TypeOK /\ SafekeeperInv /\ ProposerInv /\ ConnInv /\ NetInv

-----------------------------------------------------------------------------
(***************************************************************************)
(* Lemmas about the operators of TermHistory and WalConsensus.             *)
(***************************************************************************)

\* A quorum is not empty.
LEMMA QuorumSizeType == QuorumSize \in Nat /\ QuorumSize >= 1
<1>1. Cardinality(Safekeepers) \in Nat
  BY SafekeepersAssumption, FS_CardinalityType
<1>. QED  BY <1>1 DEF QuorumSize

\* Counting the elements of a subset of 1..n gives at most n, and at least 1
\* if 1 is among them.
LEMMA CountUpTo ==
  ASSUME NEW n \in Nat, NEW T \in SUBSET (1..n)
  PROVE  /\ Cardinality(T) \in 0..n
         /\ 1 \in T => Cardinality(T) >= 1
<1>1. IsFiniteSet(1..n) /\ Cardinality(1..n) = n
  BY FS_Interval
<1>2. IsFiniteSet(T) /\ Cardinality(T) \in Nat /\ Cardinality(T) <= n
  BY <1>1, FS_Subset, FS_CardinalityType
<1>3. 1 \in T => Cardinality(T) # 0
  BY <1>2, FS_EmptySet
<1>. QED  BY <1>2, <1>3

\* TermHistory::up_to returns a history; not an empty one, when the first
\* term of the history begins at or before lsn.
LEMMA UpToType ==
  ASSUME NEW h \in Seq(TermLsn), NEW lsn \in Nat
  PROVE  /\ UpTo(h, lsn) \in Seq(TermLsn)
         /\ h # << >> /\ h[1].lsn <= lsn =>
               UpTo(h, lsn) # << >> /\ UpTo(h, lsn)[1] = h[1]
         /\ h = << >> => UpTo(h, lsn) = << >>
<1> DEFINE T == {n \in 1..Len(h) : \A i \in 1..n : h[i].lsn <= lsn}
           k == SwitchesUpTo(h, lsn)
<1>1. k \in 0..Len(h) /\ (1 \in T => k >= 1)
  <2>1. Len(h) \in Nat /\ T \in SUBSET (1..Len(h))
    OBVIOUS
  <2>. QED  BY <2>1, CountUpTo DEF SwitchesUpTo
<1>2. /\ SubSeq(h, 1, k) \in Seq(TermLsn)
      /\ Len(SubSeq(h, 1, k)) = k
      /\ k >= 1 => SubSeq(h, 1, k)[1] = h[1]
  <2>1. \A i \in 1..k : h[i] \in TermLsn
    BY <1>1
  <2>. QED  BY <1>1, <2>1, SubSeqProperties
<1>3. ASSUME h # << >>, h[1].lsn <= lsn
      PROVE  1 \in T
  BY <1>3
<1>. HIDE DEF T, k
<1>. QED  BY <1>1, <1>2, <1>3 DEF UpTo, k

\* The number of common switches is an index of both histories, or 0.
LEMMA CommonSwitchesType ==
  ASSUME NEW h \in Seq(TermLsn), NEW g \in Seq(TermLsn)
  PROVE  /\ CommonSwitches(h, g) \in 0..Len(h)
         /\ CommonSwitches(h, g) \in 0..Len(g)
<1> DEFINE m == MinOf(Len(h), Len(g))
           T == {n \in 1..m : \A i \in 1..n : h[i].term = g[i].term}
<1>1. m \in Nat /\ m <= Len(h) /\ m <= Len(g)
  BY DEF MinOf
<1>2. T \in SUBSET (1..m)
  OBVIOUS
<1>3. CommonSwitches(h, g) = Cardinality(T)
  BY DEF CommonSwitches
<1>. HIDE DEF m, T
<1>4. Cardinality(T) \in 0..m
  BY <1>1, <1>2, CountUpTo
<1>. QED  BY <1>1, <1>3, <1>4

\* SendProposerElected never starts before the timeline does, and starts
\* there on a safekeeper that has nothing.
LEMMA StartStreamingAtType ==
  ASSUME NEW h \in Seq(TermLsn), NEW t \in Nat, NEW g \in Seq(TermLsn), NEW flush \in Nat,
         h # << >>, h[1].lsn = StartLsn, h[Len(h)].term = t, WalInfoOK(g, flush)
  PROVE  /\ StartStreamingAt(h, t, g, flush) \in Nat
         /\ StartStreamingAt(h, t, g, flush) >= StartLsn
         /\ flush = 0 => StartStreamingAt(h, t, g, flush) = StartLsn
<1> DEFINE i == CommonSwitches(h, g)
<1>1. i \in 0..Len(h) /\ i \in 0..Len(g)
  BY CommonSwitchesType
<1>. HIDE DEF i
<1>2. CASE i = 0
  BY <1>2 DEF StartStreamingAt, StartLsn, i
<1>3. CASE i # 0
  <2>1. g # << >> /\ flush >= StartLsn
    BY <1>1, <1>3 DEF WalInfoOK
  <2>2. CASE h[i].term = t
    BY <1>3, <2>1, <2>2 DEF StartStreamingAt, StartLsn, i
  <2>3. CASE h[i].term # t
    <3>1. i + 1 \in 1..Len(h)
      BY <1>1, <1>3, <2>3
    <3>2. h[i + 1].lsn \in Nat /\ h[i + 1].lsn >= StartLsn
      <4>1. h[i + 1] \in TermLsn
        BY <3>1
      <4>. QED  BY <4>1 DEF TermLsn, StartLsn
    <3>3. TermEnd(g, i, flush) \in Nat /\ TermEnd(g, i, flush) >= StartLsn
      <4>1. i < Len(g) => g[i + 1] \in TermLsn
        BY <1>1
      <4>. QED  BY <4>1, <2>1 DEF TermEnd, TermLsn, StartLsn
    <3>. QED  BY <1>3, <2>1, <2>3, <3>2, <3>3 DEF StartStreamingAt, MinOf, StartLsn, i
  <2>. QED  BY <2>2, <2>3
<1>. QED  BY <1>2, <1>3

\* The quorum position is an LSN.
LEMMA QuorumAckType == ASSUME NEW p PROVE QuorumAck(p) \in Nat
<1> DEFINE T == {l \in 1..MaxLsn : IsQuorum({s \in Safekeepers : CountedAck(p, s) >= l})}
<1>1. MaxLsn \in Nat /\ T \in SUBSET (1..MaxLsn)
  BY BoundsAssumption
<1>2. QuorumAck(p) = Cardinality(T)
  BY DEF QuorumAck
<1>. HIDE DEF T
<1>3. Cardinality(T) \in 0..MaxLsn
  BY <1>1, CountUpTo
<1>. QED  BY <1>1, <1>2, <1>3

\* More safekeepers than a quorum are a quorum, and two quorums meet.
LEMMA QuorumGrows ==
  ASSUME NEW A, NEW B \in SUBSET Safekeepers, A \subseteq B, IsQuorum(A)
  PROVE  IsQuorum(B)
<1>1. IsFiniteSet(B) /\ Cardinality(B) \in Nat
  BY SafekeepersAssumption, FS_Subset, FS_CardinalityType
<1>2. Cardinality(A) \in Nat /\ Cardinality(A) <= Cardinality(B)
  BY <1>1, FS_Subset, FS_CardinalityType
<1>. QED  BY <1>1, <1>2, QuorumSizeType DEF IsQuorum

LEMMA QuorumsMeet ==
  ASSUME NEW A \in SUBSET Safekeepers, NEW B \in SUBSET Safekeepers,
         IsQuorum(A), IsQuorum(B)
  PROVE  \E s \in Safekeepers : s \in A /\ s \in B
<1>1. /\ Cardinality(Safekeepers) \in Nat
      /\ Cardinality(A) \in Nat
      /\ Cardinality(B) \in Nat
  BY SafekeepersAssumption, FS_Subset, FS_CardinalityType
<1>2. Cardinality(A) + Cardinality(B) > Cardinality(Safekeepers)
  BY <1>1 DEF IsQuorum, QuorumSize
<1>3. A \cap B # {}
  BY <1>2, SafekeepersAssumption, FS_MajoritiesIntersect
<1>. QED  BY <1>3

-----------------------------------------------------------------------------
(***************************************************************************)
(* The network.  Most steps only take messages out of it, or add messages  *)
(* that the invariants say nothing of.                                     *)
(***************************************************************************)
NetType == [Proposers -> [Safekeepers -> [Channels -> Seq(Messages)]]]

NetKeeps(types) ==
    \A p \in Proposers, s \in Safekeepers, c \in Channels :
        \A i \in DOMAIN net'[p][s][c] :
            \/ net'[p][s][c][i].type \in types
            \/ \E j \in DOMAIN net[p][s][c] : net'[p][s][c][i] = net[p][s][c][j]

QueueKeeps(q, old, types) ==
    \A i \in DOMAIN q : q[i].type \in types \/ \E j \in DOMAIN old : q[i] = old[j]

LEMMA ReplacedQueue ==
  ASSUME net \in NetType, NEW types,
         NEW p \in Proposers, NEW s \in Safekeepers, NEW c \in Channels,
         NEW q \in Seq(Messages),
         net' = [net EXCEPT ![p][s][c] = q],
         QueueKeeps(q, net[p][s][c], types)
  PROVE  net' \in NetType /\ NetKeeps(types)
<1>1. \A x \in Proposers, y \in Safekeepers, z \in Channels :
        net'[x][y][z] = IF x = p /\ y = s /\ z = c THEN q ELSE net[x][y][z]
  BY DEF NetType
<1>2. net' \in NetType
  BY DEF NetType
<1>3. NetKeeps(types)
  BY <1>1 DEF NetKeeps, QueueKeeps
<1>. QED  BY <1>2, <1>3

LEMMA ConsumeKeeps ==
  ASSUME net \in NetType,
         NEW p \in Proposers, NEW s \in Safekeepers, NEW c \in Channels,
         net[p][s][c] # << >>, Consume(p, s, c)
  PROVE  net' \in NetType /\ NetKeeps({})
<1> DEFINE q == net[p][s][c]
<1>1. q \in Seq(Messages)
  BY DEF NetType
<1>2. /\ Tail(q) \in Seq(Messages)
      /\ \A i \in DOMAIN Tail(q) : i + 1 \in DOMAIN q /\ Tail(q)[i] = q[i + 1]
  BY <1>1, HeadTailProperties
<1>3. net' = [net EXCEPT ![p][s][c] = Tail(q)]
  BY DEF Consume
<1>. HIDE DEF q
<1>4. QueueKeeps(Tail(q), net[p][s][c], {})
  BY <1>2 DEF QueueKeeps, q
<1>. QED  BY <1>2, <1>3, <1>4, ReplacedQueue

LEMMA BailKeeps ==
  ASSUME net \in NetType, link \in [Proposers -> [Safekeepers -> BOOLEAN]],
         NEW p \in Proposers, NEW s \in Safekeepers, NEW c \in Channels,
         Bail(p, s, c)
  PROVE  /\ net' \in NetType /\ NetKeeps({})
         /\ link' \in [Proposers -> [Safekeepers -> BOOLEAN]]
<1>1. << >> \in Seq(Messages) /\ DOMAIN << >> = {}
  OBVIOUS
<1>2. net' = [net EXCEPT ![p][s][c] = << >>]
  BY DEF Bail
<1>3. QueueKeeps(<< >>, net[p][s][c], {})
  BY <1>1 DEF QueueKeeps
<1>4. net' \in NetType /\ NetKeeps({})
  BY <1>1, <1>2, <1>3, ReplacedQueue
<1>5. link' \in [Proposers -> [Safekeepers -> BOOLEAN]]
  BY DEF Bail
<1>. QED  BY <1>4, <1>5

\* NetInv holds on as long as no ProposerElected is sent.
LEMMA NetInvKept ==
  ASSUME NetInv, NEW types, NetKeeps(types), "elected" \notin types,
         \A p \in Proposers : Elected(p) => Elected(p)',
         \A s \in Safekeepers : tlStart'[s] = 0 => tlStart[s] = 0
  PROVE  NetInv'
<1>1. SUFFICES ASSUME NEW p \in Proposers, NEW s \in Safekeepers, NEW c \in Channels,
                      NEW i \in DOMAIN net'[p][s][c], net'[p][s][c][i].type = "elected"
               PROVE  /\ Elected(p)'
                      /\ net'[p][s][c][i].start >= StartLsn
                      /\ tlStart'[s] = 0 => net'[p][s][c][i].start = StartLsn
  BY DEF NetInv, ElectedMsgOK
<1>2. PICK j \in DOMAIN net[p][s][c] : net'[p][s][c][i] = net[p][s][c][j]
  BY <1>1 DEF NetKeeps
<1>. QED  BY <1>1, <1>2 DEF NetInv, ElectedMsgOK

\* A message at the head of a queue.
LEMMA HeadType ==
  ASSUME TypeInv, NEW p \in Proposers, NEW s \in Safekeepers, NEW c \in Channels,
         net[p][s][c] # << >>
  PROVE  /\ net \in NetType
         /\ Head(net[p][s][c]) \in Messages
         /\ Head(net[p][s][c]).type = "elected" =>
               /\ Head(net[p][s][c]).start \in Nat
               /\ ElectedMsgOK(p, s, Head(net[p][s][c]))
<1>1. net \in NetType
  BY DEF TypeInv, TypeOK, LinkTypeOK, NetType
<1>2. net[p][s][c] \in Seq(Messages) /\ 1 \in DOMAIN net[p][s][c]
  BY <1>1 DEF NetType
<1>3. Head(net[p][s][c]) = net[p][s][c][1] /\ Head(net[p][s][c]) \in Messages
  BY <1>2
<1>4. ElectedMsgOK(p, s, Head(net[p][s][c]))
  BY <1>2, <1>3 DEF TypeInv, NetInv
<1>5. ASSUME NEW m \in Messages, m.type = "elected" PROVE m.start \in Nat
  BY <1>5 DEF Messages
<1>. QED  BY <1>1, <1>3, <1>4, <1>5

\* What a safekeeper knows of its WAL.
LEMMA SafekeeperFacts ==
  ASSUME TypeInv, NEW s \in Safekeepers
  PROVE  /\ WriteLsn(s) \in Nat
         /\ FlushLsn(s) \in Nat
         /\ tlStart[s] = 0 => WriteLsn(s) = 0 /\ flushed[s] = 0
         /\ tlStart[s] # 0 => WriteLsn(s) = StartLsn + Len(wal[s]) /\ WriteLsn(s) >= StartLsn
         /\ Len(wal[s]) \in Nat
<1>1. /\ wal[s] \in Seq(Nat) /\ flushed[s] \in Nat /\ tlStart[s] \in {0, StartLsn}
      /\ flushed[s] <= WriteLsn(s)
  BY DEF TypeInv, TypeOK, SafekeeperTypeOK, SafekeeperInv
<1>. QED  BY <1>1 DEF WriteLsn, FlushLsn, MaxOf, StartLsn

LEMMA TermHistoryFacts ==
  ASSUME TypeInv, NEW s \in Safekeepers, NEW f \in Nat,
         tlStart[s] = 0 => f = 0, tlStart[s] # 0 => f >= StartLsn
  PROVE  /\ GetTermHistory(s, f) \in Seq(TermLsn)
         /\ WalInfoOK(GetTermHistory(s, f), f)
<1>1. /\ th[s] \in Seq(TermLsn)
      /\ tlStart[s] = 0 => th[s] = << >>
      /\ tlStart[s] # 0 => th[s] # << >> /\ th[s][1].lsn = StartLsn
  BY DEF TypeInv, TypeOK, SafekeeperTypeOK, SafekeeperInv
<1>2. /\ UpTo(th[s], f) \in Seq(TermLsn)
      /\ tlStart[s] = 0 => UpTo(th[s], f) = << >>
      /\ tlStart[s] # 0 => UpTo(th[s], f) # << >> /\ UpTo(th[s], f)[1] = th[s][1]
  BY <1>1, UpToType
<1>. QED  BY <1>1, <1>2 DEF GetTermHistory, WalInfoOK

\* A reply either stays as it was or is the one just sent.
LEMMA ReplySent ==
  ASSUME rep \in [Proposers -> [Safekeepers -> Replies]],
         NEW p \in Proposers, NEW s \in Safekeepers, NEW c, NEW r \in Replies,
         Reply(p, s, c, r)
  PROVE  /\ rep' \in [Proposers -> [Safekeepers -> Replies]]
         /\ \A x \in Proposers, y \in Safekeepers :
               rep'[x][y] = rep[x][y] \/ (x = p /\ y = s /\ rep'[x][y] = r)
BY DEF Reply

-----------------------------------------------------------------------------
(***************************************************************************)
(* Every action preserves TypeInv.                                         *)
(***************************************************************************)
\* A step of a safekeeper concerns proposers only through replies.
LEMMA ProposerUntouched ==
  ASSUME TypeInv, UNCHANGED propVars,
         NEW types, NetKeeps(types), "elected" \notin types,
         \A s \in Safekeepers : tlStart'[s] = 0 => tlStart[s] = 0,
         \A p \in Proposers, s \in Safekeepers :
            \/ rep'[p][s] = rep[p][s]
            \/ rep'[p][s].type # "vote"
            \/ /\ WalInfoOK(rep'[p][s].th, rep'[p][s].flush)
               /\ tlStart[s] = 0 => rep'[p][s].flush = 0
  PROVE  ProposerTypeOK' /\ ProposerInv' /\ ConnInv' /\ NetInv'
<1>1. ProposerTypeOK'
  BY DEF TypeInv, TypeOK, ProposerTypeOK, propVars
<1>2. ProposerInv'
  BY DEF TypeInv, ProposerInv, propVars, Elected
<1>3. ConnInv'
  BY DEF TypeInv, ConnInv, ConnOK, propVars, Elected
<1>4. NetInv'
  BY NetInvKept DEF TypeInv, propVars, Elected
<1>. QED  BY <1>1, <1>2, <1>3, <1>4

LEMMA HandleVoteRequestType ==
  ASSUME TypeInv, NEW p \in Proposers, NEW s \in Safekeepers, NEW c \in Channels,
         HandleVoteRequest(p, s, c)
  PROVE  TypeInv'
<1> USE DEF TypeInv, TypeOK
<1> DEFINE f == MaxOf(WriteLsn(s), tlStart[s])
           r == [type  |-> "vote", given |-> GivesVote(s, propTerm[p]),
                 term  |-> MaxOf(term[s], propTerm[p]), flush |-> f,
                 th    |-> GetTermHistory(s, f)]
<1>1. /\ net[p][s][c] # << >> /\ Consume(p, s, c) /\ Reply(p, s, c, r)
      /\ flushed' = [flushed EXCEPT ![s] = WriteLsn(s)]
      /\ UNCHANGED <<th, tlStart, wal, commit, epochStartLsn, link, published,
                      crashes, publishes>>
      /\ UNCHANGED propVars
  BY DEF HandleVoteRequest, HeadIs, countVars
<1>2. f \in Nat /\ (tlStart[s] = 0 => f = 0) /\ (tlStart[s] # 0 => f >= StartLsn)
  BY SafekeeperFacts DEF MaxOf, SafekeeperTypeOK, StartLsn
<1>3. /\ GetTermHistory(s, f) \in Seq(TermLsn)
      /\ WalInfoOK(GetTermHistory(s, f), f)
  BY <1>2, TermHistoryFacts
<1>4. r \in Replies
  <2>1. GivesVote(s, propTerm[p]) \in BOOLEAN /\ MaxOf(term[s], propTerm[p]) \in Nat
    BY DEF GivesVote, MaxOf, SafekeeperTypeOK, ProposerTypeOK
  <2>. QED  BY <1>2, <1>3, <2>1 DEF Replies
<1>5. /\ r.type = "vote" /\ r.flush = f /\ WalInfoOK(r.th, r.flush)
  BY <1>3
<1>. HIDE DEF f, r
<1>6. /\ rep' \in [Proposers -> [Safekeepers -> Replies]]
      /\ \A x \in Proposers, y \in Safekeepers :
            rep'[x][y] = rep[x][y] \/ (x = p /\ y = s /\ rep'[x][y] = r)
  <2>1. rep \in [Proposers -> [Safekeepers -> Replies]]
    BY DEF LinkTypeOK
  <2>. QED  BY <1>1, <1>4, <2>1, ReplySent
<1>7. net' \in NetType /\ NetKeeps({})
  BY <1>1, HeadType, ConsumeKeeps
<1>8. ProposerTypeOK' /\ ProposerInv' /\ ConnInv' /\ NetInv'
  <2>1. \A x \in Proposers, y \in Safekeepers :
            \/ rep'[x][y] = rep[x][y]
            \/ /\ WalInfoOK(rep'[x][y].th, rep'[x][y].flush)
               /\ tlStart[y] = 0 => rep'[x][y].flush = 0
    BY <1>2, <1>5, <1>6
  <2>. QED  BY <1>1, <1>7, <2>1, ProposerUntouched
<1>9. TypeOK'
  <2>1. WriteLsn(s) \in Nat /\ propTerm[p] \in Nat
    BY SafekeeperFacts DEF ProposerTypeOK
  <2>2. SafekeeperTypeOK'
    BY <1>1, <2>1 DEF HandleVoteRequest, SafekeeperTypeOK
  <2>3. grants' \subseteq Safekeepers \X Proposers
    BY DEF HandleVoteRequest
  <2>4. LinkTypeOK'
    BY <1>1, <1>6, <1>7 DEF LinkTypeOK, NetType
  <2>. QED  BY <1>1, <1>8, <2>2, <2>3, <2>4
<1>10. SafekeeperInv'
  <2>1. \A y \in Safekeepers : WriteLsn(y)' = WriteLsn(y)
    BY <1>1 DEF WriteLsn
  <2>2. WriteLsn(s) \in Nat
    BY SafekeeperFacts
  <2>3. \A y \in Safekeepers : flushed'[y] <= WriteLsn(y)
    BY <1>1, <2>2 DEF SafekeeperTypeOK, SafekeeperInv
  <2>. QED  BY <1>1, <2>1, <2>3 DEF SafekeeperInv
<1>. QED  BY <1>8, <1>9, <1>10

LEMMA HandleFlushType ==
  ASSUME TypeInv, NEW p \in Proposers, NEW s \in Safekeepers, NEW c \in Channels,
         HandleFlush(p, s, c)
  PROVE  TypeInv'
<1> USE DEF TypeInv, TypeOK
<1> DEFINE r == [type |-> "append", term |-> term[s], flush |-> MaxOf(flushed'[s], tlStart[s])]
<1>1. /\ net[p][s][c] # << >> /\ Consume(p, s, c) /\ Reply(p, s, c, r)
      /\ flushed' = [flushed EXCEPT ![s] = WriteLsn(s)]
      /\ UNCHANGED <<term, th, tlStart, pCommit, wal, commit, epochStartLsn, link,
                      published, grants, crashes, publishes>>
      /\ UNCHANGED propVars
  BY DEF HandleFlush, HeadIs, countVars
<1>2. WriteLsn(s) \in Nat /\ flushed' \in [Safekeepers -> Nat]
  BY <1>1, SafekeeperFacts DEF SafekeeperTypeOK
<1>3. r \in Replies /\ r.type = "append"
  <2>1. term[s] \in Nat /\ MaxOf(flushed'[s], tlStart[s]) \in Nat
    <3>1. term[s] \in Nat /\ flushed'[s] \in Nat /\ tlStart[s] \in {0, StartLsn}
      BY <1>2 DEF SafekeeperTypeOK
    <3>. QED  BY <3>1 DEF MaxOf, StartLsn
  <2>. QED  BY <2>1 DEF Replies
<1>. HIDE DEF r
<1>4. /\ rep' \in [Proposers -> [Safekeepers -> Replies]]
      /\ \A x \in Proposers, y \in Safekeepers :
            rep'[x][y] = rep[x][y] \/ (x = p /\ y = s /\ rep'[x][y] = r)
  <2>1. rep \in [Proposers -> [Safekeepers -> Replies]]
    BY DEF LinkTypeOK
  <2>. QED  BY <1>1, <1>3, <2>1, ReplySent
<1>5. net' \in NetType /\ NetKeeps({})
  BY <1>1, HeadType, ConsumeKeeps
<1>6. ProposerTypeOK' /\ ProposerInv' /\ ConnInv' /\ NetInv'
  <2>1. \A x \in Proposers, y \in Safekeepers :
            rep'[x][y] = rep[x][y] \/ rep'[x][y].type # "vote"
    BY <1>3, <1>4
  <2>. QED  BY <1>1, <1>5, <2>1, ProposerUntouched
<1>7. TypeOK'
  <2>1. SafekeeperTypeOK'
    BY <1>1, <1>2 DEF SafekeeperTypeOK
  <2>2. LinkTypeOK'
    BY <1>1, <1>4, <1>5 DEF LinkTypeOK, NetType
  <2>. QED  BY <1>1, <1>6, <2>1, <2>2
<1>8. SafekeeperInv'
  <2>1. \A y \in Safekeepers : WriteLsn(y)' = WriteLsn(y)
    BY <1>1 DEF WriteLsn
  <2>2. \A y \in Safekeepers : flushed'[y] <= WriteLsn(y)
    BY <1>1, <1>2 DEF SafekeeperTypeOK, SafekeeperInv
  <2>. QED  BY <1>1, <2>1, <2>2 DEF SafekeeperInv
<1>. QED  BY <1>6, <1>7, <1>8

\* truncate_wal, when it is not refused, leaves WAL that ends at start.
LEMMA TruncatedType ==
  ASSUME TypeInv, NEW s \in Safekeepers, NEW start \in Nat, start >= StartLsn,
         tlStart[s] = 0 => start = StartLsn, ~TruncateRefused(s, start)
  PROVE  /\ Truncated(s, start) \in Seq(Nat)
         /\ Len(Truncated(s, start)) = start - StartLsn
<1>1. wal[s] \in Seq(Nat) /\ start - StartLsn \in 0..Len(wal[s])
  <2>1. wal[s] \in Seq(Nat) /\ Len(wal[s]) \in Nat
    BY SafekeeperFacts DEF TypeInv, TypeOK, SafekeeperTypeOK
  <2>2. tlStart[s] # 0 => WriteLsn(s) = StartLsn + Len(wal[s])
    BY SafekeeperFacts
  <2>3. WriteLsn(s) = 0 \/ ~(start > WriteLsn(s))
    BY DEF TruncateRefused
  <2>. QED  BY <2>1, <2>2, <2>3 DEF StartLsn
<1>2. \A i \in 1..(start - StartLsn) : wal[s][i] \in Nat
  BY <1>1 DEF StartLsn
<1>. QED  BY <1>1, <1>2, SubSeqProperties DEF Truncated

LEMMA HandleElectedType ==
  ASSUME TypeInv, NEW p \in Proposers, NEW s \in Safekeepers, NEW c \in Channels,
         HandleElected(p, s, c)
  PROVE  TypeInv'
<1> USE DEF TypeInv, TypeOK
<1> DEFINE start == Head(net[p][s][c]).start
<1>1. /\ net[p][s][c] # << >>
      /\ term' = [term EXCEPT ![s] = MaxOf(@, propTerm[p])]
      /\ UNCHANGED <<rep, published, grants, crashes, publishes>>
      /\ UNCHANGED propVars
      /\ Head(net[p][s][c]).type = "elected"
  BY DEF HandleElected, HeadIs, countVars
<1>2. /\ net \in NetType
      /\ start \in Nat /\ start >= StartLsn
      /\ Elected(p)
      /\ tlStart[s] = 0 => start = StartLsn
  BY <1>1, HeadType DEF ElectedMsgOK
<1>3. term' \in [Safekeepers -> Nat]
  BY <1>1 DEF SafekeeperTypeOK, ProposerTypeOK, MaxOf
<1>. HIDE DEF start
<1>4. ASSUME \/ Consume(p, s, c) /\ UNCHANGED link
             \/ Bail(p, s, c),
             \A y \in Safekeepers : tlStart'[y] = 0 => tlStart[y] = 0,
             SafekeeperTypeOK', SafekeeperInv'
      PROVE  TypeInv'
  <2>1. net' \in NetType /\ NetKeeps({}) /\ link' \in [Proposers -> [Safekeepers -> BOOLEAN]]
    BY <1>1, <1>2, <1>4, ConsumeKeeps, BailKeeps DEF LinkTypeOK
  <2>2. LinkTypeOK'
    BY <1>1, <2>1 DEF LinkTypeOK, NetType
  <2>3. ProposerTypeOK' /\ ProposerInv' /\ ConnInv' /\ NetInv'
    BY <1>1, <1>4, <2>1, ProposerUntouched
  <2>. QED  BY <1>1, <1>4, <2>2, <2>3
<1>5. CASE /\ Consume(p, s, c)
           /\ UNCHANGED <<th, tlStart, pCommit, wal, flushed, commit, epochStartLsn, link>>
  <2>1. SafekeeperTypeOK'
    BY <1>3, <1>5 DEF SafekeeperTypeOK
  <2>2. SafekeeperInv'
    BY <1>5 DEF SafekeeperInv, WriteLsn
  <2>. QED  BY <1>4, <1>5, <2>1, <2>2
<1>6. CASE /\ Bail(p, s, c)
           /\ pCommit' = [pCommit EXCEPT ![s] =
                             IF term[s] < propTerm[p] THEN commit[s] ELSE @]
           /\ UNCHANGED <<th, tlStart, wal, flushed, commit, epochStartLsn>>
  <2>1. SafekeeperTypeOK'
    BY <1>3, <1>6 DEF SafekeeperTypeOK
  <2>2. SafekeeperInv'
    BY <1>6 DEF SafekeeperInv, WriteLsn
  <2>. QED  BY <1>4, <1>6, <2>1, <2>2
<1>7. CASE /\ ~TruncateRefused(s, start)
           /\ wal'     = [wal EXCEPT ![s] = Truncated(s, start)]
           /\ flushed' = [flushed EXCEPT ![s] = start]
           /\ tlStart' = [tlStart EXCEPT ![s] = IF @ = 0 THEN StartLsn ELSE @]
           /\ commit'  = [commit EXCEPT ![s] = MaxOf(@, StartLsn)]
           /\ pCommit' = [pCommit EXCEPT ![s] = MaxOf(commit[s], StartLsn)]
           /\ th'      = [th EXCEPT ![s] = propTh[p]]
           /\ epochStartLsn' =
                  [epochStartLsn EXCEPT ![s] = propTh[p][Len(propTh[p])].lsn]
           /\ Consume(p, s, c)
           /\ UNCHANGED link
  <2>1. /\ Truncated(s, start) \in Seq(Nat)
        /\ Len(Truncated(s, start)) = start - StartLsn
    BY <1>2, <1>7, TruncatedType
  <2>2. /\ propTh[p] \in Seq(TermLsn) /\ propTh[p] # << >>
        /\ propTh[p][1].lsn = StartLsn
        /\ propTh[p][Len(propTh[p])].lsn \in Nat
    <3>1. /\ propTh[p] \in Seq(TermLsn) /\ propTh[p] # << >>
          /\ propTh[p][1].lsn = StartLsn
      BY <1>2 DEF ProposerTypeOK, ProposerInv, Elected
    <3>2. propTh[p][Len(propTh[p])] \in TermLsn
      BY <3>1
    <3>. QED  BY <3>1, <3>2 DEF TermLsn
  <2>3. SafekeeperTypeOK'
    <3>1. \A n \in Nat : MaxOf(n, StartLsn) \in Nat
      BY DEF MaxOf, StartLsn
    <3>. QED  BY <1>2, <1>3, <1>7, <2>1, <2>2, <3>1 DEF SafekeeperTypeOK
  <2>4. SafekeeperInv'
    <3>1. SUFFICES ASSUME NEW y \in Safekeepers
                   PROVE  /\ flushed'[y] <= WriteLsn(y)'
                          /\ tlStart'[y] = 0 => th'[y] = << >>
                          /\ tlStart'[y] # 0 => th'[y] # << >> /\ th'[y][1].lsn = StartLsn
      BY DEF SafekeeperInv
    <3>2. CASE y = s
      <4>1. /\ flushed'[y] = start /\ wal'[y] = Truncated(s, start)
            /\ tlStart'[y] = StartLsn /\ th'[y] = propTh[p]
        BY <1>7, <3>2 DEF SafekeeperTypeOK
      <4>. QED  BY <1>2, <2>1, <2>2, <4>1 DEF WriteLsn, StartLsn
    <3>3. CASE y # s
      <4>1. /\ flushed'[y] = flushed[y] /\ wal'[y] = wal[y]
            /\ tlStart'[y] = tlStart[y] /\ th'[y] = th[y]
        BY <1>7, <3>3 DEF SafekeeperTypeOK
      <4>. QED  BY <4>1 DEF SafekeeperInv, WriteLsn
    <3>. QED  BY <3>2, <3>3
  <2>5. \A y \in Safekeepers : tlStart'[y] = 0 => tlStart[y] = 0
    BY <1>7 DEF SafekeeperTypeOK, StartLsn
  <2>. QED  BY <1>4, <1>7, <2>3, <2>4, <2>5
<1>. QED  BY <1>5, <1>6, <1>7 DEF HandleElected, start

\* What update_commit_lsn sets are LSNs.
LEMMA UpdateCommitLsnType ==
  ASSUME TypeInv, NEW s \in Safekeepers, NEW l \in Nat, UpdateCommitLsn(s, l)
  PROVE  commit' \in [Safekeepers -> Nat] /\ pCommit' \in [Safekeepers -> Nat]
<1>1. /\ commit \in [Safekeepers -> Nat] /\ pCommit \in [Safekeepers -> Nat]
      /\ FlushLsn(s) \in Nat
  BY SafekeeperFacts DEF TypeInv, TypeOK, SafekeeperTypeOK
<1>2. NewCommitLsn(s, l) \in Nat
  BY <1>1 DEF NewCommitLsn, MinOf, MaxOf
<1>. QED  BY <1>1, <1>2 DEF UpdateCommitLsn

\* The queue that HandleAppendRequest leaves behind.
LEMMA AppendProcessed ==
  ASSUME TypeInv, NEW p \in Proposers, NEW s \in Safekeepers, NEW c \in Channels,
         NextAppend(p, s, c) # << >>
  PROVE  /\ Head(NextAppend(p, s, c)) \in Messages
         /\ net' = [net EXCEPT ![p][s][c] = <<[type |-> "flush"]>> \o Tail(NextAppend(p, s, c))] =>
               net' \in NetType /\ NetKeeps({"flush"})
<1> DEFINE old == net[p][s][c]
           q == NextAppend(p, s, c)
           n == <<[type |-> "flush"]>> \o Tail(q)
<1>1. net \in NetType /\ old \in Seq(Messages)
  BY DEF TypeInv, TypeOK, LinkTypeOK, NetType
<1>2. /\ q \in Seq(Messages)
      /\ \A i \in DOMAIN q : \E j \in DOMAIN old : q[i] = old[j]
  <2>1. CASE q = old
    BY <1>1, <2>1
  <2>2. CASE q = Tail(old) /\ old # << >>
    <3>. HIDE DEF q, old
    <3>1. /\ q \in Seq(Messages) /\ Len(q) = Len(old) - 1
          /\ \A i \in 1..Len(q) : q[i] = old[i + 1]
      BY <1>1, <2>2, HeadTailProperties
    <3>2. \A i \in DOMAIN q : i + 1 \in DOMAIN old /\ q[i] = old[i + 1]
      BY <1>1, <3>1
    <3>. QED  BY <3>1, <3>2
  <2>. QED  BY <2>1, <2>2 DEF NextAppend, HeadIs
<1>. HIDE DEF q
<1>3. /\ Head(q) \in Messages /\ Tail(q) \in Seq(Messages) /\ Len(Tail(q)) = Len(q) - 1
      /\ \A i \in 1..Len(Tail(q)) : Tail(q)[i] = q[i + 1]
  BY <1>2, HeadTailProperties DEF q
<1>4. <<[type |-> "flush"]>> \in Seq(Messages)
  BY DEF Messages
<1>5. /\ n \in Seq(Messages) /\ Len(n) = Len(q)
      /\ n[1] = [type |-> "flush"]
      /\ \A i \in 2..Len(n) : n[i] = q[i]
  BY <1>2, <1>3, <1>4, ConcatProperties
<1>. HIDE DEF n, old
<1>6. QueueKeeps(n, net[p][s][c], {"flush"})
  <2>1. \A i \in DOMAIN n : i = 1 \/ i \in 2..Len(n)
    BY <1>5
  <2>. QED  BY <1>2, <1>5, <2>1 DEF QueueKeeps, old
<1>7. ASSUME net' = [net EXCEPT ![p][s][c] = n]
      PROVE  net' \in NetType /\ NetKeeps({"flush"})
  BY <1>1, <1>5, <1>6, <1>7, ReplacedQueue
<1>. QED  BY <1>3, <1>7 DEF n, q

LEMMA ExtendedSeq ==
  ASSUME NEW S, NEW w \in Seq(S), NEW e \in Seq(S)
  PROVE  w \o e \in Seq(S) /\ Len(w \o e) \in Nat /\ Len(w \o e) >= Len(w)
BY ConcatProperties

LEMMA HandleAppendRequestType ==
  ASSUME TypeInv, NEW p \in Proposers, NEW s \in Safekeepers, NEW c \in Channels,
         HandleAppendRequest(p, s, c)
  PROVE  TypeInv'
<1> USE DEF TypeInv, TypeOK
<1> DEFINE q == NextAppend(p, s, c)
           m == Head(q)
           r == [type |-> "append", term |-> term[s], flush |-> 0]
           processed == [net EXCEPT ![p][s][c] = <<[type |-> "flush"]>> \o Tail(q)]
<1>1. /\ q # << >> /\ m.type = "append"
      /\ UNCHANGED <<published, grants, crashes, publishes>>
      /\ UNCHANGED propVars
  BY DEF HandleAppendRequest, countVars
<1>2. /\ m \in Messages
      /\ net' = processed => net' \in NetType /\ NetKeeps({"flush"})
  BY <1>1, AppendProcessed
<1>3. m.entries \in Seq(Nat) /\ m.commit \in Nat
  <2>1. ASSUME NEW x \in Messages, x.type = "append"
        PROVE  x.entries \in Seq(Nat) /\ x.commit \in Nat
    BY <2>1 DEF Messages
  <2>. QED  BY <1>1, <1>2, <2>1
<1>4. net \in NetType /\ rep \in [Proposers -> [Safekeepers -> Replies]]
  BY DEF LinkTypeOK, NetType
<1>. HIDE DEF m, processed
<1>5. CASE Bail(p, s, c) /\ UNCHANGED <<skVars, rep>>
  <2>1. net' \in NetType /\ NetKeeps({}) /\ link' \in [Proposers -> [Safekeepers -> BOOLEAN]]
    BY <1>4, <1>5, BailKeeps DEF LinkTypeOK
  <2>2. SafekeeperTypeOK' /\ SafekeeperInv' /\ tlStart' = tlStart
    BY <1>5 DEF SafekeeperTypeOK, SafekeeperInv, skVars, WriteLsn
  <2>3. ProposerTypeOK' /\ ProposerInv' /\ ConnInv' /\ NetInv'
    BY <1>1, <1>5, <2>1, <2>2, ProposerUntouched
  <2>4. LinkTypeOK'
    BY <1>5, <2>1 DEF LinkTypeOK, NetType
  <2>. QED  BY <1>1, <2>2, <2>3, <2>4
<1>6. CASE net' = processed /\ Reply(p, s, c, r) /\ UNCHANGED <<skVars, link>>
  <2>1. r \in Replies /\ r.type = "append"
    <3>1. term[s] \in Nat
      BY DEF SafekeeperTypeOK
    <3>. QED  BY <3>1 DEF Replies
  <2>. HIDE DEF r
  <2>2. /\ rep' \in [Proposers -> [Safekeepers -> Replies]]
        /\ \A x \in Proposers, y \in Safekeepers :
              rep'[x][y] = rep[x][y] \/ (x = p /\ y = s /\ rep'[x][y] = r)
    BY <1>4, <1>6, <2>1, ReplySent
  <2>3. SafekeeperTypeOK' /\ SafekeeperInv' /\ tlStart' = tlStart
    BY <1>6 DEF SafekeeperTypeOK, SafekeeperInv, skVars, WriteLsn
  <2>4. ProposerTypeOK' /\ ProposerInv' /\ ConnInv' /\ NetInv'
    <3>1. \A x \in Proposers, y \in Safekeepers :
              rep'[x][y] = rep[x][y] \/ rep'[x][y].type # "vote"
      BY <2>1, <2>2
    <3>. QED  BY <1>1, <1>2, <1>6, <2>3, <3>1, ProposerUntouched
  <2>5. LinkTypeOK'
    BY <1>2, <1>6, <2>2 DEF LinkTypeOK, NetType
  <2>. QED  BY <1>1, <2>3, <2>4, <2>5
<1>7. CASE /\ wal' = [wal EXCEPT ![s] = @ \o m.entries]
           /\ IF m.commit # 0
              THEN UpdateCommitLsn(s, m.commit)
              ELSE UNCHANGED <<commit, pCommit>>
           /\ net' = processed
           /\ UNCHANGED <<term, th, tlStart, flushed, epochStartLsn, rep, link>>
  <2>1. wal[s] \in Seq(Nat) /\ wal \in [Safekeepers -> Seq(Nat)]
    BY DEF SafekeeperTypeOK
  <2>2. /\ wal[s] \o m.entries \in Seq(Nat)
        /\ Len(wal[s] \o m.entries) \in Nat
        /\ Len(wal[s] \o m.entries) >= Len(wal[s])
    BY <1>3, <2>1, ExtendedSeq
  <2>3. SafekeeperTypeOK'
    <3>1. commit' \in [Safekeepers -> Nat] /\ pCommit' \in [Safekeepers -> Nat]
      BY <1>3, <1>7, UpdateCommitLsnType DEF SafekeeperTypeOK
    <3>2. wal' \in [Safekeepers -> Seq(Nat)]
      BY <1>7, <2>1, <2>2
    <3>. QED  BY <1>7, <3>1, <3>2 DEF SafekeeperTypeOK
  <2>4. SafekeeperInv'
    <3>1. SUFFICES ASSUME NEW y \in Safekeepers PROVE flushed[y] <= WriteLsn(y)'
      BY <1>7 DEF SafekeeperInv
    <3>2. flushed[y] \in Nat /\ flushed[y] <= WriteLsn(y) /\ Len(wal[y]) \in Nat
      BY SafekeeperFacts DEF SafekeeperInv, SafekeeperTypeOK
    <3>3. Len(wal'[y]) \in Nat /\ Len(wal'[y]) >= Len(wal[y])
      BY <1>7, <2>1, <2>2, <3>2
    <3>4. tlStart' = tlStart
      BY <1>7
    <3>. HIDE DEF TypeInv, TypeOK
    <3>. QED  BY <3>2, <3>3, <3>4 DEF WriteLsn, StartLsn
  <2>5. ProposerTypeOK' /\ ProposerInv' /\ ConnInv' /\ NetInv'
    BY <1>1, <1>2, <1>7, ProposerUntouched
  <2>6. LinkTypeOK'
    BY <1>2, <1>7 DEF LinkTypeOK, NetType
  <2>. QED  BY <1>1, <2>3, <2>4, <2>5, <2>6
<1>. QED  BY <1>5, <1>6, <1>7 DEF HandleAppendRequest, m, processed

\* A restart only loses messages.
LEMMA RestartNet ==
  ASSUME net \in NetType, NEW s \in Safekeepers, NEW w, NEW saved, NEW h,
         RestartWith(s, w, saved, h)
  PROVE  net' \in NetType /\ NetKeeps({})
<1>1. net' = [p \in Proposers |-> [net[p] EXCEPT ![s] = [c \in Channels |-> << >>]]]
  BY DEF RestartWith
<1>2. << >> \in Seq(Messages)
  OBVIOUS
<1>3. net' \in NetType
  BY <1>1, <1>2 DEF NetType
<1>4. \A x \in Proposers, y \in Safekeepers, c \in Channels :
        net'[x][y][c] = IF y = s THEN << >> ELSE net[x][y][c]
  BY <1>1 DEF NetType
<1>5. NetKeeps({})
  BY <1>4 DEF NetKeeps
<1>. QED  BY <1>3, <1>5

LEMMA RestartType ==
  ASSUME TypeInv, NEW s \in Safekeepers, NEW w \in Seq(Nat), NEW saved \in Nat,
         RestartWith(s, w, saved, th[s]), term' \in [Safekeepers -> Nat]
  PROVE  TypeInv'
<1> USE DEF TypeInv, TypeOK
<1>1. /\ th' = th /\ tlStart' = tlStart
      /\ UNCHANGED <<rep, published, grants, publishes>>
      /\ UNCHANGED propVars
      /\ crashes' = crashes + 1
  BY DEF RestartWith, SafekeeperTypeOK
<1>2. /\ wal' = [wal EXCEPT ![s] = w]
      /\ flushed' = [flushed EXCEPT ![s] = IF tlStart[s] = 0 THEN 0 ELSE StartLsn + Len(w)]
      /\ pCommit' = [pCommit EXCEPT ![s] = saved]
      /\ commit'  = [commit EXCEPT ![s] = saved]
      /\ epochStartLsn' = [epochStartLsn EXCEPT ![s] = 0]
  BY DEF RestartWith
<1>3. SafekeeperTypeOK'
  <2>1. (IF tlStart[s] = 0 THEN 0 ELSE StartLsn + Len(w)) \in Nat
    BY DEF StartLsn
  <2>. QED  BY <1>1, <1>2, <2>1 DEF SafekeeperTypeOK
<1>4. SafekeeperInv'
  <2>1. SUFFICES ASSUME NEW y \in Safekeepers PROVE flushed'[y] <= WriteLsn(y)'
    BY <1>1 DEF SafekeeperInv
  <2>2. CASE y = s
    BY <1>1, <1>2, <2>2 DEF SafekeeperTypeOK, WriteLsn, StartLsn
  <2>3. CASE y # s
    <3>1. flushed'[y] = flushed[y] /\ wal'[y] = wal[y] /\ tlStart'[y] = tlStart[y]
      BY <1>1, <1>2, <2>3 DEF SafekeeperTypeOK
    <3>. QED  BY <3>1 DEF SafekeeperInv, WriteLsn
  <2>. QED  BY <2>2, <2>3
<1>5. net' \in NetType /\ NetKeeps({})
  BY RestartNet DEF LinkTypeOK, NetType
<1>6. LinkTypeOK'
  <2>1. link' \in [Proposers -> [Safekeepers -> BOOLEAN]]
    BY DEF RestartWith, LinkTypeOK
  <2>. QED  BY <1>1, <1>5, <2>1 DEF LinkTypeOK, NetType
<1>7. ProposerTypeOK' /\ ProposerInv' /\ ConnInv' /\ NetInv'
  BY <1>1, <1>5, ProposerUntouched
<1>. QED  BY <1>1, <1>3, <1>4, <1>6, <1>7

\* Whatever survives of the WAL is WAL.
LEMMA SurvivingWalType ==
  ASSUME TypeInv, NEW s \in Safekeepers, NEW w \in SurvivingWal(s)
  PROVE  w \in Seq(Nat)
<1>1. PICK k \in 0..Len(wal[s]) : w = SubSeq(wal[s], 1, k)
  BY DEF SurvivingWal
<1>2. wal[s] \in Seq(Nat)
  BY DEF TypeInv, TypeOK, SafekeeperTypeOK
<1>3. \A i \in 1..k : wal[s][i] \in Nat
  BY <1>2
<1>. QED  BY <1>1, <1>3, SubSeqProperties

LEMMA SafekeeperRestartType ==
  ASSUME TypeInv, NEW s \in Safekeepers, SafekeeperRestart(s)
  PROVE  TypeInv'
<1>1. PICK w \in SurvivingWal(s) : RestartWith(s, w, pCommit[s], th[s])
  BY DEF SafekeeperRestart
<1>2. pCommit[s] \in Nat /\ term' \in [Safekeepers -> Nat]
  BY DEF SafekeeperRestart, SavedTerm, TypeInv, TypeOK, SafekeeperTypeOK
<1>. QED  BY <1>1, <1>2, SurvivingWalType, RestartType

LEMMA CrashInElectedType ==
  ASSUME TypeInv, NEW p \in Proposers, NEW s \in Safekeepers, NEW c \in Channels,
         CrashInElected(p, s, c)
  PROVE  TypeInv'
<1> DEFINE start == Head(net[p][s][c]).start
           saved == IF term[s] < propTerm[p] THEN commit[s] ELSE pCommit[s]
<1>1. /\ net[p][s][c] # << >> /\ Head(net[p][s][c]).type = "elected"
      /\ ~TruncateRefused(s, start)
      /\ term' = [term EXCEPT ![s] = propTerm[p]]
  BY DEF CrashInElected, HeadIs
<1>2. PICK w \in {Truncated(s, start)} \union SurvivingWal(s) : RestartWith(s, w, saved, th[s])
  BY DEF CrashInElected, HistoryDuringTruncate
<1>3. start \in Nat /\ start >= StartLsn /\ (tlStart[s] = 0 => start = StartLsn)
  BY <1>1, HeadType DEF ElectedMsgOK
<1>. HIDE DEF start
<1>4. w \in Seq(Nat)
  BY <1>1, <1>3, TruncatedType, SurvivingWalType
<1>5. saved \in Nat /\ term' \in [Safekeepers -> Nat]
  BY <1>1 DEF TypeInv, TypeOK, SafekeeperTypeOK, ProposerTypeOK
<1>. HIDE DEF saved
<1>. QED  BY <1>2, <1>4, <1>5, RestartType

\* Steps that change nothing but a commit_lsn or what the broker holds.
LEMMA LsnStepType ==
  ASSUME TypeInv, NEW s \in Safekeepers,
         PersistControlFile(s) \/ PublishInfo(s) \/ RecordSafekeeperInfo(s)
  PROVE  TypeInv'
<1> USE DEF TypeInv, TypeOK
<1>1. /\ UNCHANGED <<term, th, tlStart, wal, flushed, epochStartLsn, net, rep, link, grants, crashes>>
      /\ UNCHANGED propVars
  BY DEF PersistControlFile, PublishInfo, RecordSafekeeperInfo, skVars, linkVars, countVars
<1>2. commit' \in [Safekeepers -> Nat] /\ pCommit' \in [Safekeepers -> Nat]
  <2>1. CASE RecordSafekeeperInfo(s)
    <3>1. published.commit \in Nat /\ UpdateCommitLsn(s, published.commit)
      BY <2>1 DEF RecordSafekeeperInfo
    <3>. QED  BY <3>1, UpdateCommitLsnType
  <2>2. CASE PersistControlFile(s) \/ PublishInfo(s)
    BY <2>2 DEF PersistControlFile, PublishInfo, skVars, SafekeeperTypeOK
  <2>. QED  BY <2>1, <2>2
<1>3. published' \in [epoch : Nat, commit : Nat] /\ publishes' \in Nat
  <2>1. CASE PublishInfo(s)
    <3>1. Epoch(s) \in Nat
      <4>1. FlushLsn(s) \in Nat /\ th[s] \in Seq(TermLsn)
        BY SafekeeperFacts DEF SafekeeperTypeOK
      <4>. HIDE DEF TypeInv, TypeOK
      <4>2. UpTo(th[s], FlushLsn(s)) \in Seq(TermLsn)
        BY <4>1, UpToType
      <4>3. ASSUME NEW h \in Seq(TermLsn) PROVE HighestTerm(h) \in Nat
        <5>1. h # << >> => h[Len(h)] \in TermLsn
          OBVIOUS
        <5>. QED  BY <5>1 DEF HighestTerm, TermLsn
      <4>. QED  BY <4>2, <4>3 DEF Epoch, EpochAt
    <3>2. commit[s] \in Nat
      BY DEF SafekeeperTypeOK
    <3>. QED  BY <2>1, <3>1, <3>2 DEF PublishInfo
  <2>2. CASE PersistControlFile(s) \/ RecordSafekeeperInfo(s)
    BY <2>2 DEF PersistControlFile, RecordSafekeeperInfo, countVars
  <2>. QED  BY <2>1, <2>2
<1>4. SafekeeperTypeOK' /\ SafekeeperInv' /\ LinkTypeOK'
  BY <1>1, <1>2 DEF SafekeeperTypeOK, SafekeeperInv, LinkTypeOK, WriteLsn
<1>5. ProposerTypeOK' /\ ProposerInv' /\ ConnInv' /\ NetInv'
  <2>1. NetKeeps({})
    BY <1>1 DEF NetKeeps
  <2>. QED  BY <1>1, <2>1, ProposerUntouched
<1>. QED  BY <1>1, <1>3, <1>4, <1>5

-----------------------------------------------------------------------------
(***************************************************************************)
(* Steps of proposers.                                                     *)
(***************************************************************************)

\* They do not concern what safekeepers keep.
LEMMA SafekeepersUntouched ==
  ASSUME TypeInv, UNCHANGED skVars
  PROVE  SafekeeperTypeOK' /\ SafekeeperInv' /\ tlStart' = tlStart
BY DEF TypeInv, TypeOK, SafekeeperTypeOK, SafekeeperInv, skVars, WriteLsn

LEMMA QueuedType ==
  ASSUME NEW q \in [Channels -> Seq(Messages)], NEW m \in Messages
  PROVE  /\ Queued(q, m) \in [Channels -> Seq(Messages)]
         /\ \A c \in Channels : \A i \in DOMAIN Queued(q, m)[c] :
               \/ \E j \in DOMAIN q[c] : Queued(q, m)[c][i] = q[c][j]
               \/ Queued(q, m)[c][i] = m
<1>1. q["cur"] \in Seq(Messages)
  BY DEF Channels
<1>2. /\ Append(q["cur"], m) \in Seq(Messages)
      /\ Len(Append(q["cur"], m)) = Len(q["cur"]) + 1
      /\ \A i \in 1..Len(q["cur"]) : Append(q["cur"], m)[i] = q["cur"][i]
      /\ Append(q["cur"], m)[Len(q["cur"]) + 1] = m
  BY <1>1, AppendProperties
<1> DEFINE n == Append(q["cur"], m)
<1>3. \A c \in Channels : Queued(q, m)[c] = IF c = "cur" THEN n ELSE q[c]
  BY DEF Queued
<1>4. Queued(q, m) \in [Channels -> Seq(Messages)]
  BY <1>2 DEF Queued
<1>. HIDE DEF n
<1>5. \A i \in DOMAIN n : (\E j \in DOMAIN q["cur"] : n[i] = q["cur"][j]) \/ n[i] = m
  <2>1. \A i \in DOMAIN n : i \in 1..Len(q["cur"]) \/ i = Len(q["cur"]) + 1
    BY <1>1, <1>2 DEF n
  <2>. QED  BY <1>1, <1>2, <2>1 DEF n
<1>. QED  BY <1>3, <1>4, <1>5

\* One message to each safekeeper in V.
SentTo(p, V, msg) ==
    [net EXCEPT ![p] = [v \in Safekeepers |->
        IF v \in V THEN Queued(@[v], msg[v]) ELSE @[v]]]

LEMMA SentMessages ==
  ASSUME net \in NetType, NEW p \in Proposers, NEW V, NEW msg,
         \A v \in V : msg[v] \in Messages,
         net' = SentTo(p, V, msg)
  PROVE  /\ net' \in NetType
         /\ \A x \in Proposers, y \in Safekeepers, c \in Channels :
               \A i \in DOMAIN net'[x][y][c] :
                  \/ \E j \in DOMAIN net[x][y][c] : net'[x][y][c][i] = net[x][y][c][j]
                  \/ x = p /\ y \in V /\ net'[x][y][c][i] = msg[y]
<1>1. \A x \in Proposers, y \in Safekeepers :
        net'[x][y] = IF x = p /\ y \in V THEN Queued(net[x][y], msg[y]) ELSE net[x][y]
  BY DEF NetType, SentTo
<1>3. \A x \in Proposers, y \in Safekeepers : net[x][y] \in [Channels -> Seq(Messages)]
  BY DEF NetType
<1>4. net' \in NetType
  <2>1. \A x \in Proposers, y \in Safekeepers : net'[x][y] \in [Channels -> Seq(Messages)]
    <3>1. SUFFICES ASSUME NEW x \in Proposers, NEW y \in Safekeepers
                   PROVE  net'[x][y] \in [Channels -> Seq(Messages)]
      OBVIOUS
    <3>2. CASE x = p /\ y \in V
      <4>1. msg[y] \in Messages /\ net[x][y] \in [Channels -> Seq(Messages)]
        BY <1>3, <3>2
      <4>2. Queued(net[x][y], msg[y]) \in [Channels -> Seq(Messages)]
        BY <4>1, QueuedType
      <4>. QED  BY <1>1, <3>2, <4>2
    <3>3. CASE ~(x = p /\ y \in V)
      BY <1>1, <1>3, <3>3
    <3>. QED  BY <3>2, <3>3
  <2>2. net' = [x \in Proposers |-> [y \in Safekeepers |-> net'[x][y]]]
    BY DEF NetType, SentTo
  <2>. QED  BY <2>1, <2>2 DEF NetType
<1>5. ASSUME NEW x \in Proposers, NEW y \in Safekeepers, NEW c \in Channels,
             NEW i \in DOMAIN net'[x][y][c]
      PROVE  \/ \E j \in DOMAIN net[x][y][c] : net'[x][y][c][i] = net[x][y][c][j]
             \/ x = p /\ y \in V /\ net'[x][y][c][i] = msg[y]
  <2>1. CASE x = p /\ y \in V
    <3>1. net'[x][y] = Queued(net[x][y], msg[y]) /\ msg[y] \in Messages
      BY <1>1, <2>1
    <3>2. net[x][y] \in [Channels -> Seq(Messages)]
      BY <1>3
    <3>3. \A k \in DOMAIN Queued(net[x][y], msg[y])[c] :
             \/ \E j \in DOMAIN net[x][y][c] : Queued(net[x][y], msg[y])[c][k] = net[x][y][c][j]
             \/ Queued(net[x][y], msg[y])[c][k] = msg[y]
      BY <3>1, <3>2, QueuedType
    <3>. QED  BY <2>1, <3>1, <3>3
  <2>2. CASE ~(x = p /\ y \in V)
    <3>1. net'[x][y] = net[x][y]
      BY <1>1, <2>2
    <3>. QED  BY <3>1
  <2>. QED  BY <2>1, <2>2
<1>. QED  BY <1>4, <1>5

\* NetInv holds on when the ProposerElected messages sent satisfy it.
LEMMA NetInvSent ==
  ASSUME net \in NetType, NetInv, NEW p \in Proposers, NEW V, NEW msg,
         \A v \in V : msg[v] \in Messages,
         \A v \in V : /\ msg[v].start >= StartLsn
                      /\ tlStart[v] = 0 => msg[v].start = StartLsn,
         net' = SentTo(p, V, msg),
         Elected(p)', \A x \in Proposers : Elected(x) => Elected(x)',
         tlStart' = tlStart
  PROVE  net' \in NetType /\ NetInv'
<1>1. /\ net' \in NetType
      /\ \A x \in Proposers, y \in Safekeepers, c \in Channels :
            \A i \in DOMAIN net'[x][y][c] :
               \/ \E j \in DOMAIN net[x][y][c] : net'[x][y][c][i] = net[x][y][c][j]
               \/ x = p /\ y \in V /\ net'[x][y][c][i] = msg[y]
  BY SentMessages
<1>2. ASSUME NEW x \in Proposers, NEW y \in Safekeepers, NEW c \in Channels,
             NEW i \in DOMAIN net'[x][y][c]
      PROVE  net'[x][y][c][i].type = "elected" =>
                /\ Elected(x)'
                /\ net'[x][y][c][i].start >= StartLsn
                /\ tlStart'[y] = 0 => net'[x][y][c][i].start = StartLsn
  <2>1. \/ \E j \in DOMAIN net[x][y][c] : net'[x][y][c][i] = net[x][y][c][j]
        \/ x = p /\ y \in V /\ net'[x][y][c][i] = msg[y]
    BY <1>1
  <2>2. ASSUME NEW j \in DOMAIN net[x][y][c]
        PROVE  ElectedMsgOK(x, y, net[x][y][c][j])
    BY DEF NetInv
  <2>. QED  BY <2>1, <2>2 DEF ElectedMsgOK
<1>. QED  BY <1>1, <1>2 DEF NetInv, ElectedMsgOK

\* The end of a walproposer.
LEMMA DieType ==
  ASSUME TypeInv, NEW p \in Proposers, Die(p)
  PROVE  /\ up' \in [Proposers -> BOOLEAN]
         /\ conn' \in [Proposers -> [Safekeepers -> ConnStates]]
         /\ vote' \in [Proposers -> [Safekeepers -> Votes]]
         /\ streamingAt' \in [Proposers -> [Safekeepers -> Nat]]
         /\ rep' \in [Proposers -> [Safekeepers -> Replies]]
         /\ link' \in [Proposers -> [Safekeepers -> BOOLEAN]]
         /\ \A x \in Proposers, y \in Safekeepers :
               \/ x = p /\ conn'[x][y] = "offline" /\ rep'[x][y] = NoReply
               \/ /\ conn'[x][y] = conn[x][y] /\ vote'[x][y] = vote[x][y]
                  /\ streamingAt'[x][y] = streamingAt[x][y] /\ rep'[x][y] = rep[x][y]
<1>1. NoVote \in Votes /\ NoReply \in Replies /\ "offline" \in ConnStates
  BY DEF NoVote, Votes, Replies, ConnStates
<1>. QED  BY <1>1 DEF Die, TypeInv, TypeOK, ProposerTypeOK, LinkTypeOK

LEMMA GreetType ==
  ASSUME TypeInv, NEW p \in Proposers, NEW s \in Safekeepers, Greet(p, s)
  PROVE  TypeInv'
<1> USE DEF TypeInv, TypeOK
<1> DEFINE n == nConnected[p] + 1
           greeted == MaxOf(propTerm[p], term[s])
           voters == {v \in Safekeepers : conn[p][v] = "voting"} \union {s}
           opened == [link[p] EXCEPT ![s] = TRUE]
<1>1. /\ nConnected' = [nConnected EXCEPT ![p] = n]
      /\ nConnected'[p] = n
      /\ UNCHANGED skVars
      /\ UNCHANGED <<nVotes, propTh, donor, availableLsn, ackFlush, published, grants,
                      crashes, publishes>>
  BY DEF Greet, countVars, ProposerTypeOK
<1>2. SafekeeperTypeOK' /\ SafekeeperInv' /\ tlStart' = tlStart
  BY <1>1, SafekeepersUntouched
<1>3. QuorumSize \in Nat /\ nConnected[p] \in Nat /\ greeted \in Nat
  BY QuorumSizeType DEF ProposerTypeOK, SafekeeperTypeOK, MaxOf
<1>4. nConnected' \in [Proposers -> Nat] /\ \A x \in Proposers : nConnected'[x] >= nConnected[x]
  BY <1>1, SMTT(30) DEF ProposerTypeOK
<1>5. net \in NetType
  BY DEF LinkTypeOK, NetType
<1>6. ASSUME LinkTypeOK', up' \in [Proposers -> BOOLEAN],
             conn' \in [Proposers -> [Safekeepers -> ConnStates]],
             propTerm' \in [Proposers -> Nat],
             vote' \in [Proposers -> [Safekeepers -> Votes]],
             streamingAt' \in [Proposers -> [Safekeepers -> Nat]],
             \A x \in Proposers : propTerm'[x] = propTerm[x] \/ (x = p /\ n <= QuorumSize),
             NetKeeps({"vote"}),
             \A x \in Proposers, y \in Safekeepers :
                \/ x = p /\ conn'[x][y] = "offline" /\ rep'[x][y] = NoReply
                \/ /\ \/ conn'[x][y] = conn[x][y]
                      \/ x = p /\ conn'[x][y] = "voting"
                      \/ x = p /\ conn'[x][y] = "wait_verdict" /\ n >= QuorumSize
                   /\ vote'[x][y] = vote[x][y]
                   /\ streamingAt'[x][y] = streamingAt[x][y] /\ rep'[x][y] = rep[x][y]
      PROVE  TypeInv'
  <2>1. TypeOK'
    BY <1>1, <1>2, <1>4, <1>6 DEF ProposerTypeOK
  <2>2. ProposerInv'
    <3>1. SUFFICES ASSUME NEW x \in Proposers, Elected(x)
                   PROVE  /\ propTh[x][Len(propTh[x])].term = propTerm'[x]
                          /\ nConnected'[x] >= QuorumSize
      BY <1>1 DEF ProposerInv, Elected
    <3>2. /\ nConnected[x] >= QuorumSize /\ nConnected[x] \in Nat /\ nConnected'[x] \in Nat
          /\ propTh[x][Len(propTh[x])].term = propTerm[x]
      BY <1>4, <3>1 DEF ProposerInv, ProposerTypeOK
    <3>3. propTerm'[x] = propTerm[x]
      BY <1>3, <1>6, <3>2
    <3>. QED  BY <1>3, <1>4, <3>2, <3>3
  <2>3. ConnInv'
    <3>1. SUFFICES ASSUME NEW x \in Proposers, NEW y \in Safekeepers
                   PROVE  ConnOK(x, y)'
      BY DEF ConnInv
    <3>2. nConnected[x] \in Nat /\ nConnected'[x] \in Nat /\ nConnected'[x] >= nConnected[x]
      BY <1>4 DEF ProposerTypeOK
    <3>3. Elected(x)' = Elected(x)
      BY <1>1 DEF Elected
    <3>4. CASE x = p /\ conn'[x][y] = "offline" /\ rep'[x][y] = NoReply
      BY <3>4 DEF NoReply, ConnOK
    <3>5. CASE /\ vote'[x][y] = vote[x][y]
               /\ streamingAt'[x][y] = streamingAt[x][y] /\ rep'[x][y] = rep[x][y]
               /\ conn'[x][y] = conn[x][y]
      BY <1>2, <1>3, <3>2, <3>3, <3>5 DEF ConnInv, ConnOK
    <3>6. CASE /\ vote'[x][y] = vote[x][y]
               /\ streamingAt'[x][y] = streamingAt[x][y] /\ rep'[x][y] = rep[x][y]
               /\ \/ conn'[x][y] = "voting"
                  \/ x = p /\ conn'[x][y] = "wait_verdict" /\ n >= QuorumSize
      BY <1>1, <1>2, <3>6 DEF ConnInv, ConnOK
    <3>. QED  BY <1>6, <3>4, <3>5, <3>6
  <2>4. NetInv'
    <3>1. \A x \in Proposers : Elected(x) => Elected(x)'
      BY <1>1 DEF Elected
    <3>. QED  BY <1>2, <1>6, <3>1, NetInvKept
  <2>. QED  BY <1>2, <2>1, <2>2, <2>3, <2>4
<1>7. CASE /\ n < QuorumSize
           /\ propTerm' = [propTerm EXCEPT ![p] = greeted]
           /\ conn' = [conn EXCEPT ![p][s] = "voting"]
           /\ link' = [link EXCEPT ![p] = opened]
           /\ UNCHANGED <<up, vote, streamingAt, net, rep>>
  <2>1. LinkTypeOK'
    BY <1>7 DEF LinkTypeOK
  <2>2. NetKeeps({"vote"})
    BY <1>7 DEF NetKeeps
  <2>3. /\ conn' \in [Proposers -> [Safekeepers -> ConnStates]]
        /\ propTerm' \in [Proposers -> Nat]
        /\ \A x \in Proposers : propTerm'[x] = propTerm[x] \/ (x = p /\ n <= QuorumSize)
        /\ \A x \in Proposers, y \in Safekeepers :
              conn'[x][y] = conn[x][y] \/ (x = p /\ conn'[x][y] = "voting")
    BY <1>3, <1>7 DEF ProposerTypeOK, ConnStates
  <2>4. /\ up' \in [Proposers -> BOOLEAN]
        /\ vote' \in [Proposers -> [Safekeepers -> Votes]]
        /\ streamingAt' \in [Proposers -> [Safekeepers -> Nat]]
    BY <1>7 DEF ProposerTypeOK
  <2>. QED  BY <1>6, <1>7, <2>1, <2>2, <2>3, <2>4
<1>8. CASE Die(p) /\ UNCHANGED <<propTerm, net>>
  <2>1. NetKeeps({"vote"})
    BY <1>8 DEF NetKeeps
  <2>2. LinkTypeOK' /\ propTerm' \in [Proposers -> Nat]
    BY <1>8, DieType DEF LinkTypeOK, ProposerTypeOK
  <2>. QED  BY <1>6, <1>8, <2>1, <2>2, DieType
<1>9. CASE /\ n >= QuorumSize
           /\ propTerm' = [propTerm EXCEPT ![p] = IF n = QuorumSize THEN greeted + 1 ELSE @]
           /\ conn' = [conn EXCEPT ![p] = [v \in Safekeepers |->
                             IF v \in voters THEN "wait_verdict" ELSE @[v]]]
           /\ link' = [link EXCEPT ![p] = opened]
           /\ net'  = [net EXCEPT ![p] = [v \in Safekeepers |->
                             IF v \in voters /\ opened[v]
                             THEN Queued(@[v], [type |-> "vote"])
                             ELSE @[v]]]
           /\ UNCHANGED <<up, vote, streamingAt, rep>>
  <2> DEFINE V == {v \in voters : opened[v]}
             msg == [v \in Safekeepers |-> [type |-> "vote"]]
  <2>1. net' = SentTo(p, V, msg)
    BY <1>9 DEF SentTo
  <2>2. \A v \in V : msg[v] \in Messages
    BY DEF Messages
  <2>3. \A y \in Safekeepers : msg[y].type = "vote"
    OBVIOUS
  <2>. HIDE DEF V, msg
  <2>4. net' \in NetType /\ NetKeeps({"vote"})
    <3>1. /\ net' \in NetType
          /\ \A x \in Proposers, y \in Safekeepers, c \in Channels :
                \A i \in DOMAIN net'[x][y][c] :
                   \/ \E j \in DOMAIN net[x][y][c] : net'[x][y][c][i] = net[x][y][c][j]
                   \/ x = p /\ y \in V /\ net'[x][y][c][i] = msg[y]
      BY <1>5, <2>1, <2>2, SentMessages
    <3>. QED  BY <2>3, <3>1 DEF NetKeeps
  <2>5. LinkTypeOK'
    BY <1>9, <2>4 DEF LinkTypeOK, NetType
  <2>6. /\ conn' \in [Proposers -> [Safekeepers -> ConnStates]]
        /\ propTerm' \in [Proposers -> Nat]
        /\ \A x \in Proposers : propTerm'[x] = propTerm[x] \/ (x = p /\ n <= QuorumSize)
        /\ \A x \in Proposers, y \in Safekeepers :
              conn'[x][y] = conn[x][y] \/ (x = p /\ conn'[x][y] = "wait_verdict")
    BY <1>3, <1>9, SMTT(30) DEF ProposerTypeOK, ConnStates
  <2>7. /\ up' \in [Proposers -> BOOLEAN]
        /\ vote' \in [Proposers -> [Safekeepers -> Votes]]
        /\ streamingAt' \in [Proposers -> [Safekeepers -> Nat]]
    BY <1>9 DEF ProposerTypeOK
  <2>. QED  BY <1>6, <1>9, <2>4, <2>5, <2>6, <2>7
<1>. QED  BY <1>1, <1>7, <1>8, <1>9 DEF Greet

\* What a reply to a VoteRequest says.
LEMMA VoteReplyType ==
  ASSUME NEW r \in Replies, r.type = "vote"
  PROVE  /\ r.given \in BOOLEAN /\ r.term \in Nat /\ r.flush \in Nat
         /\ r.th \in Seq(TermLsn)
         /\ [flush |-> r.flush, th |-> r.th] \in Votes
BY DEF Replies, NoReply, Votes

(***************************************************************************)
(* ProposerElected is sent with a history that continues the timeline from *)
(* its start to the proposer's term, to safekeepers with a known vote.     *)
(***************************************************************************)
LEMMA SendProposerElectedType ==
  ASSUME TypeInv, NEW p \in Proposers, NEW S \in SUBSET Safekeepers,
         NEW v \in [Safekeepers -> Votes], NEW h \in Seq(TermLsn), NEW n \in Nat,
         h # << >>, h[1].lsn = StartLsn, h[Len(h)].term = propTerm[p],
         nConnected[p] >= QuorumSize,
         \A y \in S : /\ WalInfoOK(v[y].th, v[y].flush)
                      /\ tlStart[y] = 0 => v[y].flush = 0,
         SendProposerElected(p, S, v, h),
         propTh' = [propTh EXCEPT ![p] = h],
         nVotes' = [nVotes EXCEPT ![p] = n],
         availableLsn' \in [Proposers -> Nat],
         \A x \in Proposers : availableLsn'[x] = availableLsn[x] \/ x = p,
         availableLsn'[p] >= StartLsn,
         donor' \in [Proposers -> SUBSET Safekeepers],
         UNCHANGED skVars,
         UNCHANGED <<up, propTerm, nConnected, ackFlush, link, published, grants,
                     crashes, publishes>>
  PROVE  TypeInv'
<1> USE DEF TypeInv, TypeOK
<1> DEFINE start(y) == StartStreamingAt(h, propTerm[p], v[y].th, v[y].flush)
           V == {y \in S : link[p][y]}
           msg == [y \in Safekeepers |-> [type |-> "elected", start |-> start(y)]]
<1>1. SafekeeperTypeOK' /\ SafekeeperInv' /\ tlStart' = tlStart
  BY SafekeepersUntouched
<1>2. \A y \in S : /\ start(y) \in Nat /\ start(y) >= StartLsn
                   /\ tlStart[y] = 0 => start(y) = StartLsn
  <2>1. propTerm[p] \in Nat /\ \A y \in S : v[y].th \in Seq(TermLsn) /\ v[y].flush \in Nat
    BY DEF ProposerTypeOK, Votes
  <2>. QED  BY <2>1, StartStreamingAtType
<1>3. net' \in NetType /\ NetInv'
  <2>1. net \in NetType
    BY DEF LinkTypeOK, NetType
  <2>2. net' = SentTo(p, V, msg)
    BY DEF SendProposerElected, SentTo
  <2>3. \A y \in V : y \in S /\ y \in Safekeepers /\ msg[y] = [type |-> "elected", start |-> start(y)]
    OBVIOUS
  <2>4. NetInv /\ propTh' = [propTh EXCEPT ![p] = h] /\ propTh \in [Proposers -> Seq(TermLsn)]
    BY DEF ProposerTypeOK
  <2>. HIDE DEF V, msg, start, TypeInv, TypeOK
  <2>5. ASSUME NEW y \in V PROVE msg[y] \in Messages
    <3>1. start(y) \in Nat
      BY <1>2, <2>3
    <3>2. [type |-> "elected", start |-> start(y)] \in [type : {"elected"}, start : Nat]
      BY <3>1
    <3>. QED  BY <2>3, <3>2 DEF Messages
  <2>6. Elected(p)' /\ \A x \in Proposers : Elected(x) => Elected(x)'
    BY <2>4 DEF Elected
  <2>7. ASSUME NEW y \in V
        PROVE  msg[y].start >= StartLsn /\ (tlStart[y] = 0 => msg[y].start = StartLsn)
    <3>1. y \in S /\ msg[y] = [type |-> "elected", start |-> start(y)]
      BY <2>3
    <3>2. msg[y].start = start(y)
      BY <3>1
    <3>. QED  BY <1>2, <3>1, <3>2
  <2>. QED  BY <1>1, <2>1, <2>2, <2>4, <2>5, <2>6, <2>7, NetInvSent
<1>4. /\ conn' \in [Proposers -> [Safekeepers -> ConnStates]]
      /\ streamingAt' \in [Proposers -> [Safekeepers -> Nat]]
      /\ vote' \in [Proposers -> [Safekeepers -> Votes]]
      /\ rep' \in [Proposers -> [Safekeepers -> Replies]]
      /\ \A x \in Proposers, y \in Safekeepers :
            IF x = p /\ y \in S
            THEN conn'[x][y] = "active" /\ streamingAt'[x][y] = start(y) /\ rep'[x][y] = NoReply
            ELSE /\ conn'[x][y] = conn[x][y] /\ streamingAt'[x][y] = streamingAt[x][y]
                 /\ vote'[x][y] = vote[x][y] /\ rep'[x][y] = rep[x][y]
  <2>1. NoVote \in Votes /\ NoReply \in Replies /\ "active" \in ConnStates
    BY DEF NoVote, Votes, Replies, ConnStates
  <2>2. /\ conn' = [conn EXCEPT ![p] = [y \in Safekeepers |->
                       IF y \in S THEN "active" ELSE @[y]]]
        /\ streamingAt' = [streamingAt EXCEPT ![p] = [y \in Safekeepers |->
                       IF y \in S THEN start(y) ELSE @[y]]]
        /\ vote' = [vote EXCEPT ![p] = [y \in Safekeepers |->
                       IF y \in S THEN NoVote ELSE @[y]]]
        /\ rep'  = [rep EXCEPT ![p] = [y \in Safekeepers |->
                       IF y \in S THEN NoReply ELSE @[y]]]
    BY DEF SendProposerElected
  <2>. HIDE DEF start
  <2>3. /\ conn' \in [Proposers -> [Safekeepers -> ConnStates]]
        /\ vote' \in [Proposers -> [Safekeepers -> Votes]]
        /\ rep' \in [Proposers -> [Safekeepers -> Replies]]
    BY <2>1, <2>2 DEF ProposerTypeOK, LinkTypeOK
  <2>4. streamingAt' \in [Proposers -> [Safekeepers -> Nat]]
    BY <1>2, <2>2 DEF ProposerTypeOK
  <2>. QED  BY <2>2, <2>3, <2>4, ZenonT(30) DEF ProposerTypeOK, LinkTypeOK
<1>. HIDE DEF V, msg, start
<1>5. TypeOK'
  <2>1. propTh' \in [Proposers -> Seq(TermLsn)] /\ nVotes' \in [Proposers -> Nat]
    BY DEF ProposerTypeOK
  <2>2. ProposerTypeOK'
    BY <1>4, <2>1 DEF ProposerTypeOK
  <2>3. LinkTypeOK'
    BY <1>3, <1>4 DEF LinkTypeOK, NetType
  <2>. QED  BY <1>1, <2>2, <2>3
<1>6. ProposerInv'
  BY DEF ProposerInv, ProposerTypeOK, Elected
<1>7. ConnInv'
  <2>1. ConnInv /\ nConnected' = nConnected /\ nConnected[p] >= QuorumSize
    OBVIOUS
  <2>2. \A x \in Proposers : Elected(x) \/ x = p => Elected(x)'
    BY DEF Elected, ProposerTypeOK
  <2>3. NoReply.type # "vote"
    BY DEF NoReply
  <2>. HIDE DEF TypeInv, TypeOK
  <2>4. SUFFICES ASSUME NEW x \in Proposers, NEW y \in Safekeepers
                 PROVE  ConnOK(x, y)'
    BY DEF ConnInv
  <2>5. CASE x = p /\ y \in S
    <3>1. conn'[x][y] = "active" /\ streamingAt'[x][y] = start(y) /\ rep'[x][y] = NoReply
      BY <1>4, <2>5
    <3>. QED  BY <1>2, <2>1, <2>2, <2>3, <2>5, <3>1 DEF ConnOK
  <2>6. CASE ~(x = p /\ y \in S)
    <3>1. /\ conn'[x][y] = conn[x][y] /\ streamingAt'[x][y] = streamingAt[x][y]
          /\ vote'[x][y] = vote[x][y] /\ rep'[x][y] = rep[x][y]
      BY <1>4, <2>6
    <3>2. ConnOK(x, y)
      BY <2>1 DEF ConnInv
    <3>. QED  BY <1>1, <2>1, <2>2, <3>1, <3>2 DEF ConnOK
  <2>. QED  BY <2>5, <2>6
<1>. QED  BY <1>1, <1>3, <1>5, <1>6, <1>7

(***************************************************************************)
(* The other steps of a walproposer keep its term and its history, send no *)
(* ProposerElected and change a connection in one of a few ways.           *)
(***************************************************************************)
ConnStep(x, y) ==
    \/ conn'[x][y] = "offline" /\ rep'[x][y] = NoReply
    \/ /\ conn'[x][y] = conn[x][y] /\ vote'[x][y] = vote[x][y]
       /\ conn[x][y] = "active" => streamingAt'[x][y] >= StartLsn
       /\ rep'[x][y] = rep[x][y] \/ rep'[x][y] = NoReply
    \/ /\ conn'[x][y] = "idle" /\ conn[x][y] = "wait_verdict"
       /\ WalInfoOK(vote'[x][y].th, vote'[x][y].flush)
       /\ tlStart[y] = 0 => vote'[x][y].flush = 0
       /\ rep'[x][y] = NoReply

LEMMA ProposerStepType ==
  ASSUME TypeInv, UNCHANGED skVars,
         UNCHANGED <<propTerm, nConnected, propTh, published, grants, crashes, publishes>>,
         ProposerTypeOK', LinkTypeOK',
         \A x \in Proposers : nVotes'[x] >= QuorumSize => Elected(x),
         \A x \in Proposers : availableLsn'[x] >= availableLsn[x],
         \A x \in Proposers, y \in Safekeepers : ConnStep(x, y),
         NetKeeps({"vote", "append"}) \/ NetInv'
  PROVE  TypeInv'
<1>1. SafekeeperTypeOK' /\ SafekeeperInv' /\ tlStart' = tlStart
  BY SafekeepersUntouched
<1>2. TypeOK'
  BY <1>1 DEF TypeInv, TypeOK
<1>3. \A x \in Proposers : Elected(x)' = Elected(x)
  BY DEF Elected
<1>4. ProposerInv'
  <2>1. ASSUME NEW x \in Proposers
        PROVE  availableLsn[x] \in Nat /\ availableLsn'[x] \in Nat
    BY DEF TypeInv, TypeOK, ProposerTypeOK
  <2>2. ProposerInv
    BY DEF TypeInv
  <2>. QED  BY <1>3, <2>1, <2>2 DEF ProposerInv, StartLsn
<1>5. ConnInv'
  <2>1. NoReply.type # "vote"
    BY DEF NoReply
  <2>2. ASSUME NEW x \in Proposers, NEW y \in Safekeepers
        PROVE  ConnOK(x, y)'
    <3>1. ConnOK(x, y)
      BY DEF TypeInv, ConnInv
    <3>2. ConnStep(x, y)
      OBVIOUS
    <3>. QED  BY <1>1, <1>3, <2>1, <3>1, <3>2 DEF ConnOK, ConnStep
  <2>. QED  BY <2>2 DEF ConnInv
<1>6. NetInv'
  BY <1>1, <1>3, NetInvKept DEF TypeInv
<1>. QED  BY <1>1, <1>2, <1>4, <1>5, <1>6 DEF TypeInv

\* DetermineEpochStartLsn continues a voter's history with the new term.
LEMMA NewHistoryType ==
  ASSUME TypeInv, NEW p \in Proposers, NEW v \in Votes, WalInfoOK(v.th, v.flush)
  PROVE  LET h == NewHistory(p, v)
         IN  /\ h \in Seq(TermLsn) /\ h # << >> /\ h[1].lsn = StartLsn
             /\ h[Len(h)].term = propTerm[p]
             /\ h[Len(h)].lsn \in Nat /\ h[Len(h)].lsn >= StartLsn
<1> DEFINE e == [term |-> propTerm[p], lsn |-> IF v.flush = 0 THEN StartLsn ELSE v.flush]
           h == Append(v.th, e)
<1>1. v.th \in Seq(TermLsn) /\ v.flush \in Nat
  BY DEF Votes
<1>2. propTerm[p] \in Nat
  BY DEF TypeInv, TypeOK, ProposerTypeOK
<1>3. e \in TermLsn /\ e.lsn >= StartLsn /\ e.lsn \in Nat /\ e.term = propTerm[p]
  BY <1>1, <1>2 DEF TermLsn, StartLsn
<1>4. v.flush = 0 => e.lsn = StartLsn
  OBVIOUS
<1>. HIDE DEF e
<1>5. /\ h \in Seq(TermLsn) /\ Len(h) = Len(v.th) + 1 /\ h[Len(h)] = e
      /\ \A i \in 1..Len(v.th) : h[i] = v.th[i]
  BY <1>1, <1>3, AppendProperties
<1>6. h[1].lsn = StartLsn
  <2>1. CASE v.flush = 0 /\ v.th = << >>
    BY <1>4, <1>5, <2>1
  <2>2. CASE v.th # << >> /\ v.th[1].lsn = StartLsn
    <3>1. 1 \in 1..Len(v.th)
      BY <1>1, <2>2
    <3>. QED  BY <1>5, <2>2, <3>1
  <2>. QED  BY <2>1, <2>2 DEF WalInfoOK
<1>7. h # << >>
  BY <1>1, <1>5
<1>8. NewHistory(p, v) = h
  BY DEF NewHistory, e
<1>. HIDE DEF h
<1>. QED  BY <1>3, <1>5, <1>6, <1>7, <1>8

LEMMA WalProposerBroadcastType ==
  ASSUME TypeInv, NEW p \in Proposers, WalProposerBroadcast(p)
  PROVE  TypeInv'
<1>1. /\ UNCHANGED skVars
      /\ UNCHANGED <<up, conn, propTerm, nConnected, nVotes, vote, propTh, donor, streamingAt,
                      ackFlush, net, rep, link, published, grants, crashes, publishes>>
      /\ availableLsn' = [availableLsn EXCEPT ![p] = availableLsn[p] + 1]
  BY DEF WalProposerBroadcast, linkVars, countVars
<1>2. availableLsn \in [Proposers -> Nat]
  BY DEF TypeInv, TypeOK, ProposerTypeOK
<1>3. /\ availableLsn' \in [Proposers -> Nat]
      /\ \A x \in Proposers : availableLsn'[x] >= availableLsn[x]
  BY <1>1, <1>2
<1>4. ProposerTypeOK' /\ LinkTypeOK'
  BY <1>1, <1>3 DEF TypeInv, TypeOK, ProposerTypeOK, LinkTypeOK
<1>5. \A x \in Proposers : nVotes'[x] >= QuorumSize => Elected(x)
  BY <1>1 DEF TypeInv, ProposerInv
<1>6. \A x \in Proposers, y \in Safekeepers : ConnStep(x, y)
  BY <1>1 DEF ConnStep, TypeInv, ConnInv, ConnOK
<1>7. NetKeeps({"vote", "append"})
  BY <1>1 DEF NetKeeps
<1>. QED  BY <1>1, <1>3, <1>4, <1>5, <1>6, <1>7, ProposerStepType

LEMMA DieStepType ==
  ASSUME TypeInv, NEW p \in Proposers, Die(p), UNCHANGED skVars,
         UNCHANGED <<propTerm, nConnected, nVotes, propTh, donor, availableLsn, ackFlush, net,
                     published, grants, crashes, publishes>>
  PROVE  TypeInv'
<1>1. ProposerTypeOK' /\ LinkTypeOK'
  BY DieType DEF TypeInv, TypeOK, ProposerTypeOK, LinkTypeOK
<1>2. ASSUME NEW x \in Proposers, NEW y \in Safekeepers
      PROVE  ConnStep(x, y)
  <2>1. ConnOK(x, y)
    BY DEF TypeInv, ConnInv
  <2>2. \/ x = p /\ conn'[x][y] = "offline" /\ rep'[x][y] = NoReply
        \/ /\ conn'[x][y] = conn[x][y] /\ vote'[x][y] = vote[x][y]
           /\ streamingAt'[x][y] = streamingAt[x][y] /\ rep'[x][y] = rep[x][y]
    BY DieType
  <2>. QED  BY <2>1, <2>2 DEF ConnStep, ConnOK
<1>3. \A x \in Proposers : nVotes'[x] >= QuorumSize => Elected(x)
  BY DEF TypeInv, ProposerInv
<1>4. \A x \in Proposers : availableLsn'[x] >= availableLsn[x]
  BY DEF TypeInv, TypeOK, ProposerTypeOK
<1>5. NetKeeps({"vote", "append"})
  BY DEF NetKeeps
<1>. QED  BY <1>1, <1>2, <1>3, <1>4, <1>5, ProposerStepType

LEMMA RecvAppendResponseType ==
  ASSUME TypeInv, NEW p \in Proposers, NEW s \in Safekeepers, RecvAppendResponse(p, s)
  PROVE  TypeInv'
<1>1. /\ UNCHANGED skVars
      /\ UNCHANGED <<propTerm, nConnected, nVotes, propTh, donor, availableLsn, net, published,
                      grants, crashes, publishes>>
  BY DEF RecvAppendResponse, countVars
<1>2. \A x \in Proposers : nVotes'[x] >= QuorumSize => Elected(x)
  BY <1>1 DEF TypeInv, ProposerInv
<1>3. NetKeeps({"vote", "append"})
  BY <1>1 DEF NetKeeps
<1>4. \A x \in Proposers : availableLsn'[x] >= availableLsn[x]
  BY <1>1 DEF TypeInv, TypeOK, ProposerTypeOK
<1>5. \A x \in Proposers, y \in Safekeepers : conn[x][y] = "active" => streamingAt[x][y] >= StartLsn
  BY DEF TypeInv, ConnInv, ConnOK
<1>6. CASE Die(p) /\ UNCHANGED ackFlush
  BY <1>1, <1>6, DieStepType
<1>7. CASE /\ rep[p][s].type = "append"
           /\ ackFlush' = [ackFlush EXCEPT ![p][s] = rep[p][s].flush]
           /\ rep' = [rep EXCEPT ![p][s] = NoReply]
           /\ UNCHANGED <<up, conn, vote, streamingAt, link>>
  <2>1. /\ rep \in [Proposers -> [Safekeepers -> Replies]]
        /\ rep[p][s] \in Replies /\ NoReply \in Replies
    BY DEF TypeInv, TypeOK, LinkTypeOK, Replies
  <2>2. rep[p][s].flush \in Nat
    BY <1>7, <2>1 DEF Replies, NoReply
  <2>3. ProposerTypeOK' /\ LinkTypeOK'
    BY <1>1, <1>7, <2>1, <2>2 DEF TypeInv, TypeOK, ProposerTypeOK, LinkTypeOK
  <2>4. \A x \in Proposers, y \in Safekeepers : rep'[x][y] = rep[x][y] \/ rep'[x][y] = NoReply
    BY <1>7, <2>1
  <2>5. \A x \in Proposers, y \in Safekeepers : ConnStep(x, y)
    BY <1>5, <1>7, <2>4 DEF ConnStep
  <2>. QED  BY <1>1, <1>2, <1>3, <1>4, <2>3, <2>5, ProposerStepType
<1>. QED  BY <1>6, <1>7 DEF RecvAppendResponse

LEMMA ShutdownConnectionType ==
  ASSUME TypeInv, NEW p \in Proposers, NEW s \in Safekeepers, ShutdownConnection(p, s)
  PROVE  TypeInv'
<1> DEFINE q == [c \in Channels |-> IF c = "old" THEN net[p][s]["cur"] ELSE << >>]
<1>1. /\ UNCHANGED skVars
      /\ UNCHANGED <<up, propTerm, nConnected, nVotes, propTh, donor, availableLsn, published,
                      grants, crashes, publishes>>
      /\ conn' = [conn EXCEPT ![p][s] = "offline"]
      /\ streamingAt' = [streamingAt EXCEPT ![p][s] = 0]
      /\ vote' = [vote EXCEPT ![p][s] = NoVote]
      /\ ackFlush' = ackFlush
      /\ link' = [link EXCEPT ![p][s] = FALSE]
      /\ rep'  = [rep EXCEPT ![p][s] = NoReply]
      /\ net' = [net EXCEPT ![p][s] = q]
  <2>1. ackFlush' = [ackFlush EXCEPT ![p][s] = ackFlush[p][s]]
    BY DEF ShutdownConnection, AckAfterShutdown
  <2>2. ackFlush' = ackFlush
    BY <2>1 DEF TypeInv, TypeOK, ProposerTypeOK
  <2>. QED  BY <2>2 DEF ShutdownConnection, countVars
<1>2. net \in NetType /\ NetInv
  BY DEF TypeInv, TypeOK, LinkTypeOK, NetType
<1>3. q \in [Channels -> Seq(Messages)]
  <2>1. net[p][s]["cur"] \in Seq(Messages) /\ << >> \in Seq(Messages)
    BY <1>2 DEF NetType, Channels
  <2>. QED  BY <2>1
<1>4. \A c \in Channels : \A i \in DOMAIN q[c] :
        "cur" \in Channels /\ i \in DOMAIN net[p][s]["cur"] /\ q[c][i] = net[p][s]["cur"][i]
  BY DEF Channels
<1>. HIDE DEF q
<1>5. net' \in NetType
  BY <1>1, <1>2, <1>3 DEF NetType
<1>6. NetInv'
  <2>1. ASSUME NEW x \in Proposers, NEW y \in Safekeepers, NEW c \in Channels,
               NEW i \in DOMAIN net'[x][y][c]
        PROVE  \E d \in Channels : i \in DOMAIN net[x][y][d] /\ net'[x][y][c][i] = net[x][y][d][i]
    <3>1. net'[x][y] = IF x = p /\ y = s THEN q ELSE net[x][y]
      BY <1>1, <1>2 DEF NetType
    <3>. QED  BY <1>4, <3>1
  <2>2. \A x \in Proposers : Elected(x)' = Elected(x)
    BY <1>1 DEF Elected
  <2>3. tlStart' = tlStart
    BY <1>1 DEF skVars
  <2>4. ASSUME NEW x \in Proposers, NEW y \in Safekeepers, NEW c \in Channels,
               NEW i \in DOMAIN net'[x][y][c], net'[x][y][c][i].type = "elected"
        PROVE  /\ Elected(x)'
               /\ net'[x][y][c][i].start >= StartLsn
               /\ tlStart'[y] = 0 => net'[x][y][c][i].start = StartLsn
    <3>1. PICK d \in Channels : i \in DOMAIN net[x][y][d] /\ net'[x][y][c][i] = net[x][y][d][i]
      BY <2>1
    <3>2. ElectedMsgOK(x, y, net[x][y][d][i])
      BY <1>2, <3>1 DEF NetInv
    <3>. QED  BY <2>2, <2>3, <2>4, <3>1, <3>2 DEF ElectedMsgOK
  <2>. QED  BY <2>4 DEF NetInv, ElectedMsgOK
<1>7. LinkTypeOK'
  <2>1. NoReply \in Replies
    BY DEF Replies
  <2>. QED  BY <1>1, <1>5, <2>1 DEF TypeInv, TypeOK, LinkTypeOK, NetType
<1>8. ProposerTypeOK'
  <2>1. NoVote \in Votes /\ "offline" \in ConnStates
    BY DEF NoVote, Votes, ConnStates
  <2>. QED  BY <1>1, <2>1 DEF TypeInv, TypeOK, ProposerTypeOK
<1>9. \A x \in Proposers, y \in Safekeepers : ConnStep(x, y)
  <2>1. /\ conn \in [Proposers -> [Safekeepers -> ConnStates]]
        /\ vote \in [Proposers -> [Safekeepers -> Votes]]
        /\ streamingAt \in [Proposers -> [Safekeepers -> Nat]]
        /\ rep \in [Proposers -> [Safekeepers -> Replies]]
    BY DEF TypeInv, TypeOK, ProposerTypeOK, LinkTypeOK
  <2>2. ASSUME NEW x \in Proposers, NEW y \in Safekeepers
        PROVE  IF x = p /\ y = s
               THEN conn'[x][y] = "offline" /\ rep'[x][y] = NoReply
               ELSE /\ conn'[x][y] = conn[x][y] /\ vote'[x][y] = vote[x][y]
                    /\ streamingAt'[x][y] = streamingAt[x][y] /\ rep'[x][y] = rep[x][y]
    BY <1>1, <2>1
  <2>3. \A x \in Proposers, y \in Safekeepers : conn[x][y] = "active" => streamingAt[x][y] >= StartLsn
    BY DEF TypeInv, ConnInv, ConnOK
  <2>. QED  BY <2>2, <2>3 DEF ConnStep
<1>10. \A x \in Proposers : nVotes'[x] >= QuorumSize => Elected(x)
  BY <1>1 DEF TypeInv, ProposerInv
<1>11. \A x \in Proposers : availableLsn'[x] >= availableLsn[x]
  BY <1>1 DEF TypeInv, TypeOK, ProposerTypeOK
<1>. QED  BY <1>1, <1>6, <1>7, <1>8, <1>9, <1>10, <1>11, ProposerStepType

\* A function on 1..k, where k may be negative, is a sequence.
LEMMA EntriesType ==
  ASSUME NEW k \in Int, NEW e, e = [i \in 1..k |-> e[i]], \A i \in 1..k : e[i] \in Nat
  PROVE  e \in Seq(Nat)
<1>1. CASE k >= 0
  <2>1. k \in Nat
    BY <1>1
  <2>2. e \in [1..k -> Nat]
    OBVIOUS
  <2>. QED  BY <2>1, <2>2
<1>2. CASE k < 0
  <2>1. 1..k = 1..0
    BY <1>2
  <2>2. e \in [1..0 -> Nat]
    BY <2>1
  <2>. QED  BY <2>2
<1>. QED  BY <1>1, <1>2

\* WAL before the start of the term comes from a donor that has it.
LEMMA DonorWal ==
  ASSUME TypeInv, NEW p \in Proposers, NEW d \in GetDonor(p),
         NEW begin \in Nat, NEW end \in Nat, begin >= StartLsn, end >= StartLsn,
         DonorServes(p, d, end)
  PROVE  [i \in 1..(end - begin) |-> RecordAt(d, begin + i - 1)] \in Seq(Nat)
<1> DEFINE e == [i \in 1..(end - begin) |-> RecordAt(d, begin + i - 1)]
<1>1. d \in Safekeepers
  <2>1. donor[p] \subseteq Safekeepers
    BY DEF TypeInv, TypeOK, ProposerTypeOK
  <2>. QED  BY <2>1 DEF GetDonor
<1>2. wal[d] \in Seq(Nat) /\ tlStart[d] \in {0, StartLsn} /\ flushed[d] \in Nat
      /\ flushed[d] <= WriteLsn(d)
  BY <1>1 DEF TypeInv, TypeOK, SafekeeperTypeOK, SafekeeperInv
<1>3. FlushLsn(d) >= end
  BY DEF DonorServes
<1>4. end <= StartLsn + Len(wal[d])
  BY <1>2, <1>3 DEF FlushLsn, WriteLsn, MaxOf, StartLsn
<1>5. ASSUME NEW i \in 1..(end - begin)
      PROVE  RecordAt(d, begin + i - 1) \in Nat
  <2> DEFINE l == begin + i - 1
  <2>1. l - StartLsn + 1 \in 1..Len(wal[d])
    BY <1>2, <1>4 DEF StartLsn
  <2>. HIDE DEF l
  <2>2. RecordAt(d, l) \in Nat
    BY <1>2, <2>1, ElementOfSeq DEF RecordAt
  <2>. QED  BY <2>2 DEF l
<1>6. /\ end - begin \in Int
      /\ \A i \in 1..(end - begin) : e[i] \in Nat
      /\ e = [i \in 1..(end - begin) |-> e[i]]
  BY <1>5
<1>. HIDE DEF e
<1>7. e \in Seq(Nat)
  BY <1>6, EntriesType
<1>. QED  BY <1>7 DEF e

LEMMA SendAppendRequestType ==
  ASSUME TypeInv, NEW p \in Proposers, NEW s \in Safekeepers, SendAppendRequest(p, s)
  PROVE  TypeInv'
<1> DEFINE begin == streamingAt[p][s]
           end == MinOf(begin + MAX_SEND_SIZE, availableLsn[p])
           m(e) == [type |-> "append", begin |-> begin, entries |-> e, commit |-> QuorumAck(p)]
           own == [i \in 1..(end - begin) |-> propTerm[p]]
           fetched(d) == [i \in 1..(end - begin) |-> RecordAt(d, begin + i - 1)]
           sent(e) == net' = [net EXCEPT ![p][s]["cur"] = Append(net[p][s]["cur"], m(e))]
<1>1. /\ UNCHANGED skVars
      /\ UNCHANGED <<up, conn, propTerm, nConnected, nVotes, vote, propTh, donor, availableLsn,
                      ackFlush, rep, link, published, grants, crashes, publishes>>
      /\ conn[p][s] = "active"
      /\ streamingAt' = [streamingAt EXCEPT ![p][s] = end]
      /\ sent(own) \/ \E d \in GetDonor(p) : DonorServes(p, d, end) /\ sent(fetched(d))
  BY DEF SendAppendRequest, countVars
<1>2. /\ begin \in Nat /\ begin >= StartLsn
      /\ end \in Nat /\ end >= StartLsn
      /\ propTerm[p] \in Nat
  <2>1. ConnOK(p, s)
    BY DEF TypeInv, ConnInv
  <2>2. begin >= StartLsn /\ Elected(p)
    BY <1>1, <2>1 DEF ConnOK
  <2>3. availableLsn[p] >= StartLsn
    BY <2>2 DEF TypeInv, ProposerInv
  <2>4. begin \in Nat /\ availableLsn[p] \in Nat /\ propTerm[p] \in Nat
    BY DEF TypeInv, TypeOK, ProposerTypeOK
  <2>. QED  BY <2>2, <2>3, <2>4, BoundsAssumption DEF MinOf, StartLsn
<1>. HIDE DEF begin, end
<1>3. own \in Seq(Nat)
  <2>1. /\ end - begin \in Int
        /\ \A i \in 1..(end - begin) : own[i] \in Nat
        /\ own = [i \in 1..(end - begin) |-> own[i]]
    BY <1>2
  <2>. HIDE DEF own
  <2>. QED  BY <2>1, EntriesType
<1>4. ASSUME NEW d \in GetDonor(p), DonorServes(p, d, end)
      PROVE  fetched(d) \in Seq(Nat)
  BY <1>2, <1>4, DonorWal
<1>. HIDE DEF own, fetched
<1>5. PICK e \in Seq(Nat) : sent(e)
  BY <1>1, <1>3, <1>4
<1>6. m(e) \in Messages /\ m(e).type = "append"
  <2>1. QuorumAck(p) \in Nat
    BY QuorumAckType
  <2>. QED  BY <1>2, <2>1 DEF Messages
<1>7. net \in NetType
  BY DEF TypeInv, TypeOK, LinkTypeOK, NetType
<1>8. net' \in NetType /\ NetKeeps({"vote", "append"})
  <2> DEFINE q == net[p][s]["cur"]
             w == m(e)
             r == Append(q, w)
  <2>1. q \in Seq(Messages) /\ "cur" \in Channels
    BY <1>7 DEF NetType, Channels
  <2>2. w \in Messages /\ w.type = "append"
    BY <1>6
  <2>3. net' = [net EXCEPT ![p][s]["cur"] = r]
    BY <1>5
  <2>. HIDE DEF w, m
  <2>4. /\ r \in Seq(Messages) /\ Len(r) = Len(q) + 1 /\ r[Len(r)] = w
        /\ \A i \in 1..Len(q) : r[i] = q[i]
    BY <2>1, <2>2, AppendProperties
  <2>5. QueueKeeps(r, q, {"vote", "append"})
    <3>1. ASSUME NEW i \in DOMAIN r
          PROVE  r[i] = w \/ (i \in DOMAIN q /\ r[i] = q[i])
      <4>. HIDE DEF r, q
      <4>. QED  BY <2>1, <2>4, SMTT(30)
    <3>. HIDE DEF r, q
    <3>. QED  BY <2>2, <3>1 DEF QueueKeeps
  <2>. HIDE DEF r
  <2>. QED  BY <1>7, <2>1, <2>3, <2>4, <2>5, ReplacedQueue
<1>9. ProposerTypeOK' /\ LinkTypeOK'
  BY <1>1, <1>2, <1>8 DEF TypeInv, TypeOK, ProposerTypeOK, LinkTypeOK, NetType
<1>10. \A x \in Proposers, y \in Safekeepers : ConnStep(x, y)
  <2>1. streamingAt \in [Proposers -> [Safekeepers -> Nat]]
    BY DEF TypeInv, TypeOK, ProposerTypeOK
  <2>2. \A x \in Proposers, y \in Safekeepers :
           streamingAt'[x][y] = IF x = p /\ y = s THEN end ELSE streamingAt[x][y]
    BY <1>1, <2>1
  <2>3. \A x \in Proposers, y \in Safekeepers : conn[x][y] = "active" => streamingAt[x][y] >= StartLsn
    BY DEF TypeInv, ConnInv, ConnOK
  <2>. QED  BY <1>1, <1>2, <2>2, <2>3 DEF ConnStep
<1>11. \A x \in Proposers : nVotes'[x] >= QuorumSize => Elected(x)
  BY <1>1 DEF TypeInv, ProposerInv
<1>12. \A x \in Proposers : availableLsn'[x] >= availableLsn[x]
  BY <1>1 DEF TypeInv, TypeOK, ProposerTypeOK
<1>. QED  BY <1>1, <1>8, <1>9, <1>10, <1>11, <1>12, ProposerStepType

LEMMA RecvVoteResponseType ==
  ASSUME TypeInv, NEW p \in Proposers, NEW s \in Safekeepers, RecvVoteResponse(p, s)
  PROVE  TypeInv'
<1> DEFINE r == rep[p][s]
           n == nVotes[p] + 1
           e == [flush |-> r.flush, th |-> r.th]
           v == [vote[p] EXCEPT ![s] = e]
           ready == {i \in Safekeepers : conn[p][i] = "idle"} \union {s}
<1>1. /\ UNCHANGED skVars
      /\ UNCHANGED <<propTerm, nConnected, ackFlush, published, grants, crashes, publishes>>
      /\ conn[p][s] = "wait_verdict" /\ r.type = "vote"
  BY DEF RecvVoteResponse, countVars
<1>2. ConnOK(p, s) /\ \A y \in Safekeepers : ConnOK(p, y)
  BY DEF TypeInv, ConnInv
<1>3. /\ nConnected[p] >= QuorumSize
      /\ WalInfoOK(e.th, e.flush) /\ (tlStart[s] = 0 => e.flush = 0)
  BY <1>1, <1>2 DEF ConnOK
<1>4. e \in Votes /\ vote[p] \in [Safekeepers -> Votes] /\ n \in Nat
  <2>1. r \in Replies /\ vote[p] \in [Safekeepers -> Votes] /\ nVotes[p] \in Nat
    BY DEF TypeInv, TypeOK, LinkTypeOK, ProposerTypeOK
  <2>. QED  BY <1>1, <2>1, VoteReplyType
<1>. HIDE DEF e
<1>5. /\ v \in [Safekeepers -> Votes]
      /\ \A y \in ready : /\ WalInfoOK(v[y].th, v[y].flush)
                          /\ tlStart[y] = 0 => v[y].flush = 0
  BY <1>2, <1>3, <1>4 DEF ConnOK
<1>6. ready \in SUBSET Safekeepers /\ {s} \in SUBSET Safekeepers /\ s \in ready
  OBVIOUS
<1>7. CASE Die(p) /\ UNCHANGED <<nVotes, propTh, donor, availableLsn, net>>
  BY <1>1, <1>7, DieStepType
<1>8. CASE /\ n < QuorumSize
           /\ nVotes' = [nVotes EXCEPT ![p] = n]
           /\ conn' = [conn EXCEPT ![p][s] = "idle"]
           /\ vote' = [vote EXCEPT ![p] = v]
           /\ rep'  = [rep EXCEPT ![p][s] = NoReply]
           /\ UNCHANGED <<up, propTh, donor, availableLsn, streamingAt, net, link>>
  <2>1. v[s] = e /\ \A y \in Safekeepers : y # s => v[y] = vote[p][y]
    BY <1>4
  <2>. HIDE DEF v
  <2>2. /\ conn \in [Proposers -> [Safekeepers -> ConnStates]]
        /\ vote \in [Proposers -> [Safekeepers -> Votes]]
        /\ rep \in [Proposers -> [Safekeepers -> Replies]]
        /\ nVotes \in [Proposers -> Nat]
        /\ "idle" \in ConnStates /\ NoReply \in Replies
    BY DEF TypeInv, TypeOK, ProposerTypeOK, LinkTypeOK, ConnStates, Replies
  <2>3. /\ conn' \in [Proposers -> [Safekeepers -> ConnStates]]
        /\ vote' \in [Proposers -> [Safekeepers -> Votes]]
        /\ rep' \in [Proposers -> [Safekeepers -> Replies]]
        /\ nVotes' \in [Proposers -> Nat]
    BY <1>4, <1>5, <1>8, <2>2
  <2>4. ProposerTypeOK' /\ LinkTypeOK'
    BY <1>1, <1>8, <2>3 DEF TypeInv, TypeOK, ProposerTypeOK, LinkTypeOK
  <2>5. ASSUME NEW x \in Proposers, NEW y \in Safekeepers
        PROVE  ConnStep(x, y)
    <3>1. CASE x = p /\ y = s
      <4>1. conn'[x][y] = "idle" /\ vote'[x][y] = e /\ rep'[x][y] = NoReply
        BY <1>8, <2>1, <2>2, <3>1
      <4>. QED  BY <1>1, <1>3, <3>1, <4>1 DEF ConnStep
    <3>2. CASE ~(x = p /\ y = s)
      <4>1. conn'[x][y] = conn[x][y] /\ vote'[x][y] = vote[x][y] /\ rep'[x][y] = rep[x][y]
        BY <1>8, <2>1, <2>2, <3>2
      <4>2. ConnOK(x, y) /\ streamingAt' = streamingAt
        BY <1>8 DEF TypeInv, ConnInv
      <4>. QED  BY <4>1, <4>2 DEF ConnStep, ConnOK
    <3>. QED  BY <3>1, <3>2
  <2>6. ASSUME NEW x \in Proposers, nVotes'[x] >= QuorumSize PROVE Elected(x)
    <3>1. nVotes'[x] = IF x = p THEN n ELSE nVotes[x]
      BY <1>8, <2>2
    <3>2. x # p
      BY <1>4, <1>8, <2>6, <3>1, QuorumSizeType
    <3>. QED  BY <2>6, <3>1, <3>2 DEF TypeInv, ProposerInv
  <2>7. \A x \in Proposers : availableLsn'[x] >= availableLsn[x]
    BY <1>8 DEF TypeInv, TypeOK, ProposerTypeOK
  <2>8. NetKeeps({"vote", "append"})
    BY <1>8 DEF NetKeeps
  <2>. QED  BY <1>1, <1>8, <2>4, <2>5, <2>6, <2>7, <2>8, ProposerStepType
<1>9. CASE /\ n > QuorumSize
           /\ nVotes' = [nVotes EXCEPT ![p] = n]
           /\ SendProposerElected(p, {s}, v, propTh[p])
           /\ UNCHANGED <<up, propTh, donor, availableLsn, link>>
  <2>1. Elected(p)
    <3>1. nVotes[p] \in Nat /\ nVotes[p] >= QuorumSize
      BY <1>9, QuorumSizeType DEF TypeInv, TypeOK, ProposerTypeOK
    <3>. QED  BY <3>1 DEF TypeInv, ProposerInv
  <2>2. /\ propTh[p] \in Seq(TermLsn) /\ propTh[p] # << >>
        /\ propTh[p][1].lsn = StartLsn
        /\ propTh[p][Len(propTh[p])].term = propTerm[p]
        /\ availableLsn[p] >= StartLsn
    BY <2>1 DEF TypeInv, TypeOK, ProposerTypeOK, ProposerInv, Elected
  <2>3. /\ propTh' = [propTh EXCEPT ![p] = propTh[p]]
        /\ availableLsn' \in [Proposers -> Nat]
        /\ donor' \in [Proposers -> SUBSET Safekeepers]
        /\ \A x \in Proposers : availableLsn'[x] = availableLsn[x]
    BY <1>9 DEF TypeInv, TypeOK, ProposerTypeOK
  <2>4. \A y \in {s} : /\ WalInfoOK(v[y].th, v[y].flush)
                       /\ tlStart[y] = 0 => v[y].flush = 0
    BY <1>5, <1>6
  <2>. HIDE DEF v, n, r, ready
  <2>5. /\ UNCHANGED skVars
        /\ UNCHANGED <<up, propTerm, nConnected, ackFlush, link, published, grants,
                        crashes, publishes>>
        /\ nVotes' = [nVotes EXCEPT ![p] = n] /\ n \in Nat
        /\ SendProposerElected(p, {s}, v, propTh[p])
        /\ {s} \in SUBSET Safekeepers /\ v \in [Safekeepers -> Votes]
        /\ nConnected[p] >= QuorumSize
        /\ availableLsn'[p] >= StartLsn
    BY <1>1, <1>3, <1>4, <1>5, <1>6, <1>9, <2>2, <2>3
  <2>. QED  BY <2>2, <2>3, <2>4, <2>5, SendProposerElectedType
<1>10. CASE /\ nVotes' = [nVotes EXCEPT ![p] = n]
            /\ \E d \in MostAdvanced(v, ready) :
                  LET h == NewHistory(p, v[d])
                  IN  /\ propTh' = [propTh EXCEPT ![p] = h]
                      /\ donor'  = [donor EXCEPT ![p] = {d}]
                      /\ availableLsn' = [availableLsn EXCEPT ![p] = h[Len(h)].lsn]
                      /\ SendProposerElected(p, ready, v, h)
            /\ UNCHANGED <<up, link>>
  <2>1. PICK d \in MostAdvanced(v, ready) :
             /\ propTh' = [propTh EXCEPT ![p] = NewHistory(p, v[d])]
             /\ donor'  = [donor EXCEPT ![p] = {d}]
             /\ availableLsn' = [availableLsn EXCEPT ![p] =
                                    NewHistory(p, v[d])[Len(NewHistory(p, v[d]))].lsn]
             /\ SendProposerElected(p, ready, v, NewHistory(p, v[d]))
    BY <1>10
  <2>2. d \in ready
    BY DEF MostAdvanced
  <2>. HIDE DEF v, n, r, ready
  <2> DEFINE h == NewHistory(p, v[d])
  <2>3. d \in Safekeepers /\ v[d] \in Votes /\ WalInfoOK(v[d].th, v[d].flush)
    <3>1. d \in Safekeepers
      BY <1>6, <2>2
    <3>2. v[d] \in Votes
      BY <1>5, <3>1
    <3>3. WalInfoOK(v[d].th, v[d].flush)
      BY <1>5, <2>2, Zenon
    <3>. QED  BY <3>1, <3>2, <3>3
  <2>4. /\ h \in Seq(TermLsn) /\ h # << >> /\ h[1].lsn = StartLsn
        /\ h[Len(h)].term = propTerm[p]
        /\ h[Len(h)].lsn \in Nat /\ h[Len(h)].lsn >= StartLsn
    BY <2>3, NewHistoryType
  <2>. HIDE DEF h
  <2>5. /\ propTh' = [propTh EXCEPT ![p] = h]
        /\ donor'  = [donor EXCEPT ![p] = {d}]
        /\ availableLsn' = [availableLsn EXCEPT ![p] = h[Len(h)].lsn]
        /\ SendProposerElected(p, ready, v, h)
    BY <2>1 DEF h
  <2>6. /\ availableLsn' \in [Proposers -> Nat]
        /\ \A x \in Proposers : availableLsn'[x] = availableLsn[x] \/ x = p
        /\ availableLsn'[p] >= StartLsn
        /\ donor' \in [Proposers -> SUBSET Safekeepers]
    BY <2>3, <2>4, <2>5 DEF TypeInv, TypeOK, ProposerTypeOK
  <2>7. /\ UNCHANGED skVars
        /\ UNCHANGED <<up, propTerm, nConnected, ackFlush, link, published, grants,
                        crashes, publishes>>
        /\ nVotes' = [nVotes EXCEPT ![p] = n] /\ n \in Nat
        /\ ready \in SUBSET Safekeepers /\ v \in [Safekeepers -> Votes]
        /\ nConnected[p] >= QuorumSize
        /\ \A y \in ready : /\ WalInfoOK(v[y].th, v[y].flush)
                            /\ tlStart[y] = 0 => v[y].flush = 0
    BY <1>1, <1>3, <1>4, <1>5, <1>6, <1>10
  <2>8. /\ propTh' = [propTh EXCEPT ![p] = h] /\ SendProposerElected(p, ready, v, h)
        /\ h \in Seq(TermLsn) /\ h # << >> /\ h[1].lsn = StartLsn
        /\ h[Len(h)].term = propTerm[p]
    BY <2>4, <2>5
  <2>. QED  BY <2>6, <2>7, <2>8, SendProposerElectedType
<1>. QED  BY <1>7, <1>8, <1>9, <1>10 DEF RecvVoteResponse, e

-----------------------------------------------------------------------------
LEMMA InitType == Init => TypeInv
<1>1. SUFFICES ASSUME Init PROVE TypeInv
  OBVIOUS
<1>2. << >> \in Seq(TermLsn) /\ << >> \in Seq(Nat) /\ << >> \in Seq(Messages) /\ DOMAIN << >> = {}
  OBVIOUS
<1>3. SafekeeperTypeOK /\ LinkTypeOK
  BY <1>1, <1>2 DEF Init, SafekeeperTypeOK, LinkTypeOK, Replies
<1>4. ProposerTypeOK
  BY <1>1, <1>2 DEF Init, ProposerTypeOK, ConnStates, Votes, NoVote
<1>5. TypeOK
  BY <1>1, <1>3, <1>4 DEF Init, TypeOK, NoInfo
<1>6. SafekeeperInv
  BY <1>1 DEF Init, SafekeeperInv, WriteLsn
<1>7. ProposerInv
  BY <1>1, QuorumSizeType DEF Init, ProposerInv, Elected
<1>8. ConnInv
  BY <1>1 DEF Init, ConnInv, ConnOK, NoReply
<1>9. NetInv
  BY <1>1, <1>2 DEF Init, NetInv
<1>. QED  BY <1>5, <1>6, <1>7, <1>8, <1>9 DEF TypeInv

LEMMA StutterType == TypeInv /\ UNCHANGED vars => TypeInv'
<1>1. SUFFICES ASSUME TypeInv, UNCHANGED vars PROVE TypeInv'
  OBVIOUS
<1>2. UNCHANGED skVars
  BY <1>1 DEF vars
<1>3. UNCHANGED <<up, conn, propTerm, nConnected, nVotes, vote, propTh, donor, availableLsn,
                  streamingAt, ackFlush, net, rep, link, published, grants, crashes, publishes>>
  BY <1>1 DEF vars, propVars, linkVars, countVars
<1>4. ProposerTypeOK' /\ LinkTypeOK'
  BY <1>1, <1>3 DEF TypeInv, TypeOK, ProposerTypeOK, LinkTypeOK
<1>5. \A x \in Proposers, y \in Safekeepers : ConnStep(x, y)
  BY <1>1, <1>3 DEF ConnStep, TypeInv, ConnInv, ConnOK
<1>6. \A x \in Proposers : nVotes'[x] >= QuorumSize => Elected(x)
  BY <1>1, <1>3 DEF TypeInv, ProposerInv
<1>7. \A x \in Proposers : availableLsn'[x] >= availableLsn[x]
  BY <1>1, <1>3 DEF TypeInv, TypeOK, ProposerTypeOK
<1>8. NetKeeps({"vote", "append"})
  BY <1>3 DEF NetKeeps
<1>. QED  BY <1>1, <1>2, <1>3, <1>4, <1>5, <1>6, <1>7, <1>8, ProposerStepType

LEMMA NextType == TypeInv /\ [Next]_vars => TypeInv'
<1>1. SUFFICES ASSUME TypeInv, Next PROVE TypeInv'
  BY StutterType
<1>2. ASSUME NEW p \in Proposers, NEW s \in Safekeepers, SafekeeperStep(p, s)
      PROVE  TypeInv'
  BY <1>1, <1>2, HandleVoteRequestType, HandleElectedType, CrashInElectedType,
     HandleAppendRequestType, HandleFlushType DEF SafekeeperStep
<1>3. ASSUME NEW p \in Proposers, NEW s \in Safekeepers, ProposerStep(p, s)
      PROVE  TypeInv'
  BY <1>1, <1>3, GreetType, RecvVoteResponseType, SendAppendRequestType,
     RecvAppendResponseType, ShutdownConnectionType DEF ProposerStep
<1>4. ASSUME NEW s \in Safekeepers,
             PersistControlFile(s) \/ PublishInfo(s) \/ RecordSafekeeperInfo(s)
      PROVE  TypeInv'
  BY <1>1, <1>4, LsnStepType
<1>. QED  BY <1>1, <1>2, <1>3, <1>4, WalProposerBroadcastType, SafekeeperRestartType DEF Next

(***************************************************************************)
(* The state of safekeepers, walproposers and connections keeps its types, *)
(* for any number of each: in particular no step of SendProposerElected,   *)
(* handle_elected or SendAppendRequests computes an LSN below the start of *)
(* the timeline or reads a record or a history entry that does not exist.  *)
(***************************************************************************)
THEOREM TypeCorrect == Spec => []TypeOK
<1>1. TypeInv => TypeOK
  BY DEF TypeInv
<1>. QED  BY <1>1, InitType, NextType, PTL DEF Spec

-----------------------------------------------------------------------------
(***************************************************************************)
(* Election safety.                                                        *)
(***************************************************************************)

\* A vote is given in a term that the voter has not passed since, to a
\* proposer whose term is fixed, and in each term to one proposer only.
GrantInv ==
    /\ \A s \in Safekeepers, p \in Proposers : <<s, p>> \in grants =>
          term[s] >= propTerm[p] /\ nConnected[p] >= QuorumSize
    /\ \A s \in Safekeepers, p, q \in Proposers :
          <<s, p>> \in grants /\ <<s, q>> \in grants /\ p # q => propTerm[p] # propTerm[q]

\* A vote that a proposer counts, or is about to, was given to it.
CountInv ==
    \A p \in Proposers, s \in Safekeepers :
        /\ conn[p][s] = "idle" => <<s, p>> \in grants
        /\ rep[p][s].type = "vote" /\ rep[p][s].given => <<s, p>> \in grants

\* Votes are asked for only when the term is fixed.
RequestInv ==
    \A p \in Proposers, s \in Safekeepers, c \in Channels :
        \A i \in DOMAIN net[p][s][c] :
            net[p][s][c][i].type = "vote" => nConnected[p] >= QuorumSize

Voters(p) == {s \in Safekeepers : <<s, p>> \in grants}

\* A leader has the votes of a quorum.
VotersInv == \A p \in Proposers : Elected(p) => IsQuorum(Voters(p))

ElectionInv == GrantInv /\ CountInv /\ RequestInv /\ VotersInv

-----------------------------------------------------------------------------
\* RequestInv holds on as long as no VoteRequest is sent.
LEMMA RequestInvKept ==
  ASSUME RequestInv, NEW types, NetKeeps(types), "vote" \notin types,
         \A p \in Proposers : nConnected'[p] = nConnected[p]
  PROVE  RequestInv'
<1>1. SUFFICES ASSUME NEW p \in Proposers, NEW s \in Safekeepers, NEW c \in Channels,
                      NEW i \in DOMAIN net'[p][s][c], net'[p][s][c][i].type = "vote"
               PROVE  nConnected'[p] >= QuorumSize
  BY DEF RequestInv
<1>2. PICK j \in DOMAIN net[p][s][c] : net'[p][s][c][i] = net[p][s][c][j]
  BY <1>1 DEF NetKeeps
<1>. QED  BY <1>1, <1>2 DEF RequestInv

(***************************************************************************)
(* Steps that give no vote: terms do not go down, a proposer's term        *)
(* changes only before it is fixed, and whoever becomes a leader has been  *)
(* voted for.                                                              *)
(***************************************************************************)
LEMMA NoVoteStep ==
  ASSUME TypeInv, ElectionInv, RequestInv',
         term' \in [Safekeepers -> Nat], propTerm' \in [Proposers -> Nat],
         nConnected' \in [Proposers -> Nat],
         grants' = grants,
         \A s \in Safekeepers : term'[s] >= term[s],
         \A p \in Proposers : nConnected'[p] >= nConnected[p],
         \A p \in Proposers : propTerm'[p] = propTerm[p] \/ nConnected[p] < QuorumSize,
         \A p \in Proposers, s \in Safekeepers :
            /\ conn'[p][s] = "idle" => conn[p][s] = "idle" \/ <<s, p>> \in grants
            /\ rep'[p][s] = rep[p][s] \/ rep'[p][s].type # "vote",
         \A p \in Proposers : Elected(p)' => Elected(p) \/ IsQuorum(Voters(p))
  PROVE  ElectionInv'
<1>1. GrantInv /\ CountInv /\ VotersInv
  BY DEF ElectionInv
<1>2. GrantInv'
  <2>1. ASSUME NEW s \in Safekeepers, NEW p \in Proposers, <<s, p>> \in grants
        PROVE  /\ term'[s] >= propTerm'[p] /\ nConnected'[p] >= QuorumSize
               /\ propTerm'[p] = propTerm[p]
    <3>1. term[s] >= propTerm[p] /\ nConnected[p] >= QuorumSize
      BY <1>1, <2>1 DEF GrantInv
    <3>2. /\ term[s] \in Nat /\ propTerm[p] \in Nat /\ nConnected[p] \in Nat
          /\ term'[s] \in Nat /\ propTerm'[p] \in Nat /\ nConnected'[p] \in Nat
      BY DEF TypeInv, TypeOK, SafekeeperTypeOK, ProposerTypeOK
    <3>3. term'[s] >= term[s] /\ nConnected'[p] >= nConnected[p]
      OBVIOUS
    <3>4. propTerm'[p] = propTerm[p]
      BY <3>1, <3>2, QuorumSizeType
    <3>. QED  BY <3>1, <3>2, <3>3, <3>4, QuorumSizeType
  <2>2. ASSUME NEW s \in Safekeepers, NEW p \in Proposers, NEW q \in Proposers,
               <<s, p>> \in grants, <<s, q>> \in grants, p # q
        PROVE  propTerm'[p] # propTerm'[q]
    <3>1. propTerm[p] # propTerm[q]
      BY <1>1, <2>2 DEF GrantInv
    <3>. QED  BY <2>1, <2>2, <3>1
  <2>. QED  BY <2>1, <2>2 DEF GrantInv
<1>3. CountInv'
  BY <1>1 DEF CountInv
<1>4. VotersInv'
  <2>1. \A p \in Proposers : Voters(p)' = Voters(p)
    BY DEF Voters
  <2>2. ASSUME NEW p \in Proposers, Elected(p)' PROVE IsQuorum(Voters(p))
    BY <1>1, <2>2 DEF VotersInv
  <2>. QED  BY <2>1, <2>2 DEF VotersInv, IsQuorum
<1>. QED  BY <1>2, <1>3, <1>4 DEF ElectionInv

\* The same, for the steps of a safekeeper.
LEMMA SafekeeperKeepsElection ==
  ASSUME TypeInv, ElectionInv, UNCHANGED propVars, grants' = grants,
         term' \in [Safekeepers -> Nat],
         \A s \in Safekeepers : term'[s] >= term[s],
         NEW types, NetKeeps(types), "vote" \notin types,
         \A p \in Proposers, s \in Safekeepers :
            rep'[p][s] = rep[p][s] \/ rep'[p][s].type # "vote"
  PROVE  ElectionInv'
<1>1. UNCHANGED <<conn, propTerm, nConnected, propTh>>
  BY DEF propVars
<1>2. RequestInv'
  BY <1>1, RequestInvKept DEF ElectionInv
<1>3. /\ propTerm' \in [Proposers -> Nat] /\ nConnected' \in [Proposers -> Nat]
      /\ \A p \in Proposers : nConnected'[p] >= nConnected[p]
  BY <1>1 DEF TypeInv, TypeOK, ProposerTypeOK
<1>4. \A p \in Proposers : Elected(p)' = Elected(p)
  BY <1>1 DEF Elected
<1>. QED  BY <1>1, <1>2, <1>3, <1>4, NoVoteStep

LEMMA HandleElectedElection ==
  ASSUME TypeInv, ElectionInv, NEW p \in Proposers, NEW s \in Safekeepers, NEW c \in Channels,
         HandleElected(p, s, c)
  PROVE  ElectionInv'
<1>1. /\ net[p][s][c] # << >>
      /\ term' = [term EXCEPT ![s] = MaxOf(term[s], propTerm[p])]
      /\ UNCHANGED <<rep, grants>>
      /\ UNCHANGED propVars
      /\ Consume(p, s, c) \/ Bail(p, s, c)
  BY DEF HandleElected, HeadIs
<1>2. net \in NetType /\ link \in [Proposers -> [Safekeepers -> BOOLEAN]]
  BY DEF TypeInv, TypeOK, LinkTypeOK, NetType
<1>3. NetKeeps({})
  BY <1>1, <1>2, ConsumeKeeps, BailKeeps
<1>4. term \in [Safekeepers -> Nat] /\ propTerm[p] \in Nat
  BY DEF TypeInv, TypeOK, SafekeeperTypeOK, ProposerTypeOK
<1>5. term' \in [Safekeepers -> Nat] /\ \A y \in Safekeepers : term'[y] >= term[y]
  BY <1>1, <1>4 DEF MaxOf
<1>. QED  BY <1>1, <1>3, <1>5, SafekeeperKeepsElection

LEMMA HandleAppendRequestElection ==
  ASSUME TypeInv, ElectionInv, NEW p \in Proposers, NEW s \in Safekeepers, NEW c \in Channels,
         HandleAppendRequest(p, s, c)
  PROVE  ElectionInv'
<1> DEFINE q == NextAppend(p, s, c)
           r == [type |-> "append", term |-> term[s], flush |-> 0]
<1>1. /\ UNCHANGED <<term, grants>>
      /\ UNCHANGED propVars
      /\ q # << >>
      /\ Reply(p, s, c, r) \/ UNCHANGED rep
      /\ Bail(p, s, c) \/ net' = [net EXCEPT ![p][s][c] = <<[type |-> "flush"]>> \o Tail(q)]
  BY DEF HandleAppendRequest, skVars
<1>2. /\ net \in NetType /\ link \in [Proposers -> [Safekeepers -> BOOLEAN]]
      /\ rep \in [Proposers -> [Safekeepers -> Replies]] /\ term \in [Safekeepers -> Nat]
  BY DEF TypeInv, TypeOK, LinkTypeOK, NetType, SafekeeperTypeOK
<1>3. NetKeeps({}) \/ NetKeeps({"flush"})
  BY <1>1, <1>2, AppendProcessed, BailKeeps
<1>4. r \in Replies /\ r.type # "vote"
  BY <1>2 DEF Replies
<1>. HIDE DEF q, r
<1>5. \A x \in Proposers, y \in Safekeepers :
         rep'[x][y] = rep[x][y] \/ rep'[x][y].type # "vote"
  BY <1>1, <1>2, <1>4, ReplySent
<1>6. term' \in [Safekeepers -> Nat] /\ \A y \in Safekeepers : term'[y] >= term[y]
  BY <1>1, <1>2
<1>. QED  BY <1>1, <1>3, <1>5, <1>6, SafekeeperKeepsElection

LEMMA HandleFlushElection ==
  ASSUME TypeInv, ElectionInv, NEW p \in Proposers, NEW s \in Safekeepers, NEW c \in Channels,
         HandleFlush(p, s, c)
  PROVE  ElectionInv'
<1> DEFINE r == [type |-> "append", term |-> term[s], flush |-> MaxOf(flushed'[s], tlStart[s])]
<1>1. /\ UNCHANGED <<term, grants, tlStart>>
      /\ UNCHANGED propVars
      /\ net[p][s][c] # << >> /\ Consume(p, s, c) /\ Reply(p, s, c, r)
      /\ flushed' = [flushed EXCEPT ![s] = WriteLsn(s)]
  BY DEF HandleFlush, HeadIs
<1>2. /\ net \in NetType /\ term \in [Safekeepers -> Nat]
      /\ rep \in [Proposers -> [Safekeepers -> Replies]]
      /\ flushed \in [Safekeepers -> Nat] /\ tlStart[s] \in Nat
  BY DEF TypeInv, TypeOK, LinkTypeOK, NetType, SafekeeperTypeOK, StartLsn
<1>3. NetKeeps({})
  BY <1>1, <1>2, ConsumeKeeps
<1>4. r \in Replies /\ r.type # "vote"
  <2>1. flushed'[s] \in Nat
    BY <1>1, <1>2, SafekeeperFacts
  <2>. QED  BY <1>2, <2>1 DEF Replies, MaxOf
<1>. HIDE DEF r
<1>5. \A x \in Proposers, y \in Safekeepers :
         rep'[x][y] = rep[x][y] \/ rep'[x][y].type # "vote"
  BY <1>1, <1>2, <1>4, ReplySent
<1>6. term' \in [Safekeepers -> Nat] /\ \A y \in Safekeepers : term'[y] >= term[y]
  BY <1>1, <1>2
<1>. QED  BY <1>1, <1>3, <1>5, <1>6, SafekeeperKeepsElection

\* A restart finds the term that was saved before the vote was sent.
LEMMA RestartElection ==
  ASSUME TypeInv, ElectionInv, NEW s \in Safekeepers,
         \/ SafekeeperRestart(s)
         \/ \E p \in Proposers, c \in Channels : CrashInElected(p, s, c)
  PROVE  ElectionInv'
<1>1. \E w, saved, h : RestartWith(s, w, saved, h)
  BY DEF SafekeeperRestart, CrashInElected
<1>2. UNCHANGED <<rep, grants>> /\ UNCHANGED propVars
  BY <1>1 DEF RestartWith
<1>3. net \in NetType /\ term \in [Safekeepers -> Nat] /\ propTerm \in [Proposers -> Nat]
  BY DEF TypeInv, TypeOK, LinkTypeOK, NetType, SafekeeperTypeOK, ProposerTypeOK
<1>4. NetKeeps({})
  BY <1>1, <1>3, RestartNet
<1>5. \E t \in Nat : t >= term[s] /\ term' = [term EXCEPT ![s] = t]
  BY <1>3 DEF SafekeeperRestart, CrashInElected, SavedTerm
<1>6. term' \in [Safekeepers -> Nat] /\ \A y \in Safekeepers : term'[y] >= term[y]
  BY <1>3, <1>5
<1>. QED  BY <1>2, <1>4, <1>6, SafekeeperKeepsElection

LEMMA LsnStepElection ==
  ASSUME TypeInv, ElectionInv, NEW s \in Safekeepers,
         PersistControlFile(s) \/ PublishInfo(s) \/ RecordSafekeeperInfo(s)
  PROVE  ElectionInv'
<1>1. UNCHANGED <<net, rep, grants, term>> /\ UNCHANGED propVars
  BY DEF PersistControlFile, PublishInfo, RecordSafekeeperInfo, linkVars, skVars
<1>2. NetKeeps({})
  BY <1>1 DEF NetKeeps
<1>3. term' \in [Safekeepers -> Nat] /\ \A y \in Safekeepers : term'[y] >= term[y]
  BY <1>1 DEF TypeInv, TypeOK, SafekeeperTypeOK
<1>. QED  BY <1>1, <1>2, <1>3, SafekeeperKeepsElection

\* handle_vote_request gives its vote only above its own term, and so above
\* the term of everybody it has voted for.
LEMMA HandleVoteRequestElection ==
  ASSUME TypeInv, ElectionInv, NEW p \in Proposers, NEW s \in Safekeepers, NEW c \in Channels,
         HandleVoteRequest(p, s, c)
  PROVE  ElectionInv'
<1> DEFINE given == GivesVote(s, propTerm[p])
           f == MaxOf(WriteLsn(s), tlStart[s])
           r == [type  |-> "vote", given |-> given, term  |-> MaxOf(term[s], propTerm[p]),
                 flush |-> f, th |-> GetTermHistory(s, f)]
<1>1. /\ net[p][s][c] # << >> /\ Head(net[p][s][c]).type = "vote"
      /\ Consume(p, s, c) /\ Reply(p, s, c, r)
      /\ term' = [term EXCEPT ![s] = IF given THEN propTerm[p] ELSE term[s]]
      /\ grants' = IF given THEN grants \union {<<s, p>>} ELSE grants
      /\ UNCHANGED propVars
  BY DEF HandleVoteRequest, HeadIs
<1>2. /\ net \in NetType /\ term \in [Safekeepers -> Nat] /\ propTerm \in [Proposers -> Nat]
  BY DEF TypeInv, TypeOK, LinkTypeOK, NetType, SafekeeperTypeOK, ProposerTypeOK
<1>3. UNCHANGED <<conn, propTerm, nConnected, propTh>>
  BY <1>1 DEF propVars
<1>4. GrantInv /\ CountInv /\ RequestInv /\ VotersInv
  BY DEF ElectionInv
<1>5. nConnected[p] >= QuorumSize
  <2>1. net[p][s][c] \in Seq(Messages) /\ 1 \in DOMAIN net[p][s][c]
        /\ net[p][s][c][1].type = "vote"
    BY <1>1, <1>2 DEF NetType
  <2>. QED  BY <1>4, <2>1 DEF RequestInv
<1>6. r.type = "vote" /\ (r.given <=> given)
  OBVIOUS
<1>7. \A x \in Proposers, y \in Safekeepers :
         rep'[x][y] = rep[x][y] \/ (x = p /\ y = s /\ rep'[x][y] = r)
  BY <1>1 DEF Reply, TypeInv, TypeOK, LinkTypeOK
<1>. HIDE DEF r, f
<1>8. GrantInv'
  <2>1. \A y \in Safekeepers, x \in Proposers : <<y, x>> \in grants' =>
           <<y, x>> \in grants \/ (y = s /\ x = p /\ term[s] < propTerm[p])
    BY <1>1 DEF GivesVote
  <2>2. \A y \in Safekeepers : term'[y] >= term[y]
    BY <1>1, <1>2 DEF GivesVote
  <2>3. ASSUME NEW y \in Safekeepers, NEW x \in Proposers, <<y, x>> \in grants
        PROVE  term'[y] >= propTerm[x] /\ nConnected[x] >= QuorumSize
    <3>1. term[y] >= propTerm[x] /\ nConnected[x] >= QuorumSize
      BY <1>4, <2>3 DEF GrantInv
    <3>2. term[y] \in Nat /\ term'[y] \in Nat /\ propTerm[x] \in Nat
      BY <1>1, <1>2
    <3>. QED  BY <2>2, <3>1, <3>2
  <2>4. ASSUME term[s] < propTerm[p]
        PROVE  term'[s] = propTerm[p] /\ propTerm[p] >= propTerm[p]
    BY <1>1, <1>2, <2>4 DEF GivesVote
  <2>5. ASSUME NEW y \in Safekeepers, NEW x \in Proposers, <<y, x>> \in grants'
        PROVE  term'[y] >= propTerm[x] /\ nConnected[x] >= QuorumSize
    BY <1>5, <2>1, <2>3, <2>4, <2>5
  <2>6. ASSUME NEW x \in Proposers, <<s, x>> \in grants, term[s] < propTerm[p]
        PROVE  propTerm[x] # propTerm[p]
    <3>1. term[s] >= propTerm[x]
      BY <1>4, <2>6 DEF GrantInv
    <3>2. term[s] \in Nat /\ propTerm[x] \in Nat /\ propTerm[p] \in Nat
      BY <1>2
    <3>. QED  BY <2>6, <3>1, <3>2
  <2>7. ASSUME NEW y \in Safekeepers, NEW x \in Proposers, NEW z \in Proposers,
               <<y, x>> \in grants', <<y, z>> \in grants', x # z
        PROVE  propTerm[x] # propTerm[z]
    <3>1. CASE <<y, x>> \in grants /\ <<y, z>> \in grants
      BY <1>4, <2>7, <3>1 DEF GrantInv
    <3>2. CASE y = s /\ x = p /\ term[s] < propTerm[p] /\ <<y, z>> \in grants
      BY <2>6, <3>2
    <3>3. CASE y = s /\ z = p /\ term[s] < propTerm[p] /\ <<y, x>> \in grants
      BY <2>6, <3>3
    <3>. QED  BY <2>1, <2>7, <3>1, <3>2, <3>3
  <2>. QED  BY <1>3, <2>5, <2>7 DEF GrantInv
<1>9. grants \subseteq grants' /\ (given => <<s, p>> \in grants')
  BY <1>1
<1>10. CountInv'
  BY <1>3, <1>4, <1>6, <1>7, <1>9 DEF CountInv
<1>11. RequestInv'
  <2>1. NetKeeps({})
    BY <1>1, <1>2, ConsumeKeeps
  <2>. QED  BY <1>3, <1>4, <2>1, RequestInvKept
<1>12. VotersInv'
  <2>1. ASSUME NEW x \in Proposers, Elected(x)' PROVE IsQuorum(Voters(x)')
    <3>1. IsQuorum(Voters(x))
      BY <1>3, <1>4, <2>1 DEF VotersInv, Elected
    <3>2. Voters(x) \subseteq Voters(x)' /\ Voters(x)' \in SUBSET Safekeepers
      BY <1>9 DEF Voters
    <3>. QED  BY <3>1, <3>2, QuorumGrows
  <2>. QED  BY <2>1 DEF VotersInv, IsQuorum
<1>. QED  BY <1>8, <1>10, <1>11, <1>12 DEF ElectionInv

\* The term of a proposer changes only before it asks for votes.
LEMMA GreetElection ==
  ASSUME TypeInv, ElectionInv, NEW p \in Proposers, NEW s \in Safekeepers, Greet(p, s)
  PROVE  ElectionInv'
<1> DEFINE n == nConnected[p] + 1
           voters == {v \in Safekeepers : conn[p][v] = "voting"} \union {s}
           opened == [link[p] EXCEPT ![s] = TRUE]
<1>1. /\ nConnected' = [nConnected EXCEPT ![p] = n]
      /\ UNCHANGED <<propTh, grants>> /\ UNCHANGED skVars
  BY DEF Greet
<1>2. /\ nConnected \in [Proposers -> Nat] /\ propTerm \in [Proposers -> Nat]
      /\ conn \in [Proposers -> [Safekeepers -> ConnStates]]
      /\ rep \in [Proposers -> [Safekeepers -> Replies]]
      /\ term \in [Safekeepers -> Nat] /\ net \in NetType
      /\ NoReply.type # "vote" /\ QuorumSize \in Nat
  BY QuorumSizeType DEF TypeInv, TypeOK, SafekeeperTypeOK, ProposerTypeOK, LinkTypeOK, NetType, NoReply
<1>3. /\ nConnected' \in [Proposers -> Nat] /\ nConnected'[p] = n
      /\ \A x \in Proposers : nConnected'[x] >= nConnected[x]
      /\ term' = term /\ term' \in [Safekeepers -> Nat]
      /\ \A y \in Safekeepers : term'[y] >= term[y]
  BY <1>1, <1>2 DEF skVars
<1>4. TypeInv'
  BY GreetType
<1>5. propTerm' \in [Proposers -> Nat]
  BY <1>4 DEF TypeInv, TypeOK, ProposerTypeOK
<1>6. \A x \in Proposers : propTerm'[x] = propTerm[x] \/ nConnected[x] < QuorumSize
  <2>1. \E t : propTerm' = [propTerm EXCEPT ![p] = t]
             /\ (t = propTerm[p] \/ n <= QuorumSize)
    <3>1. \/ n < QuorumSize /\ propTerm' = [propTerm EXCEPT ![p] = MaxOf(propTerm[p], term[s])]
          \/ UNCHANGED propTerm
          \/ propTerm' = [propTerm EXCEPT ![p] =
                IF n = QuorumSize THEN MaxOf(propTerm[p], term[s]) + 1 ELSE propTerm[p]]
      BY <1>3 DEF Greet
    <3>2. propTerm = [propTerm EXCEPT ![p] = propTerm[p]]
      BY <1>2
    <3>. QED  BY <1>2, <3>1, <3>2
  <2>. QED  BY <1>2, <2>1
<1>7. ASSUME NEW x \in Proposers, NEW y \in Safekeepers
      PROVE  /\ conn'[x][y] = "idle" => conn[x][y] = "idle"
             /\ rep'[x][y] = rep[x][y] \/ rep'[x][y].type # "vote"
  <2>1. CASE conn' = [conn EXCEPT ![p][s] = "voting"] /\ UNCHANGED rep
    BY <1>2, <2>1
  <2>2. CASE Die(p)
    <3>1. \/ x = p /\ conn'[x][y] = "offline" /\ rep'[x][y] = NoReply
          \/ conn'[x][y] = conn[x][y] /\ rep'[x][y] = rep[x][y]
      BY <2>2, DieType
    <3>. QED  BY <1>2, <3>1
  <2>3. CASE /\ conn' = [conn EXCEPT ![p] = [v \in Safekeepers |->
                            IF v \in voters THEN "wait_verdict" ELSE conn[p][v]]]
             /\ UNCHANGED rep
    BY <1>2, <2>3
  <2>. QED  BY <2>1, <2>2, <2>3 DEF Greet
<1>8. RequestInv'
  <2>1. RequestInv
    BY DEF ElectionInv
  <2>2. CASE UNCHANGED net
    <3>1. ASSUME NEW x \in Proposers, nConnected[x] >= QuorumSize
          PROVE  nConnected'[x] >= QuorumSize
      BY <1>2, <1>3, <3>1
    <3>. QED  BY <2>1, <2>2, <3>1 DEF RequestInv
  <2>3. CASE /\ n >= QuorumSize
             /\ net'  = [net EXCEPT ![p] = [v \in Safekeepers |->
                            IF v \in voters /\ opened[v]
                            THEN Queued(net[p][v], [type |-> "vote"])
                            ELSE net[p][v]]]
    <3> DEFINE V == {v \in voters : opened[v]}
               msg == [v \in Safekeepers |-> [type |-> "vote"]]
    <3>1. net' = SentTo(p, V, msg)
      BY <2>3 DEF SentTo
    <3>2. net \in NetType /\ \A v \in V : msg[v] \in Messages
      BY <1>2 DEF Messages
    <3>. HIDE DEF V, msg
    <3>3. \A x \in Proposers, y \in Safekeepers, c \in Channels :
             \A i \in DOMAIN net'[x][y][c] :
                x = p \/ \E j \in DOMAIN net[x][y][c] : net'[x][y][c][i] = net[x][y][c][j]
      <4>1. \A x \in Proposers, y \in Safekeepers, c \in Channels :
               \A i \in DOMAIN net'[x][y][c] :
                  \/ \E j \in DOMAIN net[x][y][c] : net'[x][y][c][i] = net[x][y][c][j]
                  \/ x = p /\ y \in V /\ net'[x][y][c][i] = msg[y]
        BY <3>1, <3>2, SentMessages
      <4>. QED  BY <4>1, ZenonT(30)
    <3>4. ASSUME NEW x \in Proposers, NEW y \in Safekeepers, NEW c \in Channels,
                 NEW i \in DOMAIN net'[x][y][c], net'[x][y][c][i].type = "vote"
          PROVE  nConnected'[x] >= QuorumSize
      <4>1. CASE x = p
        BY <1>3, <2>3, <4>1
      <4>2. CASE x # p
        <5>1. PICK j \in DOMAIN net[x][y][c] : net'[x][y][c][i] = net[x][y][c][j]
          BY <3>3, <4>2
        <5>2. nConnected[x] >= QuorumSize
          BY <2>1, <3>4, <5>1 DEF RequestInv
        <5>. QED  BY <1>2, <1>3, <5>2
      <4>. QED  BY <4>1, <4>2
    <3>. QED  BY <3>4 DEF RequestInv
  <2>. QED  BY <1>3, <2>2, <2>3 DEF Greet
<1>9. \A x \in Proposers : Elected(x)' = Elected(x)
  BY <1>1 DEF Elected
<1>. QED  BY <1>1, <1>3, <1>5, <1>6, <1>7, <1>8, <1>9, NoVoteStep

\* The other steps of a proposer keep its term, and send no VoteRequest.
LEMMA ProposerKeepsElection ==
  ASSUME TypeInv, ElectionInv, UNCHANGED skVars, UNCHANGED <<propTerm, nConnected, grants>>,
         RequestInv',
         \A p \in Proposers, s \in Safekeepers :
            /\ conn'[p][s] = "idle" => conn[p][s] = "idle" \/ <<s, p>> \in grants
            /\ rep'[p][s] = rep[p][s] \/ rep'[p][s] = NoReply,
         \A p \in Proposers : Elected(p)' => Elected(p) \/ IsQuorum(Voters(p))
  PROVE  ElectionInv'
<1>1. /\ term' = term /\ term' \in [Safekeepers -> Nat]
      /\ propTerm' \in [Proposers -> Nat] /\ nConnected' \in [Proposers -> Nat]
      /\ \A s \in Safekeepers : term'[s] >= term[s]
      /\ \A p \in Proposers : nConnected'[p] >= nConnected[p]
  BY DEF skVars, TypeInv, TypeOK, SafekeeperTypeOK, ProposerTypeOK
<1>2. NoReply.type # "vote"
  BY DEF NoReply
<1>3. \A p \in Proposers, s \in Safekeepers :
         /\ conn'[p][s] = "idle" => conn[p][s] = "idle" \/ <<s, p>> \in grants
         /\ rep'[p][s] = rep[p][s] \/ rep'[p][s].type # "vote"
  BY <1>2
<1>. QED  BY <1>1, <1>3, NoVoteStep

LEMMA DieElection ==
  ASSUME TypeInv, ElectionInv, NEW p \in Proposers, Die(p), UNCHANGED skVars,
         UNCHANGED <<propTerm, nConnected, propTh, net, grants>>
  PROVE  ElectionInv'
<1>1. RequestInv'
  BY DEF ElectionInv, RequestInv
<1>2. ASSUME NEW x \in Proposers, NEW y \in Safekeepers
      PROVE  /\ conn'[x][y] = "idle" => conn[x][y] = "idle"
             /\ rep'[x][y] = rep[x][y] \/ rep'[x][y] = NoReply
  <2>1. \/ x = p /\ conn'[x][y] = "offline" /\ rep'[x][y] = NoReply
        \/ conn'[x][y] = conn[x][y] /\ rep'[x][y] = rep[x][y]
    BY DieType
  <2>. QED  BY <2>1
<1>3. \A x \in Proposers : Elected(x)' = Elected(x)
  BY DEF Elected
<1>. QED  BY <1>1, <1>2, <1>3, ProposerKeepsElection

\* ProposerElected is not a VoteRequest.
LEMMA SendProposerElectedElection ==
  ASSUME TypeInv, ElectionInv, NEW p \in Proposers, NEW S \in SUBSET Safekeepers, NEW v, NEW h,
         SendProposerElected(p, S, v, h), TypeInv', UNCHANGED nConnected
  PROVE  /\ RequestInv'
         /\ \A x \in Proposers, y \in Safekeepers :
               /\ conn'[x][y] = "idle" => conn[x][y] = "idle"
               /\ rep'[x][y] = rep[x][y] \/ rep'[x][y] = NoReply
<1>1. /\ net \in NetType /\ RequestInv
      /\ conn \in [Proposers -> [Safekeepers -> ConnStates]]
      /\ rep \in [Proposers -> [Safekeepers -> Replies]]
  BY DEF TypeInv, TypeOK, LinkTypeOK, ProposerTypeOK, NetType, ElectionInv
<1>2. \A x \in Proposers, y \in Safekeepers :
         /\ conn'[x][y] = "idle" => conn[x][y] = "idle"
         /\ rep'[x][y] = rep[x][y] \/ rep'[x][y] = NoReply
  BY <1>1 DEF SendProposerElected
<1>3. ASSUME NEW x \in Proposers, NEW y \in Safekeepers, NEW c \in Channels,
             NEW i \in DOMAIN net'[x][y][c], net'[x][y][c][i].type = "vote"
      PROVE  nConnected[x] >= QuorumSize
  <2> DEFINE m == [type |-> "elected", start |-> StartStreamingAt(h, propTerm[p], v[y].th, v[y].flush)]
  <2>1. \/ net'[x][y] = net[x][y]
        \/ x = p /\ net'[x][y] = Queued(net[x][y], m)
    BY <1>1 DEF SendProposerElected, NetType
  <2>2. net[x][y] \in [Channels -> Seq(Messages)] /\ m.type = "elected"
    BY <1>1 DEF NetType
  <2>. HIDE DEF m
  <2>3. \E j \in DOMAIN net[x][y][c] : net'[x][y][c][i] = net[x][y][c][j]
    <3>1. CASE net'[x][y] = net[x][y]
      BY <3>1
    <3>2. CASE net'[x][y] = Queued(net[x][y], m)
      <4>1. /\ net'[x][y]["cur"] = Append(net[x][y]["cur"], m)
            /\ net'[x][y]["old"] = net[x][y]["old"]
            /\ net[x][y][c] \in Seq(Messages)
        BY <2>2, <3>2 DEF Queued, Channels
      <4>2. CASE c = "old"
        BY <4>1, <4>2
      <4>3. CASE c = "cur"
        <5>1. net'[x][y][c] = Append(net[x][y][c], m) /\ net'[x][y][c][i] # m
          BY <1>3, <2>2, <4>1, <4>3
        <5>2. i \in DOMAIN net[x][y][c] /\ net'[x][y][c][i] = net[x][y][c][i]
          BY <4>1, <5>1
        <5>. QED  BY <5>2
      <4>. QED  BY <4>2, <4>3 DEF Channels
    <3>. QED  BY <2>1, <3>1, <3>2
  <2>. QED  BY <1>1, <1>3, <2>3 DEF RequestInv
<1>4. RequestInv'
  BY <1>3 DEF RequestInv
<1>. QED  BY <1>2, <1>4

\* The vote that completes a quorum elects the proposer, and all those whose
\* votes it goes by have given it.
LEMMA RecvVoteResponseElection ==
  ASSUME TypeInv, ElectionInv, NEW p \in Proposers, NEW s \in Safekeepers, RecvVoteResponse(p, s)
  PROVE  ElectionInv'
<1> DEFINE r == rep[p][s]
           n == nVotes[p] + 1
           v == [vote[p] EXCEPT ![s] = [flush |-> r.flush, th |-> r.th]]
           ready == {i \in Safekeepers : conn[p][i] = "idle"} \union {s}
           refused == ~r.given /\ (r.term > propTerm[p] \/ nVotes[p] < QuorumSize)
<1>1. /\ UNCHANGED skVars
      /\ UNCHANGED <<propTerm, nConnected, grants>>
      /\ r.type = "vote"
  BY DEF RecvVoteResponse
<1>2. TypeInv'
  BY RecvVoteResponseType
<1>3. /\ CountInv /\ RequestInv /\ nVotes[p] \in Nat /\ QuorumSize \in Nat
      /\ conn \in [Proposers -> [Safekeepers -> ConnStates]]
      /\ rep \in [Proposers -> [Safekeepers -> Replies]]
  BY QuorumSizeType DEF ElectionInv, TypeInv, TypeOK, ProposerTypeOK, LinkTypeOK
<1>4. ASSUME ~refused, n <= QuorumSize
      PROVE  <<s, p>> \in grants
  <2>1. nVotes[p] < QuorumSize
    BY <1>3, <1>4
  <2>. QED  BY <1>1, <1>3, <1>4, <2>1 DEF CountInv
<1>5. CASE Die(p) /\ UNCHANGED <<propTh, net>>
  BY <1>1, <1>5, DieElection
<1>6. CASE /\ ~refused /\ n < QuorumSize
           /\ conn' = [conn EXCEPT ![p][s] = "idle"]
           /\ rep'  = [rep EXCEPT ![p][s] = NoReply]
           /\ UNCHANGED <<propTh, net>>
  <2>1. RequestInv'
    BY <1>1, <1>3, <1>6 DEF RequestInv
  <2>2. <<s, p>> \in grants
    BY <1>3, <1>4, <1>6
  <2>3. \A x \in Proposers, y \in Safekeepers :
           /\ conn'[x][y] = "idle" => conn[x][y] = "idle" \/ (x = p /\ y = s)
           /\ rep'[x][y] = rep[x][y] \/ rep'[x][y] = NoReply
    BY <1>3, <1>6
  <2>4. \A x \in Proposers : Elected(x)' = Elected(x)
    BY <1>6 DEF Elected
  <2>. QED  BY <1>1, <2>1, <2>2, <2>3, <2>4, ProposerKeepsElection
<1>7. CASE /\ SendProposerElected(p, {s}, v, propTh[p])
           /\ UNCHANGED propTh
  <2>1. {s} \in SUBSET Safekeepers
    OBVIOUS
  <2>. HIDE DEF v
  <2>2. /\ RequestInv'
        /\ \A x \in Proposers, y \in Safekeepers :
              /\ conn'[x][y] = "idle" => conn[x][y] = "idle"
              /\ rep'[x][y] = rep[x][y] \/ rep'[x][y] = NoReply
    BY <1>1, <1>2, <1>7, <2>1, SendProposerElectedElection
  <2>3. \A x \in Proposers : Elected(x)' = Elected(x)
    BY <1>7 DEF Elected
  <2>. QED  BY <1>1, <2>2, <2>3, ProposerKeepsElection
<1>8. CASE /\ ~refused /\ n = QuorumSize /\ IsQuorum(ready)
           /\ \E d, h : /\ propTh' = [propTh EXCEPT ![p] = h]
                        /\ SendProposerElected(p, ready, v, h)
  <2>1. <<s, p>> \in grants
    BY <1>3, <1>4, <1>8
  <2>2. ready \subseteq Voters(p) /\ ready \in SUBSET Safekeepers /\ Voters(p) \in SUBSET Safekeepers
    BY <1>3, <2>1 DEF CountInv, Voters
  <2>3. IsQuorum(Voters(p))
    BY <1>8, <2>2, QuorumGrows
  <2>. HIDE DEF v, ready
  <2>4. PICK h : propTh' = [propTh EXCEPT ![p] = h] /\ SendProposerElected(p, ready, v, h)
    BY <1>8
  <2>5. /\ RequestInv'
        /\ \A x \in Proposers, y \in Safekeepers :
              /\ conn'[x][y] = "idle" => conn[x][y] = "idle"
              /\ rep'[x][y] = rep[x][y] \/ rep'[x][y] = NoReply
    BY <1>1, <1>2, <2>2, <2>4, SendProposerElectedElection
  <2>6. \A x \in Proposers : Elected(x)' => Elected(x) \/ x = p
    BY <2>4 DEF Elected, TypeInv, TypeOK, ProposerTypeOK
  <2>. QED  BY <1>1, <2>3, <2>5, <2>6, ProposerKeepsElection
<1>. QED  BY <1>5, <1>6, <1>7, <1>8 DEF RecvVoteResponse

LEMMA OtherProposerElection ==
  ASSUME TypeInv, ElectionInv, NEW p \in Proposers, NEW s \in Safekeepers,
         \/ WalProposerBroadcast(p) \/ RecvAppendResponse(p, s) \/ ShutdownConnection(p, s)
  PROVE  ElectionInv'
<1>1. /\ UNCHANGED skVars
      /\ UNCHANGED <<propTerm, nConnected, propTh, grants>>
  BY DEF WalProposerBroadcast, RecvAppendResponse, ShutdownConnection
<1>2. /\ RequestInv /\ net \in NetType
      /\ conn \in [Proposers -> [Safekeepers -> ConnStates]]
      /\ rep \in [Proposers -> [Safekeepers -> Replies]]
  BY DEF ElectionInv, TypeInv, TypeOK, ProposerTypeOK, LinkTypeOK, NetType
<1>3. \A x \in Proposers : Elected(x)' = Elected(x)
  BY <1>1 DEF Elected
<1>4. CASE WalProposerBroadcast(p)
  <2>1. UNCHANGED <<conn, rep, net>>
    BY <1>4 DEF WalProposerBroadcast, linkVars
  <2>2. RequestInv'
    BY <1>1, <1>2, <2>1 DEF RequestInv
  <2>. QED  BY <1>1, <1>3, <2>1, <2>2, ProposerKeepsElection
<1>5. CASE RecvAppendResponse(p, s) /\ Die(p)
  <2>1. UNCHANGED net
    BY <1>5 DEF RecvAppendResponse
  <2>. QED  BY <1>1, <1>5, <2>1, DieElection
<1>6. CASE RecvAppendResponse(p, s) /\ ~Die(p)
  <2>1. UNCHANGED <<conn, net>> /\ rep' = [rep EXCEPT ![p][s] = NoReply]
    BY <1>6 DEF RecvAppendResponse
  <2>2. RequestInv'
    BY <1>1, <1>2, <2>1 DEF RequestInv
  <2>3. \A x \in Proposers, y \in Safekeepers : rep'[x][y] = rep[x][y] \/ rep'[x][y] = NoReply
    BY <1>2, <2>1
  <2>. QED  BY <1>1, <1>3, <2>1, <2>2, <2>3, ProposerKeepsElection
<1>7. CASE ShutdownConnection(p, s)
  <2> DEFINE q == [c \in Channels |-> IF c = "old" THEN net[p][s]["cur"] ELSE << >>]
  <2>1. /\ conn' = [conn EXCEPT ![p][s] = "offline"]
        /\ rep'  = [rep EXCEPT ![p][s] = NoReply]
        /\ net'  = [net EXCEPT ![p][s] = q]
    BY <1>7 DEF ShutdownConnection
  <2>2. \A x \in Proposers, y \in Safekeepers :
           /\ conn'[x][y] = "idle" => conn[x][y] = "idle"
           /\ rep'[x][y] = rep[x][y] \/ rep'[x][y] = NoReply
    BY <1>2, <2>1
  <2>3. \A c \in Channels : \A i \in DOMAIN q[c] :
           "cur" \in Channels /\ i \in DOMAIN net[p][s]["cur"] /\ q[c][i] = net[p][s]["cur"][i]
    BY DEF Channels
  <2>. HIDE DEF q
  <2>4. ASSUME NEW x \in Proposers, NEW y \in Safekeepers, NEW c \in Channels,
               NEW i \in DOMAIN net'[x][y][c], net'[x][y][c][i].type = "vote"
        PROVE  nConnected[x] >= QuorumSize
    <3>1. net'[x][y] = IF x = p /\ y = s THEN q ELSE net[x][y]
      BY <1>2, <2>1 DEF NetType
    <3>2. \E d \in Channels : i \in DOMAIN net[x][y][d] /\ net'[x][y][c][i] = net[x][y][d][i]
      BY <2>3, <3>1
    <3>. QED  BY <1>2, <2>4, <3>2 DEF RequestInv
  <2>5. RequestInv'
    BY <1>1, <2>4 DEF RequestInv
  <2>. QED  BY <1>1, <1>3, <2>2, <2>5, ProposerKeepsElection
<1>. QED  BY <1>4, <1>5, <1>6, <1>7

LEMMA SendAppendRequestElection ==
  ASSUME TypeInv, ElectionInv, NEW p \in Proposers, NEW s \in Safekeepers, SendAppendRequest(p, s)
  PROVE  ElectionInv'
<1>1. /\ UNCHANGED skVars
      /\ UNCHANGED <<conn, rep, propTerm, nConnected, propTh, grants>>
  BY DEF SendAppendRequest
<1>2. net \in NetType /\ RequestInv
  BY DEF ElectionInv, TypeInv, TypeOK, LinkTypeOK, NetType
<1>3. PICK m : m.type = "append" /\ net' = [net EXCEPT ![p][s]["cur"] = Append(net[p][s]["cur"], m)]
  BY DEF SendAppendRequest
<1>4. ASSUME NEW x \in Proposers, NEW y \in Safekeepers, NEW c \in Channels,
             NEW i \in DOMAIN net'[x][y][c], net'[x][y][c][i].type = "vote"
      PROVE  nConnected[x] >= QuorumSize
  <2>1. net[x][y][c] \in Seq(Messages)
    BY <1>2 DEF NetType
  <2>2. net'[x][y][c] = net[x][y][c] \/ net'[x][y][c] = Append(net[x][y][c], m)
    BY <1>2, <1>3 DEF NetType
  <2>3. net'[x][y][c][i] # m
    BY <1>3, <1>4
  <2>4. i \in DOMAIN net[x][y][c] /\ net'[x][y][c][i] = net[x][y][c][i]
    <3>1. CASE net'[x][y][c] = net[x][y][c]
      BY <3>1
    <3>2. CASE net'[x][y][c] = Append(net[x][y][c], m)
      BY <2>1, <2>3, <3>2
    <3>. QED  BY <2>2, <3>1, <3>2
  <2>. QED  BY <1>2, <1>4, <2>4 DEF RequestInv
<1>5. RequestInv'
  BY <1>1, <1>4 DEF RequestInv
<1>6. \A x \in Proposers : Elected(x)' = Elected(x)
  BY <1>1 DEF Elected
<1>. QED  BY <1>1, <1>5, <1>6, ProposerKeepsElection

-----------------------------------------------------------------------------
LEMMA InitElection == Init => ElectionInv
<1>1. SUFFICES ASSUME Init PROVE ElectionInv
  OBVIOUS
<1>2. GrantInv
  BY <1>1 DEF Init, GrantInv
<1>3. CountInv
  BY <1>1 DEF Init, CountInv, NoReply
<1>4. RequestInv
  BY <1>1 DEF Init, RequestInv
<1>5. VotersInv
  BY <1>1 DEF Init, VotersInv, Elected
<1>. QED  BY <1>2, <1>3, <1>4, <1>5 DEF ElectionInv

LEMMA StutterElection == TypeInv /\ ElectionInv /\ UNCHANGED vars => ElectionInv'
<1>1. SUFFICES ASSUME TypeInv, ElectionInv, UNCHANGED vars PROVE ElectionInv'
  OBVIOUS
<1>2. UNCHANGED skVars /\ UNCHANGED <<conn, rep, net, propTerm, nConnected, propTh, grants>>
  BY <1>1 DEF vars, propVars, linkVars
<1>3. RequestInv'
  BY <1>1, <1>2 DEF ElectionInv, RequestInv
<1>4. \A x \in Proposers : Elected(x)' = Elected(x)
  BY <1>2 DEF Elected
<1>. QED  BY <1>1, <1>2, <1>3, <1>4, ProposerKeepsElection

LEMMA NextElection == TypeInv /\ ElectionInv /\ [Next]_vars => ElectionInv'
<1>1. SUFFICES ASSUME TypeInv, ElectionInv, Next PROVE ElectionInv'
  BY StutterElection
<1>2. ASSUME NEW p \in Proposers, NEW s \in Safekeepers, SafekeeperStep(p, s)
      PROVE  ElectionInv'
  BY <1>1, <1>2, HandleVoteRequestElection, HandleElectedElection, RestartElection,
     HandleAppendRequestElection, HandleFlushElection DEF SafekeeperStep
<1>3. ASSUME NEW p \in Proposers, NEW s \in Safekeepers, ProposerStep(p, s)
      PROVE  ElectionInv'
  BY <1>1, <1>3, GreetElection, RecvVoteResponseElection, SendAppendRequestElection,
     OtherProposerElection DEF ProposerStep
<1>4. ASSUME NEW p \in Proposers, WalProposerBroadcast(p)
      PROVE  ElectionInv'
  BY <1>1, <1>4, OtherProposerElection, SafekeepersAssumption
<1>5. ASSUME NEW s \in Safekeepers,
             PersistControlFile(s) \/ PublishInfo(s) \/ RecordSafekeeperInfo(s)
      PROVE  ElectionInv'
  BY <1>1, <1>5, LsnStepElection
<1>. QED  BY <1>1, <1>2, <1>3, <1>4, <1>5, RestartElection DEF Next

\* Leaders of the same term would have a common voter.
LEMMA ElectionInvSafe == ElectionInv => ElectionSafety
<1>1. SUFFICES ASSUME ElectionInv, NEW p \in Proposers, NEW q \in Proposers,
                      Elected(p), Elected(q), p # q
               PROVE  propTerm[p] # propTerm[q]
  BY DEF ElectionSafety
<1>2. IsQuorum(Voters(p)) /\ IsQuorum(Voters(q))
  BY <1>1 DEF ElectionInv, VotersInv
<1>3. Voters(p) \in SUBSET Safekeepers /\ Voters(q) \in SUBSET Safekeepers
  BY DEF Voters
<1>4. PICK s \in Safekeepers : s \in Voters(p) /\ s \in Voters(q)
  BY <1>2, <1>3, QuorumsMeet
<1>. QED  BY <1>1, <1>4 DEF Voters, ElectionInv, GrantInv

(***************************************************************************)
(* Two walproposers never lead in the same term: RecvAcceptorGreeting may  *)
(* pick the same term for both, but handle_vote_request persists the term  *)
(* it votes in, so no safekeeper votes in it twice, over crashes, closed   *)
(* connections and delayed requests, and two quorums of votes have a       *)
(* safekeeper in common.                                                   *)
(***************************************************************************)
THEOREM OneLeaderPerTerm == Spec => []ElectionSafety
<1>1. Init => TypeInv /\ ElectionInv
  BY InitType, InitElection
<1>2. TypeInv /\ ElectionInv /\ [Next]_vars => TypeInv' /\ ElectionInv'
  BY NextType, NextElection
<1>. QED  BY <1>1, <1>2, ElectionInvSafe, PTL DEF Spec
=============================================================================
