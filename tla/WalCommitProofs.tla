--------------------------- MODULE WalCommitProofs ---------------------------
(***************************************************************************)
(* Commit positions of WalConsensus, proved for every number of            *)
(* safekeepers and proposers and every bound: what a quorum has            *)
(* acknowledged stays committed.                                           *)
(***************************************************************************)
EXTENDS WalHistoryProofs, WellFoundedInduction

(***************************************************************************)
(* What a step does to a safekeeper.  Either nothing that is flushed is    *)
(* lost, or handle_elected, which may crash on the way, cuts the WAL where *)
(* a leader begins to stream.                                              *)
(***************************************************************************)
SkKeeps(s) ==
    /\ term'[s] >= term[s] /\ th'[s] = th[s] /\ tlStart'[s] = tlStart[s]
    /\ flushed'[s] >= flushed[s]
    /\ \A i \in 1..Len(wal[s]) : StartLsn + i <= flushed[s] =>
          i \in 1..Len(wal'[s]) /\ wal'[s][i] = wal[s][i]

SkCuts(s, p, m) ==
    /\ m.type = "elected"
    /\ term[s] <= propTerm[p] /\ term'[s] = propTerm[p]
    /\ ~OverwritesCorrectWal(p, s, m.start) /\ m.start >= commit[s]
    /\ flushed'[s] = m.start /\ tlStart'[s] = StartLsn
    /\ th'[s] = propTh[p] \/ (th'[s] = th[s] /\ tlStart[s] = StartLsn)
    /\ \A i \in 1..Len(wal[s]) : StartLsn + i <= m.start =>
          i \in 1..Len(wal'[s]) /\ wal'[s][i] = wal[s][i]

OldMsg(p, s, m) ==
    \E k \in Channels : \E j \in 1..Len(net[p][s][k]) : m = net[p][s][k][j]

SkStep(s) ==
    \/ SkKeeps(s)
    \/ \E p \in Proposers : \E m : OldMsg(p, s, m) /\ SkCuts(s, p, m)

\* Where commit_lsn comes from: nowhere new, the control file, or a candidate of
\* the leader or of a peer.
Learns(s, l) ==
    /\ SkKeeps(s) /\ commit'[s] = NewCommitLsn(s, l)
    /\ pCommit'[s] \in {pCommit[s], commit'[s]}

CommitStep(s) ==
    \/ commit'[s] = commit[s] /\ pCommit'[s] \in {pCommit[s], commit[s]}
    \/ /\ commit'[s] = MaxOf(commit[s], StartLsn) /\ pCommit'[s] = commit'[s]
       /\ tlStart'[s] = StartLsn
    \/ commit'[s] \in {pCommit[s], commit[s]} /\ pCommit'[s] = commit'[s]
    \/ \E p \in Proposers : \E m : /\ OldMsg(p, s, m) /\ m.type = "append"
                                   /\ Elected(p) /\ th[s] = propTh[p] /\ Learns(s, m.commit)
    \/ InfoApplies(s) /\ Learns(s, published.commit)

\* Acknowledgements: a reply that counts says what has just been flushed.
AckEffect(p, s) ==
    /\ \/ rep'[p][s] = rep[p][s]
       \/ rep'[p][s].type # "append"
       \/ Elected(p) /\ rep'[p][s].term > propTerm[p]
       \/ /\ Elected(p) /\ th'[s] = propTh[p]
          /\ term[s] = propTerm[p] /\ term'[s] = propTerm[p]
          /\ flushed'[s] >= flushed[s] /\ rep'[p][s].flush = flushed'[s]
    /\ \/ ackFlush'[p][s] = ackFlush[p][s]
       \/ /\ rep[p][s].type = "append" /\ rep[p][s].term <= propTerm[p]
          /\ ackFlush'[p][s] = rep[p][s].flush /\ rep'[p][s] = NoReply

NewMsgs(types) ==
    \A p \in Proposers, s \in Safekeepers, c \in Channels :
        \A i \in 1..Len(net'[p][s][c]) :
            OldMsg(p, s, net'[p][s][c][i]) \/ net'[p][s][c][i].type \in types

Effects ==
    /\ \A p \in Proposers : LeaderKept(p)
    /\ \A s \in Safekeepers : SkStep(s) /\ CommitStep(s)
    /\ \A p \in Proposers, s \in Safekeepers : AckEffect(p, s)

-----------------------------------------------------------------------------
LEMMA Untouched ==
  ASSUME TypeInv, NEW s \in Safekeepers,
         term'[s] = term[s], th'[s] = th[s], tlStart'[s] = tlStart[s], wal'[s] = wal[s],
         flushed'[s] = flushed[s], commit'[s] = commit[s], pCommit'[s] = pCommit[s]
  PROVE  SkStep(s) /\ SkKeeps(s) /\ CommitStep(s)
<1>1. term[s] \in Nat /\ flushed[s] \in Nat
  BY DEF TypeInv, TypeOK, SafekeeperTypeOK
<1>. QED  BY <1>1 DEF SkStep, SkKeeps, CommitStep

\* Steps of one safekeeper.
LEMMA SafekeeperEffects ==
  ASSUME TypeInv, UNCHANGED propVars, NEW s \in Safekeepers,
         \A y \in Safekeepers : y # s =>
            /\ term'[y] = term[y] /\ th'[y] = th[y] /\ tlStart'[y] = tlStart[y]
            /\ wal'[y] = wal[y] /\ flushed'[y] = flushed[y]
            /\ commit'[y] = commit[y] /\ pCommit'[y] = pCommit[y],
         SkStep(s), CommitStep(s),
         \A p \in Proposers, y \in Safekeepers :
            \/ rep'[p][y] = rep[p][y]
            \/ rep'[p][y].type # "append"
            \/ y = s /\ AckEffect(p, s)
  PROVE  Effects
<1>1. \A p \in Proposers : LeaderKept(p)
  BY DEF LeaderKept, propVars
<1>2. \A y \in Safekeepers : SkStep(y) /\ CommitStep(y)
  BY Untouched
<1>3. ackFlush' = ackFlush
  BY DEF propVars
<1>4. \A p \in Proposers, y \in Safekeepers : AckEffect(p, y)
  BY <1>3 DEF AckEffect
<1>. QED  BY <1>1, <1>2, <1>4 DEF Effects

LEMMA HandleVoteRequestEffects ==
  ASSUME ConsensusInv, NEW p \in Proposers, NEW s \in Safekeepers, NEW c \in Channels,
         HandleVoteRequest(p, s, c)
  PROVE  Effects
<1>1. /\ TypeInv /\ UNCHANGED propVars /\ UNCHANGED <<th, tlStart, wal, commit>>
      /\ flushed' = [flushed EXCEPT ![s] = WriteLsn(s)]
      /\ term' = [term EXCEPT ![s] = IF term[s] < propTerm[p] THEN propTerm[p] ELSE term[s]]
      /\ pCommit' = [pCommit EXCEPT ![s] = IF term[s] < propTerm[p] THEN commit[s] ELSE pCommit[s]]
  BY DEF HandleVoteRequest, GivesVote, ConsensusInv
<1>2. /\ term \in [Safekeepers -> Nat] /\ flushed \in [Safekeepers -> Nat]
      /\ pCommit \in [Safekeepers -> Nat] /\ propTerm[p] \in Nat
      /\ flushed[s] <= WriteLsn(s) /\ WriteLsn(s) \in Nat
  BY <1>1, SafekeeperFacts DEF TypeInv, TypeOK, SafekeeperTypeOK, ProposerTypeOK, SafekeeperInv
<1>3. /\ term'[s] >= term[s] /\ flushed'[s] = WriteLsn(s)
      /\ pCommit'[s] \in {pCommit[s], commit[s]}
      /\ \A y \in Safekeepers : y # s =>
            term'[y] = term[y] /\ flushed'[y] = flushed[y] /\ pCommit'[y] = pCommit[y]
  BY <1>1, <1>2
<1>4. SkStep(s) /\ CommitStep(s)
  BY <1>1, <1>2, <1>3 DEF SkStep, SkKeeps, CommitStep
<1>5. ASSUME NEW x \in Proposers, NEW y \in Safekeepers
      PROVE  rep'[x][y] = rep[x][y] \/ rep'[x][y].type # "append"
  <2>1. rep \in [Proposers -> [Safekeepers -> Replies]]
    BY <1>1 DEF TypeInv, TypeOK, LinkTypeOK
  <2>2. PICK r : Reply(p, s, c, r) /\ r.type = "vote"
    BY DEF HandleVoteRequest
  <2>. QED  BY <2>1, <2>2 DEF Reply
<1>. QED  BY <1>1, <1>3, <1>4, <1>5, SafekeeperEffects

LEMMA HandleFlushEffects ==
  ASSUME ConsensusInv, NEW p \in Proposers, NEW s \in Safekeepers, NEW c \in Channels,
         HandleFlush(p, s, c)
  PROVE  Effects
<1>1. /\ TypeInv /\ UNCHANGED propVars /\ UNCHANGED <<term, th, tlStart, wal, commit, pCommit>>
      /\ flushed' = [flushed EXCEPT ![s] = WriteLsn(s)]
  BY DEF HandleFlush, ConsensusInv
<1>2. /\ flushed \in [Safekeepers -> Nat] /\ propTerm[p] \in Nat /\ term[s] \in Nat
      /\ flushed[s] <= WriteLsn(s) /\ WriteLsn(s) \in Nat
  BY <1>1, SafekeeperFacts DEF TypeInv, TypeOK, SafekeeperTypeOK, ProposerTypeOK, SafekeeperInv
<1>3. /\ flushed'[s] = WriteLsn(s)
      /\ \A y \in Safekeepers : y # s => flushed'[y] = flushed[y]
  BY <1>1, <1>2
<1>4. SkStep(s) /\ CommitStep(s)
  BY <1>1, <1>2, <1>3 DEF SkStep, SkKeeps, CommitStep
<1>5. Elected(p) /\ Joined(p, s)
  <2>1. net[p][s][c] # << >> /\ Head(net[p][s][c]).type = "flush"
    BY DEF HandleFlush, HeadIs
  <2>2. MsgOK(p, s, Head(net[p][s][c]))
    BY <2>1, QueueTail DEF ConsensusInv
  <2>. QED  BY <2>1, <2>2 DEF MsgOK
<1>6. term[s] = propTerm[p] => tlStart[s] = StartLsn /\ WriteLsn(s) >= StartLsn
  <2>1. term[s] = propTerm[p] => th[s] # << >>
    BY <1>5 DEF Joined, Elected
  <2>2. tlStart[s] \in {0, StartLsn} /\ (tlStart[s] = 0 => th[s] = << >>)
    BY <1>1 DEF TypeInv, TypeOK, SafekeeperTypeOK, SafekeeperInv
  <2>. QED  BY <1>1, <2>1, <2>2, SafekeeperFacts DEF StartLsn
<1>7. ASSUME NEW x \in Proposers, NEW y \in Safekeepers
      PROVE  \/ rep'[x][y] = rep[x][y]
             \/ rep'[x][y].type # "append"
             \/ y = s /\ AckEffect(x, s)
  <2>1. rep \in [Proposers -> [Safekeepers -> Replies]]
    BY <1>1 DEF TypeInv, TypeOK, LinkTypeOK
  <2>2. PICK r : Reply(p, s, c, r) /\ r.term = term[s] /\ r.flush = MaxOf(WriteLsn(s), tlStart[s])
    BY <1>3 DEF HandleFlush
  <2>3. rep'[x][y] = rep[x][y] \/ (x = p /\ y = s /\ rep'[x][y] = r)
    BY <2>1, <2>2 DEF Reply
  <2>4. term[s] = propTerm[p] => r.flush = flushed'[s]
    BY <1>2, <1>3, <1>6, <2>2 DEF MaxOf, StartLsn
  <2>5. r.term > propTerm[p] \/ term[s] = propTerm[p]
    BY <1>2, <1>5, <2>2 DEF Joined
  <2>6. ASSUME x = p, y = s, rep'[x][y] = r PROVE AckEffect(x, s)
    <3>1. ackFlush'[p][s] = ackFlush[p][s]
      BY <1>1 DEF propVars
    <3>2. CASE r.term > propTerm[p]
      BY <1>5, <2>6, <3>1, <3>2 DEF AckEffect
    <3>3. CASE term[s] = propTerm[p]
      <4>1. /\ Elected(p) /\ th'[s] = propTh[p] /\ term'[s] = propTerm[p]
            /\ flushed'[s] >= flushed[s]
        BY <1>1, <1>2, <1>3, <1>5, <3>3 DEF Joined
      <4>. QED  BY <2>4, <2>6, <3>1, <3>3, <4>1 DEF AckEffect
    <3>. QED  BY <2>5, <3>2, <3>3
  <2>. QED  BY <2>3, <2>6
<1>. QED  BY <1>1, <1>3, <1>4, <1>7, SafekeeperEffects

\* What truncate_wal leaves, and what is known of the message that asks for it.
LEMMA CutFacts ==
  ASSUME ConsensusInv, NEW p \in Proposers, NEW s \in Safekeepers, NEW c \in Channels,
         HeadIs(p, s, c, "elected"), ~TruncateRefused(s, Head(net[p][s][c]).start)
  PROVE  LET m == Head(net[p][s][c])
             w == Truncated(s, m.start)
         IN  /\ m.type = "elected" /\ OldMsg(p, s, m) /\ Elected(p)
             /\ m.start \in Nat /\ m.start >= StartLsn /\ (tlStart[s] = 0 => m.start = StartLsn)
             /\ w \in Seq(Nat) /\ Len(w) = m.start - StartLsn /\ Len(w) <= Len(wal[s])
             /\ \A i \in 1..Len(wal[s]) : StartLsn + i <= m.start => i \in 1..Len(w) /\ w[i] = wal[s][i]
<1> DEFINE m == Head(net[p][s][c])
           w == Truncated(s, m.start)
<1>1. net[p][s][c] # << >> /\ m.type = "elected" /\ TypeInv
  BY DEF HeadIs, ConsensusInv
<1>2. /\ m.start \in Nat /\ m.start >= StartLsn /\ Elected(p)
      /\ tlStart[s] = 0 => m.start = StartLsn
  BY <1>1, HeadType DEF ElectedMsgOK
<1>3. w \in Seq(Nat) /\ Len(w) = m.start - StartLsn
  BY <1>1, <1>2, TruncatedType
<1>4. OldMsg(p, s, m)
  <2>1. net[p][s][c] \in Seq(Messages)
    BY <1>1, MessageType
  <2>2. 1 \in 1..Len(net[p][s][c]) /\ m = net[p][s][c][1]
    BY <1>1, <2>1
  <2>. QED  BY <2>2 DEF OldMsg
<1>5. wal[s] \in Seq(Nat) /\ m.start - StartLsn <= Len(wal[s])
  <2>1. /\ wal[s] \in Seq(Nat) /\ Len(wal[s]) \in Nat
        /\ tlStart[s] # 0 => WriteLsn(s) = StartLsn + Len(wal[s]) /\ WriteLsn(s) >= StartLsn
        /\ WriteLsn(s) \in Nat
    BY <1>1, SafekeeperFacts DEF TypeInv, TypeOK, SafekeeperTypeOK
  <2>2. CASE tlStart[s] = 0
    BY <1>2, <2>1, <2>2 DEF StartLsn
  <2>3. CASE tlStart[s] # 0
    <3>1. m.start <= WriteLsn(s)
      BY <1>2, <2>1, <2>3 DEF TruncateRefused, StartLsn
    <3>. QED  BY <1>2, <2>1, <2>3, <3>1 DEF StartLsn
  <2>. QED  BY <2>1, <2>2, <2>3
<1>6. ASSUME NEW i \in 1..Len(wal[s]), StartLsn + i <= m.start
      PROVE  i \in 1..Len(w) /\ w[i] = wal[s][i]
  <2>1. i \in 1..(m.start - StartLsn) /\ m.start - StartLsn \in Nat
    BY <1>2, <1>5, <1>6, SMTT(30) DEF StartLsn
  <2>. HIDE DEF m
  <2>. QED  BY <1>2, <1>3, <1>5, <2>1 DEF Truncated, StartLsn
<1>. HIDE DEF m, w
<1>. QED  BY <1>1, <1>2, <1>3, <1>4, <1>5, <1>6 DEF m, w

LEMMA HandleElectedEffects ==
  ASSUME ConsensusInv, NEW p \in Proposers, NEW s \in Safekeepers, NEW c \in Channels,
         HandleElected(p, s, c)
  PROVE  Effects
<1> DEFINE start == Head(net[p][s][c]).start
<1>1. /\ TypeInv /\ UNCHANGED propVars /\ UNCHANGED rep /\ HeadIs(p, s, c, "elected")
      /\ term' = [term EXCEPT ![s] = MaxOf(term[s], propTerm[p])]
  BY DEF HandleElected, ConsensusInv
<1>2. /\ term \in [Safekeepers -> Nat] /\ flushed \in [Safekeepers -> Nat]
      /\ th \in [Safekeepers -> Seq(TermLsn)] /\ wal \in [Safekeepers -> Seq(Nat)]
      /\ tlStart \in [Safekeepers -> {0, StartLsn}] /\ commit \in [Safekeepers -> Nat]
      /\ pCommit \in [Safekeepers -> Nat] /\ propTerm[p] \in Nat
  BY <1>1 DEF TypeInv, TypeOK, SafekeeperTypeOK, ProposerTypeOK
<1>3. term'[s] = MaxOf(term[s], propTerm[p]) /\ \A y \in Safekeepers : y # s => term'[y] = term[y]
  BY <1>1, <1>2
<1>4. CASE /\ UNCHANGED <<th, tlStart, wal, flushed, commit>>
           /\ \/ UNCHANGED pCommit
              \/ pCommit' = [pCommit EXCEPT ![s] =
                                IF term[s] < propTerm[p] THEN commit[s] ELSE pCommit[s]]
  <2>1. /\ pCommit'[s] \in {pCommit[s], commit[s]}
        /\ \A y \in Safekeepers : y # s => pCommit'[y] = pCommit[y]
    BY <1>2, <1>4
  <2>2. term'[s] >= term[s] /\ flushed[s] \in Nat
    BY <1>2, <1>3 DEF MaxOf
  <2>3. SkStep(s) /\ CommitStep(s)
    BY <1>4, <2>1, <2>2 DEF SkStep, SkKeeps, CommitStep
  <2>. QED  BY <1>1, <1>3, <1>4, <2>1, <2>3, SafekeeperEffects
<1>5. CASE /\ term[s] <= propTerm[p]
           /\ ~OverwritesCorrectWal(p, s, start)
           /\ start >= commit[s]
           /\ ~TruncateRefused(s, start)
           /\ wal'     = [wal EXCEPT ![s] = Truncated(s, start)]
           /\ flushed' = [flushed EXCEPT ![s] = start]
           /\ tlStart' = [tlStart EXCEPT ![s] = IF tlStart[s] = 0 THEN StartLsn ELSE tlStart[s]]
           /\ commit'  = [commit EXCEPT ![s] = MaxOf(commit[s], StartLsn)]
           /\ pCommit' = [pCommit EXCEPT ![s] = MaxOf(commit[s], StartLsn)]
           /\ th'      = [th EXCEPT ![s] = propTh[p]]
  <2>1. /\ wal'[s] = Truncated(s, start) /\ flushed'[s] = start /\ tlStart'[s] = StartLsn
        /\ commit'[s] = MaxOf(commit[s], StartLsn) /\ pCommit'[s] = commit'[s]
        /\ th'[s] = propTh[p] /\ term'[s] = propTerm[p]
    BY <1>2, <1>3, <1>5 DEF MaxOf
  <2>2. \A y \in Safekeepers : y # s =>
           /\ wal'[y] = wal[y] /\ flushed'[y] = flushed[y] /\ tlStart'[y] = tlStart[y]
           /\ commit'[y] = commit[y] /\ pCommit'[y] = pCommit[y] /\ th'[y] = th[y]
    BY <1>2, <1>5
  <2>3. PICK m : m = Head(net[p][s][c])
    OBVIOUS
  <2>4. SkCuts(s, p, m) /\ OldMsg(p, s, m)
    <3>1. /\ m.type = "elected" /\ OldMsg(p, s, m) /\ m.start = start
          /\ \A i \in 1..Len(wal[s]) : StartLsn + i <= start =>
                i \in 1..Len(wal'[s]) /\ wal'[s][i] = wal[s][i]
      <4>1. /\ Head(net[p][s][c]).type = "elected" /\ OldMsg(p, s, Head(net[p][s][c]))
            /\ \A i \in 1..Len(wal[s]) : StartLsn + i <= start =>
                  i \in 1..Len(Truncated(s, start)) /\ Truncated(s, start)[i] = wal[s][i]
        BY <1>1, <1>5, CutFacts
      <4>. QED  BY <2>1, <2>3, <4>1
    <3>. QED  BY <1>5, <2>1, <3>1 DEF SkCuts
  <2>5. SkStep(s) /\ CommitStep(s)
    BY <2>1, <2>4 DEF SkStep, CommitStep
  <2>. QED  BY <1>1, <1>3, <2>2, <2>5, SafekeeperEffects
<1>. QED  BY <1>4, <1>5 DEF HandleElected

\* A restart keeps what is in the control file, and the WAL in w.
LEMMA RestartEffects ==
  ASSUME ConsensusInv, NEW s \in Safekeepers, NEW w \in Seq(Nat), NEW saved,
         saved \in {pCommit[s], commit[s]}, RestartWith(s, w, saved, th[s]),
         \A y \in Safekeepers : y # s => term'[y] = term[y],
         \/ term'[s] >= term[s] /\ w \in SurvivingWal(s)
         \/ \E p \in Proposers, c \in Channels :
               LET start == Head(net[p][s][c]).start
               IN  /\ HeadIs(p, s, c, "elected") /\ w = Truncated(s, start)
                   /\ term[s] <= propTerm[p] /\ term'[s] = propTerm[p]
                   /\ ~OverwritesCorrectWal(p, s, start)
                   /\ start >= commit[s]
                   /\ ~TruncateRefused(s, start)
  PROVE  Effects
<1>1. /\ TypeInv /\ UNCHANGED propVars /\ UNCHANGED <<rep, tlStart>>
      /\ wal' = [wal EXCEPT ![s] = w]
      /\ flushed' = [flushed EXCEPT ![s] = IF tlStart[s] = 0 THEN 0 ELSE StartLsn + Len(w)]
      /\ pCommit' = [pCommit EXCEPT ![s] = saved]
      /\ commit'  = [commit EXCEPT ![s] = saved]
      /\ th'      = [th EXCEPT ![s] = th[s]]
  BY DEF RestartWith, ConsensusInv
<1>2. /\ term \in [Safekeepers -> Nat] /\ flushed \in [Safekeepers -> Nat]
      /\ th \in [Safekeepers -> Seq(TermLsn)] /\ wal \in [Safekeepers -> Seq(Nat)]
      /\ tlStart \in [Safekeepers -> {0, StartLsn}] /\ commit \in [Safekeepers -> Nat]
      /\ pCommit \in [Safekeepers -> Nat]
  BY <1>1 DEF TypeInv, TypeOK, SafekeeperTypeOK
<1>3. /\ wal'[s] = w /\ flushed'[s] = IF tlStart[s] = 0 THEN 0 ELSE StartLsn + Len(w)
      /\ pCommit'[s] = saved /\ commit'[s] = saved /\ th'[s] = th[s]
      /\ \A y \in Safekeepers : y # s =>
            /\ wal'[y] = wal[y] /\ flushed'[y] = flushed[y]
            /\ commit'[y] = commit[y] /\ pCommit'[y] = pCommit[y] /\ th'[y] = th[y]
  BY <1>1, <1>2
<1>4. CommitStep(s)
  BY <1>3 DEF CommitStep
<1>5. /\ tlStart[s] = 0 => flushed[s] = 0 /\ wal[s] = << >> /\ Len(wal[s]) = 0
      /\ Len(w) \in Nat /\ flushed[s] \in Nat /\ StartLsn \in Nat /\ tlStart[s] \in {0, StartLsn}
  BY <1>1, <1>2, SafekeeperFacts DEF ConsensusInv, HistoryInv, WalInv, WalOK, StartLsn
<1>6. ASSUME term'[s] >= term[s], tlStart[s] = 0 PROVE SkKeeps(s)
  BY <1>1, <1>3, <1>5, <1>6 DEF SkKeeps
<1>7. ASSUME term'[s] >= term[s], w \in SurvivingWal(s), tlStart[s] # 0 PROVE SkKeeps(s)
  <2>1. PICK k \in 0..Len(wal[s]) : StartLsn + k >= flushed[s] /\ w = SubSeq(wal[s], 1, k)
    BY <1>7 DEF SurvivingWal
  <2>2. Len(w) = k /\ \A i \in 1..k : w[i] = wal[s][i]
    <3>1. wal[s] \in Seq(Nat)
      BY <1>2
    <3>. QED  BY <2>1, <3>1
  <2>3. flushed'[s] >= flushed[s]
    BY <1>3, <1>7, <2>1, <2>2
  <2>4. ASSUME NEW i \in 1..Len(wal[s]), StartLsn + i <= flushed[s]
        PROVE  i \in 1..Len(w) /\ w[i] = wal[s][i]
    BY <1>5, <2>1, <2>2, <2>4 DEF StartLsn
  <2>. QED  BY <1>1, <1>3, <1>7, <2>3, <2>4 DEF SkKeeps
<1>8. ASSUME NEW p \in Proposers, NEW c \in Channels, NEW start, start = Head(net[p][s][c]).start,
             HeadIs(p, s, c, "elected"), w = Truncated(s, start),
             term[s] <= propTerm[p], term'[s] = propTerm[p],
             ~OverwritesCorrectWal(p, s, start), start >= commit[s], ~TruncateRefused(s, start)
      PROVE  SkStep(s)
  <2>1. PICK m : m = Head(net[p][s][c])
    OBVIOUS
  <2>2. /\ m.type = "elected" /\ OldMsg(p, s, m) /\ m.start = start /\ start \in Nat
        /\ Len(w) = start - StartLsn
        /\ \A i \in 1..Len(wal[s]) : StartLsn + i <= start =>
              i \in 1..Len(wal'[s]) /\ wal'[s][i] = wal[s][i]
    <3>1. TruncateRefused(s, start) = TruncateRefused(s, Head(net[p][s][c]).start)
          /\ Truncated(s, start) = Truncated(s, Head(net[p][s][c]).start)
      BY <1>8
    <3>2. LET h == Head(net[p][s][c])
              v == Truncated(s, h.start)
          IN  /\ h.type = "elected" /\ OldMsg(p, s, h) /\ h.start \in Nat
              /\ Len(v) = h.start - StartLsn
              /\ \A i \in 1..Len(wal[s]) : StartLsn + i <= h.start =>
                    i \in 1..Len(v) /\ v[i] = wal[s][i]
      BY <1>8, <3>1, CutFacts
    <3>. QED  BY <1>3, <1>8, <2>1, <3>1, <3>2, ZenonT(30)
  <2>3. CASE tlStart[s] = 0
    <3>1. term'[s] >= term[s]
      BY <1>2, <1>8 DEF TypeInv, TypeOK, ProposerTypeOK
    <3>. QED  BY <1>6, <2>3, <3>1 DEF SkStep
  <2>4. CASE tlStart[s] # 0
    <3>1. flushed'[s] = start /\ tlStart[s] = StartLsn
      BY <1>3, <1>5, <2>2, <2>4 DEF StartLsn
    <3>2. SkCuts(s, p, m)
      BY <1>1, <1>3, <1>8, <2>2, <3>1 DEF SkCuts
    <3>. QED  BY <2>2, <3>2 DEF SkStep
  <2>. QED  BY <2>3, <2>4
<1>9. SkStep(s)
  <2>1. CASE term'[s] >= term[s] /\ w \in SurvivingWal(s)
    BY <1>6, <1>7, <2>1 DEF SkStep
  <2>. QED  BY <1>8, <2>1
<1>. QED  BY <1>1, <1>3, <1>4, <1>9, SafekeeperEffects

LEMMA SafekeeperRestartEffects ==
  ASSUME ConsensusInv, NEW s \in Safekeepers, SafekeeperRestart(s)
  PROVE  Effects
<1>1. PICK w \in SurvivingWal(s) : RestartWith(s, w, pCommit[s], th[s])
  BY DEF SafekeeperRestart
<1>2. /\ TypeInv /\ term \in [Safekeepers -> Nat]
      /\ term' = [term EXCEPT ![s] = term[s]]
  BY DEF ConsensusInv, TypeInv, TypeOK, SafekeeperTypeOK, SafekeeperRestart, SavedTerm
<1>3. w \in Seq(Nat) /\ term'[s] >= term[s] /\ \A y \in Safekeepers : y # s => term'[y] = term[y]
  BY <1>2, SurvivingPrefix
<1>. QED  BY <1>1, <1>3, RestartEffects

LEMMA CrashInElectedEffects ==
  ASSUME ConsensusInv, NEW p \in Proposers, NEW s \in Safekeepers, NEW c \in Channels,
         CrashInElected(p, s, c)
  PROVE  Effects
<1>1. PICK start : start = Head(net[p][s][c]).start
  OBVIOUS
<1>2. PICK saved \in {pCommit[s], commit[s]}, w \in {Truncated(s, start)} \union SurvivingWal(s) :
         RestartWith(s, w, saved, th[s])
  BY <1>1 DEF CrashInElected, HistoryDuringTruncate
<1>3. /\ HeadIs(p, s, c, "elected") /\ term[s] <= propTerm[p]
      /\ ~OverwritesCorrectWal(p, s, start) /\ start >= commit[s] /\ ~TruncateRefused(s, start)
      /\ term' = [term EXCEPT ![s] = propTerm[p]]
  BY <1>1 DEF CrashInElected
<1>4. TypeInv /\ term \in [Safekeepers -> Nat] /\ propTerm[p] \in Nat
  BY DEF ConsensusInv, TypeInv, TypeOK, SafekeeperTypeOK, ProposerTypeOK
<1>5. /\ term'[s] >= term[s] /\ term'[s] = propTerm[p]
      /\ \A y \in Safekeepers : y # s => term'[y] = term[y]
  BY <1>3, <1>4
<1>6. CASE w \in SurvivingWal(s)
  <2>1. w \in Seq(Nat)
    BY <1>4, <1>6, SurvivingPrefix
  <2>. QED  BY <1>2, <1>5, <1>6, <2>1, RestartEffects
<1>7. CASE w = Truncated(s, start)
  <2>1. w \in Seq(Nat)
    BY <1>1, <1>3, <1>7, CutFacts
  <2>. QED  BY <1>1, <1>2, <1>3, <1>5, <1>7, <2>1, RestartEffects
<1>. QED  BY <1>2, <1>6, <1>7

\* update_commit_lsn.
LEMMA LearnsWhen ==
  ASSUME ConsensusInv, NEW s \in Safekeepers, NEW l, UpdateCommitLsn(s, l), SkKeeps(s)
  PROVE  /\ Learns(s, l)
         /\ \A y \in Safekeepers : y # s => commit'[y] = commit[y] /\ pCommit'[y] = pCommit[y]
<1>1. commit \in [Safekeepers -> Nat] /\ pCommit \in [Safekeepers -> Nat]
  BY DEF ConsensusInv, TypeInv, TypeOK, SafekeeperTypeOK
<1>. QED  BY <1>1 DEF UpdateCommitLsn, Learns

\* The next AppendRequest is one that has been received.
LEMMA NextAppendOld ==
  ASSUME ConsensusInv, NEW p \in Proposers, NEW s \in Safekeepers, NEW c \in Channels,
         NextAppend(p, s, c) # << >>
  PROVE  OldMsg(p, s, Head(NextAppend(p, s, c)))
<1> DEFINE q == net[p][s][c]
<1>1. q \in Seq(Messages)
  BY MessageType DEF ConsensusInv
<1>2. \E j \in 1..Len(q) : Head(NextAppend(p, s, c)) = q[j]
  <2>1. CASE NextAppend(p, s, c) = q
    <3>1. Head(q) = q[1] /\ 1 \in 1..Len(q)
      BY <1>1, <2>1
    <3>. QED  BY <2>1, <3>1
  <2>2. CASE NextAppend(p, s, c) = Tail(q) /\ Len(q) > 1
    <3>1. Head(Tail(q)) = q[2] /\ 2 \in 1..Len(q)
      BY <1>1, <2>2
    <3>. QED  BY <2>2, <3>1
  <2>. QED  BY <2>1, <2>2 DEF NextAppend
<1>. QED  BY <1>2 DEF OldMsg

LEMMA HandleAppendRequestEffects ==
  ASSUME ConsensusInv, NEW p \in Proposers, NEW s \in Safekeepers, NEW c \in Channels,
         HandleAppendRequest(p, s, c)
  PROVE  Effects
<1> DEFINE m == Head(NextAppend(p, s, c))
<1>1. /\ TypeInv /\ HistoryInv /\ UNCHANGED propVars
      /\ NextAppend(p, s, c) # << >> /\ m.type = "append"
  BY DEF HandleAppendRequest, ConsensusInv
<1>2. /\ Elected(p) /\ Joined(p, s) /\ m \in Messages /\ OldMsg(p, s, m)
  BY <1>1, NextAppendFacts, NextAppendOld
<1>. HIDE DEF m
<1>3. CASE UNCHANGED skVars /\ UNCHANGED rep
  <2>1. \A y \in Safekeepers : SkStep(y) /\ CommitStep(y)
    BY <1>1, <1>3, Untouched DEF skVars
  <2>. QED  BY <1>1, <1>3, <2>1, SafekeeperEffects DEF skVars
<1>4. CASE /\ UNCHANGED skVars /\ term[s] > propTerm[p]
           /\ Reply(p, s, c, [type |-> "append", term |-> term[s], flush |-> 0])
  <2>1. SkStep(s) /\ CommitStep(s)
    BY <1>1, <1>4, Untouched DEF skVars
  <2>2. ASSUME NEW x \in Proposers, NEW y \in Safekeepers
        PROVE  rep'[x][y] = rep[x][y] \/ (y = s /\ AckEffect(x, s))
    <3>1. rep \in [Proposers -> [Safekeepers -> Replies]] /\ ackFlush' = ackFlush
      BY <1>1 DEF TypeInv, TypeOK, LinkTypeOK, propVars
    <3>2. rep'[x][y] = rep[x][y] \/ (x = p /\ y = s /\ rep'[x][y].term = term[s])
      BY <1>4, <3>1 DEF Reply
    <3>. QED  BY <1>2, <1>4, <3>1, <3>2 DEF AckEffect
  <2>. QED  BY <1>1, <1>4, <2>1, <2>2, SafekeeperEffects DEF skVars
<1>5. CASE /\ term[s] = propTerm[p]
           /\ wal' = [wal EXCEPT ![s] = wal[s] \o m.entries]
           /\ UpdateCommitLsn(s, m.commit) \/ UNCHANGED <<commit, pCommit>>
           /\ UNCHANGED <<term, th, tlStart, flushed, rep>>
  <2>1. /\ term[s] \in Nat /\ flushed[s] \in Nat /\ wal[s] \in Seq(Nat)
        /\ wal \in [Safekeepers -> Seq(Nat)]
    BY <1>1 DEF TypeInv, TypeOK, SafekeeperTypeOK
  <2>2. PICK e \in Seq(Nat) : e = m.entries
    BY <1>1, <1>2 DEF Messages
  <2>3. wal'[s] = wal[s] \o e /\ \A y \in Safekeepers : y # s => wal'[y] = wal[y]
    BY <1>5, <2>1, <2>2
  <2>4. \A i \in 1..Len(wal[s]) : i \in 1..Len(wal[s] \o e) /\ (wal[s] \o e)[i] = wal[s][i]
    BY <2>1
  <2>5. SkKeeps(s)
    BY <1>5, <2>1, <2>3, <2>4 DEF SkKeeps
  <2>6. CommitStep(s) /\ \A y \in Safekeepers : y # s => commit'[y] = commit[y] /\ pCommit'[y] = pCommit[y]
    <3>1. CASE UpdateCommitLsn(s, m.commit)
      <4>1. /\ Learns(s, m.commit)
            /\ \A y \in Safekeepers : y # s => commit'[y] = commit[y] /\ pCommit'[y] = pCommit[y]
        BY <2>5, <3>1, LearnsWhen
      <4>. QED  BY <1>1, <1>2, <1>5, <4>1 DEF CommitStep, Joined
    <3>2. CASE UNCHANGED <<commit, pCommit>>
      BY <3>2 DEF CommitStep
    <3>. QED  BY <1>5, <3>1, <3>2
  <2>. QED  BY <1>1, <1>5, <2>3, <2>5, <2>6, SafekeeperEffects DEF SkStep
<1>. QED  BY <1>3, <1>4, <1>5 DEF HandleAppendRequest, m

LEMMA LsnStepEffects ==
  ASSUME ConsensusInv, NEW s \in Safekeepers,
         PersistControlFile(s) \/ PublishInfo(s) \/ RecordSafekeeperInfo(s)
  PROVE  Effects
<1>1. /\ TypeInv /\ UNCHANGED propVars /\ UNCHANGED <<term, th, tlStart, wal, flushed, rep>>
  BY DEF PersistControlFile, PublishInfo, RecordSafekeeperInfo, ConsensusInv, skVars, linkVars
<1>2. SkKeeps(s)
  BY <1>1 DEF SkKeeps, TypeInv, TypeOK, SafekeeperTypeOK
<1>3. /\ CommitStep(s)
      /\ \A y \in Safekeepers : y # s => commit'[y] = commit[y] /\ pCommit'[y] = pCommit[y]
  <2>1. CASE PersistControlFile(s)
    BY <1>1, <2>1 DEF PersistControlFile, CommitStep, TypeInv, TypeOK, SafekeeperTypeOK
  <2>2. CASE PublishInfo(s)
    BY <2>2 DEF PublishInfo, skVars, CommitStep
  <2>3. CASE RecordSafekeeperInfo(s)
    BY <1>2, <2>3, LearnsWhen DEF RecordSafekeeperInfo, CommitStep
  <2>. QED  BY <2>1, <2>2, <2>3
<1>. QED  BY <1>1, <1>2, <1>3, SafekeeperEffects DEF SkStep

\* Steps of proposers.
LEMMA ProposerEffects ==
  ASSUME ConsensusInv, UNCHANGED skVars, \A p \in Proposers : LeaderKept(p),
         \A p \in Proposers, s \in Safekeepers : AckEffect(p, s)
  PROVE  Effects
<1>1. \A y \in Safekeepers : SkStep(y) /\ CommitStep(y)
  BY Untouched DEF skVars, ConsensusInv
<1>. QED  BY <1>1 DEF Effects

\* Proposers get acknowledgements only in RecvAppendResponse.
LEMMA NoAckEffects ==
  ASSUME ConsensusInv, UNCHANGED skVars, \A p \in Proposers : LeaderKept(p),
         ackFlush' = ackFlush,
         \A p \in Proposers, s \in Safekeepers : rep'[p][s] = rep[p][s] \/ rep'[p][s] = NoReply
  PROVE  Effects
<1>1. \A p \in Proposers, s \in Safekeepers : AckEffect(p, s)
  BY DEF AckEffect, NoReply
<1>. QED  BY <1>1, ProposerEffects

LEMMA GreetEffects ==
  ASSUME ConsensusInv, NEW p \in Proposers, NEW s \in Safekeepers, Greet(p, s)
  PROVE  Effects
<1>1. UNCHANGED skVars /\ ackFlush' = ackFlush /\ TypeInv
  BY DEF Greet, ConsensusInv
<1>2. \A x \in Proposers : LeaderKept(x)
  BY <1>1, GreetKeepsLeaders
<1>3. \A x \in Proposers, y \in Safekeepers : rep'[x][y] = rep[x][y] \/ rep'[x][y] = NoReply
  <2>1. CASE Die(p)
    BY <1>1, <2>1, DieType
  <2>2. CASE UNCHANGED rep
    BY <2>2
  <2>. QED  BY <2>1, <2>2 DEF Greet
<1>. QED  BY <1>1, <1>2, <1>3, NoAckEffects

LEMMA RecvVoteResponseEffects ==
  ASSUME ConsensusInv, NEW p \in Proposers, NEW s \in Safekeepers, RecvVoteResponse(p, s)
  PROVE  Effects
<1>1. UNCHANGED skVars /\ ackFlush' = ackFlush /\ UNCHANGED <<propTerm, nConnected>> /\ TypeInv
  BY DEF RecvVoteResponse, ConsensusInv
<1>2. \A x \in Proposers : LeaderKept(x)
  <2>1. /\ propTh \in [Proposers -> Seq(TermLsn)] /\ nVotes[p] \in Nat /\ QuorumSize \in Nat
    BY <1>1, QuorumSizeType DEF TypeInv, TypeOK, ProposerTypeOK
  <2>2. \/ UNCHANGED propTh
        \/ nVotes[p] + 1 = QuorumSize /\ \E h : propTh' = [propTh EXCEPT ![p] = h]
    BY DEF RecvVoteResponse
  <2>3. nVotes[p] + 1 = QuorumSize => ~Elected(p)
    BY <2>1 DEF ConsensusInv, CountedInv
  <2>4. ASSUME NEW x \in Proposers, Elected(x) PROVE propTh'[x] = propTh[x]
    BY <2>1, <2>2, <2>3, <2>4
  <2>. QED  BY <1>1, <2>4 DEF LeaderKept
<1>3. \A x \in Proposers, y \in Safekeepers : rep'[x][y] = rep[x][y] \/ rep'[x][y] = NoReply
  <2>1. rep \in [Proposers -> [Safekeepers -> Replies]]
    BY <1>1 DEF TypeInv, TypeOK, LinkTypeOK
  <2>2. CASE Die(p)
    BY <1>1, <2>2, DieType
  <2>3. CASE rep' = [rep EXCEPT ![p][s] = NoReply]
    BY <2>1, <2>3
  <2>4. ASSUME NEW S, rep' = [rep EXCEPT ![p] = [y \in Safekeepers |->
                                IF y \in S THEN NoReply ELSE rep[p][y]]]
        PROVE  \A x \in Proposers, y \in Safekeepers :
                  rep'[x][y] = rep[x][y] \/ rep'[x][y] = NoReply
    BY <2>1, <2>4
  <2>. QED  BY <2>2, <2>3, <2>4 DEF RecvVoteResponse, SendProposerElected
<1>. QED  BY <1>1, <1>2, <1>3, NoAckEffects

LEMMA OtherProposerEffects ==
  ASSUME ConsensusInv, NEW p \in Proposers, NEW s \in Safekeepers,
         \/ WalProposerBroadcast(p) \/ SendAppendRequest(p, s) \/ ShutdownConnection(p, s)
  PROVE  Effects
<1>1. /\ UNCHANGED skVars /\ UNCHANGED <<propTerm, nConnected, propTh>>
      /\ rep \in [Proposers -> [Safekeepers -> Replies]]
      /\ ackFlush \in [Proposers -> [Safekeepers -> Nat]]
  BY DEF WalProposerBroadcast, SendAppendRequest, ShutdownConnection, ConsensusInv,
         TypeInv, TypeOK, LinkTypeOK, ProposerTypeOK
<1>2. /\ ackFlush' = ackFlush
      /\ \A x \in Proposers, y \in Safekeepers : rep'[x][y] = rep[x][y] \/ rep'[x][y] = NoReply
  <2>1. CASE UNCHANGED <<ackFlush, rep>>
    BY <2>1
  <2>2. CASE ShutdownConnection(p, s)
    BY <1>1, <2>2 DEF ShutdownConnection, AckAfterShutdown
  <2>. QED  BY <2>1, <2>2 DEF WalProposerBroadcast, SendAppendRequest, linkVars
<1>. QED  BY <1>1, <1>2, SameTermKept, NoAckEffects

LEMMA RecvAppendResponseEffects ==
  ASSUME ConsensusInv, NEW p \in Proposers, NEW s \in Safekeepers, RecvAppendResponse(p, s)
  PROVE  Effects
<1>1. /\ UNCHANGED skVars /\ UNCHANGED <<propTerm, nConnected, propTh>> /\ TypeInv
      /\ rep \in [Proposers -> [Safekeepers -> Replies]]
      /\ ackFlush \in [Proposers -> [Safekeepers -> Nat]]
      /\ rep[p][s].type = "append"
  BY DEF RecvAppendResponse, ConsensusInv, TypeInv, TypeOK, LinkTypeOK, ProposerTypeOK
<1>2. CASE Die(p) /\ UNCHANGED ackFlush
  BY <1>1, <1>2, SameTermKept, DieType, NoAckEffects
<1>3. CASE /\ rep[p][s].term <= propTerm[p]
           /\ ackFlush' = [ackFlush EXCEPT ![p][s] = rep[p][s].flush]
           /\ rep' = [rep EXCEPT ![p][s] = NoReply]
  <2>1. /\ ackFlush'[p][s] = rep[p][s].flush /\ rep'[p][s] = NoReply
        /\ \A x \in Proposers, y \in Safekeepers : x # p \/ y # s =>
              ackFlush'[x][y] = ackFlush[x][y] /\ rep'[x][y] = rep[x][y]
    BY <1>1, <1>3
  <2>2. ASSUME NEW x \in Proposers, NEW y \in Safekeepers PROVE AckEffect(x, y)
    <3>1. CASE x = p /\ y = s
      BY <1>1, <1>3, <2>1, <3>1 DEF AckEffect, NoReply
    <3>2. CASE x # p \/ y # s
      BY <2>1, <3>2 DEF AckEffect
    <3>. QED  BY <3>1, <3>2
  <2>. QED  BY <1>1, <2>2, SameTermKept, ProposerEffects
<1>. QED  BY <1>2, <1>3 DEF RecvAppendResponse

LEMMA NextEffects == ConsensusInv /\ [Next]_vars => Effects
<1>1. SUFFICES ASSUME ConsensusInv, [Next]_vars PROVE Effects
  OBVIOUS
<1>2. CASE UNCHANGED vars
  <2>1. /\ UNCHANGED skVars /\ UNCHANGED <<propTerm, nConnected, propTh>>
        /\ ackFlush' = ackFlush /\ rep' = rep
    BY <1>2 DEF vars, propVars, linkVars
  <2>. QED  BY <1>1, <2>1, SameTermKept, NoAckEffects
<1>3. ASSUME NEW p \in Proposers, NEW s \in Safekeepers, SafekeeperStep(p, s)
      PROVE  Effects
  BY <1>1, <1>3, HandleVoteRequestEffects, HandleElectedEffects, CrashInElectedEffects,
     HandleAppendRequestEffects, HandleFlushEffects DEF SafekeeperStep
<1>4. ASSUME NEW p \in Proposers, NEW s \in Safekeepers, ProposerStep(p, s)
      PROVE  Effects
  BY <1>1, <1>4, GreetEffects, RecvVoteResponseEffects, OtherProposerEffects,
     RecvAppendResponseEffects DEF ProposerStep
<1>5. ASSUME NEW p \in Proposers, WalProposerBroadcast(p) PROVE Effects
  BY <1>1, <1>5, OtherProposerEffects, SafekeepersAssumption
<1>6. ASSUME NEW s \in Safekeepers,
             \/ PersistControlFile(s) \/ SafekeeperRestart(s)
             \/ PublishInfo(s) \/ RecordSafekeeperInfo(s)
      PROVE  Effects
  BY <1>1, <1>6, SafekeeperRestartEffects, LsnStepEffects
<1>. QED  BY <1>1, <1>2, <1>3, <1>4, <1>5, <1>6 DEF Next

-----------------------------------------------------------------------------
(***************************************************************************)
(* commit_lsn and the flushed WAL.                                         *)
(***************************************************************************)
LEMMA SkTypes ==
  ASSUME TypeInv, NEW s \in Safekeepers
  PROVE  /\ term[s] \in Nat /\ flushed[s] \in Nat /\ commit[s] \in Nat /\ pCommit[s] \in Nat
         /\ tlStart[s] \in {0, StartLsn} /\ wal[s] \in Seq(Nat) /\ th[s] \in Seq(TermLsn)
         /\ published.commit \in Nat /\ published.epoch \in Nat
BY DEF TypeInv, TypeOK, SafekeeperTypeOK

LEMMA SkNextTypes ==
  ASSUME TypeInv', NEW s \in Safekeepers
  PROVE  /\ term'[s] \in Nat /\ flushed'[s] \in Nat /\ commit'[s] \in Nat /\ pCommit'[s] \in Nat
         /\ tlStart'[s] \in {0, StartLsn} /\ wal'[s] \in Seq(Nat) /\ th'[s] \in Seq(TermLsn)
BY DEF TypeInv, TypeOK, SafekeeperTypeOK

LEMMA OldMsgOK ==
  ASSUME ConsensusInv, NEW p \in Proposers, NEW s \in Safekeepers, NEW m, OldMsg(p, s, m)
  PROVE  /\ m \in Messages /\ MsgOK(p, s, m) /\ ElectedMsgOK(p, s, m)
         /\ m.type = "elected" => m.start \in Nat
         /\ m.type = "append" => m.commit \in Nat
<1>1. PICK k \in Channels : \E j \in 1..Len(net[p][s][k]) : m = net[p][s][k][j]
  BY DEF OldMsg
<1>2. PICK j \in 1..Len(net[p][s][k]) : m = net[p][s][k][j]
  BY <1>1
<1>3. net[p][s][k] \in Seq(Messages) /\ m \in Messages
  BY <1>2, MessageType DEF ConsensusInv
<1>4. MsgOK(p, s, m) /\ ElectedMsgOK(p, s, m)
  BY <1>2, <1>3 DEF ConsensusInv, HistoryInv, MsgInv, TypeInv, NetInv
<1>. QED  BY <1>3, <1>4 DEF Messages

LEMMA NextCommitLocal ==
  ASSUME ConsensusInv, TypeInv', Effects, CommitLsnIsLocal
  PROVE  CommitLsnIsLocal'
<1>1. SUFFICES ASSUME NEW s \in Safekeepers
               PROVE  pCommit'[s] <= commit'[s] /\ commit'[s] <= FlushLsn(s)'
  BY DEF CommitLsnIsLocal
<1>2. PICK f \in Nat : f = FlushLsn(s) /\ pCommit[s] <= commit[s] /\ commit[s] <= f
  BY SafekeeperFacts DEF CommitLsnIsLocal, ConsensusInv
<1>3. /\ commit[s] \in Nat /\ pCommit[s] \in Nat /\ published.commit \in Nat
      /\ flushed[s] \in Nat /\ flushed'[s] \in Nat
      /\ tlStart[s] \in {0, StartLsn} /\ tlStart'[s] \in {0, StartLsn}
  BY SkTypes, SkNextTypes DEF ConsensusInv
<1>4. PICK g \in Nat : g = FlushLsn(s)' /\ g >= flushed'[s] /\ g >= tlStart'[s]
  BY <1>3 DEF FlushLsn, MaxOf, StartLsn
<1>5. SkKeeps(s) => g >= f
  BY <1>2, <1>3, <1>4 DEF SkKeeps, FlushLsn, MaxOf, StartLsn
<1>6. g >= commit[s]
  <2>1. CASE SkKeeps(s)
    BY <1>2, <1>3, <1>5, <2>1
  <2>2. ASSUME NEW p \in Proposers, NEW m, OldMsg(p, s, m), SkCuts(s, p, m) PROVE g >= commit[s]
    BY <1>3, <1>4, <2>2, OldMsgOK DEF SkCuts
  <2>. QED  BY <2>1, <2>2 DEF Effects, SkStep
<1>7. ASSUME NEW l \in Nat, Learns(s, l)
      PROVE  pCommit'[s] <= commit'[s] /\ commit'[s] <= g
  <2>1. commit'[s] = MinOf(MaxOf(l, commit[s]), f) /\ pCommit'[s] \in {pCommit[s], commit'[s]}
    BY <1>2, <1>7 DEF Learns, NewCommitLsn
  <2>2. g >= f
    BY <1>5, <1>7 DEF Learns
  <2>. QED  BY <1>2, <1>3, <2>1, <2>2 DEF MinOf, MaxOf
<1>8. ASSUME \/ commit'[s] = commit[s] /\ pCommit'[s] \in {pCommit[s], commit[s]}
             \/ commit'[s] \in {pCommit[s], commit[s]} /\ pCommit'[s] = commit'[s]
             \/ /\ commit'[s] = MaxOf(commit[s], StartLsn) /\ pCommit'[s] = commit'[s]
                /\ tlStart'[s] = StartLsn
      PROVE  pCommit'[s] <= commit'[s] /\ commit'[s] <= g
  <2>1. StartLsn \in Nat /\ (tlStart'[s] = StartLsn => g >= StartLsn)
    BY <1>4 DEF StartLsn
  <2>2. CASE commit'[s] = commit[s] /\ pCommit'[s] \in {pCommit[s], commit[s]}
    BY <1>2, <1>3, <1>6, <2>2
  <2>3. CASE commit'[s] \in {pCommit[s], commit[s]} /\ pCommit'[s] = commit'[s]
    <3>1. CASE commit'[s] = commit[s]
      BY <1>3, <1>6, <2>3, <3>1
    <3>2. CASE commit'[s] = pCommit[s]
      BY <1>2, <1>3, <1>6, <2>3, <3>2
    <3>. QED  BY <2>3, <3>1, <3>2
  <2>4. CASE /\ commit'[s] = MaxOf(commit[s], StartLsn) /\ pCommit'[s] = commit'[s]
             /\ tlStart'[s] = StartLsn
    BY <1>3, <1>4, <1>6, <2>1, <2>4 DEF MaxOf
  <2>. QED  BY <1>8, <2>2, <2>3, <2>4
<1>9. ASSUME NEW p \in Proposers, NEW m, OldMsg(p, s, m), m.type = "append", Learns(s, m.commit)
      PROVE  pCommit'[s] <= commit'[s] /\ commit'[s] <= g
  BY <1>7, <1>9, OldMsgOK
<1>10. CommitStep(s)
  BY DEF Effects
<1>. QED  BY <1>3, <1>4, <1>7, <1>8, <1>9, <1>10 DEF CommitStep

(***************************************************************************)
(* Acknowledgements.  What a safekeeper has acknowledged to the leader of  *)
(* its term, from the start of the term on, it does not lose: truncation   *)
(* is refused.  Later acknowledgements are not lower.                      *)
(***************************************************************************)
FlushKept(p, s, f) ==
    f >= PropEpochStartLsn(p) /\ term[s] = propTerm[p] => flushed[s] >= f

GoodReply(p, s) == rep[p][s].type = "append" /\ rep[p][s].term <= propTerm[p]

AckOK(p, s) ==
    /\ FlushKept(p, s, ackFlush[p][s])
    /\ GoodReply(p, s) =>
          /\ FlushKept(p, s, rep[p][s].flush)
          /\ ackFlush[p][s] >= PropEpochStartLsn(p) => rep[p][s].flush >= ackFlush[p][s]

AckInv == \A p \in Proposers, s \in Safekeepers : Elected(p) => AckOK(p, s)

\* handle_elected does not cut WAL of the same leader that has reached its term.
LEMMA CutKeeps ==
  ASSUME ConsensusInv, NEW p \in Proposers, NEW s \in Safekeepers, NEW m,
         OldMsg(p, s, m), SkCuts(s, p, m), th[s] = propTh[p],
         flushed[s] >= PropEpochStartLsn(p)
  PROVE  m.start >= flushed[s]
<1>1. Elected(p) /\ m.start \in Nat
  BY OldMsgOK DEF SkCuts, MsgOK
<1>2. /\ propTh[p] \in Seq(TermLsn) /\ propTh[p] # << >> /\ Ordered(propTh[p])
      /\ propTh[p][Len(propTh[p])].term = propTerm[p]
  BY <1>1, LeaderTerms DEF ConsensusInv, HistoryInv
<1>3. /\ flushed[s] \in Nat /\ tlStart[s] \in {0, StartLsn} /\ PropEpochStartLsn(p) \in Nat
  BY <1>1, SkTypes, EpochStartType DEF ConsensusInv
<1>4. PICK f \in Nat : f = FlushLsn(s) /\ f >= flushed[s]
  BY <1>3 DEF FlushLsn, MaxOf, StartLsn
<1>5. Epoch(s) = propTerm[p]
  <2>1. f >= propTh[p][Len(propTh[p])].lsn
    BY <1>3, <1>4 DEF PropEpochStartLsn
  <2>2. TermOfRecord(propTh[p], f) = propTerm[p]
    BY <1>2, <2>1, LastTerm
  <2>. QED  BY <1>4, <2>2 DEF Epoch, TermOfRecord
<1>6. ~(f > m.start)
  BY <1>4, <1>5 DEF SkCuts, OverwritesCorrectWal
<1>. QED  BY <1>1, <1>3, <1>4, <1>6

LEMMA EffectsProgress ==
  ASSUME ConsensusInv, Effects, NEW p \in Proposers, Elected(p)
  PROVE  /\ Elected(p)' /\ propTh'[p] = propTh[p] /\ propTerm'[p] = propTerm[p]
         /\ PropEpochStartLsn(p)' = PropEpochStartLsn(p)
<1>1. nConnected[p] >= QuorumSize
  BY DEF ConsensusInv, TypeInv, ProposerInv
<1>. QED  BY <1>1 DEF Effects, LeaderKept, Elected, PropEpochStartLsn

LEMMA FlushKeptStays ==
  ASSUME ConsensusInv, ConsensusInv', Effects, NEW p \in Proposers, NEW s \in Safekeepers,
         NEW f \in Nat, Elected(p), Joined(p, s), FlushKept(p, s, f)
  PROVE  FlushKept(p, s, f)'
<1>1. SUFFICES ASSUME f >= PropEpochStartLsn(p)', term'[s] = propTerm'[p]
               PROVE  flushed'[s] >= f
  BY DEF FlushKept
<1>2. f >= PropEpochStartLsn(p) /\ term'[s] = propTerm[p]
  BY <1>1, EffectsProgress
<1>3. /\ term[s] \in Nat /\ propTerm[p] \in Nat /\ flushed[s] \in Nat /\ flushed'[s] \in Nat
      /\ PropEpochStartLsn(p) \in Nat
  BY SkTypes, SkNextTypes, StateTypes, EpochStartType DEF ConsensusInv
<1>4. CASE SkKeeps(s)
  BY <1>2, <1>3, <1>4 DEF SkKeeps, Joined, FlushKept
<1>5. ASSUME NEW q \in Proposers, NEW m, OldMsg(q, s, m), SkCuts(s, q, m)
      PROVE  flushed'[s] >= f
  <2>1. Elected(q) /\ m.start \in Nat
    BY <1>5, OldMsgOK DEF SkCuts, MsgOK
  <2>2. q = p /\ term[s] = propTerm[p]
    <3>1. propTerm[q] = propTerm[p] /\ term[s] <= propTerm[q]
      BY <1>2, <1>5 DEF SkCuts
    <3>2. ElectionSafety
      BY ElectionInvSafe DEF ConsensusInv
    <3>. QED  BY <1>3, <2>1, <3>1, <3>2 DEF ElectionSafety, Joined
  <2>3. flushed[s] >= f /\ th[s] = propTh[p]
    BY <1>2, <2>2 DEF FlushKept, Joined
  <2>4. m.start >= flushed[s]
    BY <1>2, <1>3, <1>5, <2>2, <2>3, CutKeeps
  <2>. QED  BY <1>3, <1>5, <2>1, <2>3, <2>4 DEF SkCuts
<1>. QED  BY <1>4, <1>5 DEF Effects, SkStep

LEMMA NextAck ==
  ASSUME ConsensusInv, ConsensusInv', Effects, AckInv
  PROVE  AckInv'
<1>1. SUFFICES ASSUME NEW p \in Proposers, NEW s \in Safekeepers, Elected(p)'
               PROVE  AckOK(p, s)'
  BY DEF AckInv
<1>2. PICK a \in Nat, b \in Nat : a = ackFlush[p][s] /\ b = ackFlush'[p][s]
  <2>1. ackFlush[p][s] \in Nat /\ ackFlush'[p][s] \in Nat
    BY DEF ConsensusInv, TypeInv, TypeOK, ProposerTypeOK
  <2>. QED  BY <2>1
<1>3. PICK r \in Replies, x \in Replies : r = rep[p][s] /\ x = rep'[p][s]
  BY DEF ConsensusInv, TypeInv, TypeOK, LinkTypeOK
<1>4. /\ propTerm[p] \in Nat /\ propTerm'[p] \in Nat
      /\ propTh[p] \in Seq(TermLsn) /\ propTh'[p] \in Seq(TermLsn)
  BY StateTypes, NextTypes DEF ConsensusInv
<1>5. PropEpochStartLsn(p)' \in Nat /\ PropEpochStartLsn(p)' > 0
  BY <1>1, <1>4, EntryType DEF PropEpochStartLsn, Elected, StartLsn
<1>7. /\ a > 0 => Elected(p) /\ Joined(p, s)
      /\ r.type = "append" => Elected(p)
      /\ r.type = "append" /\ r.term <= propTerm[p] => Joined(p, s)
  BY <1>2, <1>3 DEF ConsensusInv, HistoryInv, AckJoined, SnapInv, ReplyOK
<1>8. \A z \in Replies : z.type = "append" => z.term \in Nat /\ z.flush \in Nat
  BY DEF Replies, NoReply
<1>9. /\ x = r \/ x.type # "append" \/ (Elected(p) /\ x.term > propTerm[p])
           \/ /\ Elected(p) /\ th'[s] = propTh[p]
              /\ term[s] = propTerm[p] /\ term'[s] = propTerm[p] /\ x.flush = flushed'[s]
      /\ b = a \/ (r.type = "append" /\ r.term <= propTerm[p] /\ b = r.flush /\ x = NoReply)
  BY <1>2, <1>3 DEF Effects, AckEffect
<1>10. SUFFICES
       /\ FlushKept(p, s, b)'
       /\ x.type = "append" /\ x.term <= propTerm'[p] =>
             /\ FlushKept(p, s, x.flush)'
             /\ b >= PropEpochStartLsn(p)' => x.flush >= b
  BY <1>2, <1>3 DEF AckOK, GoodReply, FlushKept
<1>11. CASE ~Elected(p)
  <2>1. a = 0 /\ b = 0 /\ r.type # "append" /\ x.type # "append"
    BY <1>7, <1>9, <1>11
  <2>. QED  BY <1>5, <2>1 DEF FlushKept
<1>12. CASE Elected(p)
  <2>1. propTerm'[p] = propTerm[p] /\ PropEpochStartLsn(p)' = PropEpochStartLsn(p)
    BY <1>12, EffectsProgress
  <2>2. AckOK(p, s)
    BY <1>12 DEF AckInv
  <2>3. FlushKept(p, s, a)'
    <3>1. CASE a = 0
      BY <1>5, <3>1 DEF FlushKept
    <3>2. CASE a > 0
      <4>1. FlushKept(p, s, a)
        BY <1>2, <2>2 DEF AckOK
      <4>. QED  BY <1>7, <3>2, <4>1, FlushKeptStays
    <3>. QED  BY <3>1, <3>2
  <2>4. ASSUME r.type = "append", r.term <= propTerm[p]
        PROVE  /\ FlushKept(p, s, r.flush)' /\ r.flush \in Nat
               /\ a >= PropEpochStartLsn(p) => r.flush >= a
    <3>1. /\ FlushKept(p, s, r.flush) /\ r.flush \in Nat
          /\ a >= PropEpochStartLsn(p) => r.flush >= a
      BY <1>2, <1>3, <1>8, <2>2, <2>4 DEF AckOK, GoodReply
    <3>. QED  BY <1>7, <1>12, <2>4, <3>1, FlushKeptStays
  <2>5. CASE b = r.flush /\ r.type = "append" /\ r.term <= propTerm[p] /\ x = NoReply
    BY <2>4, <2>5 DEF NoReply
  <2>6. CASE b = a
    <3>1. CASE x = r
      BY <2>1, <2>3, <2>4, <2>6, <3>1
    <3>2. CASE x.type # "append"
      BY <2>3, <2>6, <3>2
    <3>3. CASE x.term > propTerm[p]
      <4>1. x.type = "append" => ~(x.term <= propTerm'[p])
        BY <1>4, <1>8, <2>1, <3>3
      <4>. QED  BY <2>3, <2>6, <4>1
    <3>4. CASE term'[s] = propTerm[p] /\ x.flush = flushed'[s]
      <4>1. flushed'[s] \in Nat
        BY SkNextTypes DEF ConsensusInv
      <4>2. FlushKept(p, s, x.flush)'
        BY <3>4, <4>1 DEF FlushKept
      <4>3. b >= PropEpochStartLsn(p)' => x.flush >= b
        BY <2>1, <2>3, <2>6, <3>4 DEF FlushKept
      <4>. QED  BY <2>3, <2>6, <4>2, <4>3
    <3>. QED  BY <1>9, <3>1, <3>2, <3>3, <3>4
  <2>. QED  BY <1>9, <2>5, <2>6
<1>. QED  BY <1>11, <1>12

\* No acknowledgement that counts is replaced by a lower one.
LEMMA CountedGrows ==
  ASSUME ConsensusInv, ConsensusInv', Effects, AckInv, NEW p \in Proposers, NEW s \in Safekeepers
  PROVE  CountedAck(p, s)' >= CountedAck(p, s)
<1>1. ackFlush[p][s] \in Nat
  BY DEF ConsensusInv, TypeInv, TypeOK, ProposerTypeOK
<1>2. CASE Elected(p) /\ ackFlush[p][s] >= PropEpochStartLsn(p)
  <2>1. Elected(p)' /\ PropEpochStartLsn(p)' = PropEpochStartLsn(p) /\ PropEpochStartLsn(p) \in Nat
    BY <1>2, EffectsProgress, EpochStartType DEF ConsensusInv
  <2>2. AckOK(p, s)
    BY <1>2 DEF AckInv
  <2>3. rep[p][s].type = "append" => rep[p][s].flush \in Nat
    <3>1. rep[p][s] \in Replies
      BY DEF ConsensusInv, TypeInv, TypeOK, LinkTypeOK
    <3>. QED  BY <3>1 DEF Replies, NoReply
  <2>4. ackFlush'[p][s] \in Nat /\ ackFlush'[p][s] >= ackFlush[p][s]
    BY <1>1, <1>2, <2>2, <2>3 DEF Effects, AckEffect, AckOK, GoodReply
  <2>. QED  BY <1>1, <1>2, <2>1, <2>4 DEF CountedAck
<1>3. CASE ~(Elected(p) /\ ackFlush[p][s] >= PropEpochStartLsn(p))
  <2>1. ackFlush'[p][s] \in Nat
    BY DEF ConsensusInv, TypeInv, TypeOK, ProposerTypeOK
  <2>. QED  BY <1>3, <2>1 DEF CountedAck
<1>. QED  BY <1>2, <1>3

\* The quorum position, and whom it rests on.
LEMMA QuorumAckFacts ==
  ASSUME TypeInv, NEW p \in Proposers
  PROVE  /\ QuorumAck(p) \in 0..MaxLsn
         /\ \A c \in 1..QuorumAck(p) : IsQuorum({s \in Safekeepers : CountedAck(p, s) >= c})
<1>. DEFINE A(l) == {s \in Safekeepers : CountedAck(p, s) >= l}
            T == {l \in 1..MaxLsn : IsQuorum(A(l))}
<1>1. \A s \in Safekeepers : CountedAck(p, s) \in Nat
  BY DEF CountedAck, TypeInv, TypeOK, ProposerTypeOK
<1>2. ASSUME NEW t \in T, NEW u \in 1..t PROVE u \in T
  <2>1. A(t) \subseteq A(u) /\ IsQuorum(A(t))
    BY <1>1, BoundsAssumption
  <2>2. IsQuorum(A(u))
    <3>. HIDE DEF A
    <3>1. A(u) \in SUBSET Safekeepers
      BY DEF A
    <3>. QED  BY <2>1, <3>1, QuorumGrows
  <2>. QED  BY <2>2, BoundsAssumption
<1>3. T \in SUBSET (1..MaxLsn) /\ MaxLsn \in Nat
  BY BoundsAssumption
<1>4. T = 1..Cardinality(T) /\ Cardinality(T) \in 0..MaxLsn
  <2>. HIDE DEF T
  <2>. QED  BY <1>2, <1>3, CountDownClosed
<1>5. QuorumAck(p) = Cardinality(T)
  BY DEF QuorumAck
<1>. QED  BY <1>4, <1>5

LEMMA QuorumAckGrows ==
  ASSUME ConsensusInv, ConsensusInv', Effects, AckInv, NEW p \in Proposers
  PROVE  QuorumAck(p)' >= QuorumAck(p)
<1>. DEFINE A(l) == {s \in Safekeepers : CountedAck(p, s) >= l}
            B(l) == {s \in Safekeepers : CountedAck(p, s)' >= l}
            T == {l \in 1..MaxLsn : IsQuorum(A(l))}
            U == {l \in 1..MaxLsn : IsQuorum(B(l))}
<1>1. ASSUME NEW s \in Safekeepers
      PROVE  /\ CountedAck(p, s) \in Nat /\ CountedAck(p, s)' \in Nat
             /\ CountedAck(p, s)' >= CountedAck(p, s)
  <2>1. ackFlush[p][s] \in Nat /\ ackFlush'[p][s] \in Nat
    BY DEF ConsensusInv, TypeInv, TypeOK, ProposerTypeOK
  <2>. QED  BY <2>1, CountedGrows DEF CountedAck
<1>2. MaxLsn \in Nat /\ 1..MaxLsn \subseteq Nat
  BY BoundsAssumption
<1>3. ASSUME NEW l \in 1..MaxLsn, IsQuorum(A(l)) PROVE IsQuorum(B(l))
  <2>1. A(l) \subseteq B(l) /\ B(l) \in SUBSET Safekeepers
    BY <1>1, <1>2
  <2>. HIDE DEF A, B
  <2>. QED  BY <1>3, <2>1, QuorumGrows
<1>4. T \subseteq U /\ U \subseteq 1..MaxLsn
  BY <1>3
<1>5. IsFiniteSet(U) /\ Cardinality(T) <= Cardinality(U) /\ Cardinality(T) \in Nat
  <2>. HIDE DEF T, U
  <2>1. IsFiniteSet(1..MaxLsn)
    BY <1>2, FS_Interval
  <2>2. IsFiniteSet(U)
    BY <1>4, <2>1, FS_Subset
  <2>3. IsFiniteSet(T)
    BY <1>4, <2>2, FS_Subset
  <2>. QED  BY <1>4, <2>2, <2>3, FS_Subset, FS_CardinalityType
<1>6. QuorumAck(p) = Cardinality(T) /\ QuorumAck(p)' = Cardinality(U)
  BY DEF QuorumAck
<1>7. Cardinality(U) \in Nat
  BY <1>5, FS_CardinalityType
<1>. QED  BY <1>5, <1>6, <1>7

-----------------------------------------------------------------------------
LEMMA InitCommit == Init => CommitLsnIsLocal /\ AckInv
<1>1. SUFFICES ASSUME Init PROVE CommitLsnIsLocal /\ AckInv
  OBVIOUS
<1>2. CommitLsnIsLocal
  BY <1>1 DEF Init, CommitLsnIsLocal, FlushLsn, MaxOf
<1>3. AckInv
  BY <1>1 DEF Init, AckInv, Elected
<1>. QED  BY <1>2, <1>3

LEMMA NextCommit ==
  ConsensusInv /\ CommitLsnIsLocal /\ AckInv /\ [Next]_vars =>
     ConsensusInv' /\ CommitLsnIsLocal' /\ AckInv'
<1>1. SUFFICES ASSUME ConsensusInv, CommitLsnIsLocal, AckInv, [Next]_vars
               PROVE  ConsensusInv' /\ CommitLsnIsLocal' /\ AckInv'
  OBVIOUS
<1>2. ConsensusInv' /\ Effects
  BY <1>1, NextHistory, NextEffects
<1>3. TypeInv'
  BY <1>2 DEF ConsensusInv
<1>. QED  BY <1>1, <1>2, <1>3, NextCommitLocal, NextAck

LEMMA AlwaysCommit == Spec => [](ConsensusInv /\ CommitLsnIsLocal /\ AckInv)
<1>1. Init => ConsensusInv /\ CommitLsnIsLocal /\ AckInv
  BY InitCommit, InitType, InitElection, InitHistory DEF ConsensusInv
<1>. QED  BY <1>1, NextCommit, PTL DEF Spec

(***************************************************************************)
(* commit_lsn, in memory and in the control file, stays within the flushed *)
(* WAL, for any number of safekeepers and walproposers: handle_elected     *)
(* refuses to cut below it, update_commit_lsn to raise it above the WAL,   *)
(* and a crash never brings back a control file ahead of the WAL.          *)
(***************************************************************************)
THEOREM CommitWithinWal == Spec => []CommitLsnIsLocal
BY AlwaysCommit, PTL

(***************************************************************************)
(* The position that the compute treats as committed never goes back, for  *)
(* any number of safekeepers: acknowledgements outlive their connections,  *)
(* replies may be lost, and the same safekeeper, when it reconnects, has   *)
(* not lost what it has acknowledged since the start of the term.          *)
(***************************************************************************)
THEOREM CommitGoesForward == Spec => CommitNeverRegresses
<1>1. ConsensusInv /\ CommitLsnIsLocal /\ AckInv /\ [Next]_vars =>
         [\A p \in Proposers : QuorumAck(p)' >= QuorumAck(p)]_vars
  BY NextHistory, NextEffects, QuorumAckGrows
<1>. QED  BY <1>1, AlwaysCommit, PTL DEF Spec, CommitNeverRegresses

-----------------------------------------------------------------------------
(***************************************************************************)
(* What a step adds to the votes, messages and infos under way, and where  *)
(* a new leader comes from.                                                *)
(***************************************************************************)

\* A vote, or a late one that only starts streaming, that p may use.
SnapOf(p, s, u, given) ==
    \/ conn[p][s] = "idle" /\ u = vote[p][s] /\ given = TRUE
    \/ /\ rep[p][s].type = "vote" /\ rep[p][s].term <= propTerm[p]
       /\ u = [flush |-> rep[p][s].flush, th |-> rep[p][s].th] /\ given = rep[p][s].given

FreshVote(p, s, u, given) ==
    /\ SkKeeps(s) /\ flushed'[s] = WriteLsn(s)
    /\ u.flush = MaxOf(WriteLsn(s), tlStart[s]) /\ u.th = UpTo(th[s], u.flush)
    /\ term[s] <= propTerm[p] /\ term'[s] = propTerm[p] /\ propTerm'[p] = propTerm[p]
    /\ given => term[s] < propTerm[p]

VoteEffect ==
    \A p \in Proposers, s \in Safekeepers : \A u \in Votes, given \in BOOLEAN :
        SnapOf(p, s, u, given)' => SnapOf(p, s, u, given) \/ FreshVote(p, s, u, given)

StartMsg(p, s, m) ==
    \E u \in Votes, given \in BOOLEAN :
        /\ SnapOf(p, s, u, given)
        /\ m.start = StartStreamingAt(propTh'[p], propTerm[p], u.th, u.flush)

NewMsg(p, s, m) ==
    \/ m.type \in {"vote", "flush"}
    \/ m.type = "append" /\ Elected(p) /\ m.commit = QuorumAck(p)
    \/ m.type = "elected" /\ Elected(p)' /\ StartMsg(p, s, m)

NetEffect ==
    \A p \in Proposers, s \in Safekeepers, c \in Channels :
        \A i \in 1..Len(net'[p][s][c]) :
            OldMsg(p, s, net'[p][s][c][i]) \/ NewMsg(p, s, net'[p][s][c][i])

PubEffect ==
    \/ published' = published
    \/ \E s \in Safekeepers : published' = [epoch |-> Epoch(s), commit |-> commit[s]]

Chosen(p, Q, v, d) ==
    /\ IsQuorum(Q) /\ \A y \in Q : SnapOf(p, y, v[y], TRUE)
    /\ d \in MostAdvanced(v, Q) /\ propTh'[p] = NewHistory(p, v[d])

ElectEffect ==
    \A p \in Proposers : ~Elected(p) /\ Elected(p)' =>
        \E Q \in SUBSET Safekeepers, v \in [Safekeepers -> Votes] :
            \E d : UNCHANGED skVars /\ Chosen(p, Q, v, d)

Traffic == VoteEffect /\ NetEffect /\ PubEffect /\ ElectEffect

LEMMA KeepsNet ==
  ASSUME net \in NetType, net' \in NetType, NEW types, NetKeeps(types),
         types \subseteq {"vote", "flush"}
  PROVE  NetEffect
<1>1. ASSUME NEW p \in Proposers, NEW s \in Safekeepers, NEW c \in Channels,
             NEW i \in 1..Len(net'[p][s][c])
      PROVE  OldMsg(p, s, net'[p][s][c][i]) \/ NewMsg(p, s, net'[p][s][c][i])
  <2>1. net[p][s][c] \in Seq(Messages) /\ net'[p][s][c] \in Seq(Messages)
    BY DEF NetType
  <2>2. DOMAIN net'[p][s][c] = 1..Len(net'[p][s][c]) /\ DOMAIN net[p][s][c] = 1..Len(net[p][s][c])
    BY <2>1
  <2>3. \/ net'[p][s][c][i].type \in types
        \/ \E j \in 1..Len(net[p][s][c]) : net'[p][s][c][i] = net[p][s][c][j]
    BY <1>1, <2>2, SMTT(30) DEF NetKeeps
  <2>. QED  BY <2>3 DEF OldMsg, NewMsg
<1>. QED  BY <1>1 DEF NetEffect

LEMMA SameNet ==
  ASSUME net' = net
  PROVE  NetEffect
BY DEF NetEffect, OldMsg

\* Steps that neither bring a vote nor record one.
LEMMA SameVotes ==
  ASSUME ConsensusInv, \A p \in Proposers : LeaderKept(p),
         \A p \in Proposers, s \in Safekeepers :
            /\ conn'[p][s] = "idle" => conn[p][s] = "idle" /\ vote'[p][s] = vote[p][s]
            /\ rep'[p][s] = rep[p][s] \/ rep'[p][s].type # "vote"
  PROVE  VoteEffect
<1>1. ASSUME NEW p \in Proposers, NEW s \in Safekeepers, NEW u \in Votes, NEW given \in BOOLEAN,
             SnapOf(p, s, u, given)'
      PROVE  SnapOf(p, s, u, given)
  <2>1. CASE conn'[p][s] = "idle" /\ u = vote'[p][s] /\ given = TRUE
    BY <2>1 DEF SnapOf
  <2>2. CASE /\ rep'[p][s].type = "vote" /\ rep'[p][s].term <= propTerm'[p]
             /\ u = [flush |-> rep'[p][s].flush, th |-> rep'[p][s].th] /\ given = rep'[p][s].given
    <3>1. rep'[p][s] = rep[p][s]
      BY <2>2
    <3>2. propTerm'[p] = propTerm[p]
      BY <2>2, <3>1 DEF ConsensusInv, HistoryInv, SnapInv, ReplyOK, LeaderKept
    <3>. QED  BY <2>2, <3>1, <3>2 DEF SnapOf
  <2>. QED  BY <1>1, <2>1, <2>2 DEF SnapOf
<1>. QED  BY <1>1 DEF VoteEffect

LEMMA QuietTraffic ==
  ASSUME ConsensusInv, NetEffect, PubEffect, propTh' = propTh,
         \A p \in Proposers : LeaderKept(p),
         \A p \in Proposers, s \in Safekeepers :
            /\ conn'[p][s] = "idle" => conn[p][s] = "idle" /\ vote'[p][s] = vote[p][s]
            /\ rep'[p][s] = rep[p][s] \/ rep'[p][s].type # "vote"
  PROVE  Traffic
<1>1. ElectEffect
  BY DEF ElectEffect, Elected
<1>. QED  BY <1>1, SameVotes DEF Traffic

\* Steps of a safekeeper other than its vote.
LEMMA SafekeeperTraffic ==
  ASSUME ConsensusInv, ConsensusInv', UNCHANGED propVars, published' = published,
         NEW types, NetKeeps(types), types \subseteq {"vote", "flush"},
         \A p \in Proposers, s \in Safekeepers :
            rep'[p][s] = rep[p][s] \/ rep'[p][s].type # "vote"
  PROVE  Traffic
<1>1. net \in NetType /\ net' \in NetType
  BY DEF ConsensusInv, TypeInv, TypeOK, LinkTypeOK, NetType
<1>2. NetEffect /\ PubEffect
  BY <1>1, KeepsNet DEF PubEffect
<1>3. \A p \in Proposers : LeaderKept(p)
  BY DEF LeaderKept, propVars
<1>. QED  BY <1>2, <1>3, QuietTraffic DEF propVars

LEMMA HandleMessageTraffic ==
  ASSUME ConsensusInv, ConsensusInv', NEW p \in Proposers, NEW s \in Safekeepers, NEW c \in Channels,
         HandleElected(p, s, c) \/ HandleAppendRequest(p, s, c) \/ HandleFlush(p, s, c)
  PROVE  Traffic
<1>1. TypeInv /\ net \in NetType /\ link \in [Proposers -> [Safekeepers -> BOOLEAN]]
  BY DEF ConsensusInv, TypeInv, TypeOK, LinkTypeOK, NetType
<1>2. UNCHANGED propVars /\ published' = published
  BY DEF HandleElected, HandleAppendRequest, HandleFlush
<1>3. \A x \in Proposers, y \in Safekeepers : rep'[x][y] = rep[x][y] \/ rep'[x][y].type # "vote"
  <2>1. \/ UNCHANGED rep
        \/ \E r : Reply(p, s, c, r) /\ r.type # "vote"
    <3>1. CASE HandleElected(p, s, c)
      BY <3>1 DEF HandleElected
    <3>2. CASE HandleAppendRequest(p, s, c)
      <4>1. UNCHANGED rep \/ Reply(p, s, c, [type |-> "append", term |-> term[s], flush |-> 0])
        BY <3>2 DEF HandleAppendRequest
      <4>. QED  BY <4>1
    <3>3. CASE HandleFlush(p, s, c)
      <4>1. Reply(p, s, c, [type |-> "append", term |-> term[s],
                            flush |-> MaxOf(flushed'[s], tlStart[s])])
        BY <3>3 DEF HandleFlush
      <4>. QED  BY <4>1
    <3>. QED  BY <3>1, <3>2, <3>3
  <2>2. rep \in [Proposers -> [Safekeepers -> Replies]]
    BY DEF ConsensusInv, TypeInv, TypeOK, LinkTypeOK
  <2>. QED  BY <2>1, <2>2 DEF Reply
<1>4. NetKeeps({}) \/ NetKeeps({"flush"})
  <2>1. CASE Bail(p, s, c)
    BY <1>1, <2>1, BailKeeps
  <2>2. CASE Consume(p, s, c) /\ net[p][s][c] # << >>
    BY <1>1, <2>2, ConsumeKeeps
  <2>3. CASE /\ NextAppend(p, s, c) # << >>
             /\ net' = [net EXCEPT ![p][s][c] = <<[type |-> "flush"]>> \o Tail(NextAppend(p, s, c))]
    BY <1>1, <2>3, AppendProcessed
  <2>4. CASE HandleElected(p, s, c)
    <3>1. Bail(p, s, c) \/ (Consume(p, s, c) /\ net[p][s][c] # << >>)
      BY <2>4 DEF HandleElected, HeadIs
    <3>. QED  BY <2>1, <2>2, <3>1
  <2>5. CASE HandleFlush(p, s, c)
    BY <2>2, <2>5 DEF HandleFlush, HeadIs
  <2>6. CASE HandleAppendRequest(p, s, c)
    <3>1. \/ Bail(p, s, c)
          \/ /\ NextAppend(p, s, c) # << >>
             /\ net' = [net EXCEPT ![p][s][c] = <<[type |-> "flush"]>> \o Tail(NextAppend(p, s, c))]
      BY <2>6 DEF HandleAppendRequest
    <3>. QED  BY <2>1, <2>3, <3>1
  <2>. QED  BY <2>4, <2>5, <2>6
<1>. QED  BY <1>2, <1>3, <1>4, SafekeeperTraffic

LEMMA RestartTraffic ==
  ASSUME ConsensusInv, ConsensusInv', NEW s \in Safekeepers,
         \/ SafekeeperRestart(s)
         \/ \E p \in Proposers, c \in Channels : CrashInElected(p, s, c)
  PROVE  Traffic
<1>1. PICK w, saved, h : RestartWith(s, w, saved, h)
  BY DEF SafekeeperRestart, CrashInElected
<1>2. NetKeeps({}) /\ UNCHANGED propVars /\ published' = published /\ rep' = rep
  BY <1>1, RestartNet DEF RestartWith, ConsensusInv, TypeInv, TypeOK, LinkTypeOK, NetType
<1>. QED  BY <1>2, SafekeeperTraffic

LEMMA LsnStepTraffic ==
  ASSUME ConsensusInv, NEW s \in Safekeepers,
         PersistControlFile(s) \/ PublishInfo(s) \/ RecordSafekeeperInfo(s)
  PROVE  Traffic
<1>1. UNCHANGED propVars /\ UNCHANGED linkVars /\ PubEffect
  BY DEF PersistControlFile, PublishInfo, RecordSafekeeperInfo, PubEffect
<1>2. \A p \in Proposers : LeaderKept(p)
  BY <1>1 DEF LeaderKept, propVars
<1>3. NetEffect
  BY <1>1, SameNet DEF linkVars
<1>. QED  BY <1>1, <1>2, <1>3, QuietTraffic DEF propVars, linkVars

\* handle_vote_request.
LEMMA HandleVoteRequestTraffic ==
  ASSUME ConsensusInv, ConsensusInv', Effects, NEW p \in Proposers, NEW s \in Safekeepers,
         NEW c \in Channels, HandleVoteRequest(p, s, c)
  PROVE  Traffic
<1>1. /\ TypeInv /\ net \in NetType /\ net' \in NetType /\ UNCHANGED propVars
      /\ published' = published /\ net[p][s][c] # << >> /\ Consume(p, s, c)
  BY DEF HandleVoteRequest, HeadIs, ConsensusInv, TypeInv, TypeOK, LinkTypeOK, NetType
<1>2. NetKeeps({})
  BY <1>1, ConsumeKeeps
<1>3. NetEffect /\ PubEffect /\ ElectEffect
  BY <1>1, <1>2, KeepsNet DEF PubEffect, ElectEffect, Elected, propVars
<1>4. PICK r : /\ Reply(p, s, c, r) /\ r.type = "vote" /\ r.given = (term[s] < propTerm[p])
               /\ r.term = MaxOf(term[s], propTerm[p]) /\ r.flush = MaxOf(WriteLsn(s), tlStart[s])
               /\ r.th = UpTo(th[s], r.flush)
  BY DEF HandleVoteRequest, GivesVote, GetTermHistory
<1>5. /\ term \in [Safekeepers -> Nat] /\ flushed \in [Safekeepers -> Nat] /\ propTerm[p] \in Nat
      /\ rep \in [Proposers -> [Safekeepers -> Replies]]
      /\ flushed[s] <= WriteLsn(s) /\ WriteLsn(s) \in Nat
  BY <1>1, SafekeeperFacts DEF TypeInv, TypeOK, SafekeeperTypeOK, ProposerTypeOK, LinkTypeOK,
     SafekeeperInv
<1>6. /\ flushed'[s] = WriteLsn(s) /\ SkKeeps(s)
      /\ term'[s] = IF term[s] < propTerm[p] THEN propTerm[p] ELSE term[s]
  <2>1. /\ flushed'[s] = WriteLsn(s) /\ UNCHANGED <<th, tlStart, wal>>
        /\ term'[s] = IF term[s] < propTerm[p] THEN propTerm[p] ELSE term[s]
    BY <1>5 DEF HandleVoteRequest, GivesVote
  <2>. QED  BY <1>5, <2>1 DEF SkKeeps
<1>7. ASSUME NEW x \in Proposers, NEW y \in Safekeepers, NEW u \in Votes, NEW given \in BOOLEAN,
             SnapOf(x, y, u, given)'
      PROVE  SnapOf(x, y, u, given) \/ FreshVote(x, y, u, given)
  <2>1. UNCHANGED <<conn, vote, propTerm>>
    BY <1>1 DEF propVars
  <2>2. rep'[x][y] = rep[x][y] \/ (x = p /\ y = s /\ rep'[x][y] = r)
    BY <1>4, <1>5 DEF Reply
  <2>3. CASE rep'[x][y] = rep[x][y] \/ (conn'[x][y] = "idle" /\ u = vote'[x][y] /\ given = TRUE)
    BY <1>7, <2>1, <2>3 DEF SnapOf
  <2>4. CASE /\ x = p /\ y = s /\ r.term <= propTerm[p]
             /\ u = [flush |-> r.flush, th |-> r.th] /\ given = r.given
    <3>1. term[s] <= propTerm[p] /\ term'[s] = propTerm[p]
      <4>1. term[s] \in Nat /\ MaxOf(term[s], propTerm[p]) <= propTerm[p]
        BY <1>4, <1>5, <2>4
      <4>2. term[s] <= propTerm[p]
        BY <1>5, <4>1 DEF MaxOf
      <4>. QED  BY <1>5, <1>6, <4>1, <4>2
    <3>2. u.flush = MaxOf(WriteLsn(s), tlStart[s]) /\ u.th = UpTo(th[s], u.flush)
      BY <1>4, <2>4
    <3>3. given => term[s] < propTerm[p]
      BY <1>4, <2>4
    <3>. QED  BY <1>6, <2>1, <2>4, <3>1, <3>2, <3>3 DEF FreshVote
  <2>. QED  BY <1>7, <2>1, <2>2, <2>3, <2>4 DEF SnapOf
<1>. QED  BY <1>3, <1>7 DEF Traffic, VoteEffect

\* Proposers: a message in the next state is old or the one sent.
Sent(p, V, msg) ==
    \A x \in Proposers, y \in Safekeepers, c \in Channels :
        \A i \in DOMAIN net'[x][y][c] :
            \/ \E j \in DOMAIN net[x][y][c] : net'[x][y][c][i] = net[x][y][c][j]
            \/ x = p /\ y \in V /\ net'[x][y][c][i] = msg[y]

LEMMA SentNet ==
  ASSUME net \in NetType, net' \in NetType, NEW p \in Proposers, NEW V, NEW msg,
         Sent(p, V, msg), \A y \in Safekeepers : y \in V => NewMsg(p, y, msg[y])
  PROVE  NetEffect
<1>1. ASSUME NEW x \in Proposers, NEW y \in Safekeepers, NEW c \in Channels,
             NEW i \in 1..Len(net'[x][y][c])
      PROVE  OldMsg(x, y, net'[x][y][c][i]) \/ NewMsg(x, y, net'[x][y][c][i])
  <2>1. net[x][y][c] \in Seq(Messages) /\ net'[x][y][c] \in Seq(Messages)
    BY DEF NetType
  <2>2. DOMAIN net'[x][y][c] = 1..Len(net'[x][y][c]) /\ DOMAIN net[x][y][c] = 1..Len(net[x][y][c])
    BY <2>1
  <2>3. \/ \E j \in 1..Len(net[x][y][c]) : net'[x][y][c][i] = net[x][y][c][j]
        \/ x = p /\ y \in V /\ net'[x][y][c][i] = msg[y]
    <3>1. i \in DOMAIN net'[x][y][c]
      BY <1>1, <2>2
    <3>2. \/ \E j \in DOMAIN net[x][y][c] : net'[x][y][c][i] = net[x][y][c][j]
          \/ x = p /\ y \in V /\ net'[x][y][c][i] = msg[y]
      BY <3>1 DEF Sent
    <3>. QED  BY <2>2, <3>2
  <2>4. CASE \E j \in 1..Len(net[x][y][c]) : net'[x][y][c][i] = net[x][y][c][j]
    BY <2>4 DEF OldMsg
  <2>5. CASE x = p /\ y \in V /\ net'[x][y][c][i] = msg[y]
    BY <2>5
  <2>. QED  BY <2>3, <2>4, <2>5
<1>. QED  BY <1>1 DEF NetEffect

LEMMA GreetTraffic ==
  ASSUME ConsensusInv, ConsensusInv', NEW p \in Proposers, NEW s \in Safekeepers, Greet(p, s)
  PROVE  Traffic
<1> DEFINE voters == {v \in Safekeepers : conn[p][v] = "voting"} \union {s}
           opened == [link[p] EXCEPT ![s] = TRUE]
<1>1. /\ TypeInv /\ net \in NetType /\ net' \in NetType /\ propTh' = propTh /\ published' = published
      /\ conn \in [Proposers -> [Safekeepers -> ConnStates]]
  BY DEF Greet, ConsensusInv, TypeInv, TypeOK, LinkTypeOK, ProposerTypeOK, NetType
<1>2. \A x \in Proposers : LeaderKept(x)
  BY <1>1, GreetKeepsLeaders
<1>3. PubEffect
  BY <1>1 DEF PubEffect
<1>4. CASE Die(p) /\ UNCHANGED net
  <2>1. \A x \in Proposers, y \in Safekeepers :
           /\ conn'[x][y] = "idle" => conn[x][y] = "idle" /\ vote'[x][y] = vote[x][y]
           /\ rep'[x][y] = rep[x][y] \/ rep'[x][y].type # "vote"
    BY <1>1, <1>4, DieType DEF NoReply
  <2>. QED  BY <1>1, <1>2, <1>3, <1>4, <2>1, SameNet, QuietTraffic
<1>5. CASE conn' = [conn EXCEPT ![p][s] = "voting"] /\ UNCHANGED <<vote, net, rep>>
  BY <1>1, <1>2, <1>3, <1>5, SameNet, QuietTraffic
<1>6. CASE /\ UNCHANGED <<vote, rep>>
           /\ conn' = [conn EXCEPT ![p] = [v \in Safekeepers |->
                         IF v \in voters THEN "wait_verdict" ELSE conn[p][v]]]
           /\ net'  = [net EXCEPT ![p] = [v \in Safekeepers |->
                         IF v \in voters /\ opened[v]
                         THEN Queued(net[p][v], [type |-> "vote"]) ELSE net[p][v]]]
  <2> DEFINE V == {v \in Safekeepers : v \in voters /\ opened[v]}
             msg == [v \in Safekeepers |-> [type |-> "vote"]]
  <2>1. net' = SentTo(p, V, msg)
    BY <1>1, <1>6 DEF SentTo, NetType
  <2>2. \A v \in V : msg[v] \in Messages
    BY DEF Messages
  <2>3. \A y \in Safekeepers : y \in V => NewMsg(p, y, msg[y])
    BY DEF NewMsg
  <2>. HIDE DEF V, msg
  <2>4. NetEffect
    <3>1. Sent(p, V, msg)
      BY <1>1, <2>1, <2>2, SentMessages DEF Sent
    <3>. QED  BY <1>1, <2>3, <3>1, SentNet
  <2>5. \A x \in Proposers, y \in Safekeepers : conn'[x][y] = "idle" => conn[x][y] = "idle"
    BY <1>1, <1>6
  <2>. QED  BY <1>1, <1>2, <1>3, <1>6, <2>4, <2>5, QuietTraffic
<1>. QED  BY <1>4, <1>5, <1>6 DEF Greet

LEMMA OtherProposerTraffic ==
  ASSUME ConsensusInv, ConsensusInv', NEW p \in Proposers, NEW s \in Safekeepers,
         WalProposerBroadcast(p) \/ RecvAppendResponse(p, s)
  PROVE  Traffic
<1>1. /\ TypeInv /\ UNCHANGED <<net, propTh, propTerm, nConnected, published>>
      /\ rep \in [Proposers -> [Safekeepers -> Replies]]
  BY DEF WalProposerBroadcast, RecvAppendResponse, ConsensusInv, linkVars, TypeInv, TypeOK, LinkTypeOK
<1>2. \A x \in Proposers, y \in Safekeepers :
         /\ conn'[x][y] = "idle" => conn[x][y] = "idle" /\ vote'[x][y] = vote[x][y]
         /\ rep'[x][y] = rep[x][y] \/ rep'[x][y].type # "vote"
  <2>1. CASE Die(p)
    BY <1>1, <2>1, DieType DEF NoReply
  <2>2. CASE UNCHANGED <<conn, vote, rep>>
    BY <2>2
  <2>3. CASE rep' = [rep EXCEPT ![p][s] = NoReply] /\ UNCHANGED <<conn, vote>>
    BY <1>1, <2>3 DEF NoReply
  <2>. QED  BY <2>1, <2>2, <2>3 DEF WalProposerBroadcast, RecvAppendResponse, linkVars
<1>. QED  BY <1>1, <1>2, SameNet, SameTermKept, QuietTraffic DEF PubEffect

\* What was sent over the connection that is closed is old from then on.
LEMMA ShutdownConnectionTraffic ==
  ASSUME ConsensusInv, ConsensusInv', NEW p \in Proposers, NEW s \in Safekeepers,
         ShutdownConnection(p, s)
  PROVE  Traffic
<1>1. /\ TypeInv /\ UNCHANGED <<propTh, propTerm, nConnected, published>>
      /\ rep \in [Proposers -> [Safekeepers -> Replies]] /\ net \in NetType
      /\ conn \in [Proposers -> [Safekeepers -> ConnStates]]
      /\ vote \in [Proposers -> [Safekeepers -> Votes]]
  BY DEF ShutdownConnection, ConsensusInv, TypeInv, TypeOK, LinkTypeOK, ProposerTypeOK, NetType
<1>2. \A x \in Proposers, y \in Safekeepers :
         /\ conn'[x][y] = "idle" => conn[x][y] = "idle" /\ vote'[x][y] = vote[x][y]
         /\ rep'[x][y] = rep[x][y] \/ rep'[x][y].type # "vote"
  BY <1>1 DEF ShutdownConnection, NoReply
<1>3. NetEffect
  <2>1. net' = [net EXCEPT ![p][s] = [c \in Channels |->
                   IF c = "old" THEN net[p][s]["cur"] ELSE << >>]]
    BY DEF ShutdownConnection
  <2>2. ASSUME NEW x \in Proposers, NEW y \in Safekeepers, NEW c \in Channels,
               NEW i \in 1..Len(net'[x][y][c])
        PROVE  OldMsg(x, y, net'[x][y][c][i])
    <3>1. \/ net'[x][y][c] = net[x][y][c]
          \/ x = p /\ y = s /\ net'[x][y][c] = net[p][s]["cur"]
          \/ net'[x][y][c] = << >>
      BY <1>1, <2>1 DEF NetType
    <3>2. "cur" \in Channels
      BY DEF Channels
    <3>. QED  BY <2>2, <3>1, <3>2 DEF OldMsg
  <2>. QED  BY <2>2 DEF NetEffect
<1>. QED  BY <1>1, <1>2, <1>3, SameTermKept, QuietTraffic DEF PubEffect

\* AppendRequest carries the quorum position.
LEMMA SendAppendRequestTraffic ==
  ASSUME ConsensusInv, ConsensusInv', NEW p \in Proposers, NEW s \in Safekeepers,
         SendAppendRequest(p, s)
  PROVE  Traffic
<1>1. /\ TypeInv /\ UNCHANGED <<propTh, propTerm, nConnected, published, conn, vote, rep>>
      /\ net \in NetType /\ Elected(p)
  BY DEF SendAppendRequest, ConsensusInv, TypeInv, TypeOK, LinkTypeOK, ProposerTypeOK, NetType,
     ConnInv, ConnOK
<1>2. PICK e : net' = [net EXCEPT ![p][s]["cur"] =
                   Append(net[p][s]["cur"], [type |-> "append", begin |-> streamingAt[p][s],
                                             entries |-> e, commit |-> QuorumAck(p)])]
  BY DEF SendAppendRequest
<1>3. PICK m : /\ net' = [net EXCEPT ![p][s]["cur"] = Append(net[p][s]["cur"], m)]
               /\ m.type = "append" /\ m.commit = QuorumAck(p)
  <2>1. PICK m : m = [type |-> "append", begin |-> streamingAt[p][s],
                      entries |-> e, commit |-> QuorumAck(p)]
    OBVIOUS
  <2>2. m.type = "append" /\ m.commit = QuorumAck(p)
    BY <2>1
  <2>. QED  BY <1>2, <2>1, <2>2
<1>4. NetEffect
  <2>1. ASSUME NEW x \in Proposers, NEW y \in Safekeepers, NEW c \in Channels,
               NEW i \in 1..Len(net'[x][y][c])
        PROVE  OldMsg(x, y, net'[x][y][c][i]) \/ NewMsg(x, y, net'[x][y][c][i])
    <3>1. \/ net'[x][y][c] = net[x][y][c]
          \/ x = p /\ y = s /\ c = "cur" /\ net'[x][y][c] = Append(net[x][y][c], m)
      BY <1>1, <1>3 DEF NetType, Channels
    <3>2. CASE net'[x][y][c] = net[x][y][c]
      BY <2>1, <3>2 DEF OldMsg
    <3>3. CASE x = p /\ y = s /\ net'[x][y][c] = Append(net[x][y][c], m)
      <4>1. net[x][y][c] \in Seq(Messages)
        BY <1>1 DEF NetType
      <4>2. \/ i \in 1..Len(net[x][y][c]) /\ net'[x][y][c][i] = net[x][y][c][i]
            \/ net'[x][y][c][i] = m
        BY <2>1, <3>3, <4>1
      <4>. QED  BY <1>1, <1>3, <3>3, <4>2 DEF OldMsg, NewMsg
    <3>. QED  BY <3>1, <3>2, <3>3
  <2>. QED  BY <2>1 DEF NetEffect
<1>. QED  BY <1>1, <1>4, SameTermKept, QuietTraffic DEF PubEffect

\* ProposerElected messages start where the votes say.
LEMMA SendElectedTraffic ==
  ASSUME ConsensusInv, ConsensusInv', NEW p \in Proposers, NEW S \in SUBSET Safekeepers,
         NEW v \in [Safekeepers -> Votes], SendProposerElected(p, S, v, propTh'[p]), Elected(p)',
         UNCHANGED <<propTerm, nConnected>>, ElectEffect, PubEffect,
         \A x \in Proposers : LeaderKept(x),
         \A y \in S : \E given \in BOOLEAN : SnapOf(p, y, v[y], given)
  PROVE  Traffic
<1> DEFINE start == [y \in Safekeepers |-> StartStreamingAt(propTh'[p], propTerm[p], v[y].th, v[y].flush)]
           msg == [y \in Safekeepers |-> [type |-> "elected", start |-> start[y]]]
           V == {y \in S : link[p][y]}
<1>1. /\ TypeInv /\ net \in NetType /\ net' \in NetType
      /\ conn \in [Proposers -> [Safekeepers -> ConnStates]]
      /\ vote \in [Proposers -> [Safekeepers -> Votes]]
      /\ rep \in [Proposers -> [Safekeepers -> Replies]]
  BY DEF ConsensusInv, TypeInv, TypeOK, LinkTypeOK, ProposerTypeOK, NetType
<1>2. /\ conn' = [conn EXCEPT ![p] = [y \in Safekeepers |->
                     IF y \in S THEN "active" ELSE conn[p][y]]]
      /\ net'  = [net EXCEPT ![p] = [y \in Safekeepers |->
                     IF y \in S /\ link[p][y] THEN Queued(net[p][y], msg[y]) ELSE net[p][y]]]
      /\ vote' = [vote EXCEPT ![p] = [y \in Safekeepers |->
                     IF y \in S THEN NoVote ELSE vote[p][y]]]
      /\ rep'  = [rep EXCEPT ![p] = [y \in Safekeepers |->
                     IF y \in S THEN NoReply ELSE rep[p][y]]]
  BY DEF SendProposerElected
<1>3. \A x \in Proposers, y \in Safekeepers :
         /\ conn'[x][y] = "idle" => conn[x][y] = "idle" /\ vote'[x][y] = vote[x][y]
         /\ rep'[x][y] = rep[x][y] \/ rep'[x][y].type # "vote"
  BY <1>1, <1>2 DEF NoReply
<1>4. ASSUME NEW y \in V
      PROVE  msg[y].type = "elected" /\ StartMsg(p, y, msg[y])
  <2>1. y \in S /\ y \in Safekeepers
    BY <1>4
  <2>2. PICK given \in BOOLEAN : SnapOf(p, y, v[y], given)
    BY <2>1
  <2>3. msg[y].type = "elected" /\ msg[y].start = start[y]
    BY <2>1
  <2>. QED  BY <2>1, <2>2, <2>3 DEF StartMsg
<1>5. NetEffect
  <2>1. \A x \in Proposers, y \in Safekeepers :
           \/ net'[x][y] = net[x][y]
           \/ x = p /\ y \in V /\ net'[x][y] = Queued(net[x][y], msg[y])
    <3>. HIDE DEF msg
    <3>. QED  BY <1>1, <1>2 DEF NetType
  <2>2. \A y \in V : NewMsg(p, y, msg[y])
    BY <1>4 DEF NewMsg
  <2>. HIDE DEF msg, V
  <2>3. ASSUME NEW x \in Proposers, NEW y \in Safekeepers, NEW c \in Channels,
               NEW i \in 1..Len(net'[x][y][c])
        PROVE  OldMsg(x, y, net'[x][y][c][i]) \/ NewMsg(x, y, net'[x][y][c][i])
    <3>1. CASE net'[x][y] = net[x][y]
      BY <2>3, <3>1 DEF OldMsg
    <3>2. CASE x = p /\ y \in V /\ net'[x][y] = Queued(net[x][y], msg[y])
      <4>1. net[x][y] \in [Channels -> Seq(Messages)] /\ net[x][y][c] \in Seq(Messages)
        BY <1>1 DEF NetType
      <4>2. net'[x][y][c] = net[x][y][c] \/ net'[x][y][c] = Append(net[x][y][c], msg[y])
        BY <3>2, <4>1 DEF Queued, Channels
      <4>3. \/ i \in 1..Len(net[x][y][c]) /\ net'[x][y][c][i] = net[x][y][c][i]
            \/ net'[x][y][c][i] = msg[y]
        BY <2>3, <4>1, <4>2
      <4>. QED  BY <2>2, <3>2, <4>3 DEF OldMsg
    <3>. QED  BY <2>1, <3>1, <3>2
  <2>. QED  BY <2>3 DEF NetEffect
<1>6. VoteEffect
  BY <1>3, SameVotes
<1>. QED  BY <1>5, <1>6 DEF Traffic

\* RecvVoteResponse: votes that have been given make a leader.
LEMMA RecvVoteResponseTraffic ==
  ASSUME ConsensusInv, ConsensusInv', NEW p \in Proposers, NEW s \in Safekeepers,
         RecvVoteResponse(p, s)
  PROVE  Traffic
<1> DEFINE r == rep[p][s]
           n == nVotes[p] + 1
           w == [flush |-> r.flush, th |-> r.th]
           v == [vote[p] EXCEPT ![s] = w]
           ready == {i \in Safekeepers : conn[p][i] = "idle"} \union {s}
           refused == ~r.given /\ (r.term > propTerm[p] \/ nVotes[p] < QuorumSize)
<1>1. /\ UNCHANGED skVars /\ UNCHANGED <<propTerm, nConnected, published>>
      /\ r.type = "vote" /\ TypeInv
  BY DEF RecvVoteResponse, ConsensusInv
<1>2. /\ r.given \in BOOLEAN /\ r.term \in Nat /\ w \in Votes
      /\ nVotes[p] \in Nat /\ QuorumSize \in Nat /\ propTerm[p] \in Nat
      /\ vote \in [Proposers -> [Safekeepers -> Votes]]
      /\ propTh \in [Proposers -> Seq(TermLsn)]
  <2>1. /\ nVotes[p] \in Nat /\ QuorumSize \in Nat /\ propTerm[p] \in Nat
        /\ vote \in [Proposers -> [Safekeepers -> Votes]] /\ r \in Replies
        /\ propTh \in [Proposers -> Seq(TermLsn)]
    BY <1>1, QuorumSizeType DEF TypeInv, TypeOK, ProposerTypeOK, LinkTypeOK
  <2>. QED  BY <1>1, <2>1, VoteReplyType
<1>3. v \in [Safekeepers -> Votes] /\ v[s] = w /\ \A y \in Safekeepers : y # s => v[y] = vote[p][y]
  BY <1>2
<1>4. ~refused => SnapOf(p, s, w, r.given)
  <2>1. ReplyOK(p, s, r)
    BY DEF ConsensusInv, HistoryInv, SnapInv
  <2>2. ~refused => r.term <= propTerm[p]
    BY <1>1, <1>2, <2>1 DEF ReplyOK
  <2>. QED  BY <1>1, <2>2 DEF SnapOf
<1>5. ~refused /\ n <= QuorumSize => r.given = TRUE
  BY <1>2
<1>6. PubEffect /\ \A x \in Proposers : LeaderKept(x)
  <2>1. Effects
    BY RecvVoteResponseEffects
  <2>. QED  BY <1>1, <2>1 DEF PubEffect, Effects
<1>. HIDE DEF r, v, w
<1>7. CASE Die(p) /\ UNCHANGED <<propTh, net>>
  <2>1. \A x \in Proposers, y \in Safekeepers :
           /\ conn'[x][y] = "idle" => conn[x][y] = "idle" /\ vote'[x][y] = vote[x][y]
           /\ rep'[x][y] = rep[x][y] \/ rep'[x][y].type # "vote"
    BY <1>1, <1>7, DieType DEF NoReply
  <2>. QED  BY <1>6, <1>7, <2>1, SameNet, QuietTraffic
<1>8. CASE /\ ~refused /\ n < QuorumSize
           /\ conn' = [conn EXCEPT ![p][s] = "idle"]
           /\ vote' = [vote EXCEPT ![p] = v]
           /\ rep'  = [rep EXCEPT ![p][s] = NoReply]
           /\ UNCHANGED <<propTh, net>>
  <2>1. /\ conn \in [Proposers -> [Safekeepers -> ConnStates]]
        /\ rep \in [Proposers -> [Safekeepers -> Replies]]
    BY <1>1 DEF TypeInv, TypeOK, ProposerTypeOK, LinkTypeOK
  <2>2. /\ conn'[p][s] = "idle" /\ vote'[p][s] = w /\ rep'[p][s] = NoReply
        /\ \A x \in Proposers, y \in Safekeepers : x # p \/ y # s =>
              conn'[x][y] = conn[x][y] /\ vote'[x][y] = vote[x][y] /\ rep'[x][y] = rep[x][y]
    BY <1>2, <1>3, <1>8, <2>1
  <2>3. ASSUME NEW x \in Proposers, NEW y \in Safekeepers, NEW u \in Votes, NEW given \in BOOLEAN,
               SnapOf(x, y, u, given)'
        PROVE  SnapOf(x, y, u, given)
    <3>1. CASE x = p /\ y = s
      <4>1. u = w /\ given = TRUE
        BY <2>2, <2>3, <3>1 DEF SnapOf, NoReply
      <4>2. r.given = TRUE
        BY <1>2, <1>5, <1>8
      <4>3. SnapOf(p, s, w, r.given)
        BY <1>4, <1>8
      <4>. QED  BY <3>1, <4>1, <4>2, <4>3
    <3>2. CASE x # p \/ y # s
      BY <1>1, <2>2, <2>3, <3>2 DEF SnapOf
    <3>. QED  BY <3>1, <3>2
  <2>4. ElectEffect /\ NetEffect
    BY <1>8, SameNet DEF ElectEffect, Elected
  <2>. QED  BY <1>6, <2>3, <2>4 DEF Traffic, VoteEffect
<1>9. CASE /\ ~refused /\ n > QuorumSize
           /\ SendProposerElected(p, {s}, v, propTh[p])
           /\ UNCHANGED propTh
  <2>1. Elected(p) /\ Elected(p)' /\ ElectEffect /\ {s} \in SUBSET Safekeepers
    BY <1>1, <1>2, <1>9 DEF TypeInv, ProposerInv, Elected, ElectEffect
  <2>2. \A y \in {s} : \E given \in BOOLEAN : SnapOf(p, y, v[y], given)
    BY <1>2, <1>3, <1>4, <1>9
  <2>3. SendProposerElected(p, {s}, v, propTh'[p])
    BY <1>9
  <2>. QED  BY <1>1, <1>3, <1>6, <2>1, <2>2, <2>3, SendElectedTraffic
<1>10. CASE /\ ~refused /\ n = QuorumSize /\ IsQuorum(ready)
            /\ \E d \in MostAdvanced(v, ready) :
                  /\ propTh' = [propTh EXCEPT ![p] = NewHistory(p, v[d])]
                  /\ SendProposerElected(p, ready, v, NewHistory(p, v[d]))
  <2>1. ready \in SUBSET Safekeepers
    OBVIOUS
  <2>2. ASSUME NEW y \in ready PROVE SnapOf(p, y, v[y], TRUE)
    <3>1. CASE y = s
      <4>1. r.given = TRUE
        BY <1>2, <1>5, <1>10
      <4>2. SnapOf(p, s, w, r.given)
        BY <1>4, <1>10
      <4>. QED  BY <1>3, <3>1, <4>1, <4>2
    <3>2. CASE y # s
      BY <1>3, <2>2, <3>2 DEF SnapOf
    <3>. QED  BY <3>1, <3>2
  <2>. HIDE DEF ready
  <2>3. PICK d \in MostAdvanced(v, ready) :
           /\ propTh' = [propTh EXCEPT ![p] = NewHistory(p, v[d])]
           /\ SendProposerElected(p, ready, v, NewHistory(p, v[d]))
    BY <1>10
  <2>4. propTh'[p] = NewHistory(p, v[d]) /\ \A x \in Proposers : x # p => propTh'[x] = propTh[x]
    BY <1>2, <2>3
  <2>5. Elected(p)'
    <3>1. v[d].th \in Seq(TermLsn)
      BY <1>3, <2>1 DEF MostAdvanced, Votes
    <3>. QED  BY <2>4, <3>1 DEF Elected, NewHistory
  <2>6. Chosen(p, ready, v, d)
    BY <1>10, <2>2, <2>3, <2>4 DEF Chosen
  <2>7. ElectEffect
    BY <1>1, <1>3, <2>1, <2>4, <2>6 DEF ElectEffect, Elected
  <2>8. SendProposerElected(p, ready, v, propTh'[p])
    BY <2>3, <2>4
  <2>9. \A y \in ready : \E given \in BOOLEAN : SnapOf(p, y, v[y], given)
    BY <2>2
  <2>. QED  BY <1>1, <1>3, <1>6, <2>1, <2>5, <2>7, <2>8, <2>9, SendElectedTraffic
<1>. QED  BY <1>7, <1>8, <1>9, <1>10 DEF RecvVoteResponse, r, v, w

LEMMA NextTraffic == ConsensusInv /\ ConsensusInv' /\ [Next]_vars => Traffic
<1>1. SUFFICES ASSUME ConsensusInv, ConsensusInv', [Next]_vars PROVE Traffic
  OBVIOUS
<1>2. CASE UNCHANGED vars
  <2>1. UNCHANGED <<propTerm, nConnected, propTh, conn, vote, rep, net, published>>
    BY <1>2 DEF vars, propVars, linkVars
  <2>. QED  BY <1>1, <2>1, SameNet, SameTermKept, QuietTraffic DEF PubEffect
<1>3. ASSUME NEW p \in Proposers, NEW s \in Safekeepers, SafekeeperStep(p, s)
      PROVE  Traffic
  BY <1>1, <1>3, HandleVoteRequestTraffic, HandleMessageTraffic, RestartTraffic, NextEffects
     DEF SafekeeperStep
<1>4. ASSUME NEW p \in Proposers, NEW s \in Safekeepers, ProposerStep(p, s)
      PROVE  Traffic
  BY <1>1, <1>4, GreetTraffic, RecvVoteResponseTraffic, OtherProposerTraffic,
     SendAppendRequestTraffic, ShutdownConnectionTraffic DEF ProposerStep
<1>5. ASSUME NEW p \in Proposers, WalProposerBroadcast(p) PROVE Traffic
  BY <1>1, <1>5, OtherProposerTraffic, SafekeepersAssumption
<1>6. ASSUME NEW s \in Safekeepers,
             \/ PersistControlFile(s) \/ SafekeeperRestart(s)
             \/ PublishInfo(s) \/ RecordSafekeeperInfo(s)
      PROVE  Traffic
  BY <1>1, <1>6, RestartTraffic, LsnStepTraffic
<1>. QED  BY <1>1, <1>2, <1>3, <1>4, <1>5, <1>6 DEF Next

-----------------------------------------------------------------------------
(***************************************************************************)
(* commit_lsn is committed.  A leader does not send more than its quorum   *)
(* has, and what a safekeeper publishes is committed WAL of the leader of  *)
(* the epoch it names.                                                     *)
(***************************************************************************)
AppendOK(p, m) == m.type = "append" => m.commit <= QuorumAck(p)

CommitMsgInv ==
    \A p \in Proposers, s \in Safekeepers, c \in Channels :
        \A i \in 1..Len(net[p][s][c]) : AppendOK(p, net[p][s][c][i])

InfoOK(e, c) ==
    \E r, p \in Proposers :
        /\ Elected(r) /\ propTerm[r] = e /\ QuorumAck(p) >= c
        /\ \A l \in StartLsn..(c - 1) : TermOfRecord(propTh[r], l) = TermOfRecord(propTh[p], l)

InfoInv == published.commit > StartLsn => InfoOK(published.epoch, published.commit)

CommittedAt(s, c) ==
    \E p \in Proposers :
        /\ QuorumAck(p) >= c
        /\ WriteLsn(s) >= c
        /\ \A l \in StartLsn..(c - 1) : RecordAt(s, l) = TermOfRecord(propTh[p], l)

LEMMA QuorumAckElected ==
  ASSUME TypeInv, NEW p \in Proposers, QuorumAck(p) > 0
  PROVE  Elected(p)
<1> DEFINE A == {s \in Safekeepers : CountedAck(p, s) >= 1}
<1>1. 1 \in 1..QuorumAck(p)
  BY QuorumAckType
<1>2. IsQuorum(A) /\ A \in SUBSET Safekeepers
  BY <1>1, QuorumAckFacts
<1>3. PICK s \in Safekeepers : s \in A
  <2>. HIDE DEF A
  <2>. QED  BY <1>2, QuorumsMeet
<1>. QED  BY <1>3 DEF CountedAck

LEMMA NextQuorumAckType ==
  ASSUME NEW p
  PROVE  QuorumAck(p)' \in Nat
<1> DEFINE T == {l \in 1..MaxLsn : IsQuorum({y \in Safekeepers : CountedAck(p, y)' >= l})}
<1>1. T \in SUBSET (1..MaxLsn) /\ MaxLsn \in Nat
  BY BoundsAssumption
<1>2. QuorumAck(p)' = Cardinality(T)
  BY DEF QuorumAck
<1>. HIDE DEF T
<1>. QED  BY <1>1, <1>2, CountUpTo

LEMMA NextCommitMsg ==
  ASSUME ConsensusInv, ConsensusInv', Effects, Traffic, AckInv, CommitMsgInv
  PROVE  CommitMsgInv'
<1>1. ASSUME NEW p \in Proposers, NEW s \in Safekeepers, NEW c \in Channels,
             NEW i \in 1..Len(net'[p][s][c]), net'[p][s][c][i].type = "append"
      PROVE  net'[p][s][c][i].commit <= QuorumAck(p)'
  <2>1. PICK m : m = net'[p][s][c][i]
    OBVIOUS
  <2>2. QuorumAck(p) \in Nat /\ QuorumAck(p)' \in Nat /\ QuorumAck(p)' >= QuorumAck(p)
    BY QuorumAckType, NextQuorumAckType, QuorumAckGrows
  <2>3. CASE OldMsg(p, s, m)
    <3>1. m.commit \in Nat
      BY <1>1, <2>1, <2>3, OldMsgOK
    <3>2. m.commit <= QuorumAck(p)
      BY <1>1, <2>1, <2>3 DEF OldMsg, CommitMsgInv, AppendOK
    <3>. QED  BY <2>1, <2>2, <3>1, <3>2
  <2>4. CASE NewMsg(p, s, m)
    BY <1>1, <2>1, <2>2, <2>4 DEF NewMsg
  <2>. QED  BY <1>1, <2>1, <2>3, <2>4 DEF Traffic, NetEffect
<1>. QED  BY <1>1 DEF CommitMsgInv, AppendOK

LEMMA NextInfoStays ==
  ASSUME ConsensusInv, ConsensusInv', Effects, AckInv, NEW e, NEW c \in Nat, c > StartLsn,
         InfoOK(e, c)
  PROVE  InfoOK(e, c)'
<1>1. PICK r \in Proposers, p \in Proposers :
         /\ Elected(r) /\ propTerm[r] = e /\ QuorumAck(p) >= c
         /\ \A l \in StartLsn..(c - 1) : TermOfRecord(propTh[r], l) = TermOfRecord(propTh[p], l)
  BY DEF InfoOK
<1>2. QuorumAck(p) \in Nat /\ QuorumAck(p) > 0
  BY <1>1, QuorumAckType DEF StartLsn
<1>3. Elected(p)
  BY <1>2, QuorumAckElected DEF ConsensusInv
<1>4. /\ Elected(r)' /\ propTh'[r] = propTh[r] /\ propTerm'[r] = propTerm[r]
      /\ propTh'[p] = propTh[p]
  BY <1>1, <1>3, EffectsProgress
<1>5. QuorumAck(p)' >= c
  BY <1>1, <1>2, QuorumAckGrows, NextQuorumAckType
<1>. QED  BY <1>1, <1>4, <1>5 DEF InfoOK

\* The WAL of a safekeeper is that of the leader of its epoch.
LEMMA LeaderOfEpoch ==
  ASSUME ConsensusInv, NEW s \in Safekeepers, tlStart[s] # 0
  PROVE  \E r \in Proposers :
            /\ Elected(r) /\ propTerm[r] = Epoch(s)
            /\ \A l \in 0..FlushLsn(s) : TermOfRecord(propTh[r], l) = TermOfRecord(th[s], l)
<1>1. /\ th[s] \in Seq(TermLsn) /\ th[s] # << >> /\ th[s][1].lsn = StartLsn
      /\ tlStart[s] = StartLsn /\ flushed[s] \in Nat
  BY SkTypes DEF ConsensusInv, TypeInv, SafekeeperInv
<1>2. PICK f \in Nat : f = FlushLsn(s) /\ f >= StartLsn
  BY <1>1 DEF FlushLsn, MaxOf, StartLsn
<1>3. PICK u : u = UpTo(th[s], f)
  OBVIOUS
<1>4. u \in Seq(TermLsn) /\ u # << >> /\ PrefixIn(u, Leaders)
  <2>1. PrefixIn(th[s], Leaders)
    BY DEF ConsensusInv, HistoryInv, WalInv, WalOK
  <2>. QED  BY <1>1, <1>2, <1>3, <2>1, UpToType, UpToPrefix
<1>5. u \in Leaders
  <2>1. Len(u) \in 1..Len(u) /\ SubSeq(u, 1, Len(u)) = u
    BY <1>4
  <2>. QED  BY <1>4, <2>1 DEF PrefixIn
<1>6. PICK r \in Proposers : Elected(r) /\ propTh[r] = u
  BY <1>5 DEF Leaders
<1>7. Epoch(s) = u[Len(u)].term
  BY <1>2, <1>3, <1>4 DEF Epoch, EpochAt, HighestTerm
<1>8. propTerm[r] = Epoch(s)
  BY <1>6, <1>7 DEF ConsensusInv, TypeInv, ProposerInv
<1>9. \A l \in 0..f : TermOfRecord(u, l) = TermOfRecord(th[s], l)
  BY <1>1, <1>2, <1>3, UpToAgrees
<1>. QED  BY <1>2, <1>6, <1>8, <1>9

LEMMA WalRecords ==
  ASSUME ConsensusInv, NEW s \in Safekeepers, NEW l \in Nat, StartLsn <= l,
         l < StartLsn + Len(wal[s])
  PROVE  RecordAt(s, l) = TermOfRecord(th[s], l)
<1>1. Agrees(wal[s], th[s]) /\ Len(wal[s]) \in Nat
  BY SafekeeperFacts DEF ConsensusInv, HistoryInv, WalInv, WalOK
<1>2. PICK i \in 1..Len(wal[s]) : i = l - StartLsn + 1 /\ StartLsn + i - 1 = l
  BY <1>1 DEF StartLsn
<1>. QED  BY <1>1, <1>2 DEF Agrees, RecordAt

LEMMA NextInfo ==
  ASSUME ConsensusInv, ConsensusInv', Effects, Traffic, AckInv, CommitLsnIsLocal,
         CommitLsnIsCommitted, InfoInv
  PROVE  InfoInv'
<1>1. CASE published' = published
  <2>1. published.commit \in Nat
    BY DEF ConsensusInv, TypeInv, TypeOK
  <2>2. SUFFICES ASSUME published.commit > StartLsn
                 PROVE  InfoOK(published.epoch, published.commit)'
    BY <1>1 DEF InfoInv
  <2>3. PICK e, c : e = published.epoch /\ c = published.commit
    OBVIOUS
  <2>4. InfoOK(e, c)'
    BY <2>1, <2>2, <2>3, NextInfoStays DEF InfoInv
  <2>. QED  BY <1>1, <2>3, <2>4
<1>2. ASSUME NEW s \in Safekeepers, published' = [epoch |-> Epoch(s), commit |-> commit[s]]
      PROVE  InfoInv'
  <2>1. PICK e, c : e = Epoch(s) /\ c = commit[s]
    OBVIOUS
  <2>2. published'.epoch = e /\ published'.commit = c
    BY <1>2, <2>1
  <2>. c \in Nat
    BY <2>1, SkTypes DEF ConsensusInv
  <2>3. SUFFICES ASSUME c > StartLsn PROVE InfoOK(e, c)
    BY <2>2, NextInfoStays DEF InfoInv
  <2>4. PICK p \in Proposers :
           /\ QuorumAck(p) >= c
           /\ WriteLsn(s) >= c
           /\ \A l \in StartLsn..(c - 1) : RecordAt(s, l) = TermOfRecord(propTh[p], l)
    BY <2>1, <2>3 DEF CommitLsnIsCommitted
  <2>5. PICK f \in Nat : f = FlushLsn(s) /\ c <= f
    BY <2>1, SafekeeperFacts DEF CommitLsnIsLocal, ConsensusInv
  <2>6. tlStart[s] # 0 /\ WriteLsn(s) = StartLsn + Len(wal[s]) /\ Len(wal[s]) \in Nat
    BY <2>3, <2>4, SafekeeperFacts DEF ConsensusInv, StartLsn
  <2>7. PICK r \in Proposers :
           /\ Elected(r) /\ propTerm[r] = e
           /\ \A l \in 0..f : TermOfRecord(propTh[r], l) = TermOfRecord(th[s], l)
    BY <2>1, <2>5, <2>6, LeaderOfEpoch
  <2>8. ASSUME NEW l \in StartLsn..(c - 1)
        PROVE  TermOfRecord(propTh[r], l) = TermOfRecord(propTh[p], l)
    <3>1. RecordAt(s, l) = TermOfRecord(th[s], l)
      <4>1. l \in Nat /\ StartLsn <= l /\ l < StartLsn + Len(wal[s])
        BY <2>4, <2>6, <2>8 DEF StartLsn
      <4>. QED  BY <4>1, WalRecords
    <3>2. l \in 0..f
      BY <2>5, <2>8 DEF StartLsn
    <3>. QED  BY <2>4, <2>7, <2>8, <3>1, <3>2
  <2>. QED  BY <2>4, <2>7, <2>8 DEF InfoOK
<1>. QED  BY <1>1, <1>2 DEF Traffic, PubEffect

\* WAL up to c is flushed and stays what it is.
KeptTo(s, c) ==
    /\ flushed'[s] >= c
    /\ \A i \in 1..Len(wal[s]) : StartLsn + i <= c =>
          i \in 1..Len(wal'[s]) /\ wal'[s][i] = wal[s][i]

LEMMA KeepsTo ==
  ASSUME ConsensusInv, ConsensusInv', NEW s \in Safekeepers, SkKeeps(s), NEW c \in Nat,
         c > StartLsn, c <= FlushLsn(s)
  PROVE  KeptTo(s, c) /\ c <= flushed[s]
<1>1. /\ flushed[s] \in Nat /\ flushed'[s] \in Nat /\ tlStart[s] \in {0, StartLsn}
      /\ Len(wal[s]) \in Nat
  BY SkTypes, SkNextTypes, SafekeeperFacts DEF ConsensusInv
<1>2. c <= flushed[s]
  BY <1>1 DEF FlushLsn, MaxOf, StartLsn
<1>. QED  BY <1>1, <1>2 DEF SkKeeps, KeptTo, StartLsn

LEMMA KeptBelowCommit ==
  ASSUME ConsensusInv, ConsensusInv', Effects, CommitLsnIsLocal, NEW s \in Safekeepers,
         NEW c \in Nat, c > StartLsn, c <= commit[s]
  PROVE  KeptTo(s, c)
<1>1. commit[s] \in Nat /\ commit[s] <= FlushLsn(s) /\ FlushLsn(s) \in Nat /\ Len(wal[s]) \in Nat
  BY SkTypes, SafekeeperFacts DEF ConsensusInv, CommitLsnIsLocal
<1>2. CASE SkKeeps(s)
  BY <1>1, <1>2, KeepsTo
<1>3. ASSUME NEW p \in Proposers, NEW m, OldMsg(p, s, m), SkCuts(s, p, m)
      PROVE  KeptTo(s, c)
  <2>1. m.start \in Nat /\ m.start >= commit[s] /\ flushed'[s] = m.start
    BY <1>3, OldMsgOK DEF SkCuts
  <2>. QED  BY <1>1, <1>3, <2>1 DEF SkCuts, KeptTo, StartLsn
<1>. QED  BY <1>2, <1>3 DEF Effects, SkStep

LEMMA CommittedStays ==
  ASSUME ConsensusInv, ConsensusInv', Effects, AckInv, NEW s \in Safekeepers,
         NEW c \in Nat, c > StartLsn, KeptTo(s, c), CommittedAt(s, c)
  PROVE  CommittedAt(s, c)'
<1>1. PICK p \in Proposers :
         /\ QuorumAck(p) >= c
         /\ WriteLsn(s) >= c
         /\ \A l \in StartLsn..(c - 1) : RecordAt(s, l) = TermOfRecord(propTh[p], l)
  BY DEF CommittedAt
<1>2. QuorumAck(p) \in Nat /\ QuorumAck(p) > 0
  BY <1>1, QuorumAckType DEF StartLsn
<1>3. propTh'[p] = propTh[p]
  BY <1>2, QuorumAckElected, EffectsProgress DEF ConsensusInv
<1>4. QuorumAck(p)' >= c
  BY <1>1, <1>2, QuorumAckGrows, NextQuorumAckType
<1>5. tlStart[s] # 0 /\ WriteLsn(s) = StartLsn + Len(wal[s]) /\ Len(wal[s]) \in Nat
  BY <1>1, SafekeeperFacts DEF ConsensusInv, StartLsn
<1>6. ASSUME NEW l \in StartLsn..(c - 1)
      PROVE  RecordAt(s, l)' = TermOfRecord(propTh'[p], l)
  <2>1. l - StartLsn + 1 \in 1..Len(wal[s]) /\ StartLsn + (l - StartLsn + 1) <= c
    BY <1>1, <1>5, <1>6 DEF StartLsn
  <2>2. wal'[s][l - StartLsn + 1] = wal[s][l - StartLsn + 1]
    BY <2>1 DEF KeptTo
  <2>. QED  BY <1>1, <1>3, <1>6, <2>2 DEF RecordAt
<1>7. WriteLsn(s)' >= c
  <2>1. /\ flushed'[s] <= WriteLsn(s)' /\ flushed'[s] \in Nat /\ wal'[s] \in Seq(Nat)
    BY SkNextTypes DEF ConsensusInv, TypeInv, SafekeeperInv
  <2>2. WriteLsn(s)' \in Nat
    BY <2>1 DEF WriteLsn, StartLsn
  <2>. QED  BY <2>1, <2>2 DEF KeptTo
<1>. QED  BY <1>4, <1>6, <1>7 DEF CommittedAt

\* update_commit_lsn: the part of a committed WAL that is local.
LEMMA LearnsCommitted ==
  ASSUME ConsensusInv, ConsensusInv', Effects, AckInv, CommitLsnIsLocal, CommitLsnIsCommitted,
         NEW s \in Safekeepers, NEW l \in Nat, Learns(s, l), commit'[s] > StartLsn,
         NEW p \in Proposers, l > StartLsn => QuorumAck(p) >= l,
         \A x \in StartLsn..(MinOf(l, FlushLsn(s)) - 1) :
            TermOfRecord(th[s], x) = TermOfRecord(propTh[p], x)
  PROVE  CommittedAt(s, commit[s])'
<1>1. PICK c \in Nat : c = commit'[s]
  BY SkNextTypes DEF ConsensusInv
<1>2. PICK f \in Nat : f = FlushLsn(s)
  BY SafekeeperFacts DEF ConsensusInv
<1>3. c = MinOf(MaxOf(l, commit[s]), f) /\ SkKeeps(s)
  BY <1>1, <1>2 DEF Learns, NewCommitLsn
<1>4. commit[s] \in Nat /\ commit[s] <= f
  BY <1>2, SkTypes DEF ConsensusInv, CommitLsnIsLocal
<1>5. c <= f /\ (c = commit[s] \/ c <= l) /\ c <= MaxOf(l, commit[s])
  BY <1>3, <1>4 DEF MinOf, MaxOf
<1>6. KeptTo(s, c) /\ c <= flushed[s]
  BY <1>1, <1>2, <1>3, <1>5, KeepsTo
<1>7. CommittedAt(s, c)
  <2>1. CASE c = commit[s]
    BY <1>1, <2>1 DEF CommitLsnIsCommitted, CommittedAt
  <2>2. CASE c <= l
    <3>1. c <= MinOf(l, f)
      BY <1>5, <2>2 DEF MinOf
    <3>2. QuorumAck(p) >= c
      BY <1>1, <2>2, QuorumAckType DEF StartLsn
    <3>3. /\ flushed[s] <= WriteLsn(s) /\ flushed[s] \in Nat /\ WriteLsn(s) \in Nat
          /\ (tlStart[s] = 0 => flushed[s] = 0) /\ Len(wal[s]) \in Nat
          /\ (tlStart[s] # 0 => WriteLsn(s) = StartLsn + Len(wal[s]))
      BY SafekeeperFacts, SkTypes DEF ConsensusInv, TypeInv, SafekeeperInv
    <3>4. WriteLsn(s) >= c /\ c <= StartLsn + Len(wal[s])
      BY <1>1, <1>6, <3>3 DEF StartLsn
    <3>5. ASSUME NEW x \in StartLsn..(c - 1)
          PROVE  RecordAt(s, x) = TermOfRecord(propTh[p], x)
      <4>1. x \in Nat /\ StartLsn <= x /\ x < StartLsn + Len(wal[s])
        BY <3>3, <3>4, <3>5 DEF StartLsn
      <4>2. x \in StartLsn..(MinOf(l, f) - 1)
        BY <1>2, <3>1, <3>5 DEF MinOf, StartLsn
      <4>. QED  BY <1>2, <4>1, <4>2, WalRecords
    <3>. QED  BY <3>2, <3>4, <3>5 DEF CommittedAt
  <2>. QED  BY <1>5, <2>1, <2>2
<1>8. CommittedAt(s, c)'
  BY <1>1, <1>6, <1>7, CommittedStays
<1>. QED  BY <1>1, <1>8 DEF CommittedAt

LEMMA NextCommitted ==
  ASSUME ConsensusInv, ConsensusInv', Effects, AckInv, CommitLsnIsLocal, CommitMsgInv, InfoInv,
         CommitLsnIsCommitted
  PROVE  CommitLsnIsCommitted'
<1>1. SUFFICES ASSUME NEW s \in Safekeepers, commit'[s] > StartLsn
               PROVE  CommittedAt(s, commit[s])'
  BY DEF CommitLsnIsCommitted, CommittedAt
<1>2. PICK c \in Nat : c = commit'[s]
  BY SkNextTypes DEF ConsensusInv
<1>3. commit[s] \in Nat /\ pCommit[s] \in Nat /\ pCommit[s] <= commit[s] /\ FlushLsn(s) \in Nat
  BY SkTypes, SafekeeperFacts DEF ConsensusInv, CommitLsnIsLocal
<1>4. ASSUME c <= commit[s] PROVE CommittedAt(s, commit[s])'
  <2>1. KeptTo(s, c)
    BY <1>1, <1>2, <1>4, KeptBelowCommit
  <2>2. PICK p \in Proposers :
           /\ QuorumAck(p) >= commit[s]
           /\ WriteLsn(s) >= commit[s]
           /\ \A l \in StartLsn..(commit[s] - 1) : RecordAt(s, l) = TermOfRecord(propTh[p], l)
    BY <1>1, <1>2, <1>3, <1>4 DEF CommitLsnIsCommitted, StartLsn
  <2>3. QuorumAck(p) \in Nat /\ WriteLsn(s) \in Nat
    BY QuorumAckType, SafekeeperFacts DEF ConsensusInv
  <2>4. QuorumAck(p) >= c /\ WriteLsn(s) >= c
    BY <1>3, <1>4, <2>2, <2>3
  <2>5. \A l \in StartLsn..(c - 1) : RecordAt(s, l) = TermOfRecord(propTh[p], l)
    <3>1. StartLsn..(c - 1) \subseteq StartLsn..(commit[s] - 1)
      BY <1>3, <1>4 DEF StartLsn
    <3>. QED  BY <2>2, <3>1
  <2>6. CommittedAt(s, c)
    BY <2>4, <2>5 DEF CommittedAt
  <2>7. CommittedAt(s, c)'
    BY <1>1, <1>2, <2>1, <2>6, CommittedStays
  <2>. QED  BY <1>2, <2>7 DEF CommittedAt
<1>5. CASE \/ commit'[s] = commit[s]
           \/ commit'[s] = MaxOf(commit[s], StartLsn)
           \/ commit'[s] \in {pCommit[s], commit[s]}
  <2>1. c <= commit[s]
    BY <1>1, <1>2, <1>3, <1>5 DEF MaxOf, StartLsn
  <2>. QED  BY <1>4, <2>1
<1>6. ASSUME NEW p \in Proposers, NEW m, OldMsg(p, s, m), m.type = "append", Elected(p),
             th[s] = propTh[p], Learns(s, m.commit)
      PROVE  CommittedAt(s, commit[s])'
  <2>1. m.commit \in Nat
    BY <1>6, OldMsgOK
  <2>2. m.commit <= QuorumAck(p) /\ QuorumAck(p) \in Nat
    BY <1>6, QuorumAckType DEF OldMsg, CommitMsgInv, AppendOK
  <2>3. QuorumAck(p) >= m.commit
    BY <2>1, <2>2
  <2>4. \A x \in StartLsn..(MinOf(m.commit, FlushLsn(s)) - 1) :
           TermOfRecord(th[s], x) = TermOfRecord(propTh[p], x)
    BY <1>6
  <2>5. PICK l \in Nat : l = m.commit
    BY <2>1
  <2>. QED  BY <1>1, <1>6, <2>3, <2>4, <2>5, LearnsCommitted
<1>7. ASSUME InfoApplies(s), Learns(s, published.commit)
      PROVE  CommittedAt(s, commit[s])'
  <2>1. PICK l \in Nat : l = published.commit
    BY SkTypes DEF ConsensusInv
  <2>2. CASE l <= StartLsn
    <3>1. c = MinOf(MaxOf(l, commit[s]), FlushLsn(s))
      BY <1>2, <1>7, <2>1 DEF Learns, NewCommitLsn
    <3>2. c <= commit[s]
      BY <1>1, <1>2, <1>3, <2>2, <3>1 DEF MinOf, MaxOf, StartLsn
    <3>. QED  BY <1>4, <3>2
  <2>3. CASE l > StartLsn
    <3>1. PICK r \in Proposers, p \in Proposers :
             /\ Elected(r) /\ propTerm[r] = published.epoch /\ QuorumAck(p) >= l
             /\ \A x \in StartLsn..(l - 1) : TermOfRecord(propTh[r], x) = TermOfRecord(propTh[p], x)
      BY <2>1, <2>3 DEF InfoInv, InfoOK
    <3>2. PICK f \in Nat : f = FlushLsn(s)
      BY <1>3
    <3>3. tlStart[s] # 0
      <4>1. published.epoch # 0 /\ published.epoch = Epoch(s)
        BY <1>7 DEF InfoApplies
      <4>2. tlStart[s] = 0 => th[s] = << >> /\ UpTo(th[s], f) = << >>
        BY <3>2, UpToType, SkTypes, ZenonT(30) DEF ConsensusInv, TypeInv, SafekeeperInv
      <4>. QED  BY <3>2, <4>1, <4>2 DEF Epoch, EpochAt, HighestTerm
    <3>4. PICK q \in Proposers :
             /\ Elected(q) /\ propTerm[q] = Epoch(s)
             /\ \A x \in 0..f : TermOfRecord(propTh[q], x) = TermOfRecord(th[s], x)
      BY <3>2, <3>3, LeaderOfEpoch
    <3>5. q = r
      <4>1. ElectionSafety
        BY ElectionInvSafe DEF ConsensusInv
      <4>. QED  BY <1>7, <3>1, <3>4, <4>1 DEF ElectionSafety, InfoApplies
    <3>6. ASSUME NEW x \in StartLsn..(MinOf(l, FlushLsn(s)) - 1)
          PROVE  TermOfRecord(th[s], x) = TermOfRecord(propTh[p], x)
      <4>1. x \in StartLsn..(l - 1) /\ x \in 0..f
        BY <3>2, <3>6 DEF MinOf, StartLsn
      <4>. QED  BY <3>1, <3>4, <3>5, <4>1
    <3>. QED  BY <1>1, <1>7, <2>1, <3>1, <3>6, LearnsCommitted
  <2>. QED  BY <2>1, <2>2, <2>3 DEF StartLsn
<1>8. CommitStep(s)
  BY DEF Effects
<1>. QED  BY <1>5, <1>6, <1>7, <1>8 DEF CommitStep

CommitInv ==
    /\ ConsensusInv /\ CommitLsnIsLocal /\ AckInv
    /\ CommitMsgInv /\ InfoInv /\ CommitLsnIsCommitted

LEMMA InitCommitInv == Init => CommitInv
<1>1. SUFFICES ASSUME Init PROVE CommitInv
  OBVIOUS
<1>2. ConsensusInv /\ CommitLsnIsLocal /\ AckInv
  BY <1>1, InitCommit, InitType, InitElection, InitHistory DEF ConsensusInv
<1>3. CommitMsgInv
  BY <1>1 DEF Init, CommitMsgInv
<1>4. InfoInv /\ CommitLsnIsCommitted
  BY <1>1 DEF Init, InfoInv, NoInfo, CommitLsnIsCommitted, StartLsn
<1>. QED  BY <1>2, <1>3, <1>4 DEF CommitInv

LEMMA NextCommitInv == CommitInv /\ [Next]_vars => CommitInv'
<1>1. SUFFICES ASSUME CommitInv, [Next]_vars PROVE CommitInv'
  OBVIOUS
<1>2. /\ ConsensusInv /\ CommitLsnIsLocal /\ AckInv
      /\ CommitMsgInv /\ InfoInv /\ CommitLsnIsCommitted
  BY <1>1 DEF CommitInv
<1>3. ConsensusInv' /\ CommitLsnIsLocal' /\ AckInv' /\ Effects
  BY <1>1, <1>2, NextCommit, NextEffects
<1>4. Traffic
  BY <1>1, <1>2, <1>3, NextTraffic
<1>5. CommitMsgInv'
  BY <1>2, <1>3, <1>4, NextCommitMsg
<1>6. InfoInv'
  BY <1>2, <1>3, <1>4, NextInfo
<1>7. CommitLsnIsCommitted'
  BY <1>2, <1>3, NextCommitted
<1>. QED  BY <1>3, <1>5, <1>6, <1>7 DEF CommitInv

LEMMA AlwaysCommitInv == Spec => []CommitInv
BY InitCommitInv, NextCommitInv, PTL DEF Spec

(***************************************************************************)
(* commit_lsn of a safekeeper covers only WAL that a quorum has            *)
(* acknowledged to some leader, record by record, for any number of        *)
(* safekeepers and walproposers.  An AppendRequest may be arbitrarily      *)
(* late, and so may a peer's info: record_safekeeper_info goes by the      *)
(* epoch in it, and there is one WAL per epoch.                            *)
(***************************************************************************)
THEOREM OnlyCommittedIsServed == Spec => []CommitLsnIsCommitted
<1>1. CommitInv => CommitLsnIsCommitted
  BY DEF CommitInv
<1>. QED  BY <1>1, AlwaysCommitInv, PTL

-----------------------------------------------------------------------------
(***************************************************************************)
(* Committed WAL is never lost.                                            *)
(*                                                                         *)
(* A history covers that of a leader up to c when the WAL of the leader is *)
(* part of it at least up to c.  A leader of a higher term that does not   *)
(* cover p has lost WAL of p; the aim is to show that there is none, once  *)
(* c is committed.  Until then everything is stated relative to it.        *)
(***************************************************************************)
Covers(h, g, c) ==
    /\ Len(g) <= Len(h) /\ \A i \in 1..Len(g) : h[i] = g[i]
    /\ Len(g) < Len(h) => h[Len(g) + 1].lsn >= c

Acked(p, s, c) ==
    /\ Elected(p) /\ c >= PropEpochStartLsn(p)
    /\ ackFlush[p][s] >= c \/ (GoodReply(p, s) /\ rep[p][s].flush >= c)

Loses(q, p, c) ==
    Elected(q) /\ propTerm[p] < propTerm[q] /\ ~Covers(propTh[q], propTh[p], c)

Lost(p, c, t) == \E q \in Proposers : Loses(q, p, c) /\ propTerm[q] <= t

\* The safekeeper still has what it has acknowledged, unless it has learned of
\* a leader that lost it.
AckKept(s, p, c) ==
    \/ Covers(th[s], propTh[p], c) /\ flushed[s] >= c
    \/ Lost(p, c, term[s])

\* So do the votes it gives, ...
SnapKept(q, p, c, u, given) ==
    \/ Covers(u.th, propTh[p], c) /\ u.flush >= c
    \/ Lost(p, c, IF given THEN propTerm[q] - 1 ELSE propTerm[q])

\* ... the messages that may cut its WAL ...
StartKept(q, p, c, m) == m.start >= c \/ Lost(p, c, propTerm[q])

\* ... and the leaders it has voted for.
VoteKept(q, p, c) == Covers(propTh[q], propTh[p], c) \/ Lost(p, c, propTerm[q] - 1)

AckKeptInv ==
    \A s \in Safekeepers, p \in Proposers : \A c \in Nat : Acked(p, s, c) => AckKept(s, p, c)

SnapKeptInv ==
    \A q \in Proposers, s \in Safekeepers : \A u \in Votes, given \in BOOLEAN :
        SnapOf(q, s, u, given) =>
            \A p \in Proposers, c \in Nat :
                Acked(p, s, c) /\ propTerm[p] < propTerm[q] => SnapKept(q, p, c, u, given)

StartOK(q, s, m) ==
    m.type = "elected" =>
        \A p \in Proposers, c \in Nat :
            Acked(p, s, c) /\ propTerm[p] < propTerm[q] => StartKept(q, p, c, m)

StartKeptInv ==
    \A q \in Proposers, s \in Safekeepers, k \in Channels :
        \A i \in 1..Len(net[q][s][k]) : StartOK(q, s, net[q][s][k][i])

VotedOK(q, s) ==
    /\ term[s] >= propTerm[q]
    /\ \A p \in Proposers, c \in Nat :
          Acked(p, s, c) /\ propTerm[p] < propTerm[q] => VoteKept(q, p, c)

VoteKeptInv ==
    \A q \in Proposers : Elected(q) =>
        \E Q \in SUBSET Safekeepers : IsQuorum(Q) /\ \A s \in Q : VotedOK(q, s)

KeptInv == AckKeptInv /\ SnapKeptInv /\ StartKeptInv /\ VoteKeptInv

\* up_to does not cut what is covered.
LEMMA CoversUpTo ==
  ASSUME NEW h \in Seq(TermLsn), NEW g \in Seq(TermLsn), g # << >>, Ordered(g),
         NEW c \in Nat, NEW f \in Nat, f >= c, c >= g[Len(g)].lsn, Covers(h, g, c)
  PROVE  Covers(UpTo(h, f), g, c)
<1>1. PICK k \in 0..Len(h) :
         /\ k = SwitchesUpTo(h, f) /\ \A i \in 1..k : h[i].lsn <= f
         /\ k < Len(h) => h[k + 1].lsn > f
  BY SwitchesFacts
<1>2. Len(g) \in 1..Len(g) /\ Len(g) \in Nat /\ Len(h) \in Nat /\ Len(g) <= Len(h)
  BY DEF Covers
<1>3. ASSUME NEW i \in 1..Len(g) PROVE h[i] = g[i] /\ g[i].lsn \in Nat /\ g[i].lsn <= f
  <2>1. g[i].lsn \in Nat /\ g[Len(g)].lsn \in Nat
    BY <1>2, <1>3, EntryType
  <2>2. g[i].lsn <= g[Len(g)].lsn
    <3>1. CASE i = Len(g)
      BY <2>1, <3>1
    <3>2. CASE i < Len(g)
      BY <1>2, <1>3, <3>2 DEF Ordered
    <3>. QED  BY <1>2, <3>1, <3>2
  <2>. QED  BY <2>1, <2>2 DEF Covers
<1>4. k >= Len(g)
  <2>1. ASSUME k < Len(g) PROVE FALSE
    <3>1. k + 1 \in 1..Len(g) /\ k < Len(h)
      BY <1>2, <2>1
    <3>. QED  BY <1>1, <1>3, <3>1
  <2>. QED  BY <1>2, <2>1
<1>5. PICK u : u = SubSeq(h, 1, k) /\ UpTo(h, f) = u
  BY <1>1 DEF UpTo
<1>6. Len(u) = k /\ \A i \in 1..k : u[i] = h[i]
  BY <1>1, <1>5
<1>7. Len(g) < k => u[Len(g) + 1].lsn >= c
  <2>1. Len(g) < k => Len(g) + 1 \in 1..k /\ Len(g) < Len(h)
    BY <1>2
  <2>. QED  BY <1>6, <2>1 DEF Covers
<1>. QED  BY <1>2, <1>3, <1>4, <1>5, <1>6, <1>7 DEF Covers

\* Whatever covers both the safekeeper and the leader is not cut.
LEMMA CoversStart ==
  ASSUME NEW h \in Seq(TermLsn), NEW k \in Seq(TermLsn), NEW g \in Seq(TermLsn), g # << >>,
         Ordered(h), Ordered(k), NEW c \in Nat, NEW f \in Nat, f >= c,
         Covers(h, g, c), Covers(k, g, c), NEW t, h # << >>, h[Len(h)].term = t
  PROVE  StartStreamingAt(h, t, k, f) >= c
<1>1. PICK n \in 0..Len(h) :
         /\ n = CommonSwitches(h, k) /\ n \in 0..Len(k)
         /\ n < Len(h) /\ n < Len(k) => h[n + 1].term # k[n + 1].term
  BY CommonSwitchesFacts
<1>2. /\ Len(g) \in Nat /\ Len(g) >= 1 /\ Len(h) \in Nat /\ Len(k) \in Nat
      /\ Len(g) <= Len(h) /\ Len(g) <= Len(k)
      /\ \A i \in 1..Len(g) : h[i] = k[i]
  BY DEF Covers
<1>3. n >= Len(g)
  <2>1. ASSUME n < Len(g) PROVE FALSE
    <3>1. n + 1 \in 1..Len(g) /\ n < Len(h) /\ n < Len(k)
      BY <1>2, <2>1
    <3>. QED  BY <1>1, <1>2, <3>1
  <2>. QED  BY <1>2, <2>1
<1>4. ASSUME NEW x \in Seq(TermLsn), Ordered(x), Covers(x, g, c), n < Len(x)
      PROVE  x[n + 1].lsn \in Nat /\ x[n + 1].lsn >= c
  <2>1. Len(g) + 1 \in 1..Len(x) /\ n + 1 \in 1..Len(x)
    BY <1>2, <1>3, <1>4
  <2>2. x[Len(g) + 1].lsn \in Nat /\ x[n + 1].lsn \in Nat /\ x[Len(g) + 1].lsn >= c
    BY <1>2, <1>3, <1>4, <2>1, EntryType DEF Covers
  <2>3. x[Len(g) + 1].lsn <= x[n + 1].lsn
    <3>1. CASE n = Len(g)
      BY <2>2, <3>1
    <3>2. CASE n > Len(g)
      BY <1>2, <1>4, <2>1, <3>2 DEF Ordered
    <3>. QED  BY <1>2, <1>3, <3>1, <3>2
  <2>. QED  BY <2>2, <2>3
<1>5. CASE h[n].term = t
  BY <1>1, <1>2, <1>3, <1>5 DEF StartStreamingAt
<1>6. CASE h[n].term # t
  <2>1. n < Len(h)
    BY <1>1, <1>2, <1>6
  <2>2. h[n + 1].lsn \in Nat /\ h[n + 1].lsn >= c
    BY <1>4, <2>1
  <2>3. TermEnd(k, n, f) \in Nat /\ TermEnd(k, n, f) >= c
    BY <1>4 DEF TermEnd
  <2>4. StartStreamingAt(h, t, k, f) = MinOf(h[n + 1].lsn, TermEnd(k, n, f))
    BY <1>1, <1>2, <1>3, <1>6 DEF StartStreamingAt
  <2>. QED  BY <2>2, <2>3, <2>4 DEF MinOf
<1>. QED  BY <1>5, <1>6

\* WAL that is covered is the same.
LEMMA CoversAgree ==
  ASSUME NEW h \in Seq(TermLsn), NEW g \in Seq(TermLsn), NEW c \in Nat, Covers(h, g, c),
         NEW l \in Nat, l < c
  PROVE  TermOfRecord(h, l) = TermOfRecord(g, l)
<1>1. PICK n \in Nat : n = Len(g)
  OBVIOUS
<1>2. /\ n \in 0..Len(h) /\ n \in 0..Len(g) /\ \A i \in 1..n : h[i] = g[i]
      /\ n < Len(h) => h[n + 1].lsn > l
  <2>1. Len(h) \in Nat /\ n <= Len(h) /\ \A i \in 1..n : h[i] = g[i]
    BY <1>1 DEF Covers
  <2>2. ASSUME n < Len(h) PROVE h[n + 1].lsn > l
    <3>1. n + 1 \in 1..Len(h)
      BY <2>1, <2>2
    <3>2. h[n + 1].lsn \in Nat /\ h[n + 1].lsn >= c
      BY <1>1, <2>2, <3>1, EntryType DEF Covers
    <3>. QED  BY <3>2
  <2>. QED  BY <1>1, <2>1, <2>2
<1>. QED  BY <1>1, <1>2, AgreeBelow

LEMMA CoversItself ==
  ASSUME NEW h \in Seq(TermLsn), NEW c
  PROVE  Covers(h, h, c)
BY DEF Covers

LEMMA CoversAppend ==
  ASSUME NEW h \in Seq(TermLsn), NEW g \in Seq(TermLsn), NEW c, NEW e \in TermLsn,
         Covers(h, g, c), Len(g) = Len(h) => e.lsn >= c
  PROVE  Covers(Append(h, e), g, c)
<1>1. PICK a : a = Append(h, e)
  OBVIOUS
<1>2. /\ Len(h) \in Nat /\ Len(g) \in Nat /\ Len(g) <= Len(h)
      /\ Len(a) = Len(h) + 1 /\ a[Len(h) + 1] = e /\ \A i \in 1..Len(h) : a[i] = h[i]
  BY <1>1 DEF Covers
<1>3. \A i \in 1..Len(g) : a[i] = g[i]
  BY <1>2 DEF Covers
<1>4. a[Len(g) + 1].lsn >= c
  <2>1. CASE Len(g) = Len(h)
    BY <1>2, <2>1
  <2>2. CASE Len(g) < Len(h)
    BY <1>2, <2>2 DEF Covers
  <2>. QED  BY <1>2, <2>1, <2>2
<1>. QED  BY <1>1, <1>2, <1>3, <1>4 DEF Covers

\* A leader that has lost WAL has lost it for ever.
LEMMA LostGrows ==
  ASSUME ConsensusInv, Effects, NEW p \in Proposers, Elected(p), NEW c \in Nat,
         NEW t \in Nat, NEW n \in Nat, t <= n, Lost(p, c, t)
  PROVE  Lost(p, c, n)'
<1>1. PICK q \in Proposers : Loses(q, p, c) /\ propTerm[q] <= t
  BY DEF Lost
<1>2. /\ Elected(q)' /\ propTh'[q] = propTh[q] /\ propTerm'[q] = propTerm[q]
      /\ propTh'[p] = propTh[p] /\ propTerm'[p] = propTerm[p]
  BY <1>1, EffectsProgress DEF Loses
<1>3. propTerm[q] \in Nat
  BY DEF ConsensusInv, TypeInv, TypeOK, ProposerTypeOK
<1>4. Loses(q, p, c)' /\ propTerm'[q] <= n
  BY <1>1, <1>2, <1>3 DEF Loses
<1>. QED  BY <1>4 DEF Lost

\* What s has acknowledged to the leader whose term it has.
NewAck(p, s, c) ==
    /\ th'[s] = propTh[p] /\ term[s] = propTerm[p] /\ term'[s] = propTerm[p]
    /\ flushed'[s] >= c

LEMMA AckedStep ==
  ASSUME ConsensusInv, ConsensusInv', Effects, NEW p \in Proposers, NEW s \in Safekeepers,
         NEW c \in Nat, Acked(p, s, c)'
  PROVE  /\ Elected(p) /\ propTh'[p] = propTh[p] /\ propTerm'[p] = propTerm[p]
         /\ c >= PropEpochStartLsn(p)
         /\ Acked(p, s, c) \/ NewAck(p, s, c)
<1>1. PICK a \in Nat, b \in Nat : a = ackFlush[p][s] /\ b = ackFlush'[p][s]
  <2>1. ackFlush[p][s] \in Nat /\ ackFlush'[p][s] \in Nat
    BY DEF ConsensusInv, TypeInv, TypeOK, ProposerTypeOK
  <2>. QED  BY <2>1
<1>2. PICK r \in Replies, x \in Replies : r = rep[p][s] /\ x = rep'[p][s]
  BY DEF ConsensusInv, TypeInv, TypeOK, LinkTypeOK
<1>3. propTh'[p] \in Seq(TermLsn)
  BY NextTypes DEF ConsensusInv
<1>4. PropEpochStartLsn(p)' \in Nat /\ PropEpochStartLsn(p)' > 0
  BY <1>3, EntryType DEF PropEpochStartLsn, Elected, StartLsn, Acked
<1>5. c > 0 /\ c >= PropEpochStartLsn(p)'
  BY <1>4 DEF Acked
<1>6. /\ x = r \/ x.type # "append" \/ (Elected(p) /\ x.term > propTerm[p])
           \/ /\ Elected(p) /\ th'[s] = propTh[p]
              /\ term[s] = propTerm[p] /\ term'[s] = propTerm[p] /\ x.flush = flushed'[s]
      /\ b = a \/ (r.type = "append" /\ r.term <= propTerm[p] /\ b = r.flush /\ x = NoReply)
  BY <1>1, <1>2 DEF Effects, AckEffect
<1>7. b >= c \/ (x.type = "append" /\ x.term <= propTerm'[p] /\ x.flush >= c)
  BY <1>1, <1>2 DEF Acked, GoodReply
<1>8. a > 0 \/ r.type = "append" => Elected(p)
  BY <1>1, <1>2 DEF ConsensusInv, HistoryInv, AckJoined, SnapInv, ReplyOK
<1>9. Elected(p)
  BY <1>1, <1>5, <1>6, <1>7, <1>8
<1>10. /\ propTh'[p] = propTh[p] /\ propTerm'[p] = propTerm[p]
       /\ PropEpochStartLsn(p)' = PropEpochStartLsn(p)
  BY <1>9, EffectsProgress
<1>11. SUFFICES \/ a >= c \/ (r.type = "append" /\ r.term <= propTerm[p] /\ r.flush >= c)
                \/ NewAck(p, s, c)
  BY <1>1, <1>2, <1>5, <1>9, <1>10 DEF Acked, GoodReply
<1>12. CASE b >= c
  BY <1>6, <1>12
<1>13. CASE x.type = "append" /\ x.term <= propTerm[p] /\ x.flush >= c
  <2>1. CASE x.term > propTerm[p]
    <3>1. x.term \in Nat /\ propTerm[p] \in Nat
      <4>1. \A z \in Replies : z.type = "append" => z.term \in Nat
        BY DEF Replies, NoReply
      <4>. QED  BY <1>13, <4>1, StateTypes DEF ConsensusInv
    <3>. QED  BY <1>13, <2>1, <3>1
  <2>2. CASE th'[s] = propTh[p] /\ term[s] = propTerm[p] /\ term'[s] = propTerm[p] /\ x.flush = flushed'[s]
    BY <1>13, <2>2 DEF NewAck
  <2>. QED  BY <1>6, <1>13, <2>1, <2>2
<1>. QED  BY <1>7, <1>10, <1>12, <1>13

LEMMA AckedJoined ==
  ASSUME ConsensusInv, NEW p \in Proposers, NEW s \in Safekeepers, NEW c \in Nat, Acked(p, s, c)
  PROVE  /\ Elected(p) /\ Joined(p, s) /\ c >= PropEpochStartLsn(p) /\ PropEpochStartLsn(p) \in Nat
         /\ c >= 1
<1>1. Elected(p) /\ c >= PropEpochStartLsn(p)
  BY DEF Acked
<1>2. PropEpochStartLsn(p) \in Nat /\ PropEpochStartLsn(p) >= 1
  BY <1>1, EpochStartType DEF ConsensusInv, StartLsn
<1>3. ackFlush[p][s] \in Nat
  BY DEF ConsensusInv, TypeInv, TypeOK, ProposerTypeOK
<1>4. ackFlush[p][s] > 0 \/ GoodReply(p, s)
  BY <1>1, <1>2, <1>3 DEF Acked
<1>5. Joined(p, s)
  BY <1>4 DEF GoodReply, ConsensusInv, HistoryInv, AckJoined, SnapInv, ReplyOK
<1>. QED  BY <1>1, <1>2, <1>5

LEMMA TermGrows ==
  ASSUME ConsensusInv, ConsensusInv', Effects, NEW s \in Safekeepers
  PROVE  term[s] \in Nat /\ term'[s] \in Nat /\ term'[s] >= term[s]
<1>1. term[s] \in Nat /\ term'[s] \in Nat
  BY SkTypes, SkNextTypes DEF ConsensusInv
<1>2. CASE SkKeeps(s)
  BY <1>1, <1>2 DEF SkKeeps
<1>3. ASSUME NEW p \in Proposers, NEW m, SkCuts(s, p, m) PROVE term'[s] >= term[s]
  BY <1>1, <1>3 DEF SkCuts
<1>. QED  BY <1>1, <1>2, <1>3 DEF Effects, SkStep

(***************************************************************************)
(* Truncation in handle_elected: the leader of the same term is refused,   *)
(* and that of a higher one starts further up unless it has lost WAL.      *)
(***************************************************************************)
LEMMA NextAckKept ==
  ASSUME ConsensusInv, ConsensusInv', Effects, KeptInv
  PROVE  AckKeptInv'
<1>1. SUFFICES ASSUME NEW s \in Safekeepers, NEW p \in Proposers, NEW c \in Nat, Acked(p, s, c)'
               PROVE  AckKept(s, p, c)'
  BY DEF AckKeptInv
<1>2. /\ Elected(p) /\ propTh'[p] = propTh[p] /\ propTerm'[p] = propTerm[p]
      /\ c >= PropEpochStartLsn(p)
      /\ Acked(p, s, c) \/ NewAck(p, s, c)
  BY <1>1, AckedStep
<1>3. PICK t \in Nat, n \in Nat : t = term[s] /\ n = term'[s] /\ t <= n
  BY TermGrows
<1>4. CASE NewAck(p, s, c)
  <2>1. Covers(propTh[p], propTh[p], c)
    BY CoversItself, StateTypes DEF ConsensusInv
  <2>. QED  BY <1>2, <1>4, <2>1 DEF NewAck, AckKept
<1>5. CASE Acked(p, s, c) /\ Lost(p, c, t)
  <2>1. Lost(p, c, n)'
    BY <1>2, <1>3, <1>5, LostGrows
  <2>. QED  BY <1>3, <2>1 DEF AckKept
<1>6. CASE Acked(p, s, c) /\ Covers(th[s], propTh[p], c) /\ flushed[s] >= c
  <2>1. Joined(p, s) /\ PropEpochStartLsn(p) \in Nat
    BY <1>6, AckedJoined
  <2>2. flushed[s] \in Nat /\ flushed'[s] \in Nat /\ propTerm[p] \in Nat
    BY SkTypes, SkNextTypes, StateTypes DEF ConsensusInv
  <2>3. CASE SkKeeps(s)
    BY <1>2, <1>6, <2>2, <2>3 DEF SkKeeps, AckKept
  <2>4. ASSUME NEW q \in Proposers, NEW m, OldMsg(q, s, m), SkCuts(s, q, m)
        PROVE  AckKept(s, p, c)'
    <3>1. /\ m.type = "elected" /\ term[s] <= propTerm[q] /\ term'[s] = propTerm[q]
          /\ flushed'[s] = m.start /\ (th'[s] = propTh[q] \/ th'[s] = th[s])
      BY <2>4 DEF SkCuts
    <3>2. Elected(q) /\ m.start \in Nat /\ propTerm[q] \in Nat
      BY <2>4, <3>1, OldMsgOK, StateTypes DEF MsgOK, ConsensusInv
    <3>3. propTh'[q] = propTh[q] /\ propTerm'[q] = propTerm[q] /\ Elected(q)'
      BY <3>2, EffectsProgress
    <3>4. CASE propTerm[q] = propTerm[p]
      <4>1. q = p
        BY <1>2, <3>2, <3>4, ElectionInvSafe DEF ElectionSafety, ConsensusInv
      <4>2. th[s] = propTh[p]
        BY <1>3, <2>1, <2>2, <3>1, <3>4 DEF Joined
      <4>3. m.start >= flushed[s]
        <5>1. flushed[s] >= PropEpochStartLsn(p)
          BY <1>2, <1>6, <2>1, <2>2
        <5>2. OldMsg(p, s, m) /\ SkCuts(s, p, m)
          BY <2>4, <4>1
        <5>. QED  BY <4>2, <5>1, <5>2, CutKeeps
      <4>4. flushed'[s] >= c
        BY <1>6, <2>2, <3>1, <4>3
      <4>. QED  BY <1>2, <1>6, <3>1, <4>1, <4>2, <4>4 DEF AckKept
    <3>5. CASE propTerm[p] < propTerm[q]
      <4>1. StartKept(q, p, c, m)
        BY <1>6, <2>4, <3>1, <3>5 DEF KeptInv, StartKeptInv, StartOK, OldMsg
      <4>2. CASE Lost(p, c, propTerm[q])
        <5>1. PICK k \in Nat : k = propTerm[q]
          BY <3>2
        <5>2. Lost(p, c, k)'
          BY <1>2, <4>2, <5>1, LostGrows
        <5>. QED  BY <3>1, <5>1, <5>2 DEF AckKept
      <4>3. CASE m.start >= c /\ th'[s] = th[s]
        BY <1>2, <1>6, <3>1, <4>3 DEF AckKept
      <4>4. CASE m.start >= c /\ th'[s] = propTh[q] /\ Covers(propTh[q], propTh[p], c)
        BY <1>2, <3>1, <4>4 DEF AckKept
      <4>5. CASE ~Covers(propTh[q], propTh[p], c)
        <5>1. Loses(q, p, c)' /\ propTerm'[q] <= term'[s]
          BY <1>2, <3>1, <3>2, <3>3, <3>5, <4>5 DEF Loses
        <5>. QED  BY <5>1 DEF Lost, AckKept
      <4>. QED  BY <3>1, <4>1, <4>2, <4>3, <4>4, <4>5 DEF StartKept
    <3>6. CASE propTerm[q] < propTerm[p]
      BY <1>3, <2>1, <2>2, <3>1, <3>2, <3>6 DEF Joined
    <3>. QED  BY <2>2, <3>2, <3>4, <3>5, <3>6
  <2>. QED  BY <2>3, <2>4 DEF Effects, SkStep
<1>7. Acked(p, s, c) => Lost(p, c, t) \/ (Covers(th[s], propTh[p], c) /\ flushed[s] >= c)
  BY <1>3 DEF KeptInv, AckKeptInv, AckKept
<1>. QED  BY <1>2, <1>4, <1>5, <1>6, <1>7

\* What is known of a vote that a proposer may use.
LEMMA SnapFacts ==
  ASSUME ConsensusInv, NEW q \in Proposers, NEW s \in Safekeepers, NEW u \in Votes,
         NEW given \in BOOLEAN, SnapOf(q, s, u, given)
  PROVE  /\ nConnected[q] >= QuorumSize /\ term[s] >= propTerm[q]
         /\ u.th \in Seq(TermLsn) /\ u.flush \in Nat
         /\ PrefixIn(u.th, Leaders) /\ Ordered(u.th) /\ WalInfoOK(u.th, u.flush)
         /\ given => Below(u.th, propTerm[q])
<1>1. u.th \in Seq(TermLsn) /\ u.flush \in Nat
  BY DEF Votes
<1>2. /\ SnapOK(q, s, u.th, u.flush) /\ WalInfoOK(u.th, u.flush)
      /\ given => Below(u.th, propTerm[q])
  <2>1. CASE conn[q][s] = "idle" /\ u = vote[q][s] /\ given = TRUE
    BY <2>1 DEF ConsensusInv, HistoryInv, SnapInv, VoteOK, TypeInv, ConnInv, ConnOK
  <2>2. CASE /\ rep[q][s].type = "vote" /\ rep[q][s].term <= propTerm[q]
             /\ u = [flush |-> rep[q][s].flush, th |-> rep[q][s].th] /\ given = rep[q][s].given
    <3>1. u.flush = rep[q][s].flush /\ u.th = rep[q][s].th
      BY <2>2
    <3>. QED  BY <2>2, <3>1 DEF ConsensusInv, HistoryInv, SnapInv, ReplyOK, TypeInv, ConnInv, ConnOK
  <2>. QED  BY <2>1, <2>2 DEF SnapOf
<1>3. Ordered(u.th)
  <2>1. \A a \in Leaders : Ordered(a)
    BY DEF Leaders, ConsensusInv, HistoryInv, LeaderInv
  <2>. QED  BY <1>1, <1>2, <2>1, PrefixOrdered DEF SnapOK
<1>. QED  BY <1>1, <1>2, <1>3 DEF SnapOK

LEMMA TermFixed ==
  ASSUME ConsensusInv, Effects, NEW q \in Proposers, nConnected[q] >= QuorumSize
  PROVE  propTerm[q] \in Nat /\ propTerm'[q] = propTerm[q]
BY DEF Effects, LeaderKept, ConsensusInv, TypeInv, TypeOK, ProposerTypeOK

\* Whoever has reached the term of q acknowledges nothing to an earlier leader.
LEMMA AckedBefore ==
  ASSUME ConsensusInv, ConsensusInv', Effects, NEW p \in Proposers, NEW q \in Proposers,
         NEW s \in Safekeepers, NEW c \in Nat, Acked(p, s, c)', propTerm'[p] < propTerm'[q],
         propTerm'[q] = propTerm[q],
         term[s] >= propTerm[q] \/ term'[s] = propTerm[q]
  PROVE  /\ Acked(p, s, c) /\ propTerm[p] < propTerm[q] /\ Elected(p)
         /\ propTh'[p] = propTh[p] /\ propTerm'[p] = propTerm[p]
<1>1. /\ Elected(p) /\ propTh'[p] = propTh[p] /\ propTerm'[p] = propTerm[p]
      /\ Acked(p, s, c) \/ NewAck(p, s, c)
  BY AckedStep
<1>2. propTerm[p] \in Nat /\ propTerm[q] \in Nat /\ term[s] \in Nat
  BY StateTypes DEF ConsensusInv
<1>3. ~NewAck(p, s, c)
  BY <1>1, <1>2 DEF NewAck
<1>. QED  BY <1>1, <1>3

\* handle_vote_request tells what the safekeeper has, before it learns the term.
LEMMA FreshVoteKept ==
  ASSUME ConsensusInv, ConsensusInv', Effects, KeptInv, NEW q \in Proposers, NEW s \in Safekeepers,
         NEW u \in Votes, NEW given \in BOOLEAN, FreshVote(q, s, u, given),
         NEW p \in Proposers, NEW c \in Nat, Acked(p, s, c), propTerm[p] < propTerm[q]
  PROVE  \/ Covers(u.th, propTh[p], c) /\ u.flush >= c
         \/ \E t \in Nat : t <= (IF given THEN propTerm[q] - 1 ELSE propTerm[q]) /\ Lost(p, c, t)
<1>1. /\ Elected(p) /\ c >= PropEpochStartLsn(p)
  BY AckedJoined
<1>2. /\ propTh[p] \in Seq(TermLsn) /\ propTh[p] # << >> /\ Ordered(propTh[p])
  BY <1>1, LeaderTerms DEF ConsensusInv, HistoryInv
<1>3. /\ term[s] \in Nat /\ propTerm[q] \in Nat /\ th[s] \in Seq(TermLsn)
      /\ flushed[s] \in Nat /\ flushed'[s] \in Nat /\ u.flush \in Nat /\ tlStart[s] \in {0, StartLsn}
  BY SkTypes, SkNextTypes, StateTypes DEF ConsensusInv, Votes
<1>4. /\ flushed'[s] >= flushed[s] /\ flushed'[s] = WriteLsn(s)
      /\ u.flush = MaxOf(WriteLsn(s), tlStart[s]) /\ u.th = UpTo(th[s], u.flush)
      /\ term[s] <= propTerm[q] /\ (given => term[s] < propTerm[q])
  BY DEF FreshVote, SkKeeps
<1>5. u.flush >= flushed[s]
  <2>1. PICK w \in Nat : w = WriteLsn(s)
    BY <1>3, <1>4
  <2>. QED  BY <1>3, <1>4, <2>1 DEF MaxOf, StartLsn
<1>6. CASE Covers(th[s], propTh[p], c) /\ flushed[s] >= c
  <2>1. u.flush >= c
    BY <1>3, <1>5, <1>6
  <2>2. c >= propTh[p][Len(propTh[p])].lsn
    BY <1>1 DEF PropEpochStartLsn
  <2>3. Covers(UpTo(th[s], u.flush), propTh[p], c)
    BY <1>2, <1>3, <1>6, <2>1, <2>2, CoversUpTo
  <2>. QED  BY <1>4, <2>1, <2>3
<1>7. CASE Lost(p, c, term[s])
  <2>1. term[s] <= (IF given THEN propTerm[q] - 1 ELSE propTerm[q])
    <3>1. CASE given
      <4>1. term[s] <= propTerm[q] - 1
        BY <1>3, <1>4, <3>1
      <4>. QED  BY <3>1, <4>1
    <3>2. CASE ~given
      BY <1>4, <3>2
    <3>. QED  BY <3>1, <3>2
  <2>. QED  BY <1>3, <1>7, <2>1
<1>. QED  BY <1>6, <1>7 DEF KeptInv, AckKeptInv, AckKept

LEMMA NextSnapKept ==
  ASSUME ConsensusInv, ConsensusInv', Effects, Traffic, KeptInv
  PROVE  SnapKeptInv'
<1>1. SUFFICES ASSUME NEW q \in Proposers, NEW s \in Safekeepers, NEW u \in Votes,
                      NEW given \in BOOLEAN, SnapOf(q, s, u, given)',
                      NEW p \in Proposers, NEW c \in Nat, Acked(p, s, c)',
                      propTerm'[p] < propTerm'[q]
               PROVE  SnapKept(q, p, c, u, given)'
  BY DEF SnapKeptInv
<1>2. SnapOf(q, s, u, given) \/ FreshVote(q, s, u, given)
  BY <1>1 DEF Traffic, VoteEffect
<1>3. propTerm'[q] = propTerm[q] /\ (term[s] >= propTerm[q] \/ term'[s] = propTerm[q])
  <2>1. CASE SnapOf(q, s, u, given)
    BY <2>1, SnapFacts, TermFixed
  <2>2. CASE FreshVote(q, s, u, given)
    BY <2>2 DEF FreshVote
  <2>. QED  BY <1>2, <2>1, <2>2
<1>4. /\ Acked(p, s, c) /\ propTerm[p] < propTerm[q] /\ Elected(p)
      /\ propTh'[p] = propTh[p] /\ propTerm'[p] = propTerm[p]
  BY <1>1, <1>3, AckedBefore
<1>5. propTerm[p] \in Nat /\ propTerm[q] \in Nat
  BY StateTypes DEF ConsensusInv
<1>6. PICK n \in Nat : n = IF given THEN propTerm[q] - 1 ELSE propTerm[q]
  <2>1. propTerm[q] - 1 \in Nat
    BY <1>4, <1>5
  <2>. QED  BY <1>5, <2>1
<1>7. \/ Covers(u.th, propTh[p], c) /\ u.flush >= c
      \/ \E t \in Nat : t <= n /\ Lost(p, c, t)
  <2>1. CASE SnapOf(q, s, u, given)
    BY <1>4, <1>6, <2>1 DEF KeptInv, SnapKeptInv, SnapKept
  <2>2. CASE FreshVote(q, s, u, given)
    BY <1>4, <1>6, <2>2, FreshVoteKept
  <2>. QED  BY <1>2, <2>1, <2>2
<1>8. CASE \E t \in Nat : t <= n /\ Lost(p, c, t)
  <2>1. Lost(p, c, n)'
    BY <1>4, <1>8, LostGrows
  <2>2. n = IF given THEN propTerm'[q] - 1 ELSE propTerm'[q]
    BY <1>3, <1>6
  <2>. QED  BY <2>1, <2>2 DEF SnapKept
<1>9. CASE Covers(u.th, propTh[p], c) /\ u.flush >= c
  BY <1>4, <1>9 DEF SnapKept
<1>. QED  BY <1>7, <1>8, <1>9

\* Streaming starts where the vote and the leader part, above what both cover.
LEMMA NextStartKept ==
  ASSUME ConsensusInv, ConsensusInv', Effects, Traffic, KeptInv
  PROVE  StartKeptInv'
<1>1. ASSUME NEW q \in Proposers, NEW s \in Safekeepers, NEW k \in Channels,
             NEW i \in 1..Len(net'[q][s][k]), NEW m, m = net'[q][s][k][i], m.type = "elected",
             NEW p \in Proposers, NEW c \in Nat, Acked(p, s, c)', propTerm'[p] < propTerm'[q]
      PROVE  StartKept(q, p, c, m)'
  <2>1. CASE OldMsg(q, s, m)
    <3>1. Elected(q) /\ term[s] >= propTerm[q]
      BY <1>1, <2>1, OldMsgOK DEF MsgOK
    <3>2. propTerm'[q] = propTerm[q]
      BY <3>1, EffectsProgress
    <3>3. Acked(p, s, c) /\ propTerm[p] < propTerm[q] /\ Elected(p)
      BY <1>1, <3>1, <3>2, AckedBefore
    <3>4. StartKept(q, p, c, m)
      BY <1>1, <2>1, <3>3 DEF KeptInv, StartKeptInv, StartOK, OldMsg
    <3>5. CASE Lost(p, c, propTerm[q])
      <4>1. PICK n \in Nat : n = propTerm[q]
        BY StateTypes DEF ConsensusInv
      <4>2. Lost(p, c, n)'
        BY <3>3, <3>5, <4>1, LostGrows
      <4>. QED  BY <3>2, <4>1, <4>2 DEF StartKept
    <3>. QED  BY <3>4, <3>5 DEF StartKept
  <2>2. CASE NewMsg(q, s, m)
    <3>1. Elected(q)' /\ StartMsg(q, s, m)
      BY <1>1, <2>2 DEF NewMsg
    <3>2. PICK u \in Votes, given \in BOOLEAN :
             /\ SnapOf(q, s, u, given)
             /\ m.start = StartStreamingAt(propTh'[q], propTerm[q], u.th, u.flush)
      BY <3>1 DEF StartMsg
    <3>3. /\ nConnected[q] >= QuorumSize /\ term[s] >= propTerm[q]
          /\ u.th \in Seq(TermLsn) /\ u.flush \in Nat /\ Ordered(u.th)
      BY <3>2, SnapFacts
    <3>4. propTerm[q] \in Nat /\ propTerm'[q] = propTerm[q]
      BY <3>3, TermFixed
    <3>5. /\ Acked(p, s, c) /\ propTerm[p] < propTerm[q] /\ Elected(p)
          /\ propTh'[p] = propTh[p] /\ propTerm'[p] = propTerm[p]
      BY <1>1, <3>3, <3>4, AckedBefore
    <3>6. SnapKept(q, p, c, u, given)
      BY <3>2, <3>5 DEF KeptInv, SnapKeptInv
    <3>7. CASE Lost(p, c, IF given THEN propTerm[q] - 1 ELSE propTerm[q])
      <4>1. PICK n \in Nat, t \in Nat :
               n = propTerm[q] /\ t = (IF given THEN propTerm[q] - 1 ELSE propTerm[q]) /\ t <= n
        <5>1. propTerm[p] \in Nat
          BY StateTypes DEF ConsensusInv
        <5>2. propTerm[q] - 1 \in Nat /\ propTerm[q] - 1 <= propTerm[q] /\ propTerm[q] <= propTerm[q]
          BY <3>4, <3>5, <5>1
        <5>. QED  BY <3>4, <5>2
      <4>2. Lost(p, c, n)'
        BY <3>5, <3>7, <4>1, LostGrows
      <4>. QED  BY <3>4, <4>1, <4>2 DEF StartKept
    <3>8. CASE ~Covers(propTh'[q], propTh[p], c)
      <4>1. Loses(q, p, c)' /\ propTerm'[q] <= propTerm'[q]
        BY <1>1, <3>1, <3>4, <3>5, <3>8 DEF Loses
      <4>. QED  BY <4>1 DEF Lost, StartKept
    <3>9. CASE Covers(propTh'[q], propTh[p], c) /\ Covers(u.th, propTh[p], c) /\ u.flush >= c
      <4>1. /\ propTh'[q] \in Seq(TermLsn) /\ propTh'[q] # << >> /\ Ordered(propTh'[q])
            /\ propTh'[q][Len(propTh'[q])].term = propTerm[q]
        BY <3>1, <3>4, NextTypes
           DEF ConsensusInv, HistoryInv, LeaderInv, TypeInv, ProposerInv, Elected
      <4>2. propTh[p] \in Seq(TermLsn) /\ propTh[p] # << >>
        BY <3>5, StateTypes DEF ConsensusInv, Elected
      <4>3. m.start >= c
        BY <3>2, <3>3, <3>9, <4>1, <4>2, CoversStart
      <4>. QED  BY <4>3 DEF StartKept
    <3>. QED  BY <3>6, <3>7, <3>8, <3>9 DEF SnapKept
  <2>. QED  BY <1>1, <2>1, <2>2 DEF Traffic, NetEffect
<1>. QED  BY <1>1 DEF StartKeptInv, StartOK

(***************************************************************************)
(* DetermineEpochStartLsn: the donor is at least as advanced as any voter. *)
(***************************************************************************)
LEMMA DonorCovers ==
  ASSUME ConsensusInv, NEW q \in Proposers, NEW Q \in SUBSET Safekeepers,
         NEW v \in [Safekeepers -> Votes], NEW d \in Q, NEW s \in Q,
         SnapOf(q, d, v[d], TRUE), SnapOf(q, s, v[s], TRUE), d \in MostAdvanced(v, Q),
         NEW p \in Proposers, Elected(p), NEW c \in Nat, c >= 1, propTerm[p] < propTerm[q],
         Covers(v[s].th, propTh[p], c), v[s].flush >= c
  PROVE  Covers(NewHistory(q, v[d]), propTh[p], c) \/ Lost(p, c, propTerm[q] - 1)
<1>1. PICK g \in Seq(TermLsn), a \in Seq(TermLsn), b \in Seq(TermLsn) :
         g = propTh[p] /\ a = v[s].th /\ b = v[d].th
  BY StateTypes DEF ConsensusInv, Votes
<1>2. PICK f \in Nat, k \in Nat : f = v[s].flush /\ k = v[d].flush
  BY DEF Votes
<1>3. /\ Ordered(a) /\ Ordered(b) /\ PrefixIn(b, Leaders) /\ WalInfoOK(b, k)
      /\ Below(b, propTerm[q])
  BY <1>1, <1>2, SnapFacts
<1>4. g # << >> /\ g[Len(g)].term = propTerm[p] /\ Covers(a, g, c) /\ f >= c
  BY <1>1, <1>2, LeaderTerms DEF ConsensusInv, HistoryInv
<1>5. propTerm[p] \in Nat /\ propTerm[q] \in Nat
  BY StateTypes DEF ConsensusInv
<1>6. a # << >> /\ a[Len(a)].term \in Nat /\ a[Len(a)].term >= propTerm[p]
  <2>1. Len(g) \in 1..Len(a) /\ Len(a) \in 1..Len(a) /\ a[Len(g)] = g[Len(g)]
    BY <1>4 DEF Covers
  <2>2. a[Len(a)].term \in Nat
    BY <2>1, EntryType
  <2>3. CASE Len(g) = Len(a)
    BY <1>4, <1>5, <2>1, <2>2, <2>3
  <2>4. CASE Len(g) < Len(a)
    BY <1>3, <1>4, <1>5, <2>1, <2>2, <2>4 DEF Ordered
  <2>. QED  BY <2>1, <2>2, <2>3, <2>4
<1>7. PICK x \in Nat, y \in Nat : x = HighestTerm(a) /\ y = HighestTerm(b)
  <2>1. b # << >> => b[Len(b)].term \in Nat
    BY EntryType
  <2>. QED  BY <1>6, <2>1 DEF HighestTerm
<1>8. y > x \/ (y = x /\ k >= f)
  BY <1>1, <1>2, <1>7 DEF MostAdvanced
<1>9. x >= propTerm[p]
  BY <1>6, <1>7 DEF HighestTerm
<1>10. b # << >>
  <2>1. CASE y > x
    BY <1>7, <2>1 DEF HighestTerm
  <2>2. CASE k >= f
    BY <1>3, <1>4, <2>2 DEF WalInfoOK
  <2>. QED  BY <1>8, <2>1, <2>2
<1>11. Len(b) \in 1..Len(b) /\ y = b[Len(b)].term /\ y < propTerm[q]
  BY <1>3, <1>7, <1>10 DEF HighestTerm, Below
<1>12. PICK z \in Proposers : Elected(z) /\ propTh[z] = b /\ propTerm[z] = y
  <2>1. SubSeq(b, 1, Len(b)) = b
    BY <1>11
  <2>2. b \in Leaders
    BY <1>3, <1>11, <2>1 DEF PrefixIn
  <2>3. PICK z \in Proposers : Elected(z) /\ propTh[z] = b
    BY <2>2 DEF Leaders
  <2>. QED  BY <1>11, <2>3, LeaderTerms DEF ConsensusInv, HistoryInv
<1>13. CASE ~Covers(b, g, c)
  <2>1. propTerm[p] # y
    <3>1. ASSUME propTerm[p] = y PROVE FALSE
      <4>1. p = z
        BY <1>12, <3>1, ElectionInvSafe DEF ElectionSafety, ConsensusInv
      <4>. QED  BY <1>1, <1>12, <1>13, <4>1, CoversItself
    <3>. QED  BY <3>1
  <2>2. propTerm[p] < y /\ y <= propTerm[q] - 1
    BY <1>5, <1>7, <1>8, <1>9, <1>11, <2>1
  <2>3. Loses(z, p, c) /\ propTerm[z] <= propTerm[q] - 1
    BY <1>1, <1>12, <1>13, <2>2 DEF Loses
  <2>. QED  BY <2>3 DEF Lost
<1>14. CASE Covers(b, g, c)
  <2>1. PICK e : e = [term |-> propTerm[q], lsn |-> IF k = 0 THEN StartLsn ELSE k]
    OBVIOUS
  <2>2. e \in TermLsn /\ (k >= 1 => e.lsn = k)
    BY <1>5, <2>1 DEF TermLsn, StartLsn
  <2>3. ASSUME Len(g) = Len(b) PROVE e.lsn >= c
    <3>1. y = propTerm[p]
      BY <1>4, <1>11, <1>14, <2>3 DEF Covers
    <3>2. k >= c
      BY <1>4, <1>7, <1>8, <1>9, <3>1
    <3>. QED  BY <2>2, <3>2
  <2>4. Covers(Append(b, e), g, c)
    BY <1>14, <2>2, <2>3, CoversAppend
  <2>5. NewHistory(q, v[d]) = Append(b, e)
    BY <1>1, <1>2, <2>1 DEF NewHistory
  <2>. QED  BY <1>1, <2>4, <2>5
<1>. QED  BY <1>13, <1>14

LEMMA NextVoteKept ==
  ASSUME ConsensusInv, ConsensusInv', Effects, Traffic, KeptInv
  PROVE  VoteKeptInv'
<1>1. SUFFICES ASSUME NEW q \in Proposers, Elected(q)'
               PROVE  \E Q \in SUBSET Safekeepers : IsQuorum(Q) /\ \A s \in Q : VotedOK(q, s)'
  BY DEF VoteKeptInv
<1>2. ASSUME NEW s \in Safekeepers, propTerm'[q] = propTerm[q], term[s] >= propTerm[q],
             \A p \in Proposers, c \in Nat : Acked(p, s, c) /\ propTerm[p] < propTerm[q] =>
                Covers(propTh'[q], propTh[p], c) \/ Lost(p, c, propTerm[q] - 1)
      PROVE  VotedOK(q, s)'
  <2>1. propTerm[q] \in Nat
    BY StateTypes DEF ConsensusInv
  <2>2. term'[s] >= propTerm'[q]
    BY <1>2, <2>1, TermGrows
  <2>3. ASSUME NEW p \in Proposers, NEW c \in Nat, Acked(p, s, c)', propTerm'[p] < propTerm'[q]
        PROVE  VoteKept(q, p, c)'
    <3>1. /\ Acked(p, s, c) /\ propTerm[p] < propTerm[q] /\ Elected(p)
          /\ propTh'[p] = propTh[p] /\ propTerm'[p] = propTerm[p]
      BY <1>2, <2>3, AckedBefore
    <3>2. CASE Covers(propTh'[q], propTh[p], c)
      BY <3>1, <3>2 DEF VoteKept
    <3>3. CASE Lost(p, c, propTerm[q] - 1)
      <4>1. propTerm[p] \in Nat
        BY StateTypes DEF ConsensusInv
      <4>2. PICK n \in Nat : n = propTerm[q] - 1
        BY <2>1, <3>1, <4>1
      <4>3. Lost(p, c, n)'
        BY <3>1, <3>3, <4>2, LostGrows
      <4>. QED  BY <1>2, <4>2, <4>3 DEF VoteKept
    <3>. QED  BY <1>2, <3>1, <3>2, <3>3
  <2>. QED  BY <2>2, <2>3 DEF VotedOK
<1>3. CASE Elected(q)
  <2>1. propTh'[q] = propTh[q] /\ propTerm'[q] = propTerm[q]
    BY <1>3, EffectsProgress
  <2>2. PICK Q \in SUBSET Safekeepers : IsQuorum(Q) /\ \A s \in Q : VotedOK(q, s)
    BY <1>3 DEF KeptInv, VoteKeptInv
  <2>3. ASSUME NEW s \in Q PROVE VotedOK(q, s)'
    BY <1>2, <2>1, <2>2 DEF VotedOK, VoteKept
  <2>. QED  BY <2>2, <2>3
<1>4. CASE ~Elected(q)
  <2>1. PICK Q \in SUBSET Safekeepers, v \in [Safekeepers -> Votes] :
           \E d : UNCHANGED skVars /\ Chosen(q, Q, v, d)
    BY <1>1, <1>4 DEF Traffic, ElectEffect
  <2>2. PICK d : Chosen(q, Q, v, d)
    BY <2>1
  <2>3. /\ IsQuorum(Q) /\ \A y \in Q : SnapOf(q, y, v[y], TRUE)
        /\ d \in MostAdvanced(v, Q) /\ d \in Q /\ propTh'[q] = NewHistory(q, v[d])
    BY <2>2 DEF Chosen, MostAdvanced
  <2>4. ASSUME NEW s \in Q PROVE VotedOK(q, s)'
    <3>1. v[s] \in Votes /\ TRUE \in BOOLEAN /\ s \in Safekeepers
      BY <2>4
    <3>2. nConnected[q] >= QuorumSize /\ term[s] >= propTerm[q]
      BY <2>3, <3>1, SnapFacts
    <3>3. propTerm'[q] = propTerm[q]
      BY <3>2, TermFixed
    <3>4. ASSUME NEW p \in Proposers, NEW c \in Nat, Acked(p, s, c), propTerm[p] < propTerm[q]
          PROVE  Covers(propTh'[q], propTh[p], c) \/ Lost(p, c, propTerm[q] - 1)
      <4>1. SnapKept(q, p, c, v[s], TRUE)
        BY <2>3, <3>1, <3>4 DEF KeptInv, SnapKeptInv
      <4>2. Elected(p) /\ c >= 1
        BY <3>4, AckedJoined
      <4>3. CASE Lost(p, c, propTerm[q] - 1)
        BY <4>3
      <4>4. CASE Covers(v[s].th, propTh[p], c) /\ v[s].flush >= c
        BY <2>3, <3>4, <4>2, <4>4, DonorCovers
      <4>. QED  BY <4>1, <4>3, <4>4 DEF SnapKept
    <3>. QED  BY <1>2, <3>1, <3>2, <3>3, <3>4
  <2>. QED  BY <2>3, <2>4
<1>. QED  BY <1>3, <1>4

\* What a quorum has acknowledged, from the start of the term on.
LEMMA AckedByQuorum ==
  ASSUME ConsensusInv, NEW p \in Proposers, QuorumAck(p) > 0
  PROVE  \E c \in Nat :
            /\ c >= QuorumAck(p)
            /\ IsQuorum({s \in Safekeepers : Acked(p, s, c)})
<1>1. PICK l \in Nat : l = QuorumAck(p)
  BY QuorumAckType
<1>2. Elected(p)
  BY QuorumAckElected DEF ConsensusInv
<1>3. PICK e \in Nat : e = PropEpochStartLsn(p)
  BY <1>2, EpochStartType DEF ConsensusInv
<1>4. PICK c \in Nat : c >= l /\ c >= e /\ (c = l \/ c = e)
  <2>1. CASE l >= e
    BY <2>1
  <2>2. CASE e >= l
    BY <2>2
  <2>. QED  BY <2>1, <2>2
<1>5. IsQuorum({s \in Safekeepers : CountedAck(p, s) >= l})
  BY <1>1, QuorumAckFacts DEF ConsensusInv
<1>6. ASSUME NEW s \in Safekeepers, CountedAck(p, s) >= l PROVE Acked(p, s, c)
  <2>1. ackFlush[p][s] \in Nat
    BY DEF ConsensusInv, TypeInv, TypeOK, ProposerTypeOK
  <2>2. ackFlush[p][s] >= e /\ ackFlush[p][s] >= l
    BY <1>1, <1>3, <1>6, <2>1 DEF CountedAck
  <2>3. ackFlush[p][s] >= c /\ c >= PropEpochStartLsn(p)
    BY <1>3, <1>4, <2>1, <2>2
  <2>. QED  BY <1>2, <2>3 DEF Acked
<1>7. IsQuorum({s \in Safekeepers : Acked(p, s, c)})
  BY <1>5, <1>6, QuorumGrows
<1>. QED  BY <1>1, <1>4, <1>7

LEMMA LeastNat ==
  ASSUME NEW T \in SUBSET Nat, T # {}
  PROVE  \E n \in T : \A k \in T : ~(k < n)
<1>1. PICK n \in T : \A k \in T : ~(<<k, n>> \in OpToRel(<, Nat))
  BY NatLessThanWellFounded, WFMin
<1>. QED  BY <1>1 DEF OpToRel

(***************************************************************************)
(* The first leader to lose WAL that a quorum has acknowledged would have  *)
(* got the vote of a safekeeper that has it, and no earlier leader to      *)
(* blame.                                                                  *)
(***************************************************************************)
LEMMA NothingLost ==
  ASSUME ConsensusInv, KeptInv, NEW p \in Proposers, NEW c \in Nat,
         IsQuorum({s \in Safekeepers : Acked(p, s, c)}), NEW q \in Proposers
  PROVE  ~Loses(q, p, c)
<1>1. SUFFICES ASSUME Loses(q, p, c) PROVE FALSE
  OBVIOUS
<1>2. \A x \in Proposers : propTerm[x] \in Nat
  BY DEF ConsensusInv, TypeInv, TypeOK, ProposerTypeOK
<1>. DEFINE T == {propTerm[x] : x \in {y \in Proposers : Loses(y, p, c)}}
<1>3. T \in SUBSET Nat /\ T # {}
  BY <1>1, <1>2
<1>4. PICK n \in T : \A k \in T : ~(k < n)
  BY <1>3, LeastNat
<1>5. PICK x \in Proposers : Loses(x, p, c) /\ n = propTerm[x]
  BY <1>4
<1>6. ASSUME NEW y \in Proposers, Loses(y, p, c) PROVE ~(propTerm[y] < propTerm[x])
  BY <1>4, <1>5, <1>6
<1>. HIDE DEF T
<1>7. PICK Q \in SUBSET Safekeepers : IsQuorum(Q) /\ \A s \in Q : VotedOK(x, s)
  BY <1>5 DEF KeptInv, VoteKeptInv, Loses
<1>8. PICK s \in Safekeepers : s \in Q /\ Acked(p, s, c)
  <2>1. PICK A \in SUBSET Safekeepers : A = {s \in Safekeepers : Acked(p, s, c)}
    OBVIOUS
  <2>2. \E s \in Safekeepers : s \in Q /\ s \in A
    BY <1>7, <2>1, QuorumsMeet
  <2>. QED  BY <2>1, <2>2
<1>9. VoteKept(x, p, c)
  BY <1>5, <1>7, <1>8 DEF VotedOK, Loses
<1>10. Lost(p, c, propTerm[x] - 1)
  BY <1>5, <1>9 DEF VoteKept, Loses
<1>11. PICK y \in Proposers : Loses(y, p, c) /\ propTerm[y] <= propTerm[x] - 1
  BY <1>10 DEF Lost
<1>12. propTerm[y] < propTerm[x]
  BY <1>2, <1>11
<1>. QED  BY <1>6, <1>11, <1>12

\* Where a later leader begins is above what it covers.
LEMMA CoversBelowStart ==
  ASSUME ConsensusInv, NEW p \in Proposers, NEW q \in Proposers, Elected(p), Elected(q),
         propTerm[p] < propTerm[q], NEW c \in Nat, Covers(propTh[q], propTh[p], c)
  PROVE  c <= PropEpochStartLsn(q)
<1>1. PICK h \in Seq(TermLsn), g \in Seq(TermLsn) : h = propTh[q] /\ g = propTh[p]
  BY DEF ConsensusInv, TypeInv, TypeOK, ProposerTypeOK
<1>2. /\ h # << >> /\ g # << >> /\ Ordered(h)
      /\ h[Len(h)].term = propTerm[q] /\ g[Len(g)].term = propTerm[p]
  BY <1>1, LeaderTerms DEF ConsensusInv, HistoryInv
<1>3. propTerm[p] \in Nat /\ propTerm[q] \in Nat
  BY DEF ConsensusInv, TypeInv, TypeOK, ProposerTypeOK
<1>4. Len(g) \in Nat /\ Len(h) \in Nat /\ Len(g) >= 1 /\ Len(g) < Len(h)
  <2>1. Len(g) \in 1..Len(g) /\ Len(h) \in Nat /\ Len(g) <= Len(h) /\ h[Len(g)] = g[Len(g)]
    BY <1>1, <1>2 DEF Covers
  <2>2. Len(g) # Len(h)
    BY <1>2, <1>3, <2>1
  <2>. QED  BY <2>1, <2>2
<1>5. Len(g) + 1 \in 1..Len(h) /\ Len(h) \in 1..Len(h)
  BY <1>4
<1>6. h[Len(g) + 1].lsn \in Nat /\ h[Len(h)].lsn \in Nat
  BY <1>5, EntryType
<1>7. h[Len(g) + 1].lsn >= c
  BY <1>1, <1>4 DEF Covers
<1>8. h[Len(g) + 1].lsn <= h[Len(h)].lsn
  <2>1. CASE Len(g) + 1 = Len(h)
    BY <1>6, <2>1
  <2>2. CASE Len(g) + 1 < Len(h)
    BY <1>2, <1>5, <2>2 DEF Ordered
  <2>. QED  BY <1>4, <2>1, <2>2
<1>. QED  BY <1>1, <1>6, <1>7, <1>8 DEF PropEpochStartLsn

LEMMA KeptComplete == ConsensusInv /\ KeptInv => LeaderCompleteness
<1>1. SUFFICES ASSUME ConsensusInv, KeptInv, NEW p \in Proposers, QuorumAck(p) > 0,
                      NEW q \in Proposers, Elected(q), propTerm[p] < propTerm[q]
               PROVE  /\ QuorumAck(p) <= PropEpochStartLsn(q)
                      /\ \A l \in StartLsn..(QuorumAck(p) - 1) :
                            TermOfRecord(propTh[p], l) = TermOfRecord(propTh[q], l)
  BY DEF LeaderCompleteness
<1>2. PICK c \in Nat : c >= QuorumAck(p) /\ IsQuorum({s \in Safekeepers : Acked(p, s, c)})
  BY <1>1, AckedByQuorum
<1>3. Elected(p) /\ QuorumAck(p) \in Nat
  BY <1>1, QuorumAckElected, QuorumAckType DEF ConsensusInv
<1>4. Covers(propTh[q], propTh[p], c)
  <2>1. ~Loses(q, p, c)
    BY <1>1, <1>2, NothingLost
  <2>. QED  BY <1>1, <2>1 DEF Loses
<1>5. QuorumAck(p) <= PropEpochStartLsn(q)
  <2>1. c <= PropEpochStartLsn(q)
    BY <1>1, <1>3, <1>4, CoversBelowStart
  <2>2. PropEpochStartLsn(q) \in Nat
    BY <1>1, EpochStartType DEF ConsensusInv
  <2>. QED  BY <1>2, <1>3, <2>1, <2>2
<1>6. ASSUME NEW l \in StartLsn..(QuorumAck(p) - 1)
      PROVE  TermOfRecord(propTh[p], l) = TermOfRecord(propTh[q], l)
  <2>1. propTh[p] \in Seq(TermLsn) /\ propTh[q] \in Seq(TermLsn)
    BY <1>1 DEF ConsensusInv, TypeInv, TypeOK, ProposerTypeOK
  <2>2. l \in Nat /\ l < c
    BY <1>2, <1>3, <1>6 DEF StartLsn
  <2>. QED  BY <1>4, <2>1, <2>2, CoversAgree
<1>. QED  BY <1>5, <1>6

LEMMA KeptOnQuorum == ConsensusInv /\ KeptInv => CommittedOnQuorum
<1>1. SUFFICES ASSUME ConsensusInv, KeptInv, NEW p \in Proposers, QuorumAck(p) > 0
               PROVE  IsQuorum({s \in Safekeepers :
                         /\ flushed[s] >= QuorumAck(p)
                         /\ \A l \in StartLsn..(QuorumAck(p) - 1) :
                               RecordAt(s, l) = TermOfRecord(propTh[p], l)})
  BY DEF CommittedOnQuorum
<1>2. PICK c \in Nat : c >= QuorumAck(p) /\ IsQuorum({s \in Safekeepers : Acked(p, s, c)})
  BY <1>1, AckedByQuorum
<1>3. PICK n \in Nat : n = QuorumAck(p)
  BY QuorumAckType
<1>4. ASSUME NEW s \in Safekeepers, Acked(p, s, c)
      PROVE  /\ flushed[s] >= n
             /\ \A l \in StartLsn..(n - 1) : RecordAt(s, l) = TermOfRecord(propTh[p], l)
  <2>1. Covers(th[s], propTh[p], c) /\ flushed[s] >= c
    <3>1. AckKept(s, p, c)
      BY <1>1, <1>4 DEF KeptInv, AckKeptInv
    <3>2. ~Lost(p, c, term[s])
      BY <1>1, <1>2, NothingLost DEF Lost
    <3>. QED  BY <3>1, <3>2 DEF AckKept
  <2>2. /\ flushed[s] \in Nat /\ th[s] \in Seq(TermLsn) /\ propTh[p] \in Seq(TermLsn)
        /\ Len(wal[s]) \in Nat
    BY <1>1, StateTypes DEF ConsensusInv
  <2>3. ASSUME NEW l \in StartLsn..(n - 1)
        PROVE  RecordAt(s, l) = TermOfRecord(propTh[p], l)
    <3>1. l \in Nat /\ l >= StartLsn /\ l < c /\ l < flushed[s]
      BY <1>2, <1>3, <2>1, <2>2, <2>3 DEF StartLsn
    <3>2. l < StartLsn + Len(wal[s])
      <4>1. flushed[s] <= WriteLsn(s)
        BY <1>1 DEF ConsensusInv, TypeInv, SafekeeperInv
      <4>2. WriteLsn(s) = 0 \/ WriteLsn(s) = StartLsn + Len(wal[s])
        BY DEF WriteLsn
      <4>. QED  BY <2>2, <3>1, <4>1, <4>2 DEF StartLsn
    <3>3. RecordAt(s, l) = TermOfRecord(th[s], l)
      BY <1>1, <3>1, <3>2, WalRecords
    <3>4. TermOfRecord(th[s], l) = TermOfRecord(propTh[p], l)
      BY <2>1, <2>2, <3>1, CoversAgree
    <3>. QED  BY <3>3, <3>4
  <2>. QED  BY <1>2, <1>3, <2>1, <2>2, <2>3
<1>. DEFINE B == {s \in Safekeepers :
                    /\ flushed[s] >= n
                    /\ \A l \in StartLsn..(n - 1) : RecordAt(s, l) = TermOfRecord(propTh[p], l)}
<1>5. B \in SUBSET Safekeepers /\ {s \in Safekeepers : Acked(p, s, c)} \subseteq B
  BY <1>4
<1>6. IsQuorum(B)
  <2>. HIDE DEF B
  <2>. QED  BY <1>2, <1>5, QuorumGrows
<1>. QED  BY <1>3, <1>6
-----------------------------------------------------------------------------
LEMMA InitKept == Init => KeptInv
<1>. SUFFICES ASSUME Init PROVE KeptInv
  OBVIOUS
<1>1. \A p \in Proposers, s \in Safekeepers : ~Elected(p) /\ \A c : ~Acked(p, s, c)
  BY DEF Init, Elected, Acked
<1>2. \A p \in Proposers : ~Elected(p)
  BY DEF Init, Elected
<1>3. AckKeptInv /\ SnapKeptInv
  BY <1>1 DEF AckKeptInv, SnapKeptInv
<1>4. StartKeptInv
  BY <1>1 DEF StartKeptInv, StartOK
<1>5. VoteKeptInv
  BY <1>2 DEF VoteKeptInv
<1>. QED  BY <1>3, <1>4, <1>5 DEF KeptInv

LEMMA NextKept == ConsensusInv /\ KeptInv /\ [Next]_vars => KeptInv'
<1>. SUFFICES ASSUME ConsensusInv, KeptInv, [Next]_vars PROVE KeptInv'
  OBVIOUS
<1>1. ConsensusInv'
  BY NextHistory
<1>2. Effects /\ Traffic
  BY <1>1, NextEffects, NextTraffic
<1>3. AckKeptInv'
  BY <1>1, <1>2, NextAckKept
<1>4. SnapKeptInv'
  BY <1>1, <1>2, NextSnapKept
<1>5. StartKeptInv'
  BY <1>1, <1>2, NextStartKept
<1>6. VoteKeptInv'
  BY <1>1, <1>2, NextVoteKept
<1>. QED  BY <1>3, <1>4, <1>5, <1>6 DEF KeptInv

LEMMA AlwaysKept == Spec => [](ConsensusInv /\ KeptInv)
<1>1. Init => KeptInv
  BY InitKept
<1>2. ConsensusInv /\ KeptInv /\ [Next]_vars => KeptInv'
  BY NextKept
<1>3. Spec => []ConsensusInv
  BY AlwaysConsensus
<1>. QED  BY <1>1, <1>2, <1>3, PTL DEF Spec

(***************************************************************************)
(* What a walproposer has reported as committed is part of the WAL of      *)
(* every later leader, for any number of safekeepers, walproposers and     *)
(* terms: votes may be old when they are counted, their safekeepers may    *)
(* have crashed or changed sides since, and the donor that                 *)
(* DetermineEpochStartLsn picks still has all that any voter acknowledged. *)
(***************************************************************************)
THEOREM LaterLeadersHaveCommitted == Spec => []LeaderCompleteness
<1>1. ConsensusInv /\ KeptInv => LeaderCompleteness
  BY KeptComplete
<1>. QED  BY <1>1, AlwaysKept, PTL

(***************************************************************************)
(* Committed WAL stays on the disks of a quorum, record by record, for any *)
(* number of safekeepers and walproposers: no ProposerElected, however     *)
(* late and from whichever leader, cuts it, with a crash on the way or     *)
(* without.                                                                *)
(***************************************************************************)
THEOREM QuorumKeepsCommitted == Spec => []CommittedOnQuorum
<1>1. ConsensusInv /\ KeptInv => CommittedOnQuorum
  BY KeptOnQuorum
<1>. QED  BY <1>1, AlwaysKept, PTL
=============================================================================
