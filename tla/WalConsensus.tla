---------------------------- MODULE WalConsensus ----------------------------
(***************************************************************************)
(* Replication of one timeline's WAL from a compute to its safekeepers:    *)
(* the walproposer (pgxn/neon/walproposer.c) and the safekeeper            *)
(* (safekeeper/src/safekeeper.rs, receive_wal.rs), with the network        *)
(* between them.                                                           *)
(*                                                                         *)
(* A proposer is one run of a walproposer process; a compute that restarts *)
(* is another element of Proposers, so that two of them alive at once is   *)
(* the usual "old compute is still around".  A proposer that crashes takes *)
(* no further step; what it has sent is still delivered.  A WAL record is  *)
(* abstracted to the term it was written under, and one record is one LSN  *)
(* long; LSN 0 is the invalid LSN and StartLsn the LSN of the basebackup   *)
(* the timeline was bootstrapped from.                                     *)
(*                                                                         *)
(* The LSNs that only drive retention of WAL (peer_horizon, backup,        *)
(* remote_consistent) are not part of this module.                         *)
(***************************************************************************)
EXTENDS TermHistory

CONSTANTS
    Safekeepers,    \* the acceptors of the timeline
    Proposers,      \* runs of walproposer
    MAX_SEND_SIZE,  \* records in one AppendRequest
    MaxTerm,        \* bound: highest term a proposer picks
    MaxLsn,         \* bound: end of the WAL a proposer generates
    MaxInFlight,    \* bound: messages under way when one more is sent
    MaxGreetings,   \* bound: connections that each proposer opens, all together
    MaxCandidates,  \* bound: proposers in the middle of their election at once
    MaxCrashes,     \* bound: safekeeper restarts
    MaxPublishes    \* bound: safekeeper infos pushed to the broker

ASSUME SafekeepersAssumption == IsFiniteSet(Safekeepers) /\ Safekeepers # {}
ASSUME BoundsAssumption ==
    /\ MAX_SEND_SIZE \in Nat \ {0}
    /\ MaxTerm \in Nat
    /\ MaxLsn \in Nat
    /\ MaxInFlight \in Nat
    /\ MaxGreetings \in [Proposers -> Nat]
    /\ MaxCandidates \in Nat
    /\ MaxCrashes \in Nat
    /\ MaxPublishes \in Nat

VARIABLES
    \* Safekeeper: the control file (acceptor_state, timeline_start_lsn and
    \* the saved commit_lsn), ...
    term, th, tlStart, pCommit,
    \* ... its WAL files (written, and up to where they are fsynced) ...
    wal, flushed,
    \* ... and what it keeps in memory only.
    commit, epochStartLsn,
    \* Proposer.
    up, conn, propTerm, nConnected, nVotes, vote, propTh, donor,
    availableLsn, streamingAt, ackFlush,
    \* Connections: messages to a safekeeper ("old" is what the previous,
    \* closed connection left behind), the reply on the way back, and
    \* whether the safekeeper's end is open.
    net, rep, link,
    \* The broker's latest safekeeper info.
    published,
    \* Votes ever given, as <<safekeeper, proposer>>; history only.
    grants,
    \* What the bounds count.
    crashes, publishes

skVars    == <<term, th, tlStart, pCommit, wal, flushed, commit, epochStartLsn>>
propVars  == <<up, conn, propTerm, nConnected, nVotes, vote, propTh, donor,
               availableLsn, streamingAt, ackFlush>>
linkVars  == <<net, rep, link>>
countVars == <<crashes, publishes>>
vars == <<skVars, propVars, linkVars, published, grants, countVars>>

StartLsn == 1

\* wp->quorum
QuorumSize == Cardinality(Safekeepers) \div 2 + 1
IsQuorum(Q) == Cardinality(Q) >= QuorumSize

Channels == {"cur", "old"}

NoReply == [type |-> "none"]
NoVote  == [flush |-> 0, th |-> << >>]
NoInfo  == [epoch |-> 0, commit |-> 0]

-----------------------------------------------------------------------------
(***************************************************************************)
(* Safekeeper.                                                             *)
(***************************************************************************)

\* Mutant: the end of the WAL counted from the wrong origin.
WriteLsnWrongOrigin(s) == Len(wal[s]) - StartLsn

\* PhysicalStorage.write_lsn: the end of what has been written, 0 as long as
\* nothing is known of where the timeline starts.
WriteLsn(s) == IF tlStart[s] = 0 THEN 0 ELSE StartLsn + Len(wal[s])

\* SafeKeeper::flush_lsn
FlushLsn(s) == MaxOf(flushed[s], tlStart[s])

\* SafeKeeper::get_epoch
Epoch(s) == EpochAt(th[s], FlushLsn(s))

\* The term of the record that s has at lsn.
RecordAt(s, lsn) == wal[s][lsn - StartLsn + 1]

(***************************************************************************)
(* Only the current connection of a living proposer carries replies; what  *)
(* is processed on behalf of a closed one is answered to nobody.           *)
(***************************************************************************)
Reply(p, s, c, r) ==
    rep' = IF c = "cur" /\ up[p] /\ link[p][s]
           THEN [rep EXCEPT ![p][s] = r]
           ELSE rep

Consume(p, s, c) == net' = [net EXCEPT ![p][s][c] = Tail(@)]

\* An error of WalAcceptor::run ends the connection from the safekeeper side.
Bail(p, s, c) ==
    /\ net'  = [net EXCEPT ![p][s][c] = << >>]
    /\ link' = IF c = "cur" THEN [link EXCEPT ![p][s] = FALSE] ELSE link

HeadIs(p, s, c, type) == net[p][s][c] # << >> /\ Head(net[p][s][c]).type = type

\* Mutant: a safekeeper votes again in the term it has voted in.
GivesVoteAgain(s, t) == term[s] <= t

\* handle_vote_request: give the vote for a term higher than ours.
GivesVote(s, t) == term[s] < t

\* SafeKeeper::get_term_history: adopted histories go beyond the WAL.
GetTermHistory(s, flush_lsn) == UpTo(th[s], flush_lsn)

(***************************************************************************)
(* handle_vote_request.  flush_wal comes first, whatever the answer; the   *)
(* new term, and with it the in-memory commit_lsn, is saved before the     *)
(* vote is sent out.                                                       *)
(***************************************************************************)
HandleVoteRequest(p, s, c) ==
    /\ HeadIs(p, s, c, "vote")
    /\ LET given == GivesVote(s, propTerm[p])
           flush_lsn == MaxOf(WriteLsn(s), tlStart[s])
       IN  /\ flushed' = [flushed EXCEPT ![s] = WriteLsn(s)]
           /\ term'    = [term EXCEPT ![s] = IF given THEN propTerm[p] ELSE @]
           /\ pCommit' = [pCommit EXCEPT ![s] = IF given THEN commit[s] ELSE @]
           /\ grants'  = IF given THEN grants \union {<<s, p>>} ELSE grants
           /\ Reply(p, s, c, [type  |-> "vote",
                              given |-> given,
                              term  |-> MaxOf(term[s], propTerm[p]),
                              flush |-> flush_lsn,
                              th    |-> GetTermHistory(s, flush_lsn)])
    /\ Consume(p, s, c)
    /\ UNCHANGED <<th, tlStart, wal, commit, epochStartLsn, propVars, link,
                   published, countVars>>

\* PhysicalStorage::truncate_wal: the first records of the WAL, up to lsn.
Truncated(s, lsn) == SubSeq(wal[s], 1, lsn - StartLsn)

\* Mutant: ProposerElected is not refused for what the WAL contains.
OverwritesNothing(p, s, start) == FALSE

\* The message would cut WAL that p itself has already put there.
OverwritesCorrectWal(p, s, start) ==
    /\ propTerm[p] = Epoch(s)
    /\ FlushLsn(s) > start

\* truncate_wal refuses to truncate beyond the end of what is written.
TruncateRefused(s, start) == WriteLsn(s) # 0 /\ start > WriteLsn(s)

(***************************************************************************)
(* handle_elected: learn the term; unless it is stale, truncate the WAL at *)
(* the divergence point and adopt the proposer's history.  A failed        *)
(* assertion panics the connection's task, which like an error ends it.    *)
(***************************************************************************)
HandleElected(p, s, c) ==
    /\ HeadIs(p, s, c, "elected")
    /\ term' = [term EXCEPT ![s] = MaxOf(@, propTerm[p])]
    /\ LET start == Head(net[p][s][c]).start
           bumped == term[s] < propTerm[p]
       IN  \/ /\ term[s] > propTerm[p]
              /\ Consume(p, s, c)
              /\ UNCHANGED <<th, tlStart, pCommit, wal, flushed, commit,
                             epochStartLsn, link>>
           \/ /\ term[s] <= propTerm[p]
              /\ \/ OverwritesCorrectWal(p, s, start)
                 \/ start < commit[s]
                 \/ TruncateRefused(s, start)
              /\ Bail(p, s, c)
              /\ pCommit' = [pCommit EXCEPT ![s] = IF bumped THEN commit[s] ELSE @]
              /\ UNCHANGED <<th, tlStart, wal, flushed, commit, epochStartLsn>>
           \/ /\ term[s] <= propTerm[p]
              /\ ~OverwritesCorrectWal(p, s, start)
              /\ start >= commit[s]
              /\ ~TruncateRefused(s, start)
              /\ wal'     = [wal EXCEPT ![s] = Truncated(s, start)]
              /\ flushed' = [flushed EXCEPT ![s] = start]
              /\ tlStart' = [tlStart EXCEPT ![s] = IF @ = 0 THEN StartLsn ELSE @]
              /\ commit'  = [commit EXCEPT ![s] = MaxOf(@, StartLsn)]
              /\ pCommit' = [pCommit EXCEPT ![s] = MaxOf(commit[s], StartLsn)]
              /\ th'      = [th EXCEPT ![s] = propTh[p]]
              /\ epochStartLsn' =
                     [epochStartLsn EXCEPT ![s] = propTh[p][Len(propTh[p])].lsn]
              /\ Consume(p, s, c)
              /\ UNCHANGED link
    /\ UNCHANGED <<propVars, rep, published, grants, countVars>>

\* Mutant: commit_lsn is taken as it comes.
UncheckedCommitLsn(s, candidate) == MaxOf(candidate, commit[s])

\* What update_commit_lsn makes of a candidate.
NewCommitLsn(s, candidate) == MinOf(MaxOf(candidate, commit[s]), FlushLsn(s))

(***************************************************************************)
(* update_commit_lsn: never down, never beyond the local flush_lsn.  The   *)
(* control file is saved at once when the start of the term is reached.    *)
(***************************************************************************)
UpdateCommitLsn(s, candidate) ==
    LET new == NewCommitLsn(s, candidate)
    IN  /\ commit'  = [commit EXCEPT ![s] = new]
        /\ pCommit' = [pCommit EXCEPT ![s] =
                          IF new >= epochStartLsn[s] /\ @ < epochStartLsn[s]
                          THEN new ELSE @]

\* WalAcceptor::run takes the next AppendRequest that is readily available
\* before it flushes what the previous ones wrote.
NextAppend(p, s, c) ==
    LET q == net[p][s][c]
    IN  IF HeadIs(p, s, c, "flush") /\ Len(q) > 1 THEN Tail(q) ELSE q

\* write_wal allows neither a rewrite of what is written nor a gap.
WriteRefused(s, begin) ==
    \/ begin < WriteLsn(s)
    \/ begin > WriteLsn(s) /\ WriteLsn(s) # 0

(***************************************************************************)
(* handle_append_request, as NoFlushAppendRequest; the flush that must     *)
(* follow is left at the head of the queue.                                *)
(***************************************************************************)
HandleAppendRequest(p, s, c) ==
    LET q == NextAppend(p, s, c)
        m == Head(q)
        processed == [net EXCEPT ![p][s][c] = <<[type |-> "flush"]>> \o Tail(q)]
    IN  /\ q # << >>
        /\ m.type = "append"
        /\ \/ \* "got AppendRequest before ProposerElected", or write_wal fails
              /\ \/ term[s] < propTerm[p]
                 \/ /\ term[s] = propTerm[p]
                    /\ m.entries # << >>
                    /\ WriteRefused(s, m.begin)
              /\ Bail(p, s, c)
              /\ UNCHANGED <<skVars, rep>>
           \/ \* our term is higher
              /\ term[s] > propTerm[p]
              /\ net' = processed
              /\ Reply(p, s, c, [type |-> "append", term |-> term[s], flush |-> 0])
              /\ UNCHANGED <<skVars, link>>
           \/ /\ term[s] = propTerm[p]
              /\ m.entries # << >> => ~WriteRefused(s, m.begin)
              /\ wal' = [wal EXCEPT ![s] = @ \o m.entries]
              /\ IF m.commit # 0
                 THEN UpdateCommitLsn(s, m.commit)
                 ELSE UNCHANGED <<commit, pCommit>>
              /\ net' = processed
              /\ UNCHANGED <<term, th, tlStart, flushed, epochStartLsn, rep, link>>
        /\ UNCHANGED <<propVars, published, grants, countVars>>

\* handle_flush: make everything written durable and acknowledge it.
HandleFlush(p, s, c) ==
    /\ HeadIs(p, s, c, "flush")
    /\ flushed' = [flushed EXCEPT ![s] = WriteLsn(s)]
    /\ Reply(p, s, c, [type  |-> "append",
                       term  |-> term[s],
                       flush |-> MaxOf(flushed'[s], tlStart[s])])
    /\ Consume(p, s, c)
    /\ UNCHANGED <<term, th, tlStart, pCommit, wal, commit, epochStartLsn,
                   propVars, link, published, grants, countVars>>

(***************************************************************************)
(* TimelineState::flush from maybe_persist_inmem_control_file (periodic)   *)
(* and from the places that save the control file once an LSN has moved    *)
(* by more than a segment.  What is saved is read only by a restart.       *)
(***************************************************************************)
PersistControlFile(s) ==
    /\ crashes < MaxCrashes
    /\ commit[s] > pCommit[s]
    /\ pCommit' = [pCommit EXCEPT ![s] = commit[s]]
    /\ UNCHANGED <<term, th, tlStart, wal, flushed, commit, epochStartLsn,
                   propVars, linkVars, published, grants, countVars>>

(***************************************************************************)
(* What a restart leaves of s: the control file, with history h, the WAL   *)
(* files with the records in w (PhysicalStorage::new looks for their end), *)
(* no connection.                                                          *)
(* Replies already sent may still be read by the proposers.                *)
(***************************************************************************)
RestartWith(s, w, saved, h) ==
    /\ crashes < MaxCrashes
    /\ crashes' = crashes + 1
    /\ wal'     = [wal EXCEPT ![s] = w]
    /\ flushed' = [flushed EXCEPT ![s] =
                      IF tlStart[s] = 0 THEN 0 ELSE StartLsn + Len(w)]
    /\ pCommit' = [pCommit EXCEPT ![s] = saved]
    /\ commit'  = [commit EXCEPT ![s] = saved]
    /\ th'      = [th EXCEPT ![s] = h]
    /\ epochStartLsn' = [epochStartLsn EXCEPT ![s] = 0]
    /\ net'  = [p \in Proposers |->
                  [net[p] EXCEPT ![s] = [c \in Channels |-> << >>]]]
    /\ link' = [p \in Proposers |-> [link[p] EXCEPT ![s] = FALSE]]
    /\ UNCHANGED <<tlStart, propVars, rep, published, grants, publishes>>

\* Mutant: flushed records may be lost as well, down to the saved commit_lsn.
SurvivingAboveCommit(s) ==
    {SubSeq(wal[s], 1, n) : n \in {k \in 0..Len(wal[s]) : StartLsn + k >= pCommit[s]}}

\* Of what was written and not flushed, any part may survive.
SurvivingWal(s) ==
    {SubSeq(wal[s], 1, n) : n \in {k \in 0..Len(wal[s]) : StartLsn + k >= flushed[s]}}

\* Mutant: the term of the last vote was not saved.
SavedTermIsLastAdopted(s) == HighestTerm(th[s])

\* finish_change has saved the term before anybody could learn of it.
SavedTerm(s) == term[s]

\* TimelineState::new, PhysicalStorage::new after a crash at any moment.
SafekeeperRestart(s) ==
    /\ \E w \in SurvivingWal(s) : RestartWith(s, w, pCommit[s], th[s])
    /\ term' = [term EXCEPT ![s] = SavedTerm(s)]

\* Mutant: the history is adopted before the WAL is truncated.
HistoryAdoptedFirst(p, s) == propTh[p]

\* The history in the control file while handle_elected truncates the WAL.
HistoryDuringTruncate(p, s) == th[s]

\* A crash inside handle_elected: the term is saved and the WAL may be
\* truncated, but the proposer's history is not adopted.
CrashInElected(p, s, c) ==
    /\ HeadIs(p, s, c, "elected")
    /\ LET start == Head(net[p][s][c]).start
       IN  /\ term[s] <= propTerm[p]
           /\ ~OverwritesCorrectWal(p, s, start)
           /\ start >= commit[s]
           /\ ~TruncateRefused(s, start)
           /\ \E w \in {Truncated(s, start)} \union SurvivingWal(s) :
                 RestartWith(s, w,
                             IF term[s] < propTerm[p] THEN commit[s] ELSE pCommit[s],
                             HistoryDuringTruncate(p, s))
    /\ term' = [term EXCEPT ![s] = propTerm[p]]

(***************************************************************************)
(* broker.rs push loop: Timeline::get_safekeeper_info of s.  The broker    *)
(* keeps nothing; the latest message may reach a peer arbitrarily late.    *)
(***************************************************************************)
PublishInfo(s) ==
    /\ publishes < MaxPublishes
    /\ published' = [epoch |-> Epoch(s), commit |-> commit[s]]
    /\ published' # published
    /\ publishes' = publishes + 1
    /\ UNCHANGED <<skVars, propVars, linkVars, grants, crashes>>

\* The peer knows a commit_lsn, and the last records of both were written in
\* the same term.
InfoApplies(s) ==
    /\ published.commit # 0
    /\ published.epoch # 0
    /\ published.epoch = Epoch(s)

\* record_safekeeper_info, as far as it concerns commit_lsn.
RecordSafekeeperInfo(s) ==
    /\ InfoApplies(s)
    /\ UpdateCommitLsn(s, published.commit)
    /\ UNCHANGED <<term, th, tlStart, wal, flushed, epochStartLsn, propVars,
                   linkVars, published, grants, countVars>>

-----------------------------------------------------------------------------
(***************************************************************************)
(* Walproposer.                                                            *)
(***************************************************************************)

\* wp->propEpochStartLsn
PropEpochStartLsn(p) == propTh[p][Len(propTh[p])].lsn

\* A walproposer has its history exactly when it has been elected.
Elected(p) == propTh[p] # << >>

(***************************************************************************)
(* GetAcknowledgedByQuorumWALPosition: the highest LSN that a quorum has   *)
(* flushed (so a quorum has flushed each lower one too), where flush       *)
(* positions before the start of our term count as nothing.  This is what  *)
(* the compute treats as committed.                                        *)
(***************************************************************************)
CountedAck(p, s) ==
    IF Elected(p) /\ ackFlush[p][s] >= PropEpochStartLsn(p) THEN ackFlush[p][s] ELSE 0

QuorumAck(p) ==
    Cardinality({l \in 1..MaxLsn : IsQuorum({s \in Safekeepers : CountedAck(p, s) >= l})})

\* The number of requests and replies under way.
InFlight ==
    Cardinality(UNION {{<<p, s, c, i>> : i \in DOMAIN net[p][s][c]} :
                          p \in Proposers, s \in Safekeepers, c \in Channels})
        + Cardinality({x \in Proposers \X Safekeepers : rep[x[1]][x[2]] # NoReply})

\* The proposers that have begun their election and not finished it.
Candidates == {p \in Proposers : up[p] /\ nConnected[p] > 0 /\ ~Elected(p)}

\* FATAL or PANIC: the process is gone, and its connections close.  What it
\* has sent may still be delivered.
Die(p) ==
    /\ up'   = [up EXCEPT ![p] = FALSE]
    /\ conn' = [conn EXCEPT ![p] = [s \in Safekeepers |-> "offline"]]
    /\ vote' = [vote EXCEPT ![p] = [s \in Safekeepers |-> NoVote]]
    /\ streamingAt' = [streamingAt EXCEPT ![p] = [s \in Safekeepers |-> 0]]
    /\ rep'  = [rep EXCEPT ![p] = [s \in Safekeepers |-> NoReply]]
    /\ link' = [link EXCEPT ![p] = [s \in Safekeepers |-> FALSE]]

\* The connection's queues with one more message; what is sent over a broken
\* connection is lost.
Queued(q, m) == [q EXCEPT !["cur"] = Append(@, m)]

(***************************************************************************)
(* ResetConnection, START_WAL_PUSH, ProposerGreeting; handle_greeting      *)
(* answers with the safekeeper's term and RecvAcceptorGreeting takes it:   *)
(* the first quorum of greetings fixes the proposer's term, and from then  *)
(* on everybody in SS_VOTING is asked for a vote.  One step, since what    *)
(* the safekeeper does after it has read its term commutes with the        *)
(* arrival of the answer.                                                  *)
(***************************************************************************)
Greet(p, s) ==
    /\ up[p]
    /\ conn[p][s] = "offline"
    /\ nConnected[p] < MaxGreetings[p]
    /\ InFlight < MaxInFlight
    /\ nConnected[p] = 0 => Cardinality(Candidates) < MaxCandidates
    /\ nConnected' = [nConnected EXCEPT ![p] = @ + 1]
    /\ LET n == nConnected'[p]
           greeted == MaxOf(propTerm[p], term[s])
           voters == {v \in Safekeepers : conn[p][v] = "voting"} \union {s}
           opened == [link[p] EXCEPT ![s] = TRUE]
       IN  \/ /\ n < QuorumSize
              /\ propTerm' = [propTerm EXCEPT ![p] = greeted]
              /\ conn' = [conn EXCEPT ![p][s] = "voting"]
              /\ link' = [link EXCEPT ![p] = opened]
              /\ UNCHANGED <<up, vote, streamingAt, net, rep>>
           \/ /\ n > QuorumSize
              /\ term[s] > propTerm[p]
              /\ Die(p)
              /\ UNCHANGED <<propTerm, net>>
           \/ /\ n >= QuorumSize
              /\ n > QuorumSize => term[s] <= propTerm[p]
              /\ propTerm' = [propTerm EXCEPT ![p] =
                                 IF n = QuorumSize THEN greeted + 1 ELSE @]
              /\ propTerm'[p] <= MaxTerm
              /\ conn' = [conn EXCEPT ![p] = [v \in Safekeepers |->
                             IF v \in voters THEN "wait_verdict" ELSE @[v]]]
              /\ link' = [link EXCEPT ![p] = opened]
              /\ net'  = [net EXCEPT ![p] = [v \in Safekeepers |->
                             IF v \in voters /\ opened[v]
                             THEN Queued(@[v], [type |-> "vote"])
                             ELSE @[v]]]
              /\ UNCHANGED <<up, vote, streamingAt, rep>>
    /\ UNCHANGED <<skVars, nVotes, propTh, donor, availableLsn, ackFlush, published,
                   grants, countVars>>

\* Mutant: the longest WAL wins, whatever term it ends in.
Longest(v, voters) == {d \in voters : \A o \in voters : v[d].flush >= v[o].flush}

\* DetermineEpochStartLsn: the voter whose WAL ends in the highest term, and
\* the longest of those; the code takes the first of equals.
MostAdvanced(v, voters) ==
    {d \in voters : \A o \in voters :
        LET epoch(x) == HighestTerm(v[x].th)
        IN  \/ epoch(d) > epoch(o)
            \/ epoch(d) = epoch(o) /\ v[d].flush >= v[o].flush}

\* The history of a proposer whose donor gave the vote v: the donor's and its
\* own entry, which begins at the end of the donor's WAL or, when no voter has
\* any, at the basebackup LSN.
NewHistory(p, v) ==
    Append(v.th, [term |-> propTerm[p], lsn |-> IF v.flush = 0 THEN StartLsn ELSE v.flush])

\* SendProposerElected, StartStreaming to every safekeeper in S, with v their
\* votes and h the history.  Afterwards the votes are not read any more.
SendProposerElected(p, S, v, h) ==
    LET start(s) == StartStreamingAt(h, propTerm[p], v[s].th, v[s].flush)
    IN  /\ conn' = [conn EXCEPT ![p] = [s \in Safekeepers |->
                       IF s \in S THEN "active" ELSE @[s]]]
        /\ streamingAt' = [streamingAt EXCEPT ![p] = [s \in Safekeepers |->
                       IF s \in S THEN start(s) ELSE @[s]]]
        /\ net'  = [net EXCEPT ![p] = [s \in Safekeepers |->
                       IF s \in S /\ link[p][s]
                       THEN Queued(@[s], [type |-> "elected", start |-> start(s)])
                       ELSE @[s]]]
        /\ vote' = [vote EXCEPT ![p] = [s \in Safekeepers |->
                       IF s \in S THEN NoVote ELSE @[s]]]
        /\ rep'  = [rep EXCEPT ![p] = [s \in Safekeepers |->
                       IF s \in S THEN NoReply ELSE @[s]]]

(***************************************************************************)
(* RecvVoteResponse.  The vote that completes the quorum elects us         *)
(* (HandleElectedProposer), provided that everybody who voted is still     *)
(* connected; later answers only start streaming.  A walproposer that must *)
(* retake the basebackup (its redo LSN is not the start of its term), or   *)
(* that has synced the safekeepers, exits here: a proposer that takes no   *)
(* further step.                                                           *)
(***************************************************************************)
RecvVoteResponse(p, s) ==
    LET r == rep[p][s]
        n == nVotes[p] + 1
        v == [vote[p] EXCEPT ![s] = [flush |-> r.flush, th |-> r.th]]
        ready == {i \in Safekeepers : conn[p][i] = "idle"} \union {s}
        refused == ~r.given /\ (r.term > propTerm[p] \/ nVotes[p] < QuorumSize)
    IN  /\ up[p]
        /\ conn[p][s] = "wait_verdict"
        /\ r.type = "vote"
        /\ \/ /\ refused \/ (n = QuorumSize /\ ~IsQuorum(ready))
              /\ Die(p)
              /\ UNCHANGED <<nVotes, propTh, donor, availableLsn, net>>
           \/ /\ ~refused
              /\ n < QuorumSize
              /\ nVotes' = [nVotes EXCEPT ![p] = n]
              /\ conn' = [conn EXCEPT ![p][s] = "idle"]
              /\ vote' = [vote EXCEPT ![p] = v]
              /\ rep'  = [rep EXCEPT ![p][s] = NoReply]
              /\ UNCHANGED <<up, propTh, donor, availableLsn, streamingAt, net, link>>
           \/ /\ ~refused
              /\ n > QuorumSize
              /\ nVotes' = [nVotes EXCEPT ![p] = n]
              /\ SendProposerElected(p, {s}, v, propTh[p])
              /\ UNCHANGED <<up, propTh, donor, availableLsn, link>>
           \/ /\ ~refused
              /\ n = QuorumSize
              /\ IsQuorum(ready)
              /\ nVotes' = [nVotes EXCEPT ![p] = n]
              /\ \E d \in MostAdvanced(v, ready) :
                    LET h == NewHistory(p, v[d])
                    IN  /\ propTh' = [propTh EXCEPT ![p] = h]
                        /\ donor'  = [donor EXCEPT ![p] = {d}]
                        /\ availableLsn' = [availableLsn EXCEPT ![p] = h[Len(h)].lsn]
                        /\ SendProposerElected(p, ready, v, h)
              /\ UNCHANGED <<up, link>>
        /\ UNCHANGED <<skVars, propTerm, nConnected, ackFlush, published, grants,
                       countVars>>

\* WalProposerBroadcast: the compute has generated one more record.  It is
\* noticed only when it is sent, so it comes when somebody has caught up.
WalProposerBroadcast(p) ==
    /\ up[p]
    /\ Elected(p)
    /\ availableLsn[p] < MaxLsn
    /\ \E s \in Safekeepers : conn[p][s] = "active" /\ streamingAt[p][s] = availableLsn[p]
    /\ availableLsn' = [availableLsn EXCEPT ![p] = @ + 1]
    /\ UNCHANGED <<skVars, up, conn, propTerm, nConnected, nVotes, vote, propTh,
                   donor, streamingAt, ackFlush, linkVars, published, grants,
                   countVars>>

(***************************************************************************)
(* GetDonor: the safekeeper that determined the start of our term, unless  *)
(* a connected one has acknowledged more.                                  *)
(***************************************************************************)
GetDonor(p) ==
    LET first == {d \in donor[p] : conn[p][d] \in {"idle", "active"}}
        ahead == {s \in Safekeepers :
                    /\ conn[p][s] = "active"
                    /\ ackFlush[p][s] > IF first = {} THEN 0 ELSE PropEpochStartLsn(p)}
    IN  IF ahead = {}
        THEN first
        ELSE {s \in ahead : \A o \in ahead : ackFlush[p][s] >= ackFlush[p][o]}

\* START_REPLICATION with our term on safekeeper d: it serves flushed WAL as
\* long as its term is that one.
DonorServes(p, d, end) == term[d] = propTerm[p] /\ FlushLsn(d) >= end

\* Mutant: a message is sent only when there is WAL to send.
HasWalToSend(p, s, begin, end) == end > begin

(***************************************************************************)
(* SendAppendRequests also sends empty messages: when the commit position  *)
(* has advanced (BroadcastAppendRequest) and as heartbeats.  One at a time *)
(* is enough here: on an idle connection.                                  *)
(***************************************************************************)
WorthSending(p, s, begin, end) ==
    \/ end > begin
    \/ net[p][s]["cur"] = << >> /\ rep[p][s] = NoReply

(***************************************************************************)
(* SendAppendRequests, one message.  WAL before the start of our term is   *)
(* read from a donor (NeonWALRead), the rest is our own.                   *)
(***************************************************************************)
SendAppendRequest(p, s) ==
    LET begin == streamingAt[p][s]
        end == MinOf(begin + MAX_SEND_SIZE, availableLsn[p])
        send(entries) ==
            net' = [net EXCEPT ![p][s]["cur"] =
                       Append(@, [type |-> "append", begin |-> begin,
                                  entries |-> entries, commit |-> QuorumAck(p)])]
    IN  /\ up[p]
        /\ conn[p][s] = "active"
        /\ link[p][s]
        /\ InFlight < MaxInFlight
        /\ WorthSending(p, s, begin, end)
        /\ \/ /\ begin >= PropEpochStartLsn(p)
              /\ send([i \in 1..(end - begin) |-> propTerm[p]])
           \/ /\ begin < PropEpochStartLsn(p)
              /\ \E d \in GetDonor(p) :
                    /\ DonorServes(p, d, end)
                    /\ send([i \in 1..(end - begin) |-> RecordAt(d, begin + i - 1)])
        /\ streamingAt' = [streamingAt EXCEPT ![p][s] = end]
        /\ UNCHANGED <<skVars, up, conn, propTerm, nConnected, nVotes, vote, propTh,
                       donor, availableLsn, ackFlush, rep, link, published, grants,
                       countVars>>

\* RecvAppendResponses: remember what s has flushed; a higher term means
\* that another compute has taken over.
RecvAppendResponse(p, s) ==
    /\ up[p]
    /\ conn[p][s] = "active"
    /\ rep[p][s].type = "append"
    /\ \/ /\ rep[p][s].term > propTerm[p]
          /\ Die(p)
          /\ UNCHANGED ackFlush
       \/ /\ rep[p][s].term <= propTerm[p]
          /\ ackFlush' = [ackFlush EXCEPT ![p][s] = rep[p][s].flush]
          /\ rep' = [rep EXCEPT ![p][s] = NoReply]
          /\ UNCHANGED <<up, conn, vote, streamingAt, link>>
    /\ UNCHANGED <<skVars, propTerm, nConnected, nVotes, propTh, donor,
                   availableLsn, net, published, grants, countVars>>

\* Mutant: the acknowledgement is forgotten with the connection.
AckForgotten(ack) == 0

\* ShutdownConnection does not touch sk->appendResponse.
AckAfterShutdown(ack) == ack

(***************************************************************************)
(* ShutdownConnection: a broken or timed out connection.  Replies are      *)
(* lost; requests that the safekeeper has received but not yet processed   *)
(* it still may process.  As in the code ackFlush is kept, and nConnected  *)
(* and nVotes are not taken back.  (A connection that the bound would not  *)
(* let p reopen is simply slow for ever.)                                  *)
(***************************************************************************)
ShutdownConnection(p, s) ==
    /\ up[p]
    /\ conn[p][s] # "offline"
    /\ nConnected[p] < MaxGreetings[p]
    /\ conn' = [conn EXCEPT ![p][s] = "offline"]
    /\ streamingAt' = [streamingAt EXCEPT ![p][s] = 0]
    /\ vote' = [vote EXCEPT ![p][s] = NoVote]
    /\ ackFlush' = [ackFlush EXCEPT ![p][s] = AckAfterShutdown(@)]
    /\ link' = [link EXCEPT ![p][s] = FALSE]
    /\ rep'  = [rep EXCEPT ![p][s] = NoReply]
    /\ net'  = [net EXCEPT ![p][s] = [c \in Channels |->
                   IF c = "old" THEN @["cur"] ELSE << >>]]
    /\ UNCHANGED <<skVars, up, propTerm, nConnected, nVotes, propTh, donor,
                   availableLsn, published, grants, countVars>>

-----------------------------------------------------------------------------
Init ==
    /\ term = [s \in Safekeepers |-> 0]
    /\ th = [s \in Safekeepers |-> << >>]
    /\ tlStart = [s \in Safekeepers |-> 0]
    /\ pCommit = [s \in Safekeepers |-> 0]
    /\ wal = [s \in Safekeepers |-> << >>]
    /\ flushed = [s \in Safekeepers |-> 0]
    /\ commit = [s \in Safekeepers |-> 0]
    /\ epochStartLsn = [s \in Safekeepers |-> 0]
    /\ up = [p \in Proposers |-> TRUE]
    /\ conn = [p \in Proposers |-> [s \in Safekeepers |-> "offline"]]
    /\ propTerm = [p \in Proposers |-> 0]
    /\ nConnected = [p \in Proposers |-> 0]
    /\ nVotes = [p \in Proposers |-> 0]
    /\ vote = [p \in Proposers |-> [s \in Safekeepers |-> NoVote]]
    /\ propTh = [p \in Proposers |-> << >>]
    /\ donor = [p \in Proposers |-> {}]
    /\ availableLsn = [p \in Proposers |-> 0]
    /\ streamingAt = [p \in Proposers |-> [s \in Safekeepers |-> 0]]
    /\ ackFlush = [p \in Proposers |-> [s \in Safekeepers |-> 0]]
    /\ net = [p \in Proposers |-> [s \in Safekeepers |-> [c \in Channels |-> << >>]]]
    /\ rep = [p \in Proposers |-> [s \in Safekeepers |-> NoReply]]
    /\ link = [p \in Proposers |-> [s \in Safekeepers |-> FALSE]]
    /\ published = NoInfo
    /\ grants = {}
    /\ crashes = 0 /\ publishes = 0

SafekeeperStep(p, s) ==
    \E c \in Channels :
        \/ HandleVoteRequest(p, s, c)
        \/ HandleElected(p, s, c)
        \/ CrashInElected(p, s, c)
        \/ HandleAppendRequest(p, s, c)
        \/ HandleFlush(p, s, c)

ProposerStep(p, s) ==
    \/ Greet(p, s)
    \/ RecvVoteResponse(p, s)
    \/ SendAppendRequest(p, s)
    \/ RecvAppendResponse(p, s)
    \/ ShutdownConnection(p, s)

Next ==
    \/ \E p \in Proposers, s \in Safekeepers :
          SafekeeperStep(p, s) \/ ProposerStep(p, s)
    \/ \E p \in Proposers : WalProposerBroadcast(p)
    \/ \E s \in Safekeepers :
          \/ PersistControlFile(s)
          \/ SafekeeperRestart(s)
          \/ PublishInfo(s)
          \/ RecordSafekeeperInfo(s)

Spec == Init /\ [][Next]_vars

(***************************************************************************)
(* WalProposerPoll loops for as long as the process lives and              *)
(* WalAcceptor::run for as long as its connection does: neither side sits  *)
(* for ever on a message it could process or send.  Nothing is assumed of  *)
(* failures, of timers or of the broker.                                   *)
(***************************************************************************)
Fairness ==
    /\ \A p \in Proposers, s \in Safekeepers :
          /\ WF_vars(Greet(p, s))
          /\ WF_vars(RecvVoteResponse(p, s))
          /\ WF_vars(SendAppendRequest(p, s))
          /\ WF_vars(RecvAppendResponse(p, s))
          /\ \A c \in Channels :
                WF_vars(\/ HandleVoteRequest(p, s, c)
                        \/ HandleElected(p, s, c)
                        \/ HandleAppendRequest(p, s, c)
                        \/ HandleFlush(p, s, c))
    /\ \A p \in Proposers : WF_vars(WalProposerBroadcast(p))

-----------------------------------------------------------------------------
(***************************************************************************)
(* Properties.                                                             *)
(***************************************************************************)

ConnStates == {"offline", "voting", "wait_verdict", "idle", "active"}

Messages ==
    [type : {"vote", "flush"}]
        \union [type : {"elected"}, start : Nat]
        \union [type : {"append"}, begin : Nat, entries : Seq(Nat), commit : Nat]

Replies ==
    {NoReply}
        \union [type : {"vote"}, given : BOOLEAN, term : Nat, flush : Nat,
                th : Seq(TermLsn)]
        \union [type : {"append"}, term : Nat, flush : Nat]

Votes == [flush : Nat, th : Seq(TermLsn)]

SafekeeperTypeOK ==
    /\ term \in [Safekeepers -> Nat]
    /\ th \in [Safekeepers -> Seq(TermLsn)]
    /\ tlStart \in [Safekeepers -> {0, StartLsn}]
    /\ pCommit \in [Safekeepers -> Nat]
    /\ wal \in [Safekeepers -> Seq(Nat)]
    /\ flushed \in [Safekeepers -> Nat]
    /\ commit \in [Safekeepers -> Nat]
    /\ epochStartLsn \in [Safekeepers -> Nat]

ProposerTypeOK ==
    /\ up \in [Proposers -> BOOLEAN]
    /\ conn \in [Proposers -> [Safekeepers -> ConnStates]]
    /\ propTerm \in [Proposers -> Nat]
    /\ nConnected \in [Proposers -> Nat]
    /\ nVotes \in [Proposers -> Nat]
    /\ vote \in [Proposers -> [Safekeepers -> Votes]]
    /\ propTh \in [Proposers -> Seq(TermLsn)]
    /\ donor \in [Proposers -> SUBSET Safekeepers]
    /\ availableLsn \in [Proposers -> Nat]
    /\ streamingAt \in [Proposers -> [Safekeepers -> Nat]]
    /\ ackFlush \in [Proposers -> [Safekeepers -> Nat]]

LinkTypeOK ==
    /\ net \in [Proposers -> [Safekeepers -> [Channels -> Seq(Messages)]]]
    /\ rep \in [Proposers -> [Safekeepers -> Replies]]
    /\ link \in [Proposers -> [Safekeepers -> BOOLEAN]]

\* The types of the state of safekeepers, proposers, connections and broker.
TypeOK ==
    /\ SafekeeperTypeOK
    /\ ProposerTypeOK
    /\ LinkTypeOK
    /\ published \in [epoch : Nat, commit : Nat]
    /\ grants \subseteq Safekeepers \X Proposers
    /\ crashes \in Nat /\ publishes \in Nat

(***************************************************************************)
(* Two walproposers never lead in the same term, however their handshakes  *)
(* with the safekeepers interleave: RecvAcceptorGreeting picks the term    *)
(* from greetings that may be stale, and only the persisted term of        *)
(* handle_vote_request keeps them apart.                                   *)
(***************************************************************************)
ElectionSafety ==
    \A p, q \in Proposers :
        Elected(p) /\ Elected(q) /\ p # q => propTerm[p] # propTerm[q]

(***************************************************************************)
(* What a walproposer has reported as committed (the quorum position of    *)
(* GetAcknowledgedByQuorumWALPosition, on which the compute acknowledges   *)
(* transactions) is part of the WAL of every later leader: no election     *)
(* through DetermineEpochStartLsn loses or replaces it.                    *)
(***************************************************************************)
LeaderCompleteness ==
    \A p \in Proposers : LET committed == QuorumAck(p) IN
        committed > 0 =>
            \A q \in Proposers : Elected(q) /\ propTerm[p] < propTerm[q] =>
                /\ committed <= PropEpochStartLsn(q)
                /\ \A l \in StartLsn..(committed - 1) :
                      TermOfRecord(propTh[p], l) = TermOfRecord(propTh[q], l)

(***************************************************************************)
(* Committed WAL stays on the disks of a quorum: truncation in             *)
(* handle_elected, restarts and zombie connections never remove it.        *)
(***************************************************************************)
CommittedOnQuorum ==
    \A p \in Proposers : LET committed == QuorumAck(p) IN
        committed > 0 =>
            IsQuorum({s \in Safekeepers :
                /\ flushed[s] >= committed
                /\ \A l \in StartLsn..(committed - 1) :
                      RecordAt(s, l) = TermOfRecord(propTh[p], l)})

(***************************************************************************)
(* commit_lsn of a safekeeper, learned from the walproposer or from a      *)
(* stale broker message of a peer, covers only WAL that really was         *)
(* committed: some leader had a quorum for exactly the records s has.      *)
(* Safekeepers serve WAL to pageservers up to this position.               *)
(***************************************************************************)
CommitLsnIsCommitted ==
    \A s \in Safekeepers : commit[s] > StartLsn =>
        \E p \in Proposers :
            /\ QuorumAck(p) >= commit[s]
            /\ WriteLsn(s) >= commit[s]
            /\ \A l \in StartLsn..(commit[s] - 1) :
                  RecordAt(s, l) = TermOfRecord(propTh[p], l)

(***************************************************************************)
(* commit_lsn never passes the WAL that is locally flushed, in memory and  *)
(* in the control file; update_commit_lsn asserts the former, and          *)
(* find_end_of_wal starts its scan from the latter.                        *)
(***************************************************************************)
CommitLsnIsLocal ==
    \A s \in Safekeepers : pCommit[s] <= commit[s] /\ commit[s] <= FlushLsn(s)

(***************************************************************************)
(* A term begins at one LSN only, in whichever history it appears: what    *)
(* SendProposerElected and find_highest_common_point assert.               *)
(***************************************************************************)
Histories ==
    {th[s] : s \in Safekeepers} \union {propTh[p] : p \in Proposers}

TermBeginsOnce ==
    \A h, g \in Histories : \A i \in DOMAIN h, j \in DOMAIN g :
        h[i].term = g[j].term => h[i].lsn = g[j].lsn

(***************************************************************************)
(* The records a safekeeper has, flushed or not, are those its persisted   *)
(* term history describes, although history and WAL are changed by         *)
(* different writes and a crash may come between them.                     *)
(***************************************************************************)
WalMatchesHistory ==
    \A s \in Safekeepers : \A l \in StartLsn..(StartLsn + Len(wal[s]) - 1) :
        RecordAt(s, l) = TermOfRecord(th[s], l)

(***************************************************************************)
(* Where a leader starts streaming is exactly where the WAL of a           *)
(* safekeeper it may lead departs from its own: SendProposerElected finds  *)
(* it from the histories alone, and so does find_highest_common_point,     *)
(* which peer recovery uses.  Further down, good WAL would be cut and      *)
(* fetched again; further up, wrong WAL would stay.                        *)
(***************************************************************************)
DivergencePoint ==
    \A p \in Proposers, s \in Safekeepers :
        Elected(p) /\ tlStart[s] # 0 /\ term[s] <= propTerm[p] =>
            LET flush_lsn == FlushLsn(s)
                sk_th == GetTermHistory(s, flush_lsn)
                start == StartStreamingAt(propTh[p], propTerm[p], sk_th, flush_lsn)
                same(l) == RecordAt(s, l) = TermOfRecord(propTh[p], l)
                point == FindHighestCommonPoint(propTh[p], sk_th, flush_lsn)
            IN  /\ start \in StartLsn..flush_lsn
                /\ \A l \in StartLsn..(start - 1) : same(l)
                /\ start < flush_lsn => ~same(start)
                /\ point # << >> => point[1].lsn = start

(***************************************************************************)
(* What has been reported as committed is never taken back, although       *)
(* acknowledgements survive the connection they arrived on.                *)
(***************************************************************************)
CommitNeverRegresses ==
    [][\A p \in Proposers : QuorumAck(p)' >= QuorumAck(p)]_vars

(***************************************************************************)
(* A walproposer that in the end keeps working connections to a quorum and *)
(* to the safekeeper it recovers missing WAL from, and meets no higher     *)
(* term, gets all of its WAL committed and every safekeeper it streams to  *)
(* told so: reconnections, refused ProposerElected messages and recovery   *)
(* from a donor do not wedge it.  One exception: a ProposerElected that an *)
(* old connection left behind may cut WAL streamed meanwhile, because      *)
(* handle_elected refuses it only for what is flushed and has reached the  *)
(* start of the term; that shows, as a refused write, only when more WAL   *)
(* is sent.                                                                *)
(***************************************************************************)
Connected(p) == {s \in Safekeepers : conn[p][s] # "offline" /\ link[p][s]}

Commits(p) ==
    /\ QuorumAck(p) = MaxLsn
    /\ \A s \in Safekeepers :
          conn[p][s] = "active" /\ link[p][s] => commit[s] = MaxLsn

CutBehindStream(p) ==
    \E s \in Safekeepers :
        conn[p][s] = "active" /\ link[p][s] /\ WriteLsn(s) < streamingAt[p][s]

ConnectedQuorumCommits ==
    \A p \in Proposers :
        <>[](up[p] /\ IsQuorum(Connected(p)) /\ donor[p] \subseteq Connected(p))
            => <>[](Commits(p) \/ CutBehindStream(p))

=============================================================================
