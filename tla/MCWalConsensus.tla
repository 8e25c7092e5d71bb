--------------------------- MODULE MCWalConsensus ---------------------------
(***************************************************************************)
(* Instances of WalConsensus for TLC.  Safekeepers are interchangeable:    *)
(* the specification never compares them except for equality, and the      *)
(* choices between equals (donors) are existential.  So are walproposers   *)
(* that may open equally many connections.                                 *)
(***************************************************************************)
EXTENDS WalConsensus, TLC

CONSTANTS p1, p2, p3

\* How many connections p1, p2 and p3 may open.
Greetings(n1, n2, n3) ==
    [p \in Proposers |-> CASE p = p1 -> n1 [] p = p2 -> n2 [] p = p3 -> n3]

Greetings2 == Greetings(0, 2, 2)
Greetings3 == Greetings(3, 3, 3)

SafekeeperSymmetry == Permutations(Safekeepers)
Symmetry == SafekeeperSymmetry \union Permutations(Proposers \ {p1})

(***************************************************************************)
(* States in which p1 has led term 1 and is gone: all safekeepers voted    *)
(* and accepted it, each has flushed and acknowledged some of the records  *)
(* that p1 generated, and all or none have heard how far a quorum got.     *)
(* Nothing more is published through the broker.                           *)
(***************************************************************************)
InitTakeover ==
    LET history == <<[term |-> 1, lsn |-> StartLsn]>>
    IN  \E flush \in [Safekeepers -> StartLsn..MaxLsn] :
        \E told \in {{}, Safekeepers} :
            /\ flushed = flush
            /\ wal = [s \in Safekeepers |-> [i \in 1..(flush[s] - StartLsn) |-> 1]]
            /\ ackFlush = [p \in Proposers |-> [s \in Safekeepers |->
                              IF p = p1 THEN flush[s] ELSE 0]]
            /\ propTh = [p \in Proposers |-> IF p = p1 THEN history ELSE << >>]
            /\ commit = [s \in Safekeepers |->
                            IF s \in told THEN MinOf(QuorumAck(p1), flush[s]) ELSE StartLsn]
            /\ pCommit = [s \in Safekeepers |-> StartLsn]
            /\ term = [s \in Safekeepers |-> 1]
            /\ th = [s \in Safekeepers |-> history]
            /\ tlStart = [s \in Safekeepers |-> StartLsn]
            /\ epochStartLsn = [s \in Safekeepers |-> StartLsn]
            /\ up = [p \in Proposers |-> p # p1]
            /\ conn = [p \in Proposers |-> [s \in Safekeepers |-> "offline"]]
            /\ propTerm = [p \in Proposers |-> IF p = p1 THEN 1 ELSE 0]
            /\ nConnected = [p \in Proposers |-> IF p = p1 THEN 3 ELSE 0]
            /\ nVotes = nConnected
            /\ vote = [p \in Proposers |-> [s \in Safekeepers |-> NoVote]]
            /\ donor = [p \in Proposers |-> {}]
            /\ availableLsn = [p \in Proposers |-> IF p = p1 THEN MaxLsn ELSE 0]
            /\ streamingAt = [p \in Proposers |-> [s \in Safekeepers |-> 0]]
            /\ net = [p \in Proposers |->
                         [s \in Safekeepers |-> [c \in Channels |-> << >>]]]
            /\ rep = [p \in Proposers |-> [s \in Safekeepers |-> NoReply]]
            /\ link = [p \in Proposers |-> [s \in Safekeepers |-> FALSE]]
            /\ published = NoInfo
            /\ grants = Safekeepers \X {p1}
            /\ crashes = 0
            /\ publishes = MaxPublishes

(***************************************************************************)
(* Empty safekeepers, for which only p2 and p3 compete (p1 may open no     *)
(* connection), or those that p1 has left behind.                          *)
(***************************************************************************)
InitComputes == Init \/ InitTakeover

SpecComputes == InitComputes /\ [][Next]_vars

(***************************************************************************)
(* For liveness, where symmetry would be unsound: the takeover in which    *)
(* one safekeeper alone has the records of term 1.  A quorum with it must  *)
(* recover them for the others, one without it must discard them.          *)
(***************************************************************************)
InitOneAhead ==
    /\ InitTakeover
    /\ LET ahead == CHOOSE s \in Safekeepers : TRUE
       IN  flushed = [s \in Safekeepers |-> IF s = ahead THEN MaxLsn ELSE StartLsn]
    /\ commit = [s \in Safekeepers |-> StartLsn]

FairSpecOneAhead == InitOneAhead /\ [][Next]_vars /\ Fairness
=============================================================================
