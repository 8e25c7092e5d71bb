CONSTANTS
    s1 = s1
    s2 = s2
    s3 = s3
    p1 = p1
    p2 = p2
    p3 = p3
    Safekeepers = {s1, s2, s3}
    Proposers = {p1,p2}
    MAX_SEND_SIZE = 1
    MaxTerm = 2
    MaxLsn = 2
    MaxInFlight = 4
    MaxGreetings <- Greetings3
    MaxCrashes = 0
    MaxCandidates = 2
    MaxPublishes = 0
SPECIFICATION FairSpecOneAhead
CHECK_DEADLOCK FALSE
INVARIANTS
    CommittedOnQuorum
PROPERTIES
    CommitNeverRegresses
    ConnectedQuorumCommits
