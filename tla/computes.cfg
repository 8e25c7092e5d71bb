CONSTANTS
    s1 = s1
    s2 = s2
    s3 = s3
    p1 = p1
    p2 = p2
    p3 = p3
    Safekeepers = {s1, s2, s3}
    Proposers = {p1, p2, p3}
    MAX_SEND_SIZE = 1
    MaxTerm = 3
    MaxLsn = 2
    MaxInFlight = 1
    MaxGreetings <- Greetings2
    MaxCrashes = 1
    MaxCandidates = 2
    MaxPublishes = 1
SPECIFICATION SpecComputes
SYMMETRY Symmetry
CHECK_DEADLOCK FALSE
INVARIANTS
    TypeOK
    ElectionSafety
    CommitLsnIsLocal
    CommitLsnIsCommitted
    LeaderCompleteness
    DivergencePoint
    TermBeginsOnce
    CommittedOnQuorum
    WalMatchesHistory
