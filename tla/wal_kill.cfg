SPECIFICATION Spec
CONSTANTS
    SegSize = 3
    StartLsn = 4
    Ends <- RecordLayout
    SwitchEnds = {9}
    MaxTerm = 3
    MaxCrashes = 2
    MaxWrite = 3
CHECK_DEADLOCK FALSE
INVARIANT CommittedIsDurable
