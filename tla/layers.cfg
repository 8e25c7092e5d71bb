SPECIFICATION FairSpec
CONSTANTS
    Readers = {r1, r2}
    Evictors = {e1, e2}
CHECK_DEADLOCK FALSE
INVARIANTS TypeOK ResidentHasFile OneAtATime AssertionsHold
PROPERTIES AccessReturns EvictionReturns
