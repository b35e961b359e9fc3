SPECIFICATION FairSpec
CONSTANTS
    c1 = c1
    c2 = c2
    c3 = c3
    c4 = c4
    Calls = {c1, c2, c3, c4}
    Cancellable = {c3, c4}
    FailureThreshold = 2
    SuccessThreshold = 2
    HalfOpenMax = 3
    Timeout = 2
INVARIANT TypeOK
INVARIANT CountsBelowThresholds
INVARIANT ProbesWithinLimit
INVARIANT NeverWedged
PROPERTY HalfOpenEnds
