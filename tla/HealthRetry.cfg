SPECIFICATION FairSpec
CONSTANTS
    Workers = {w1, w2}
    RetryLimit = 1
    DispatchLimit = 2
    MaxRecoveries = 1
    MaxFaults = 1
    Nobody = Nobody
INVARIANTS
    TypeOK
    FailureIsFollowedUp
    DeadEndsAreKnown
PROPERTIES
    ResultsStand
    FailureIsTakenUp
CHECK_DEADLOCK FALSE
