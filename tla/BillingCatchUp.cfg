SPECIFICATION FairSpec
CONSTANTS
    u1 = u1
    planA = planA
    planB = planB
    w1 = w1
    w2 = w2
    Services = {1, 2}
    Users = {u1}
    Owner <- OneOwner
    Plans = {planA, planB}
    Plan <- SamePlan
    RatedPlans = {planA}
    Workers = {w1}
    HourLength = 2
    DayLength = 4
    Horizon = 4
    OffSecond = {1}
    Lag = 1
    Rate = 1
    Opening <- Opening2
    Amounts = {}
    Corrections = {1}
    MinimumCredit = 1
    GracePeriods = 1
    LowPeriods = 1
    CatchUpLimit = 2
    MaximumAttempts = 2
    Starts = {0, 1}
    Changing = {1}
    MaxPolicies = 2
    MaxVersions = 2
    MaxMoves = 1
    MaxFaults = 1
INVARIANTS
    TimelineIsWhole
    SettledAsUsed
    SuspensionAfterGrace
PROPERTIES
    BacklogIsWorkedOff
