SPECIFICATION Spec
CONSTANTS
    u1 = u1
    planA = planA
    planB = planB
    w1 = w1
    w2 = w2
    Services = {1, 2}
    Users = {u1}
    Owner <- OneOwner
    Plans = {planA, planB}
    Plan <- PlanOfEach
    RatedPlans = {planA, planB}
    Workers = {w1, w2}
    HourLength = 1
    DayLength = 2
    Horizon = 2
    OffSecond = {}
    Lag = 0
    Rate = 1
    Opening <- Opening2
    Amounts <- Purchase
    Corrections = {}
    MinimumCredit = 1
    GracePeriods = 0
    LowPeriods = 1
    CatchUpLimit = 2
    MaximumAttempts = 2
    Starts = {0, 1}
    Changing = {1}
    MaxPolicies = 2
    MaxVersions = 1
    MaxMoves = 1
    MaxFaults = 1
SYMMETRY WorkerSymmetry
INVARIANTS
    TypeOK
    SettledInOrder
    Books
PROPERTIES
    ImplementsContract
