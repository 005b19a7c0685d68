CONSTANTS
    Workers = {w1, w2}
    MaxAttempts = 3
    MaxClaims = 2
    Prompt = TRUE
SYMMETRY WorkerSymmetry
SPECIFICATION Spec
INVARIANTS
    TypeOK
    OneServer
    RefundedHasNoServer
PROPERTIES
    ImplementsContract
CHECK_DEADLOCK FALSE
