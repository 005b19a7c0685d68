SPECIFICATION Spec
CONSTANTS
    s1 = s1
    s2 = s2
    c1 = c1
    v1 = v1
    r1 = r1
    r2 = r2
    None = None
    Worker = Worker
    Customers = {c1}
    OwnerOf <- OneOwner
    Price <- DearSecond
    Opening <- Opening2
    Sessions = {s1, s2}
    Conversations = {s1}
    Quotes = {1, 2, 3}
    SessionOf <- TwoAndOne
    Offer <- LastIsManual
    Servers = {}
    Requests = {r1, r2}
    OpeningUnits = 1
    MaxCrashes = 0
SYMMETRY RequestSymmetry
CHECK_DEADLOCK FALSE
INVARIANTS
    TypeOK
    PaidFlowAgrees
    QuoteMatchesOrder
PROPERTIES
    ImplementsContract
