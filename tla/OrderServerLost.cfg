SPECIFICATION Spec
CONSTANTS
    s1 = s1
    s2 = s2
    c1 = c1
    v1 = v1
    r1 = r1
    r2 = r2
    None = None
    Worker = Worker
    Customers = {c1}
    OwnerOf <- OneOwner
    Price <- OneEach
    Opening <- Opening2
    Sessions = {s1, s2}
    Conversations = {}
    Quotes = {1, 2}
    SessionOf <- OneEachSession
    Offer <- Ready
    Servers = {v1}
    Requests = {r1}
    OpeningUnits = 0
    MaxCrashes = 0
CHECK_DEADLOCK FALSE
INVARIANTS
    PaidKeepsItsServer
