SPECIFICATION Spec
CONSTANTS
    None = None
    o1 = o1
    o2 = o2
    o3 = o3
    u1 = u1
    u2 = u2
    a1 = a1
    a2 = a2
    s1 = s1
    s2 = s2
    Accounts = {a1}
    Usages = {u1, u2}
    Scopes = {s1, s2}
    Ops = {o1, o2, o3}
    Calls = {1, 2}
    PriceList <- MCPriceList
    Offered <- FundsOffered
    OtherAmounts = {3}
    Opening = 6
    MaxOther = 1
INVARIANTS
    ReservationBooks
    LedgerChain
PROPERTIES
    ImplementsContract
