SPECIFICATION Spec
CONSTANTS
    None = None
    o1 = o1
    o2 = o2
    o3 = o3
    u1 = u1
    u2 = u2
    a1 = a1
    a2 = a2
    s1 = s1
    s2 = s2
    Accounts = {a1, a2}
    Usages = {u1}
    Scopes = {s1}
    Ops = {o1, o2, o3}
    Calls = {1, 2}
    PriceList <- MCPriceList
    Offered <- RaceOffered
    OtherAmounts = {}
    Opening = 4
    MaxOther = 0
INVARIANTS
    TypeOK
    AnswersAreRecorded
PROPERTIES
    NoHoldWhileBlocked
SYMMETRY OpSymmetry
