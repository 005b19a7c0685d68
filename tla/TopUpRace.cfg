SPECIFICATION FairSpec
CONSTANTS
    None = None
    t1 = t1
    t2 = t2
    c1 = c1
    c2 = c2
    TopUps = {t1}
    MaxAttempts = 2
    Calls = {c1, c2}
    Desk = {c2}
    Amount <- OneAmount
    Bonus <- OneBonus
    Opening = 0
    Prices = {2}
    MaxSpends = 0
    CanCrash = FALSE
INVARIANTS
    SuccessIsCredited
    OneSuccess
    CaseMatchesAttempt
PROPERTIES
    ConfirmedIsKept
