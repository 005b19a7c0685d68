SPECIFICATION Spec
CONSTANTS
    None = None
    t1 = t1
    t2 = t2
    c1 = c1
    c2 = c2
    TopUps = {t1, t2}
    MaxAttempts = 1
    Calls = {c1, c2}
    Desk = {c2}
    Amount <- TwoAmounts
    Bonus <- TwoBonuses
    Opening = 0
    Prices = {4}
    MaxSpends = 1
    CanCrash = TRUE
INVARIANTS
    TypeOK
    BooksAgree
PROPERTIES
    ImplementsContract
