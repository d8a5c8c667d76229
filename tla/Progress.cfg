\* One payment, two workers that overtake each other and may crash, and the
\* webhook route, which finds an operation by its reference.
SPECIFICATION FairSpec
CONSTANTS
    p1 = p1  p2 = p2  p3 = p3  b1 = b1  w1 = w1  w2 = w2  w3 = w3
    r1 = r1  r2 = r2  r3 = r3
    Payments = {p1}
    Preauthorized = {}
    Budgets = {b1}
    BudgetOf <- OneBudget
    Amount <- OneAmount
    Limit <- OneLimit
    RefundKeys = {}
    RefundAmount <- NoRefunds
    Workers = {w1, w2}
    NoPayment = NoPayment
    MaxCrashes = 2
    DirectResolution = FALSE
PROPERTIES
    StartedIsDecided
    AcceptedEndsBooked
\* When every payment is decided the system may rest.
CHECK_DEADLOCK FALSE
