\* A captured payment and its refunds, two of which spell the same amount.
SPECIFICATION Spec
CONSTANTS
    p1 = p1  p2 = p2  p3 = p3  b1 = b1  w1 = w1  w2 = w2  w3 = w3
    r1 = r1  r2 = r2  r3 = r3
    Payments = {p1}
    Preauthorized = {p1}
    Budgets = {b1}
    BudgetOf <- OneBudget
    Amount <- OneAmount
    Limit <- OneLimit
    RefundKeys = {r1, r2, r3}
    RefundAmount <- SpelledRefunds
    Workers = {}
    NoPayment = NoPayment
    MaxCrashes = 0
    DirectResolution = TRUE
INVARIANTS
    RefundsCovered
    RefundedIsComplete
\* When every payment is decided the system may rest.
CHECK_DEADLOCK FALSE
