\* Three payments compete for a budget that two of them can exhaust.
SPECIFICATION Spec
CONSTANTS
    p1 = p1  p2 = p2  p3 = p3  b1 = b1  w1 = w1  w2 = w2  w3 = w3
    r1 = r1  r2 = r2  r3 = r3
    Payments = {p1, p2, p3}
    Preauthorized = {}
    Budgets = {b1}
    BudgetOf <- ThreeBudgets
    Amount <- ThreeAmounts
    Limit <- OneLimit
    RefundKeys = {}
    RefundAmount <- NoRefunds
    Workers = {w1}
    NoPayment = NoPayment
    MaxCrashes = 1
    DirectResolution = TRUE
INVARIANTS
    BudgetCountersExact
    BudgetNeverOvercommitted
PROPERTIES
    EscrowKept
\* When every payment is decided the system may rest.
CHECK_DEADLOCK FALSE
