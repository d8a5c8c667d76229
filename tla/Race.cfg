\* One payment, three workers of which one may crash, the webhook, a refund and
\* a settlement report.
SPECIFICATION SettlementSpec
CONSTANTS
    p1 = p1  b1 = b1  w1 = w1  w2 = w2  w3 = w3  r1 = r1  s1 = s1
    Payments = {p1}
    Preauthorized = {}
    Budgets = {b1}
    BudgetOf <- OneBudget
    Amount <- OneAmount
    Limit <- OneLimit
    RefundKeys = {r1}
    RefundAmount <- OneRefund
    Workers = {w1, w2, w3}
    NoPayment = NoPayment
    MaxCrashes = 1
    DirectResolution = TRUE
    Reports = {s1}
    Observed = {1, 2}
SYMMETRY WorkerSymmetry
INVARIANTS
    TypeOK
    AcceptedChargeKeepsHold
    SettledIsBacked
    FailedMovesNothing
    LedgerHasCause
    LedgerMatchesTransactions
    OneVerdictAnnounced
    ChargeIsAuthorized
    SettlementTypeOK
    MatchedIsBacked
    FailedRefundsMoveNothing
PROPERTIES
    TransactionsFinal
\* When every payment is decided the system may rest.
CHECK_DEADLOCK FALSE
