CONSTANTS
    c1 = c1
    c2 = c2
    c3 = c3
    c4 = c4
    k1 = k1
    k2 = k2
    b1 = b1
    NoCall = NoCall
    Calls = {c1, c2, c3, c4}
    Budgets = {b1}
    KeyOf <- MCKeyOf
    BodyOf <- MCBodyOf
    PrincipalOf <- MCPrincipalOf
    ClaimsOf <- MCClaimsOf
    BudgetOf <- MCBudgetOf
    Limit <- MCLimit
SPECIFICATION FairCreation
CHECK_DEADLOCK FALSE
INVARIANTS
    CreationTypeOK
    LooseEvidenceIsRepeated
    PaidAsAuthorized
PROPERTIES
    CreatesOnce
    CreatesAtomically
    CallsAnswered
