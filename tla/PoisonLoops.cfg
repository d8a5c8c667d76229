\* An event whose handling always raises.
SPECIFICATION FairOutbox
CONSTANTS
    e1 = e1  e2 = e2  u1 = u1  u2 = u2
    Events = {e1}
    Poison = {e1}
    Publishers = {u1, u2}
    NoEvent = NoEvent
    MaxAttempts = 2
    MaxFailures = 0
    RecoveryRuns = TRUE
PROPERTIES
    PoisonIsSetAside
CHECK_DEADLOCK FALSE
