\* An event and a poison one, two publishers that crash, fail and lose their claims.
SPECIFICATION FairOutbox
CONSTANTS
    e1 = e1  e2 = e2  u1 = u1  u2 = u2
    Events = {e1, e2}
    Poison = {e2}
    Publishers = {u1, u2}
    NoEvent = NoEvent
    MaxAttempts = 2
    MaxFailures = 2
    RecoveryRuns = TRUE
INVARIANTS
    OutboxTypeOK
    PublishedTookEffect
PROPERTIES
    PublishedIsFinal
    CommittedIsHandled
\* When every event is handled the publishers may rest.
CHECK_DEADLOCK FALSE
