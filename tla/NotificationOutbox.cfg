SPECIFICATION FairSpec
CONSTANTS
    Rows = {r1, r2}
    Workers = {w1, w2}
    None = None
    MaxAttempts = 2
    MaxFaults = 1
INVARIANTS
    LeaseExclusive
    SentWasReceived
    DuplicateNeedsLostLease
PROPERTIES
    OutcomeIsFinal
    OutboxIsLeasedQueue
    NotificationSettles
