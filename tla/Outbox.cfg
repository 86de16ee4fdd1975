CONSTANTS
    Publishers = {p1, p2}
    Aggregates = {a1, a2}
    MaxEvents = 3
    MaxAttempts = 2
    MaxFaults = 1
    None = None
SPECIFICATION FairSpec
INVARIANTS PublishedWasDelivered
PROPERTIES ClaimIsExclusive DeliversInOrder EventuallySettled
CHECK_DEADLOCK FALSE
