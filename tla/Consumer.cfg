CONSTANTS
    Consumers = {c1, c2}
    Messages = {1, 2, 3}
    Malformed = {1}
    Conflicting = {}
    MaxMessages = 2
    MaxReceiveCount = 2
    RetryBackoff = 0
    VisibilityTimeout = 30
    MaxFaults = 1
    MaxStops = 1
    GroupOf <- Groups
SPECIFICATION FairSpec
INVARIANTS DeletedWasCommitted OnlyPoisonIsDeadLettered NoneAbandoned
PROPERTIES EveryMessageSettles
CHECK_DEADLOCK FALSE
