CONSTANTS
    Consumers = {c1, c2}
    Messages = {1, 2, 3}
    Malformed = {}
    Conflicting = {1}
    MaxMessages = 2
    MaxReceiveCount = 2
    RetryBackoff = 5
    VisibilityTimeout = 30
    MaxFaults = 2
    MaxStops = 1
    GroupOf <- OneGroup
SYMMETRY Symmetry
SPECIFICATION Spec
PROPERTIES CommitsInGroupOrder
CHECK_DEADLOCK FALSE
