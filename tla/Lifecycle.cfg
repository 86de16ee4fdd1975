CONSTANTS
    LastHook = 5
    Requests = {r1, r2}
SPECIFICATION FairSpec
INVARIANTS PoolOutlivesWork CleanExit NoRequestLost
PROPERTIES ExitsAfterSignal
CHECK_DEADLOCK FALSE
