SPECIFICATION FairSpec
CONSTANTS
    e1 = e1
    e2 = e2
    w1 = w1
    w2 = w2
    None = None
    Events = {e1, e2}
    Consumers = {w1, w2}
    MaxRetries = 2
    Malformed = {e2}
    MaxFaults = 1
    MaxThrows = 2
CHECK_DEADLOCK FALSE
INVARIANTS
    NoEventLost
    RetryBudget
    NoCopyWithoutFault
    HandlingsBounded
PROPERTY EventSettles
