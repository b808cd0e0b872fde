SPECIFICATION FairSpec
CONSTANTS
    c1 = c1
    c2 = c2
    c3 = c3
    c4 = c4
    u1 = u1
    Channels = {c1, c2, c3}
    Users = {u1}
    None = None
    MaxIdle = 1
    MaxConsumers = 1
    AutoRecovery = TRUE
    MaxFaults = 2
    MaxOutages = 1
CHECK_DEADLOCK FALSE
INVARIANTS
    OneHolder
    ConsumersAccounted
    StopsListed
PROPERTIES
    StopCompletes
    StopFreesWaiters
    ReplacementEndsWithRoom
    ExecuteEnds
