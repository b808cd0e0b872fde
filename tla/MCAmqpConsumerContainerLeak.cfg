SPECIFICATION FairSpec
CONSTANTS
    c1 = c1
    c2 = c2
    c3 = c3
    c4 = c4
    u1 = u1
    Channels = {c1, c2}
    Users = {u1}
    None = None
    MaxIdle = 1
    MaxConsumers = 1
    AutoRecovery = TRUE
    MaxFaults = 2
    MaxOutages = 0
CHECK_DEADLOCK FALSE
PROPERTY ReplacementEnds
