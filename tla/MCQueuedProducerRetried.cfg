SPECIFICATION Spec
CONSTANTS
    t1 = t1
    t2 = t2
    d1 = d1
    d2 = d2
    Threads = {t1}
    Explicit = {}
    Destinations = {d1, d2}
    MaxTransactions = 2
    MaxEvents = 2
    MaxFailures = 1
CHECK_DEADLOCK FALSE
INVARIANT NotRetried
