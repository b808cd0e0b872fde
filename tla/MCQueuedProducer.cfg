SPECIFICATION FairSpec
CONSTANTS
    t1 = t1
    t2 = t2
    d1 = d1
    d2 = d2
    Threads = {t1, t2}
    Explicit = {t2}
    Destinations = {d1, d2}
    MaxTransactions = 2
    MaxEvents = 3
    MaxFailures = 2
CHECK_DEADLOCK FALSE
INVARIANTS
    OnlyCommittedPublished
    PublishedInOrder
    CommittedNotLost
    RepeatedOnlyAfterFailure
PROPERTY CommittedArePublished
