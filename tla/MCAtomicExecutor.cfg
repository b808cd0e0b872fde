SPECIFICATION FairSpec
CONSTANTS
    t1 = t1
    t2 = t2
    t3 = t3
    k1 = k1
    k2 = k2
    None = None
    Threads = {t1, t2, t3}
    Keys = {k1, k2}
    MaxAttempts = 2
    MaxDepth = 3
    Slow = {}
INVARIANTS
    BlockIsLocked
    ReentrantOnlyInside
    LocksAreOwnedCalls
PROPERTIES
    AtomicBlocks
    AcquisitionEnds
    NoLockForever
