SPECIFICATION Spec
CONSTANTS
    t1 = t1
    t2 = t2
    t3 = t3
    k1 = k1
    k2 = k2
    None = None
    Threads = {t1, t2, t3}
    Keys = {k1}
    MaxAttempts = 2
    MaxDepth = 1
    Slow = {t1}
INVARIANT LeasedBlocksExclude
