SPECIFICATION FairSpec
CONSTANTS
    u1 = u1
    u2 = u2
    r1 = r1
    r2 = r2
    fired = fired
    completed = completed
    Users = {u1, u2}
    Readers = {r1, r2}
    Names = {fired, completed}
    None = None
    MaxCalls = 3
    MaxOverlaps = 2
    MaxInt = 1
INVARIANTS
    OneCounter
    CountsKept
    ReportedOnce
PROPERTIES
    AllReported
