SPECIFICATION FairSpec
CONSTANTS
    n1 = n1
    n2 = n2
    Nodes = {n1, n2}
    NumJobs = 2
    None = None
    MaxRelease = 3
    Enabled <- EnabledJobs
    Scheduled <- ScheduledJobs
    MaxFaults = 1
    MaxFires = 1
CHECK_DEADLOCK FALSE
INVARIANTS
    AppliedConfig
PROPERTIES
    StartUpHeals
    FiredRuns
