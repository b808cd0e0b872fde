SPECIFICATION Spec
CONSTANTS
    Minute = 2
    Hour = 12
    MaxInt <- ByteMax
    MaxRetryCount = 3
    Instants <- SomeInstants
    MaxIntervals = 3
    MaxSearches = 2
    Times <- SomeTimes
    Durations <- SomeDurations
    Spans <- SomeSpans
    BaseSleepTimes <- SomeBases
    RetryCounts <- SomeCounts
    ElapsedTimes <- SomeElapsed
INVARIANTS
    GapsAreUncovered
    CutToSearches
    RoundedAround
    IntervalsTile
    SleepSaturates
