SPECIFICATION Spec
CONSTANTS
    None = None
    Endpoints = {e1}
    Readers = {r1}
    HourOf <- TwoTicks
    RollupInterval = 1
    CleanupInterval = 2
    RollupLag = 1
    Retention = 3
    Windows = {3}
    MaxDelay = 1
    MaxProbes = 2
    MaxFailures = 1
    MaxRestarts = 1
    Horizon = 5
INVARIANTS
    TypeOK
    HistoryIsKept
    SeriesIsExact
PROPERTIES
    BucketsAreFinal
    LivingAreKept
CHECK_DEADLOCK FALSE
