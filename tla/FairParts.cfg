SPECIFICATION FairSpec
CONSTANTS
    CriticalMetrics = {"cpu"}
    OtherMetrics = {}
    Breaches = 2
    StopBreaches = 2
    Cooldown = 3
    Batch = 1
    Retention = 2
    PruneEvery = 2
    MaxTime = 8
    MaxRestarts = 1
    MaxFailures = 1
INVARIANTS TypeOK JournalIsTrue DeliveriesAreSettled
PROPERTIES PrunedWerePublished WorkEnds
CHECK_DEADLOCK FALSE
