SPECIFICATION FairSpec
CONSTANTS
    MaxJobs = 2
    MaxSize = 1
    MaxBatch = 2
    Clients = {c1}
    MaxCrashes = 1
    MaxLostWrites = 1
INVARIANTS
    TypeOK
    QueueOrder
    StopAttributed
    EngineReachable
    AnnouncedIsPersisted
    RerunNeedsTwoFaults
PROPERTIES
    TerminalIsFinal
    LifecycleSpec
    NewsSpec
    JobsSettle
