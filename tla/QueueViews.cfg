SPECIFICATION FairViewsSpec
CONSTANTS
    MaxCalls = 2
    MaxEvents = 2
    Capacity = 1
    MaxSlow = 1
    MaxCrashes = 0
    MaxJobs = 1
    MaxPiled = 1
INVARIANTS
    TrayTypeOK
    NeverAhead
    WindowAgrees
    PollFresh
PROPERTIES
    DaemonAsPromised
    WindowCatchesUp
CHECK_DEADLOCK FALSE
