SPECIFICATION FairSpec
CONSTANTS
    MaxCalls = 1
    MaxEvents = 1
    Capacity = 1
    MaxSlow = 0
    MaxCrashes = 0
PROPERTY
    EventsArrive
CHECK_DEADLOCK FALSE
