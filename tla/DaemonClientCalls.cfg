SPECIFICATION FairSpec
CONSTANTS
    MaxCalls = 2
    MaxEvents = 3
    Capacity = 1
    MaxSlow = 1
    MaxCrashes = 1
INVARIANTS
    TypeOK
    NoEventTwice
    ResponsesPaid
    OwnAnswer
    LeftoversBounded
    ExecutedOnce
PROPERTIES
    CallsEnd
CHECK_DEADLOCK FALSE
