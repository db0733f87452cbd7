SPECIFICATION FairSpec
CONSTANTS
    Path = {a, b}
    MaxBlocks = 2
    MaxErrors = 2
INVARIANTS
    TypeOK
    MoveNeverLoses
    CompletedIsWhole
    UnfinishedKeepsSource
    CancelLeavesNoPartial
    PausedIsPrefix
PROPERTIES
    RunEnds
