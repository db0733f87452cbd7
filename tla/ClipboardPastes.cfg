SPECIFICATION Spec
CONSTANTS
    Dir = {d1, d2}
    Helpers = {h1, h2}
    MaxSuffix = 1
    MaxCommands = 3
SYMMETRY HelperSymmetry
INVARIANTS
    TypeOK
    ContentKept
    OnlyCutIsMoved
CHECK_DEADLOCK FALSE
