SPECIFICATION Spec
CONSTANTS
    Path = {a, b}
    MaxBlocks = 1
    MaxErrors = 0
INVARIANT CopyPreservesContent
