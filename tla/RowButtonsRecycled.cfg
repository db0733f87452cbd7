SPECIFICATION Spec
CONSTANTS
    Jobs = {j1, j2}
    Slots = {s1}
    NoRow = NoRow
    MaxBinds = 2
    MaxClicks = 1
INVARIANT
    ClickIsForItsRow
CHECK_DEADLOCK FALSE
