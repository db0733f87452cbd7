SPECIFICATION Spec
CONSTANTS
    Trays = {t1, t2}
    Rate = {0, 1}
    Presets = {0, 1}
    Absent = Absent
    Blank = Blank
    Garbled = Garbled
    Foreign = Foreign
    MaxChoices = 2
    MaxOutside = 2
SYMMETRY TraySymmetry
INVARIANTS
    TypeOK
    FileWhole
    ChoicesKept
    EntryKept
    LimitIsSaved
