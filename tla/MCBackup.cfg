CONSTANTS
    Tables = {a, b}
    Paths = {p, q}
    NoPath = none
    MaxChain = 2
    MaxRows = 2
    MaxOps = 5
    MaxCrashes = 1
SPECIFICATION Spec
ACTION_CONSTRAINT Course
INVARIANTS ArchiveIsTheInstant RollForwardExact TornRestoreRefused
CHECK_DEADLOCK FALSE
SYMMETRY Symmetry
