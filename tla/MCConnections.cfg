\* Two connections, two tables, two rows; a client may query while its own cursor is open.
CONSTANTS
    Conns = {c1, c2}
    Tables = {a, b}
    Readers = {c1}
    MaxRows = 2
    NestedReads = TRUE
    None = None
SPECIFICATION Spec
INVARIANTS AckedIsPublished ReadsCommitted
CHECK_DEADLOCK FALSE
