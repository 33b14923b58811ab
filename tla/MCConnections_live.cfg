\* Two connections and two tables, so that a producer fills its channel: who waits for the lock gets it.
CONSTANTS
    Conns = {c1, c2}
    Tables = {a, b}
    Readers = {c1}
    MaxRows = 1
    NestedReads = FALSE
    None = None
SPECIFICATION Spec
PROPERTIES WriterProgress CursorCloses OrphanIsSwept
CHECK_DEADLOCK FALSE
