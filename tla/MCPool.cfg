\* Two workers, two callers: a helper of one job may be late for the other.
CONSTANTS
    Workers = {w1, w2}
    Callers = {c1, c2}
    MaxItems = 2
    MaxCalls = 1
    None = None
SPECIFICATION Spec
INVARIANTS TypeOK NoDanglingJob EachIndexOnce
PROPERTIES EveryCallReturns EveryWorkerExits
CHECK_DEADLOCK FALSE
