SPECIFICATION MCSpec
CONSTANTS
  Tables = {a,b,c}
  MaxTxs = 2
  MaxLog = 4
  MaxFaults = 2
  Faults = {"kill", "power", "empty_enlist", "prepare_error", "fold_crash"}
SYMMETRY TableSymmetry
INVARIANT TypeOK
INVARIANT AllOrNothing
INVARIANT DecisionAfterPrepares
INVARIANT SeqsBelowNext
PROPERTY AtomicSpec
CHECK_DEADLOCK FALSE
