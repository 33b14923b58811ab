CONSTANTS
  Names = {a, b}
  None = None
  MaxRows = 2
  MaxStmts = 3
  MaxMerges = 1
  MaxFaults = 2
  Faults = {"kill", "power", "rot", "checkpoint_error"}
SPECIFICATION Spec
INVARIANTS CrashSafe OriginIsExact
PROPERTY QuarantineKept
CHECK_DEADLOCK FALSE
