SPECIFICATION Spec
CONSTANTS
  Keys = {k1, k2}
  Vals = {v1, v2}
  MaxBatch = 2
  Bulk = 2
  DeltaLimit = 2
  AutoParts = 2
  MaxPid = 3
  MayFail = TRUE
SYMMETRY Symmetric
VIEW Unlabelled
INVARIANT TypeOK OneLiveRow ProbeAgreesWithScan
PROPERTY MapSpec
CHECK_DEADLOCK FALSE
