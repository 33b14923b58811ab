SPECIFICATION FlawSpec
CONSTANTS
  Budget = 20
  MaxSegments = 2
  Regimes <- FlawRegimes
  A = a
  B = b
INVARIANT DocumentedRecovery
CHECK_DEADLOCK FALSE
