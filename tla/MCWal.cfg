SPECIFICATION Spec
CONSTANTS
  Budget = 20
  MaxSegments = 2
  Regimes <- MCRegimes
INVARIANT NoFalseAlarm
INVARIANT NoSilentLoss
INVARIANT FoldableWhenIdle
CHECK_DEADLOCK FALSE
