CONSTANTS
  Signals = 1
  Samples <- MCNonZero
  MaxPoints = 6
SPECIFICATION Spec
INVARIANT PeriodsAreCrossings
CHECK_DEADLOCK FALSE
