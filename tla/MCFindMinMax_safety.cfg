CONSTANTS
  Signals = 2
  Samples <- MCSamples
  MaxPoints = 4
SPECIFICATION Spec
INVARIANTS   PeriodsAreOpposite
CHECK_DEADLOCK FALSE
