CONSTANTS
  Max80p = 3
  Max256p = 7
  CounterMod = 16
  MaxLoss = 3
  MaxBatch = 2
  MaxSent = 12
SPECIFICATION Spec
INVARIANTS TypeOK StateTellsLoss MissedIsLostLessTurns
PROPERTY StrictIsContiguous
CHECK_DEADLOCK FALSE
