CONSTANTS
  b1 = b1
  b2 = b2
  Batch <- MCBatch
  EmptyBuffer = EmptyBuffer
  None = None
SPECIFICATION FairSpec
INVARIANTS MutexHeld SeenFlagHolds NoLostWakeup NoDeadlock ExchangeInv
PROPERTIES ImplementsBuffer BatchIsFetched SetReturns
