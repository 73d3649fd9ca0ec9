CONSTANTS
  Max80p = 3
  Max256p = 9
  FrameLength = 1
  Size = 3
  Threshold = 2
  RxMax = 2
  Window = 6
  EarlyMax = 1
  HarmMax = 1
  Damaged = Damaged
  None = None
SPECIFICATION FairStopSpec
PROPERTY StopReturns
CHECK_DEADLOCK FALSE
