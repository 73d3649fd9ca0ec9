CONSTANTS
  p256 = p256
  Frame = {p256}
  FrameSize <- MCFrameSize
  Size = 8192
  Threshold = 800
  RxMax = 2
SPECIFICATION FairSpec
INVARIANTS WholeFrames FreeToRead EngineInv
PROPERTY BatchesGoOut
