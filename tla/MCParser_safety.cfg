CONSTANTS
  Size = 438
  Inputs <- MCInputs
  Damages = {0, 1, 96, 127, 132, 255}
SPECIFICATION FairSpec
INVARIANTS LengthIsAccounted AcceptedEndsRight GoodFramesParse LosesOnePiece
PROPERTIES Advances Terminates
CHECK_DEADLOCK FALSE
