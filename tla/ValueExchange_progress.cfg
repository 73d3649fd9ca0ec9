CONSTANT MaxSets = 3
SPECIFICATION FairSpec
PROPERTY RefusalEnds
CHECK_DEADLOCK FALSE
