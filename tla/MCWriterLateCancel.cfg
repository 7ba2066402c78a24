SPECIFICATION FairSpec
CONSTANTS
  MaxThreads = 2
  Situations <- LateCancels
PROPERTIES
  CancelEnds
CHECK_DEADLOCK FALSE
