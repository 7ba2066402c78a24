SPECIFICATION Spec
CONSTANTS
  NumSlots = 2
  StallTicks = 3
  TimedCalls = TRUE
  MaxBlocks = 2
INVARIANT StallIsDetected
