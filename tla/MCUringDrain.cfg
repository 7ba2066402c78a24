SPECIFICATION Spec
CONSTANTS
  NoSlot = NoSlot
  s1 = s1
  s2 = s2
  s3 = s3
  Slots = {s1, s2, s3}
  NumBlocks = 6
  MinDepth = 2
  Patience = 2
  Cancels = FALSE
  Watchdog = TRUE
  Scenarios <- Sound
PROPERTIES
  DrainIsServed
CHECK_DEADLOCK FALSE
