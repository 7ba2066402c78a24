SPECIFICATION Spec
CONSTANTS
  NoSlot = NoSlot
  s1 = s1
  s2 = s2
  s3 = s3
  Slots = {s1, s2, s3}
  NumBlocks = 4
  MinDepth = 2
  Patience = 2
  Cancels = FALSE
  Watchdog = FALSE
  Scenarios <- StalledInFlush
INVARIANTS
  BufferStable
  CursorFollowsBlocks
CHECK_DEADLOCK FALSE
