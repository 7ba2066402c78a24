SPECIFICATION FairSpec
CONSTANTS
  NoSlot = NoSlot
  s1 = s1
  s2 = s2
  s3 = s3
  Slots = {s1, s2, s3}
  NumBlocks = 4
  MinDepth = 2
  Patience = 2
  Cancels = TRUE
  Watchdog = TRUE
  Scenarios <- FaultyOrStalled
INVARIANTS
  TypeOK
  SlotsAccounted
  BufferStable
  CursorFollowsBlocks
  WrittenMeansOnDevice
PROPERTIES
  WriteEnds
CHECK_DEADLOCK FALSE
