SPECIFICATION Spec
CONSTANTS
  NumSlots = 3
  StallTicks = 3
  TimedCalls = FALSE
  MaxBlocks = 4
INVARIANTS
  TypeOK
  SlotOwnership
PROPERTIES
  ChannelSpec
