SPECIFICATION Spec
CONSTANTS
  MaxThreads = 3
  Situations <- Overlaps
INVARIANTS
  NobodyOrphaned
CHECK_DEADLOCK FALSE
