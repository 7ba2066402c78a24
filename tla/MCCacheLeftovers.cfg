SPECIFICATION Spec
CONSTANTS
  NumChunks = 5
  NeededChunks = 3
  MaxQueue = 2
  DiskErrors = TRUE
  SlowDisk = TRUE
  NetworkErrors = TRUE
  ImageErrors = TRUE
  Cancels = TRUE
INVARIANTS
  PublishedIsKept
  DestroyedWhenStopped
CHECK_DEADLOCK FALSE
