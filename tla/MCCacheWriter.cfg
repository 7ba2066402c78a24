SPECIFICATION FairSpec
CONSTANTS
  NumChunks = 5
  NeededChunks = 3
  MaxQueue = 2
  DiskErrors = TRUE
  SlowDisk = TRUE
  NetworkErrors = TRUE
  ImageErrors = TRUE
  Cancels = TRUE
INVARIANTS
  TypeOK
  LeftoverIsWhole
  HashIsOfFile
PROPERTIES
  DownloadEnds
CHECK_DEADLOCK FALSE
