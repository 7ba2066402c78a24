SPECIFICATION FairSpec
CONSTANTS
  Size = 5
  Capacity = 2
  MaxChunk = 3
  Scenarios <- ScenariosDef
INVARIANTS
  TypeOK
  CompleteMeansWhole
  DeviceFollowsImage
PROPERTIES
  DownloadSettles
CHECK_DEADLOCK FALSE
