SPECIFICATION FairSpec
CONSTANTS
  Size = 5
  Capacity = 2
  MaxChunk = 3
  Scenarios <- ScenariosDef
PROPERTIES
  DownloadEnds
CHECK_DEADLOCK FALSE
