SPECIFICATION FatSpec
CONSTANTS
  Names = {"user", "users", "meta"}
  Short <- MCShort
  MaxSize = 2
  LastCluster = 8
  LastEntry = 9
  PerCluster = 3
  MaxWrites = 2
  LastNumber = 1
  MaxSlots = 7
  Images <- MCImages
INVARIANT DeletedIsGone
CHECK_DEADLOCK FALSE
