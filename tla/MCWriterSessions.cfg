SPECIFICATION FairSpec
CONSTANTS
  MaxThreads = 3
  Situations <- AllTrouble
INVARIANTS
  TypeOK
  DeviceLeftAlone
  NoOrphan
PROPERTIES
  SuccessIsOfThisWrite
  SessionEnds
CHECK_DEADLOCK FALSE
