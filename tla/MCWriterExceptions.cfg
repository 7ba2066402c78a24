SPECIFICATION Spec
CONSTANTS
  MaxThreads = 2
  Situations <- Exceptions
INVARIANTS
  DeviceReleased
  ScanPausedWhileWriting
PROPERTIES
  CancelSettles
  CancelStartsNothing
  EverySuccessIsOfThisWrite
  NoRunningThreadAtStart
  OnlyEndedThreadsDeleted
CHECK_DEADLOCK FALSE
