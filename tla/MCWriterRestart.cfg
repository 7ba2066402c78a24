SPECIFICATION Spec
CONSTANTS
  MaxThreads = 2
  Situations <- Restarts
INVARIANTS
  RestartFindsThread
CHECK_DEADLOCK FALSE
