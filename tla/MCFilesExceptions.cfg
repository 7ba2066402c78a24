SPECIFICATION Spec
CONSTANTS
  Archives <- ArchivesDef
  Capacity = 3
  Refusals = TRUE
  ReadErrors <- AllErrors
  WriteErrors <- LoggedErrors
  Cancels = TRUE
INVARIANTS
  NeverSpins
  FailedWriteAborts
CHECK_DEADLOCK FALSE
