SPECIFICATION Spec
CONSTANTS
  Archives <- ArchivesDef
  Capacity = 3
  Refusals = TRUE
  ReadErrors <- AllErrors
  WriteErrors <- LoggedErrors
  Cancels = TRUE
INVARIANTS
  TypeOK
  WrittenOnceInPlace
  SuccessMeansExtracted
  FailureLeavesNothing
CHECK_DEADLOCK FALSE
