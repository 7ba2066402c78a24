SPECIFICATION Spec
CONSTANTS
  Archives <- Exceptions
  Capacity = 3
  Cancels = TRUE
  NetworkErrors = TRUE
  WriteErrors = FALSE
  BadArchives = FALSE
  SilentErrors = TRUE
INVARIANTS
  CancelIsNoSuccess
  SuccessFollowsExtraction
  NoLateError
  QuietErrorsStand
CHECK_DEADLOCK FALSE
