SPECIFICATION FairSpec
CONSTANTS
  Archives <- ImageWithTail
  Capacity = 2
  Cancels = FALSE
  NetworkErrors = FALSE
  WriteErrors = FALSE
  BadArchives = FALSE
  SilentErrors = FALSE
PROPERTIES
  PushReturns
CHECK_DEADLOCK FALSE
