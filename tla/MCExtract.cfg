SPECIFICATION FairSpec
CONSTANTS
  Archives <- ImageOrFiles
  Capacity = 3
  Cancels = TRUE
  NetworkErrors = TRUE
  WriteErrors = TRUE
  BadArchives = TRUE
  SilentErrors = TRUE
INVARIANTS
  TypeOK
  SuccessMeansWholeImage
  VerdictsAgree
PROPERTIES
  SessionEnds
CHECK_DEADLOCK FALSE
