SPECIFICATION ManagerSpec
CONSTANTS
  Images = {compressed, plain}
  Compressed = {compressed}
  compressed = compressed
  plain = plain
  None = None
  Scenarios <- Exceptions
INVARIANTS
  RejectedNotUsedAgain
  SourceIsImage
  CustomSourceIsImage
  InvalidIsInvalid
