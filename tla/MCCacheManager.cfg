SPECIFICATION ManagerFairSpec
CONSTANTS
  Images = {compressed, plain}
  Compressed = {compressed}
  compressed = compressed
  plain = plain
  None = None
  Scenarios <- CustomOrDecay
INVARIANTS
  ManagerTypeOK
  SourceIsImage
  CachedIsWhole
PROPERTIES
  WaitingEnds
