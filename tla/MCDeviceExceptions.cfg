SPECIFICATION Spec
CONSTANTS
  LastBlock = 3
  FirstChunk = 1
  MaxVersion = 3
  BigFile = {3}
  Unread = {2}
  Kinds = {{"expectedHash"}, {"customised", "secureBoot"}}
  Errors = {"write"}
INVARIANTS
  TableIsLast
  SettingsDurable
CHECK_DEADLOCK FALSE
