SPECIFICATION Spec
CONSTANTS
  LastBlock = 3
  FirstChunk = 1
  MaxVersion = 3
  BigFile = {3}
  Unread = {2}
  Kinds = {{}, {"verify"}, {"expectedHash"}, {"customised"}, {"customised", "verify"},
           {"customised", "expectedHash"}, {"customised", "secureBoot"},
           {"customised", "secureBoot", "verify"}, {"verify", "dropping"},
           {"customised", "dropping"}}
  Errors = {"read", "write", "flush"}
INVARIANTS
  TypeOK
  TableLast
  SuccessMeansDurable
CHECK_DEADLOCK FALSE
