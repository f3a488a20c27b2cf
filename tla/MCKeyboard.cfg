CONSTANTS
  KeyBufSize = 4
  Scan = {"shift", "a", "b"}
  Code = {"SHIFT", "A"}
  SHIFT = "SHIFT"
  NC = "none"
  NoKey = NoKey
  ScanTable <- MCScanTable
SPECIFICATION KeyFairSpec
INVARIANTS
  KeyTypeOK
  Announced
  GuestShiftAgrees
PROPERTIES
  ImplementsKeyQueue
  KeysMove
