SPECIFICATION HDCFairSpec
CONSTANTS
  Level <- MCLevel
  Handler = {FDC_Int, FDD_Int, SASI_Int}
  NULL = NULL
  CoreClearsLine = TRUE
  FDC_Int = FDC_Int
  FDD_Int = FDD_Int
  SASI_Int = SASI_Int
  Attached = {0}
  Size = 1
  BlockLen = 2
  BMod = 3
  Sectors = {0, 1}
  Counts = {0, 1, 2}
  HDCSets <- MCHDCSets
INVARIANTS
  HDCTypeOK
  StatusTells
  OneIsAnswered
PROPERTIES
  StatusAnnounced
  HDCCommandsEnd
