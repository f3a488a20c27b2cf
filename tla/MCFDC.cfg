SPECIFICATION FairSpec
CONSTANTS
  Level <- MCLevel
  Handler = {FDC_Int, FDD_Int, SASI_Int}
  NULL = NULL
  CoreClearsLine = TRUE
  FDC_Int = FDC_Int
  FDD_Int = FDD_Int
  SASI_Int = SASI_Int
  Drive = {0}
  Disk <- MCDisk
  Prm <- MCPrm
  RMod = 4
  EnableSets <- MCEnableSets
INVARIANTS
  TypeOK
  PhasesAgree
  CompleteOnSuccess
PROPERTIES
  ReadinessAnnounced
  CommandsEnd
