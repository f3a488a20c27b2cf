CONSTANTS
  FDC_Int = FDC_Int
  SASI_Int = SASI_Int
  SCC_Int = SCC_Int
  MFP_IntCallback = MFP_IntCallback
  IRQH_DefaultVector = IRQH_DefaultVector
  Level = {1, 5, 6, 7}
  Handler = {FDC_Int, SASI_Int, SCC_Int, MFP_IntCallback, IRQH_DefaultVector}
  HandlersOf <- MCHandlersOf
  Rearming = {MFP_IntCallback}
  NULL = NULL
  CoreClearsLine = TRUE
SPECIFICATION FairSpec
INVARIANTS
  LineIsHighest
  OfferedLevelHasHandler
PROPERTIES
  NMIAnswered
