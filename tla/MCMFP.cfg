CONSTANTS
  SCC_Int = SCC_Int
  MFP_IntCallback = MFP_IntCallback
  Level = {5, 6}
  Handler = {SCC_Int, MFP_IntCallback}
  NULL = NULL
  CoreClearsLine = TRUE
  Channel = {3, 12, 15}
  OtherHandlersOf <- MCOtherHandlersOf
  Masks = {0, 7}
SPECIFICATION Spec
INVARIANTS
  LevelMirrorsRequests
PROPERTIES
  ImplementsArbiter
