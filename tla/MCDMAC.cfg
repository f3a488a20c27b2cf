CONSTANTS
  DMA_Int = DMA_Int
  Level = {3}
  Handler = {DMA_Int}
  NULL = NULL
  CoreClearsLine = TRUE
  Chan = {0}
  MaxCount = 2
  Table <- MCTable
  Modes <- MCModes
  BusFlags = {1, 4, 7}
  CCRValues <- MCCCRValues
  CSRValues <- MCCSRValues
  Masks = {0}
  StartWithCNT = FALSE
SPECIFICATION FairSpec
INVARIANTS
  ActiveHasWork
PROPERTIES
  NoSilentStop
  BlockEnds
