CONSTANTS
  DMA_Int = DMA_Int
  Level = {3}
  Handler = {DMA_Int}
  NULL = NULL
  CoreClearsLine = TRUE
  Chan = {0, 1}
  MaxCount = 1
  Table <- MCTinyTable
  Modes <- MCSingleModes
  BusFlags = {}
  CCRValues <- MCPairStarts
  CSRValues = {}
  Masks = {0}
  StartWithCNT = TRUE
SPECIFICATION Spec
INVARIANTS
  LevelMirrorsChannels
PROPERTIES
  ImplementsArbiter
