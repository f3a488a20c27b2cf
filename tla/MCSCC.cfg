SPECIFICATION Spec
CONSTANTS
  Level <- MCLevel
  Handler = {SCC_Int}
  NULL = NULL
  CoreClearsLine = TRUE
  SCC_Int = SCC_Int
  BytesA <- MCBytesA
  BytesB <- MCBytesB
  Scale = 2
  Low <- MCLow
  High = 1
  Moves <- MCMoves
  MaxMotion = 6
INVARIANTS
  PacketsWhole
  MotionConserved
