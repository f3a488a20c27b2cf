SPECIFICATION PCMSpec
CONSTANTS
  Ring = 16
  Lens <- MCLens
  Rate = 2
  Second = 3
  Clocks <- MCClocks
INVARIANTS
  PointersCount
PROPERTIES
  InOrder
