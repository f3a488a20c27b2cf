CONSTANTS
  Clocks = {13, 16}
  CLOCK_SLICE = 2
  Totals = {3, 6}
  Lines = {1, 4, 7}
SPECIFICATION FairSpec
INVARIANTS
  ClocksAreShared
  LinesOnTime
  InterruptsPerFrame
PROPERTIES
  FramesEnd
