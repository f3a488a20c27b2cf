SPECIFICATION CRTCFairSpec
CONSTANTS
  Mask = {"none", "lower", "upper"}
  ResetMask = "none"
  Raster = {0, 1}
  MaxAge = 4
INVARIANTS
  ClearIsAsked
PROPERTIES
  AskedIsDone
  MaskOfTheRequest
  SourceWaits
