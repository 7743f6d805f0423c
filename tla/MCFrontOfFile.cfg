SPECIFICATION Spec
CONSTANTS
  Archives <- TwoBlockArchives
  StripThresholds <- MCStripThresholds
  ReadSizes <- MCReadSizes
PROPERTIES
  RemainingAtFront
CHECK_DEADLOCK FALSE
