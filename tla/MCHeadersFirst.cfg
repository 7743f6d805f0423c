SPECIFICATION Spec
CONSTANTS
  Archives <- TwoBlockArchives
  StripThresholds <- MCStripThresholds
  ReadSizes <- MCReadSizes
INVARIANTS
  HeadersStrippedFirst
CHECK_DEADLOCK FALSE
