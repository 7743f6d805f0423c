SPECIFICATION Spec
CONSTANTS
  Archives <- MCArchives
  StripThresholds <- MCStripThresholds
  Names <- MCNames
  MaxRuns = 3
INVARIANTS
  RemovedMeansExtracted
CHECK_DEADLOCK FALSE
