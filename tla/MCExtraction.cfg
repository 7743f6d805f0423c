SPECIFICATION FairSpec
CONSTANTS
  Archives <- MCArchives
  StripThresholds <- MCStripThresholds
  Names <- MCNames
  MaxRuns = 3
INVARIANTS
  TypeOK
  CompleteWhenWhole
  OneUnitPerRun
PROPERTIES
  WholeArchiveDone
CHECK_DEADLOCK FALSE
