SPECIFICATION FairSpec
CONSTANTS
  MaxSize = 6
  MaxInFlight = 3
INVARIANTS
  UnconsumedSurvives
PROPERTIES
  OkIsDurable
  Terminates
  ImplementsContract
CHECK_DEADLOCK FALSE
