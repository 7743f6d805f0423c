SPECIFICATION FairSpec
CONSTANTS
  Archives <- MCArchives
  StripThresholds <- MCStripThresholds
  ReadSizes <- MCReadSizes
INVARIANTS
  UnreadNeverStripped
  BooksAgree
  LimitCoversBlock
  DeliveredAll
  SpaceReclaimed
PROPERTIES
  CallReturns
CHECK_DEADLOCK FALSE
