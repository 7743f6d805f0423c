SPECIFICATION FairSpec
CONSTANTS
  Archives <- MCArchives
  BlockSize = 2
  BufferSize = 4
  NoName = NoName
INVARIANTS
  FramingKept
  NamesPaired
  OkMeansExtracted
  CutShortFails
PROPERTIES
  Terminates
CHECK_DEADLOCK FALSE
