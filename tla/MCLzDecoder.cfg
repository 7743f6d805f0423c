SPECIFICATION LzSpec
CONSTANTS
  Bytes <- MCBytes
  Zero = 0
  DictSize = 3
  Align = 2
  MaxU32 = 7
  Distances <- MCDistances
  Lengths <- MCLengths
  MaxOutput = 7
INVARIANTS
  WindowExact
  InOrder
  InBounds
  ContextRight
PROPERTIES
  ImplementsDictionary
CHECK_DEADLOCK FALSE
