SPECIFICATION Spec
CONSTANTS
  LitBits = 8
  LowBits = 3
  MidBits = 3
  HighBits = 8
  WordBits = 8
  SlotBits = 4
  DIST_MODEL_END = 10
  ALIGN_BITS = 2
  DictSize = 250
  Settings <- MCSettings
INVARIANTS
  InTables
  StateNamesHistory
  MatchByteCounts
PROPERTIES
  ImplementsFormat
CHECK_DEADLOCK FALSE
