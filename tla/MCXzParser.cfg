SPECIFICATION Spec
CONSTANTS
  GroupBits = 3
  WordBits = 10
  HalfBits = 8
  MaxRecords = 100
  Lzma2 = 5
  MaxDict = 12
  DictShift = 1
  DefaultDict = 200
  Files <- MCFiles
INVARIANTS
  TypeOK
  IntactParsed
  NumbersExact
CHECK_DEADLOCK FALSE
