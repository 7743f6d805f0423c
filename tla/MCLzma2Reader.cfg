SPECIFICATION FairSpec
CONSTANTS
  Bytes = {0}
  Zero = 0
  DictSize = 3
  Align = 2
  MaxU32 = 3
  Distances <- MCDistances
  Lengths <- MCLengths
  MaxOutput = 7
  ChunkSizes <- MCChunkSizes
  ReadSizes <- MCReadSizes
INVARIANTS
  DecoderReady
  ChunksApart
  ShortOnlyAtEnd
PROPERTIES
  ReadReturns
CHECK_DEADLOCK FALSE
