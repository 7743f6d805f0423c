----------------------- MODULE StrippingReader_proofs -----------------------
(***************************************************************************)
(* Proofs about StrippingReader, for archives of every number and size of  *)
(* blocks and chunks, every threshold and every size of read.              *)
(***************************************************************************)
EXTENDS StrippingReader, TLAPS

(* Where the decoder is in the archive, told by the block, the chunk and   *)
(* what is left of it.                                                     *)
PositionInv ==
  /\ reader = "none" =>
        want = IF current_record_idx = 0 THEN StreamHeaderSize
               ELSE BlockEnd(archive.blocks[current_record_idx])
  /\ reader = "ended" =>
        want = Block.start + MarkerAt(archive, Block) + 1
  /\ reader = "open" /\ chunk = 0 =>
        want = Block.start + Block.header /\ uncompressed_size = 0
  /\ reader = "open" /\ chunk > 0 =>
        /\ uncompressed_size <= AtChunk.out
        /\ want = Block.start + AtChunk.at + AtChunk.taken
                  + IF AtChunk.stored THEN AtChunk.out - uncompressed_size ELSE 0

(* Where no strip can displace the handle.                                 *)
PlaceFixed == DryRun \/ Records = 1 => Placed

(* A strip may leave the handle before the wanted byte, never behind it.   *)
PlaceInv ==
  /\ base + offset <= want
  /\ DryRun => base = 0
  /\ PlaceFixed

(* What a call has taken before it has data to return: nothing, a chunk    *)
(* whose data comes next, or the end marker.                               *)
CallInv ==
  /\ pc = "read" /\ bytes_read = 0 =>
        \/ count = prev_in
        \/ reader = "open" /\ uncompressed_size > 0
        \/ reader = "ended" /\ count = prev_in + 1
  /\ pc = "strip" => reader # "none"
  /\ reader = "none" => count = 0

IInv ==
  /\ TypeOK /\ PositionInv /\ PlaceInv /\ CallInv
  /\ OffsetTracked /\ LagBounded /\ LimitCoversBlock
-----------------------------------------------------------------------------
(* The index record of a block leads from the end of its data to the start *)
(* of the next block.                                                      *)
LEMMA PaddingAligns ==
  ASSUME NEW n \in Nat
  PROVE  n + PaddingSize(n) = ((n + 3) \div 4) * 4 /\ PaddingSize(n) \in Nat
  BY SMTT(30) DEF PaddingSize

(* The block being read, with the sizes the archive gives it.              *)
LEMMA BlockFacts ==
  ASSUME TypeOK, current_record_idx < Records
  PROVE  /\ IsBlock(archive, Block)
         /\ BlockEnd(Block) < archive.size
         /\ Block.start = IF current_record_idx = 0 THEN StreamHeaderSize
                          ELSE BlockEnd(archive.blocks[current_record_idx])
         /\ archive.check \in Nat /\ archive.size \in Nat
<1>1. IsArchive(archive) /\ current_record_idx \in Nat /\ Records \in Nat
  BY DEF TypeOK, IsArchive, Records
<1>2. current_record_idx + 1 \in 1 .. Len(archive.blocks)
  BY <1>1 DEF Records
<1> QED
  BY <1>1, <1>2 DEF IsArchive, Block, CheckSizes

(* Taking n bytes moves the limit and the place together.                  *)
LEMMA LimitLemma ==
  ASSUME NEW l \in Nat, NEW w \in Nat, NEW s \in Nat, NEW m \in Nat, NEW n \in Nat,
         l >= s + m + 1 - w
  PROVE  l - n >= s + m + 1 - (w + n)
  OBVIOUS

(* Where a chunk ends.                                                     *)
LEMMA ChunkSizes ==
  ASSUME NEW c, IsChunk(c)
  PROVE  /\ c.at \in Nat /\ c.taken \in Nat /\ c.out \in Nat
         /\ ChunkEnd(c) \in Nat /\ ChunkEnd(c) >= c.at + c.taken
  BY DEF IsChunk, ChunkEnd

(* The sizes a block's parts have.                                         *)
LEMMA BlockSizes ==
  ASSUME NEW a, NEW b, IsBlock(a, b), a.check \in Nat
  PROVE  /\ b.start \in Nat /\ b.header \in Nat /\ b.unpadded \in Nat
         /\ b.header > 0
         /\ MarkerAt(a, b) \in Nat /\ MarkerAt(a, b) >= b.header
         /\ b.unpadded = MarkerAt(a, b) + 1 + a.check
         /\ Len(b.chunks) \in Nat
<1>1. /\ b.start \in Nat /\ b.header \in Nat /\ b.unpadded \in Nat
      /\ b.header > 0 /\ Len(b.chunks) \in Nat
  BY DEF IsBlock
<1>2. MarkerAt(a, b) \in Int /\ b.unpadded = MarkerAt(a, b) + 1 + a.check
  BY <1>1 DEF MarkerAt
<1>3. CASE Len(b.chunks) = 0
  BY <1>1, <1>2, <1>3 DEF IsBlock
<1>4. CASE Len(b.chunks) > 0
  <2>1. 1 \in 1 .. Len(b.chunks)
    BY <1>1, <1>4
  <2>2. /\ IsChunk(b.chunks[1]) /\ b.chunks[1].at = b.header
        /\ ChunkEnd(b.chunks[1]) <= MarkerAt(a, b)
    BY <2>1 DEF IsBlock
  <2>3. ChunkEnd(b.chunks[1]) \in Nat /\ ChunkEnd(b.chunks[1]) >= b.header
    BY <1>1, <2>2, ChunkSizes
  <2> QED
    BY <1>1, <1>2, <2>2, <2>3
<1> QED
  BY <1>1, <1>3, <1>4

(* The variables that are numbers.                                         *)
Numbers ==
  /\ base \in Nat /\ offset \in Nat /\ want \in Nat
  /\ current_record_idx \in Nat /\ Records \in Nat
  /\ initial_offset \in Nat /\ bytes_processed_since_last_strip \in Nat
  /\ limit \in Nat /\ count \in Nat /\ uncompressed_size \in Nat
  /\ buf_len \in Nat /\ bytes_read \in Nat /\ prev_in \in Nat

LEMMA TypeNumbers == TypeOK => Numbers
  BY DEF TypeOK, Numbers, IsArchive, Records

LEMMA InitIInv == Init => IInv
<1> SUFFICES ASSUME Init PROVE IInv
  OBVIOUS
<1>1. IsArchive(archive) /\ strip_threshold \in Nat
  BY ArchivesAssumption, StripThresholdsAssumption DEF Init
<1>2. TypeOK
  <2>1. Records \in Nat
    BY <1>1 DEF IsArchive, Records
  <2>2. current_record_idx \in 0 .. Records
    BY <2>1 DEF Init
  <2>3. mode \in Modes
    BY DEF Init
  <2> QED
    BY <1>1, <2>1, <2>2, <2>3 DEF Init, TypeOK, Resting, StreamHeaderSize
<1>3. PositionInv /\ PlaceInv /\ CallInv
  BY DEF Init, PositionInv, PlaceInv, CallInv, PlaceFixed, Placed, DryRun, StreamHeaderSize
<1>4. OffsetTracked /\ LagBounded /\ LimitCoversBlock
  BY DEF Init, OffsetTracked, LagBounded, Lag, LimitCoversBlock, StreamHeaderSize
<1> QED
  BY <1>2, <1>3, <1>4 DEF IInv

(* A block header goes by.                                                 *)
LEMMA SetupIInv == IInv /\ SetupNextBlock => IInv'
<1> SUFFICES ASSUME IInv, SetupNextBlock PROVE IInv'
  OBVIOUS
<1>1. TypeOK /\ PositionInv /\ PlaceInv /\ CallInv
  BY DEF IInv
<1>2. OffsetTracked /\ LagBounded
  BY DEF IInv
<1>3. Numbers
  BY <1>1, TypeNumbers
<1>4. /\ archive' = archive /\ strip_threshold' = strip_threshold
      /\ mode' = mode /\ base' = base
      /\ current_record_idx' = current_record_idx
      /\ current_record_idx < Records
  BY <1>3 DEF SetupNextBlock, NoRecordLeft, args, Numbers
<1>5. Block' = Block /\ Records' = Records
  BY <1>4 DEF Block, Records
<1>6. IsBlock(archive, Block) /\ archive.check \in Nat /\ want = Block.start
  BY <1>1, <1>3, <1>4, BlockFacts DEF SetupNextBlock, PositionInv
<1> DEFINE h == Block.header
           m == MarkerAt(archive, Block)
<1>7. /\ Block.start \in Nat /\ h \in Nat /\ h > 0 /\ m \in Nat /\ m >= h
      /\ Block.unpadded = m + 1 + archive.check
      /\ Len(Block.chunks) \in Nat
  BY <1>6, BlockSizes
<1>8. /\ pc = "loop" /\ reader = "none" /\ pc' = "read" /\ reader' = "open"
      /\ chunk' = 0 /\ uncompressed_size' = 0 /\ prev_in' = 0 /\ count' = 0
      /\ buf_len' = buf_len /\ bytes_read' = bytes_read
      /\ current_uncompressed' = current_uncompressed
  BY DEF SetupNextBlock
<1>9. base + offset = want /\ offset' = offset + h /\ want' = want + h
  BY DEF SetupNextBlock, Placed
<1>10. /\ count = 0 /\ initial_offset' = initial_offset + h
       /\ bytes_processed_since_last_strip' = bytes_processed_since_last_strip + h
  BY <1>1 DEF SetupNextBlock, CallInv
<1>11. limit' = IF Block.declares THEN m + 1 - h + 1 ELSE Block.unpadded - h
  BY DEF SetupNextBlock, CompressedSize
<1> HIDE DEF h, m
<1>12. limit' \in Nat /\ limit' >= m + 1 - h
  BY <1>6, <1>7, <1>11
<1>13. Numbers'
  BY <1>3, <1>4, <1>5, <1>7, <1>8, <1>9, <1>10, <1>12 DEF Numbers
<1>14. TypeOK'
  BY <1>1, <1>4, <1>5, <1>7, <1>8, <1>13 DEF TypeOK, Running, Numbers
<1>15. PositionInv' /\ CallInv'
  BY <1>5, <1>6, <1>8, <1>9 DEF PositionInv, CallInv, h
<1>16. PlaceInv'
  <2>1. base' + offset' = want'
    BY <1>3, <1>4, <1>7, <1>9 DEF Numbers
  <2>2. PlaceFixed'
    BY <2>1 DEF PlaceFixed, Placed
  <2>3. base' + offset' <= want'
    BY <1>3, <1>4, <1>7, <1>9 DEF Numbers
  <2>4. DryRun' => base' = 0
    BY <1>1, <1>4 DEF PlaceInv, DryRun
  <2> QED
    BY <2>2, <2>3, <2>4 DEF PlaceInv
<1>17. OffsetTracked'
  BY <1>2, <1>3, <1>4, <1>7, <1>8, <1>9, <1>10 DEF OffsetTracked, DryRun, Numbers
<1>18. LagBounded'
  <2>1. Lag' = Lag
    BY <1>3, <1>7, <1>8, <1>10 DEF Lag, consumed_in, Numbers
  <2> QED
    BY <1>2, <1>4, <1>8, <2>1 DEF LagBounded, Finished
<1>19. LimitCoversBlock'
  <2>1. m' = m
    BY <1>4, <1>5 DEF m, MarkerAt
  <2> QED
    BY <1>5, <1>6, <1>7, <1>9, <1>12, <2>1 DEF LimitCoversBlock, m
<1> QED
  BY <1>14, <1>15, <1>16, <1>17, <1>18, <1>19 DEF IInv

(* The reader takes n bytes of the block's data from the file.             *)
LEMMA TakeKeeps ==
  ASSUME IInv, NEW n \in Nat, TakeIn(n), pc = "read", pc' = "read",
         reader = "open", base' = base, UNCHANGED <<args, books, prev_in>>
  PROVE  /\ offset' \in Nat /\ want' = want + n /\ limit' \in Nat
         /\ count' = count + n /\ limit' = limit - n
         /\ Block' = Block /\ Records' = Records
         /\ PlaceInv' /\ OffsetTracked' /\ LagBounded' /\ LimitCoversBlock'
<1>1. TypeOK /\ PlaceInv /\ OffsetTracked /\ LagBounded /\ LimitCoversBlock
  BY DEF IInv
<1>2. Numbers
  BY <1>1, TypeNumbers
<1>3. /\ base + offset = want /\ n <= limit /\ offset' = offset + n
      /\ want' = want + n /\ limit' = limit - n /\ count' = count + n
  BY DEF TakeIn, Placed
<1>4. /\ archive' = archive /\ mode' = mode /\ prev_in' = prev_in
      /\ current_record_idx' = current_record_idx
      /\ initial_offset' = initial_offset
      /\ bytes_processed_since_last_strip' = bytes_processed_since_last_strip
  BY DEF args, books
<1>5. Block' = Block /\ Records' = Records
  BY <1>4 DEF Block, Records
<1>6. offset' \in Nat /\ limit' \in Nat
  BY <1>2, <1>3 DEF Numbers
<1>7. PlaceInv'
  <2>1. base' + offset' = want' /\ base' + offset' <= want'
    BY <1>2, <1>3 DEF Numbers
  <2>2. PlaceFixed'
    BY <2>1 DEF PlaceFixed, Placed
  <2>3. DryRun' => base' = 0
    BY <1>1, <1>4 DEF PlaceInv, DryRun
  <2> QED
    BY <2>1, <2>2, <2>3 DEF PlaceInv
<1>8. OffsetTracked'
  BY <1>1, <1>2, <1>3, <1>4 DEF OffsetTracked, DryRun, Numbers
<1>9. LagBounded'
  <2>1. Lag' = Lag
    BY <1>2, <1>3, <1>4 DEF Lag, consumed_in, Numbers
  <2> QED
    BY <1>1, <1>4, <2>1 DEF LagBounded
<1>10. LimitCoversBlock'
  <2> DEFINE m == MarkerAt(archive, Block)
  <2>1. current_record_idx < Records
    BY <1>1 DEF TypeOK
  <2>2. IsBlock(archive, Block) /\ archive.check \in Nat
    BY <1>1, <2>1, BlockFacts
  <2>3. Block.start \in Nat /\ m \in Nat
    BY <2>2, BlockSizes
  <2>4. limit >= Block.start + m + 1 - want
    BY <1>1 DEF LimitCoversBlock
  <2>5. m' = m
    BY <1>4, <1>5 DEF MarkerAt
  <2> HIDE DEF m
  <2>6. limit - n >= Block.start + m + 1 - (want + n)
    BY <1>2, <2>3, <2>4, LimitLemma DEF Numbers
  <2> QED
    BY <1>3, <1>5, <2>5, <2>6 DEF LimitCoversBlock, m
<1> QED
  BY <1>3, <1>5, <1>6, <1>7, <1>8, <1>9, <1>10

(* A chunk's header goes by, and the whole chunk if it is an LZMA one.     *)
LEMMA ChunkHeaderIInv == IInv /\ DecodeChunkHeader => IInv'
<1> SUFFICES ASSUME IInv, DecodeChunkHeader PROVE IInv'
  OBVIOUS
<1> DEFINE c == Block.chunks[chunk + 1]
           m == MarkerAt(archive, Block)
<1>1. TypeOK /\ PositionInv /\ LimitCoversBlock
  BY DEF IInv
<1>2. Numbers
  BY <1>1, TypeNumbers
<1>3. /\ pc = "read" /\ pc' = "read" /\ reader = "open" /\ reader' = "open"
      /\ uncompressed_size = 0 /\ bytes_read < buf_len
      /\ chunk < Len(Block.chunks) /\ TakeIn(c.taken)
      /\ chunk' = chunk + 1 /\ uncompressed_size' = c.out
      /\ base' = base /\ UNCHANGED <<args, books, prev_in>>
      /\ buf_len' = buf_len /\ bytes_read' = bytes_read
  BY DEF DecodeChunkHeader, NeedsHeader, Decoding, call
<1>4. current_record_idx < Records /\ chunk \in 0 .. Len(Block.chunks)
  BY <1>1, <1>3 DEF TypeOK
<1>5. IsBlock(archive, Block) /\ archive.check \in Nat
  BY <1>1, <1>4, BlockFacts
<1>6. Len(Block.chunks) \in Nat /\ m \in Nat /\ Block.start \in Nat
  BY <1>5, BlockSizes
<1>7. chunk \in Nat /\ chunk + 1 \in 1 .. Len(Block.chunks)
  BY <1>3, <1>4, <1>6
<1>8. /\ IsChunk(c) /\ ChunkEnd(c) <= m
      /\ c.at = IF chunk + 1 = 1 THEN Block.header
                ELSE ChunkEnd(Block.chunks[chunk + 1 - 1])
  BY <1>5, <1>7, SMTT(30) DEF IsBlock
<1>9. c.at \in Nat /\ c.taken \in Nat /\ c.out \in Nat \ {0} /\ ChunkEnd(c) \in Nat
  BY <1>8, ChunkSizes DEF IsChunk
<1>10. want = Block.start + c.at
  <2>1. CASE chunk = 0
    BY <1>1, <1>3, <1>8, <2>1 DEF PositionInv
  <2>2. CASE chunk > 0
    <3>1. /\ AtChunk = Block.chunks[chunk + 1 - 1]
          /\ chunk \in 1 .. Len(Block.chunks) /\ chunk + 1 # 1
      BY <1>3, <1>7, <1>6, <2>2 DEF AtChunk
    <3>2. c.at = ChunkEnd(AtChunk) /\ IsChunk(AtChunk)
      BY <1>5, <1>8, <3>1 DEF IsBlock, AtChunk
    <3>3. want = Block.start + AtChunk.at + AtChunk.taken
                 + IF AtChunk.stored THEN AtChunk.out - 0 ELSE 0
      BY <1>1, <1>3, <2>2 DEF PositionInv
    <3> QED
      BY <1>6, <3>2, <3>3 DEF ChunkEnd, IsChunk
  <2> QED
    BY <1>7, <2>1, <2>2
<1> HIDE DEF c, m
<1>11. /\ want' = want + c.taken /\ limit' \in Nat /\ limit' = limit - c.taken
       /\ count' = count + c.taken /\ offset' \in Nat
       /\ Block' = Block /\ Records' = Records
       /\ PlaceInv' /\ OffsetTracked' /\ LagBounded' /\ LimitCoversBlock'
  BY <1>3, <1>9, TakeKeeps
<1>12. AtChunk' = c
  BY <1>3, <1>11 DEF AtChunk, c
<1>13. TypeOK'
  <2>1. /\ IsArchive(archive') /\ strip_threshold' \in Nat /\ mode' \in Modes
        /\ current_record_idx' = current_record_idx
        /\ current_uncompressed' \in Nat /\ initial_offset' \in Nat
        /\ bytes_processed_since_last_strip' \in Nat /\ prev_in' = prev_in
    BY <1>1, <1>3 DEF TypeOK, args, books
  <2>2. want' \in Nat /\ count' \in Nat /\ chunk' \in 0 .. Len(Block.chunks)
    <3>1. want' = want + c.taken /\ count' = count + c.taken /\ chunk' = chunk + 1
      BY <1>3, <1>11
    <3> QED
      BY <1>2, <1>6, <1>7, <1>9, <3>1, SMTT(20) DEF Numbers
  <2>3. prev_in <= count'
    BY <1>1, <1>2, <1>3, <1>9, <1>11, SMTT(20) DEF TypeOK, Numbers
  <2> QED
    BY <1>1, <1>2, <1>3, <1>4, <1>9, <1>11, <2>1, <2>2, <2>3
       DEF TypeOK, Running, Numbers
<1>14. PositionInv'
  <2>1. c.out - c.out = 0 /\ chunk' > 0 /\ c.out <= c.out
    BY <1>3, <1>7, <1>9
  <2>2. want' = Block.start + c.at + c.taken + IF c.stored THEN c.out - c.out ELSE 0
    BY <1>6, <1>9, <1>10, <1>11, <2>1
  <2> QED
    BY <1>3, <1>11, <1>12, <2>1, <2>2 DEF PositionInv
<1>15. CallInv'
  BY <1>3, <1>9 DEF CallInv
<1> QED
  BY <1>11, <1>13, <1>14, <1>15 DEF IInv

(* The end marker goes by.                                                 *)
LEMMA EndMarkerIInv == IInv /\ DecodeEndMarker => IInv'
<1> SUFFICES ASSUME IInv, DecodeEndMarker PROVE IInv'
  OBVIOUS
<1> DEFINE m == MarkerAt(archive, Block)
<1>1. TypeOK /\ PositionInv /\ CallInv
  BY DEF IInv
<1>2. Numbers
  BY <1>1, TypeNumbers
<1>3. /\ pc = "read" /\ pc' = "read" /\ reader = "open" /\ reader' = "ended"
      /\ uncompressed_size = 0 /\ uncompressed_size' = 0
      /\ chunk = Len(Block.chunks) /\ chunk' = chunk /\ TakeIn(1)
      /\ base' = base /\ UNCHANGED <<args, books, prev_in>>
      /\ buf_len' = buf_len /\ bytes_read' = bytes_read
  BY DEF DecodeEndMarker, NeedsHeader, Decoding, call
<1>4. current_record_idx < Records
  BY <1>1, <1>3 DEF TypeOK
<1>5. IsBlock(archive, Block) /\ archive.check \in Nat
  BY <1>1, <1>4, BlockFacts
<1>6. Len(Block.chunks) \in Nat /\ m \in Nat /\ Block.start \in Nat
  BY <1>5, BlockSizes
<1>7. want = Block.start + m
  <2>1. CASE chunk = 0
    <3>1. m = Block.header
      BY <1>3, <1>5, <2>1 DEF IsBlock
    <3> QED
      BY <1>1, <1>3, <2>1, <3>1 DEF PositionInv
  <2>2. CASE chunk > 0
    <3>1. AtChunk = Block.chunks[chunk] /\ chunk \in 1 .. Len(Block.chunks)
      BY <1>3, <1>6, <2>2 DEF AtChunk
    <3>2. m = ChunkEnd(AtChunk) /\ IsChunk(AtChunk)
      BY <1>3, <1>5, <2>2, <3>1 DEF IsBlock
    <3>3. want = Block.start + AtChunk.at + AtChunk.taken
                 + IF AtChunk.stored THEN AtChunk.out - 0 ELSE 0
      BY <1>1, <1>3, <2>2 DEF PositionInv
    <3> HIDE DEF m
    <3> QED
      BY <1>6, <3>2, <3>3, SMTT(20) DEF ChunkEnd, IsChunk
  <2> QED
    BY <1>3, <1>6, <2>1, <2>2
<1> HIDE DEF m
<1>8. /\ want' = want + 1 /\ limit' \in Nat /\ count' = count + 1 /\ offset' \in Nat
      /\ Block' = Block /\ Records' = Records
      /\ PlaceInv' /\ OffsetTracked' /\ LagBounded' /\ LimitCoversBlock'
  BY <1>3, TakeKeeps
<1>9. TypeOK'
  <2>1. /\ IsArchive(archive') /\ strip_threshold' \in Nat /\ mode' \in Modes
        /\ current_record_idx' = current_record_idx
        /\ current_uncompressed' \in Nat /\ initial_offset' \in Nat
        /\ bytes_processed_since_last_strip' \in Nat /\ prev_in' = prev_in
    BY <1>1, <1>3 DEF TypeOK, args, books
  <2>2. want' \in Nat /\ count' \in Nat /\ prev_in <= count'
    BY <1>1, <1>2, <1>3, <1>8 DEF TypeOK, Numbers
  <2> QED
    BY <1>1, <1>2, <1>3, <1>8, <2>1, <2>2 DEF TypeOK, Running, Numbers
<1>10. PositionInv'
  <2>1. m' = m
    BY <1>3, <1>8 DEF m, MarkerAt, args
  <2>2. want' = Block.start + m + 1
    BY <1>6, <1>7, <1>8
  <2> QED
    BY <1>3, <1>8, <2>1, <2>2 DEF PositionInv, m
<1>11. CallInv'
  <2>1. bytes_read = 0 => count = prev_in
    BY <1>1, <1>2, <1>3 DEF CallInv, Numbers
  <2> QED
    BY <1>3, <1>8, <2>1 DEF CallInv
<1> QED
  BY <1>8, <1>9, <1>10, <1>11 DEF IInv

(* Some of a chunk is handed out, read from the file if it is stored.      *)
LEMMA CopyOutIInv == IInv /\ CopyOut => IInv'
<1> SUFFICES ASSUME IInv, CopyOut PROVE IInv'
  OBVIOUS
<1>1. TypeOK /\ PositionInv /\ CallInv /\ PlaceInv
  BY DEF IInv
<1>2. OffsetTracked /\ LagBounded /\ LimitCoversBlock
  BY DEF IInv
<1>3. Numbers
  BY <1>1, TypeNumbers
<1>4. PICK n \in 1 .. copy_size_max :
        /\ bytes_read' = bytes_read + n
        /\ uncompressed_size' = uncompressed_size - n
        /\ IF AtChunk.stored THEN TakeIn(n)
                             ELSE UNCHANGED <<offset, want, limit, count>>
  BY DEF CopyOut
<1>5. /\ pc = "read" /\ pc' = "read" /\ reader = "open" /\ reader' = "open"
      /\ uncompressed_size > 0 /\ bytes_read < buf_len
      /\ chunk' = chunk /\ buf_len' = buf_len
      /\ base' = base /\ UNCHANGED <<args, books, prev_in>>
  BY DEF CopyOut, Decoding
<1>6. n \in Nat /\ n > 0 /\ n <= uncompressed_size /\ n <= buf_len - bytes_read
  BY <1>3, <1>5 DEF copy_size_max, Smaller, Numbers
<1>7. bytes_read' \in Nat /\ bytes_read' > 0 /\ bytes_read' <= buf_len
  BY <1>3, <1>4, <1>6 DEF Numbers
<1>8. uncompressed_size' \in Nat
  BY <1>3, <1>4, <1>6 DEF Numbers
<1>9. current_record_idx < Records /\ chunk \in 0 .. Len(Block.chunks)
  BY <1>1, <1>5 DEF TypeOK
<1>10. IsBlock(archive, Block) /\ archive.check \in Nat
  BY <1>1, <1>9, BlockFacts
<1>11. Len(Block.chunks) \in Nat /\ Block.start \in Nat
  BY <1>10, BlockSizes
<1>12. chunk > 0 /\ chunk \in 1 .. Len(Block.chunks)
  <2>1. chunk # 0
    BY <1>1, <1>3, <1>5 DEF PositionInv, Numbers
  <2> QED
    BY <1>9, <1>11, <2>1
<1>13. IsChunk(AtChunk)
  BY <1>10, <1>12 DEF IsBlock, AtChunk
<1>14. AtChunk.at \in Nat /\ AtChunk.taken \in Nat /\ AtChunk.out \in Nat
  BY <1>13, ChunkSizes
<1>15. /\ uncompressed_size <= AtChunk.out
       /\ want = Block.start + AtChunk.at + AtChunk.taken
                 + IF AtChunk.stored THEN AtChunk.out - uncompressed_size ELSE 0
  BY <1>1, <1>5, <1>12 DEF PositionInv
<1>16. /\ Block' = Block /\ Records' = Records
       /\ PlaceInv' /\ OffsetTracked' /\ LagBounded' /\ LimitCoversBlock'
       /\ offset' \in Nat /\ want' \in Nat /\ limit' \in Nat
       /\ count' \in Nat /\ count' >= count
  <2>1. CASE AtChunk.stored
    <3>1. /\ offset' \in Nat /\ want' = want + n /\ limit' \in Nat
          /\ count' = count + n
          /\ Block' = Block /\ Records' = Records
          /\ PlaceInv' /\ OffsetTracked' /\ LagBounded' /\ LimitCoversBlock'
      BY <1>4, <1>5, <1>6, <2>1, TakeKeeps
    <3>2. want' \in Nat /\ count' \in Nat /\ count' >= count
      BY <1>3, <1>6, <3>1 DEF Numbers
    <3> QED
      BY <3>1, <3>2
  <2>2. CASE ~AtChunk.stored
    <3>1. UNCHANGED <<offset, want, limit, count>>
      BY <1>4, <2>2
    <3>2. Block' = Block /\ Records' = Records
      BY <1>5 DEF Block, Records, args, books
    <3>3. PlaceInv'
      BY <1>1, <1>5, <3>1, <3>2 DEF PlaceInv, PlaceFixed, Placed, DryRun, args
    <3>4. OffsetTracked'
      BY <1>2, <1>5, <3>1 DEF OffsetTracked, DryRun, args, books
    <3>5. Lag' = Lag
      BY <1>5, <3>1 DEF Lag, consumed_in, books
    <3>6. LagBounded'
      BY <1>2, <1>5, <3>5 DEF LagBounded, books
    <3>7. LimitCoversBlock'
      BY <1>2, <1>5, <3>1, <3>2 DEF LimitCoversBlock, MarkerAt, args
    <3>8. count' >= count
      BY <1>3, <3>1 DEF Numbers
    <3> QED
      BY <1>3, <3>1, <3>2, <3>3, <3>4, <3>6, <3>7, <3>8 DEF Numbers
  <2> QED
    BY <2>1, <2>2
<1>17. TypeOK'
  <2>1. /\ IsArchive(archive') /\ strip_threshold' \in Nat /\ mode' \in Modes
        /\ current_record_idx' = current_record_idx
        /\ current_uncompressed' \in Nat /\ initial_offset' \in Nat
        /\ bytes_processed_since_last_strip' \in Nat /\ prev_in' = prev_in
    BY <1>1, <1>5 DEF TypeOK, args, books
  <2>2. prev_in <= count'
    BY <1>1, <1>3, <1>5, <1>16 DEF TypeOK, Numbers
  <2>3. bytes_read' \in 0 .. buf_len
    BY <1>3, <1>7 DEF Numbers
  <2> QED
    BY <1>1, <1>3, <1>5, <1>8, <1>16, <2>1, <2>2, <2>3 DEF TypeOK, Running, Numbers
<1>18. PositionInv'
  <2>1. AtChunk' = AtChunk
    BY <1>5, <1>16 DEF AtChunk
  <2>2. uncompressed_size' <= AtChunk.out
    BY <1>3, <1>4, <1>6, <1>14, <1>15 DEF Numbers
  <2>3. want' = Block.start + AtChunk.at + AtChunk.taken
                + IF AtChunk.stored THEN AtChunk.out - uncompressed_size' ELSE 0
    <3>1. CASE AtChunk.stored
      <4>1. want' = want + n /\ uncompressed_size' = uncompressed_size - n
        BY <1>4, <3>1 DEF TakeIn
      <4>2. want = Block.start + AtChunk.at + AtChunk.taken
                   + (AtChunk.out - uncompressed_size)
        BY <1>15, <3>1
      <4>3. want' = Block.start + AtChunk.at + AtChunk.taken
                    + (AtChunk.out - uncompressed_size')
        BY <1>3, <1>6, <1>11, <1>14, <4>1, <4>2, SMTT(20) DEF Numbers
      <4> QED
        BY <3>1, <4>3
    <3>2. CASE ~AtChunk.stored
      BY <1>4, <1>15, <3>2
    <3> QED
      BY <3>1, <3>2
  <2> QED
    BY <1>5, <1>12, <1>16, <2>1, <2>2, <2>3 DEF PositionInv
<1>19. CallInv'
  BY <1>5, <1>7 DEF CallInv
<1> QED
  BY <1>16, <1>17, <1>18, <1>19 DEF IInv

(* While there is a reader, something of the archive is still to come.     *)
LEMMA WantInside ==
  ASSUME TypeOK, PositionInv, reader # "none"
  PROVE  want < archive.size
<1> DEFINE m == MarkerAt(archive, Block)
<1>1. current_record_idx < Records /\ chunk \in 0 .. Len(Block.chunks)
  BY DEF TypeOK
<1>2. Numbers
  BY TypeNumbers
<1>3. /\ IsBlock(archive, Block) /\ archive.check \in Nat /\ archive.size \in Nat
      /\ BlockEnd(Block) < archive.size
  BY <1>1, BlockFacts
<1>4. /\ Block.start \in Nat /\ Block.header \in Nat /\ m \in Nat
      /\ m >= Block.header /\ Block.unpadded \in Nat
      /\ Block.unpadded = m + 1 + archive.check /\ Len(Block.chunks) \in Nat
  BY <1>3, BlockSizes
<1> HIDE DEF m
<1>5. BlockEnd(Block) \in Nat /\ BlockEnd(Block) >= Block.start + m + 1
  <2> DEFINE e == ((Block.unpadded + 3) \div 4) * 4
  <2>1. e \in Nat /\ e >= Block.unpadded
    <3>1. /\ PaddingSize(Block.unpadded) \in Nat
          /\ Block.unpadded + PaddingSize(Block.unpadded) = e
      BY <1>4, PaddingAligns
    <3> HIDE DEF e
    <3> QED
      BY <1>4, <3>1
  <2>2. BlockEnd(Block) = Block.start + e
    BY DEF BlockEnd
  <2> HIDE DEF e
  <2> QED
    BY <1>3, <1>4, <2>1, <2>2
<1>6. CASE reader = "ended"
  BY <1>2, <1>3, <1>4, <1>5, <1>6, SMTT(20) DEF PositionInv, m, Numbers
<1>7. CASE reader # "ended" /\ chunk = 0
  <2>1. want = Block.start + Block.header
    BY <1>7 DEF PositionInv, TypeOK
  <2> QED
    BY <1>3, <1>4, <1>5, <2>1
<1>8. CASE reader # "ended" /\ chunk # 0
  <2>1. chunk \in 1 .. Len(Block.chunks) /\ chunk > 0
    BY <1>1, <1>4, <1>8
  <2>2. IsChunk(AtChunk) /\ ChunkEnd(AtChunk) <= m
    BY <1>3, <2>1 DEF IsBlock, AtChunk, m
  <2>3. want = Block.start + AtChunk.at + AtChunk.taken
               + IF AtChunk.stored THEN AtChunk.out - uncompressed_size ELSE 0
    BY <1>8, <2>1 DEF PositionInv, TypeOK
  <2>4. want <= Block.start + ChunkEnd(AtChunk) /\ ChunkEnd(AtChunk) \in Nat
    <3>1. AtChunk.at \in Nat /\ AtChunk.taken \in Nat /\ AtChunk.out \in Nat
      BY <2>2, ChunkSizes
    <3>2. CASE AtChunk.stored
      <4>1. ChunkEnd(AtChunk) = AtChunk.at + AtChunk.taken + AtChunk.out
        BY <3>2 DEF ChunkEnd
      <4>2. want = Block.start + AtChunk.at + AtChunk.taken
                   + (AtChunk.out - uncompressed_size)
        BY <2>3, <3>2
      <4>3. uncompressed_size \in Nat /\ Block.start \in Nat
        BY <1>2, <1>4 DEF Numbers
      <4> QED
        BY <3>1, <4>1, <4>2, <4>3
    <3>3. CASE ~AtChunk.stored
      <4>1. ChunkEnd(AtChunk) = AtChunk.at + AtChunk.taken + 0
        BY <3>3 DEF ChunkEnd
      <4>2. want = Block.start + AtChunk.at + AtChunk.taken + 0
        BY <2>3, <3>3
      <4> QED
        BY <1>4, <3>1, <4>1, <4>2
    <3> QED
      BY <3>2, <3>3
  <2> QED
    BY <1>2, <1>3, <1>4, <1>5, <2>2, <2>4, SMTT(30) DEF Numbers
<1> QED
  BY <1>6, <1>7, <1>8

(* The file is cut, at most as far as the bytes counted as processed.      *)
LEMMA StripIInv == IInv /\ Strip => IInv'
<1> SUFFICES ASSUME IInv, Strip PROVE IInv'
  OBVIOUS
<1> DEFINE p == bytes_processed_since_last_strip
<1>1. /\ TypeOK /\ PositionInv /\ PlaceInv /\ CallInv
  BY DEF IInv
<1>2. OffsetTracked /\ LagBounded /\ LimitCoversBlock
  BY DEF IInv
<1>3. Numbers
  BY <1>1, TypeNumbers
<1>4. /\ pc = "strip" /\ pc' = "idle" /\ count' = 0 /\ initial_offset' = 0
      /\ p' = 0 /\ want' = want /\ UNCHANGED args
      /\ current_record_idx' = current_record_idx
      /\ current_uncompressed' = current_uncompressed
      /\ reader' = reader /\ limit' = limit /\ chunk' = chunk
      /\ uncompressed_size' = uncompressed_size
      /\ buf_len' = buf_len /\ bytes_read' = bytes_read /\ prev_in' = prev_in
  BY DEF Strip, call
<1>5. /\ archive' = archive /\ mode' = mode /\ strip_threshold' = strip_threshold
      /\ Block' = Block /\ Records' = Records /\ AtChunk' = AtChunk
  BY <1>4 DEF args, Block, Records, AtChunk
<1>6. reader # "none" /\ current_record_idx < Records
  BY <1>1, <1>4 DEF CallInv, TypeOK
<1>7. want < archive.size /\ archive.size \in Nat
  BY <1>1, <1>6, WantInside, BlockFacts
<1>8. Lag \in 0 .. current_record_idx /\ Lag = initial_offset + count - p
  BY <1>2, <1>3, <1>4 DEF LagBounded, Lag, Finished, Numbers
<1>9. p \in Nat /\ p <= initial_offset + count
  BY <1>3, <1>8 DEF Numbers
<1>10. IF DryRun THEN base' = base /\ offset' = offset
                 ELSE base' = base + Removed(p) /\ offset' = 0
  BY DEF Strip
<1> HIDE DEF p
<1>11. Removed(p) \in Nat /\ Removed(p) <= p
  BY <1>9 DEF Removed
<1>12. base' \in Nat /\ offset' \in Nat
  BY <1>3, <1>10, <1>11 DEF Numbers
<1>13. base' + offset' <= want'
  <2>1. CASE DryRun
    BY <1>1, <1>4, <1>10, <2>1 DEF PlaceInv
  <2>2. CASE ~DryRun
    <3>1. offset = initial_offset + count /\ base + offset <= want
      BY <1>1, <1>2, <2>2 DEF OffsetTracked, PlaceInv
    <3>2. base' = base + Removed(p) /\ offset' = 0
      BY <1>10, <2>2
    <3> QED
      BY <1>3, <1>4, <1>9, <1>11, <3>1, <3>2 DEF Numbers
  <2> QED
    BY <2>1, <2>2
<1>14. PlaceFixed'
  <2>1. CASE DryRun
    BY <1>1, <1>4, <1>5, <1>10, <2>1 DEF PlaceInv, PlaceFixed, Placed, DryRun
  <2>2. CASE ~DryRun /\ Records # 1
    BY <1>5, <2>2 DEF PlaceFixed, DryRun
  <2>3. CASE ~DryRun /\ Records = 1
    <3>1. current_record_idx = 0
      BY <1>3, <1>6, <2>3 DEF Numbers
    <3>2. p = initial_offset + count
      BY <1>3, <1>8, <1>9, <3>1 DEF Numbers
    <3>3. offset = initial_offset + count /\ base + offset = want
      BY <1>1, <1>2, <2>3 DEF OffsetTracked, PlaceInv, PlaceFixed, Placed
    <3>4. p < archive.size - base
      BY <1>3, <1>7, <1>9, <3>2, <3>3 DEF Numbers
    <3>5. Removed(p) = p
      BY <1>9, <3>4 DEF Removed
    <3>6. base' + offset' = want'
      <4>1. base' = base + Removed(p) /\ offset' = 0
        BY <1>10, <2>3
      <4> QED
        BY <1>3, <1>4, <1>9, <3>2, <3>3, <3>5, <4>1 DEF Numbers
    <3> QED
      BY <3>6 DEF PlaceFixed, Placed
  <2> QED
    BY <2>1, <2>2, <2>3
<1>15. PlaceInv'
  <2>1. DryRun' => base' = 0
    BY <1>1, <1>5, <1>10 DEF PlaceInv, DryRun
  <2> QED
    BY <1>13, <1>14, <2>1 DEF PlaceInv
<1>16. TypeOK'
  BY <1>1, <1>4, <1>5, <1>12 DEF TypeOK, Resting, p
<1>17. PositionInv' /\ CallInv'
  BY <1>1, <1>4, <1>5 DEF PositionInv, CallInv
<1>18. OffsetTracked'
  BY <1>4, <1>5, <1>10 DEF OffsetTracked, DryRun
<1>19. LagBounded'
  <2>1. Lag' = 0
    BY <1>4 DEF Lag, p
  <2> QED
    BY <1>3, <1>4, <2>1 DEF LagBounded, Numbers
<1>20. LimitCoversBlock'
  BY <1>2, <1>4, <1>5 DEF LimitCoversBlock, MarkerAt
<1> QED
  BY <1>15, <1>16, <1>17, <1>18, <1>19, <1>20 DEF IInv

(* Check and padding lead from the end of a block to what follows it.      *)
LEMMA SkipLeadsOn ==
  ASSUME TypeOK, PositionInv, EndBlock
  PROVE  to_skip \in Nat /\ want' = want + to_skip
<1> DEFINE m == MarkerAt(archive, Block)
           k == to_skip
<1>1. Numbers
  BY TypeNumbers
<1>2. pc = "read" /\ reader = "ended" /\ want' = BlockEnd(Block)
  BY DEF EndBlock
<1>3. current_record_idx < Records
  BY <1>2 DEF TypeOK
<1>4. IsBlock(archive, Block) /\ archive.check \in Nat
  BY <1>3, BlockFacts
<1>5. /\ Block.start \in Nat /\ m \in Nat /\ Block.unpadded \in Nat
      /\ Block.unpadded = m + 1 + archive.check
  BY <1>4, BlockSizes
<1>6. /\ PaddingSize(Block.unpadded) \in Nat
      /\ Block.unpadded + PaddingSize(Block.unpadded)
           = ((Block.unpadded + 3) \div 4) * 4
  BY <1>5, PaddingAligns
<1>7. want = Block.start + m + 1
  BY <1>2 DEF PositionInv
<1>8. want' = Block.start + ((Block.unpadded + 3) \div 4) * 4
  BY <1>2 DEF BlockEnd
<1>9. k = archive.check + PaddingSize(Block.unpadded)
  BY DEF to_skip
<1>10. k \in Nat /\ want' = want + k
  <2> HIDE DEF m, k
  <2> QED
    BY <1>1, <1>4, <1>5, <1>6, <1>7, <1>8, <1>9 DEF Numbers
<1> QED
  BY <1>10

(* A block's check and padding go by; its end marker is not accounted for. *)
LEMMA EndBlockIInv == IInv /\ EndBlock => IInv'
<1> SUFFICES ASSUME IInv, EndBlock PROVE IInv'
  OBVIOUS
<1> DEFINE p == bytes_processed_since_last_strip
           k == to_skip
<1>1. /\ TypeOK /\ PositionInv /\ PlaceInv /\ CallInv
  BY DEF IInv
<1>2. OffsetTracked /\ LagBounded
  BY DEF IInv
<1>3. Numbers
  BY <1>1, TypeNumbers
<1>4. /\ pc = "read" /\ pc' = "loop" /\ bytes_read = 0 /\ reader = "ended"
      /\ reader' = "none" /\ count' = 0 /\ offset' = offset + k
      /\ want' = BlockEnd(Block) /\ initial_offset' = initial_offset + count + k
      /\ p' = p + k /\ current_record_idx' = current_record_idx + 1
      /\ UNCHANGED args /\ base' = base
      /\ current_uncompressed' = current_uncompressed
      /\ limit' = limit /\ uncompressed_size' = uncompressed_size
      /\ buf_len' = buf_len /\ bytes_read' = bytes_read /\ prev_in' = prev_in
  BY DEF EndBlock, call
<1>5. /\ archive' = archive /\ mode' = mode /\ strip_threshold' = strip_threshold
      /\ Records' = Records
  BY <1>4 DEF args, Records
<1>6. current_record_idx < Records
  BY <1>1, <1>4 DEF TypeOK
<1>10. k \in Nat /\ want' = want + k
  BY <1>1, SkipLeadsOn
<1> HIDE DEF p, k
<1>11. p \in Nat
  BY <1>3 DEF Numbers, p
<1>12. /\ current_record_idx' \in 0 .. Records /\ offset' \in Nat /\ want' \in Nat
       /\ initial_offset' \in Nat /\ p' \in Nat
  BY <1>3, <1>4, <1>6, <1>10, <1>11 DEF Numbers
<1>13. TypeOK'
  BY <1>1, <1>4, <1>5, <1>12 DEF TypeOK, Running, p
<1>14. PositionInv'
  <2>1. Block = archive.blocks[current_record_idx'] /\ current_record_idx' # 0
    BY <1>3, <1>4 DEF Block, Numbers
  <2> QED
    BY <1>4, <1>5, <2>1 DEF PositionInv
<1>15. PlaceInv'
  <2>1. base + offset <= want /\ (Placed => base + offset = want)
    BY <1>1 DEF PlaceInv, Placed
  <2>2. base' + offset' <= want'
    BY <1>3, <1>4, <1>10, <2>1 DEF Numbers
  <2>3. Placed => base' + offset' = want'
    BY <1>3, <1>4, <1>10, <2>1 DEF Numbers
  <2>4. PlaceFixed'
    BY <1>1, <1>5, <2>3 DEF PlaceInv, PlaceFixed, Placed, DryRun
  <2>5. DryRun' => base' = 0
    BY <1>1, <1>4, <1>5 DEF PlaceInv, DryRun
  <2> QED
    BY <2>2, <2>4, <2>5 DEF PlaceInv
<1>16. CallInv'
  BY <1>4 DEF CallInv
<1>17. OffsetTracked'
  <2>1. ~DryRun => offset = initial_offset + count
    BY <1>2 DEF OffsetTracked
  <2>2. offset = initial_offset + count => offset' = initial_offset' + count'
    BY <1>3, <1>4, <1>10 DEF Numbers
  <2> QED
    BY <1>5, <2>1, <2>2 DEF OffsetTracked, DryRun
<1>18. LagBounded'
  <2>1. count - prev_in \in 0 .. 1
    BY <1>1, <1>3, <1>4 DEF CallInv, Numbers
  <2>2. /\ Lag = initial_offset + count - p - (count - prev_in)
        /\ Lag \in 0 .. current_record_idx
    BY <1>2, <1>4 DEF LagBounded, Lag, consumed_in, Finished, p
  <2>3. Lag' = initial_offset' + count' - p'
    BY <1>3, <1>4, <1>12 DEF Lag, p
  <2>4. Lag' \in 0 .. current_record_idx'
    BY <1>3, <1>4, <1>10, <1>11, <2>1, <2>2, <2>3 DEF Numbers
  <2> QED
    BY <2>4 DEF LagBounded
<1>19. LimitCoversBlock'
  BY <1>4 DEF LimitCoversBlock
<1> QED
  BY <1>13, <1>14, <1>15, <1>16, <1>17, <1>18, <1>19 DEF IInv
(* The steps of a call that take nothing from the file.                    *)
LEMMA ControlIInv ==
  IInv /\ ((\E n \in ReadSizes : Call(n)) \/ ReturnEof \/ ResumeBlock \/ Account
           \/ Misread \/ Fail) => IInv'
<1> SUFFICES ASSUME IInv,
                    (\E n \in ReadSizes : Call(n)) \/ ReturnEof \/ ResumeBlock
                      \/ Account \/ Misread \/ Fail
             PROVE  IInv'
  OBVIOUS
<1>1. TypeOK /\ PositionInv /\ PlaceInv /\ CallInv
  BY DEF IInv
<1>2. OffsetTracked /\ LagBounded /\ LimitCoversBlock
  BY DEF IInv
<1>3. Numbers
  BY <1>1, TypeNumbers
<1>4. /\ UNCHANGED <<args, file, lzma2>>
      /\ current_record_idx' = current_record_idx
      /\ initial_offset' = initial_offset
  BY DEF Call, ReturnEof, ResumeBlock, Account, Misread, Fail, books
<1>5. /\ archive' = archive /\ mode' = mode /\ strip_threshold' = strip_threshold
      /\ base' = base /\ offset' = offset /\ want' = want
      /\ reader' = reader /\ limit' = limit /\ count' = count /\ chunk' = chunk
      /\ uncompressed_size' = uncompressed_size
  BY <1>4 DEF args, file, lzma2
<1>6. Records' = Records /\ Block' = Block /\ AtChunk' = AtChunk
  BY <1>4, <1>5 DEF Records, Block, AtChunk
<1>7. PositionInv' /\ LimitCoversBlock' /\ OffsetTracked'
  BY <1>1, <1>2, <1>4, <1>5, <1>6
     DEF PositionInv, LimitCoversBlock, MarkerAt, OffsetTracked, DryRun
<1>8. PlaceInv'
  BY <1>1, <1>5, <1>6 DEF PlaceInv, PlaceFixed, Placed, DryRun
<1>9. (TypeOK /\ CallInv /\ LagBounded)'
  <2>1. CASE \E n \in ReadSizes : Call(n)
    <3>1. PICK n \in ReadSizes : Call(n)
      BY <2>1
    <3>2. n \in Nat
      BY ReadSizesAssumption
    <3>3. /\ pc \in Resting /\ pc' = "loop" /\ buf_len' = n /\ bytes_read' = 0
          /\ UNCHANGED books /\ prev_in' = prev_in
      BY <3>1 DEF Call
    <3>4. TypeOK'
      BY <1>1, <1>5, <1>6, <3>2, <3>3 DEF TypeOK, Running, books
    <3>5. CallInv'
      BY <1>1, <1>5, <3>3 DEF CallInv
    <3>6. Lag' = Lag /\ pc \notin Finished
      BY <1>5, <3>3 DEF Lag, books, Resting, Finished
    <3>7. LagBounded'
      BY <1>2, <1>4, <3>6 DEF LagBounded
    <3> QED
      BY <3>4, <3>5, <3>7
  <2>2. CASE ReturnEof
    <3>1. pc = "loop" /\ pc' = "eof" /\ UNCHANGED <<books, call>>
      BY <2>2 DEF ReturnEof
    <3>2. TypeOK' /\ CallInv'
      BY <1>1, <1>5, <1>6, <3>1 DEF TypeOK, CallInv, Resting, books, call
    <3>3. Lag' = Lag
      BY <1>5, <3>1 DEF Lag, books
    <3> QED
      BY <1>2, <1>4, <3>1, <3>2, <3>3 DEF LagBounded, Finished
  <2>3. CASE ResumeBlock
    <3>1. /\ pc = "loop" /\ reader # "none" /\ pc' = "read" /\ prev_in' = count
          /\ UNCHANGED books /\ buf_len' = buf_len /\ bytes_read' = bytes_read
      BY <2>3 DEF ResumeBlock
    <3>2. TypeOK'
      BY <1>1, <1>3, <1>5, <1>6, <3>1 DEF TypeOK, Running, books, Numbers
    <3>3. CallInv'
      BY <1>5, <3>1 DEF CallInv
    <3>4. Lag' = Lag
      <4>1. /\ bytes_processed_since_last_strip' = bytes_processed_since_last_strip
            /\ Lag = initial_offset + count - bytes_processed_since_last_strip - 0
            /\ Lag' = initial_offset + count - bytes_processed_since_last_strip
                       - (count - count)
        BY <1>5, <3>1 DEF Lag, consumed_in, books
      <4> QED
        BY <1>3, <4>1 DEF Numbers
    <3> QED
      BY <1>2, <1>4, <3>1, <3>2, <3>3, <3>4 DEF LagBounded, Finished
  <2>4. CASE Account
    <3>1. /\ pc = "read" /\ pc' \in {"strip", "idle"}
          /\ bytes_processed_since_last_strip'
               = bytes_processed_since_last_strip + (count - prev_in)
          /\ current_uncompressed' = current_uncompressed + bytes_read
          /\ UNCHANGED call
      BY <2>4 DEF Account, consumed_in
    <3>2. reader # "none" /\ prev_in <= count
      BY <1>1, <3>1 DEF TypeOK
    <3>3. /\ bytes_processed_since_last_strip' \in Nat
          /\ current_uncompressed' \in Nat
      <4>1. current_uncompressed \in Nat
        BY <1>1 DEF TypeOK
      <4> QED
        BY <1>3, <3>1, <3>2, <4>1 DEF Numbers
    <3>4. TypeOK'
      BY <1>1, <1>4, <1>5, <1>6, <3>1, <3>3
         DEF TypeOK, Running, Resting, call
    <3>5. CallInv'
      BY <1>5, <3>1, <3>2 DEF CallInv
    <3>6. Lag' = Lag
      <4>1. /\ Lag = initial_offset + count - bytes_processed_since_last_strip
                     - (count - prev_in)
            /\ Lag' = initial_offset + count - bytes_processed_since_last_strip' - 0
        BY <1>4, <1>5, <3>1 DEF Lag, consumed_in
      <4> QED
        BY <1>3, <3>1, <3>2, <4>1 DEF Numbers
    <3> QED
      BY <1>2, <1>4, <3>1, <3>4, <3>5, <3>6 DEF LagBounded, Finished
  <2>5. CASE Misread \/ Fail
    <3>1. pc' \in Finished /\ UNCHANGED <<books, call>>
      BY <2>5 DEF Misread, Fail, Finished
    <3>2. TypeOK' /\ CallInv'
      BY <1>1, <1>5, <1>6, <3>1 DEF TypeOK, CallInv, Finished, books, call
    <3> QED
      BY <3>1, <3>2 DEF LagBounded
  <2> QED
    BY <2>1, <2>2, <2>3, <2>4, <2>5
<1> QED
  BY <1>7, <1>8, <1>9 DEF IInv

LEMMA StutterIInv == IInv /\ UNCHANGED vars => IInv'
<1> SUFFICES ASSUME IInv, UNCHANGED vars PROVE IInv'
  OBVIOUS
<1>1. UNCHANGED <<args, file, pc, books, lzma2, call>>
  BY DEF vars
<1>2. Records' = Records /\ Block' = Block /\ AtChunk' = AtChunk /\ Lag' = Lag
  BY <1>1 DEF args, books, lzma2, call, Records, Block, AtChunk, Lag, consumed_in
<1>3. TypeOK' /\ PositionInv'
  BY <1>1, <1>2 DEF IInv, TypeOK, PositionInv, MarkerAt, args, file, books, lzma2, call
<1>4. PlaceInv' /\ CallInv'
  BY <1>1, <1>2
     DEF IInv, PlaceInv, PlaceFixed, Placed, DryRun, CallInv, args, file, lzma2, call
<1>5. OffsetTracked' /\ LagBounded' /\ LimitCoversBlock'
  BY <1>1, <1>2
     DEF IInv, OffsetTracked, DryRun, LagBounded, LimitCoversBlock, MarkerAt,
         args, file, books, lzma2
<1> QED
  BY <1>3, <1>4, <1>5 DEF IInv

LEMMA NextIInv == IInv /\ [Next]_vars => IInv'
<1> SUFFICES ASSUME IInv, [Next]_vars PROVE IInv'
  OBVIOUS
<1>1. CASE SetupNextBlock
  BY <1>1, SetupIInv
<1>2. CASE DecodeChunkHeader
  BY <1>2, ChunkHeaderIInv
<1>3. CASE DecodeEndMarker
  BY <1>3, EndMarkerIInv
<1>4. CASE CopyOut
  BY <1>4, CopyOutIInv
<1>5. CASE Strip
  BY <1>5, StripIInv
<1>6. CASE EndBlock
  BY <1>6, EndBlockIInv
<1>7. CASE (\E n \in ReadSizes : Call(n)) \/ ReturnEof \/ ResumeBlock \/ Account
           \/ Misread \/ Fail
  BY <1>7, ControlIInv
<1>8. CASE UNCHANGED vars
  BY <1>8, StutterIInv
<1> QED
  BY <1>1, <1>2, <1>3, <1>4, <1>5, <1>6, <1>7, <1>8 DEF Next, Progress
-----------------------------------------------------------------------------
(* The inductive invariant holds in every behaviour.                       *)
THEOREM Invariance == Spec => []IInv
<1>1. Init => IInv
  BY InitIInv
<1>2. IInv /\ [Next]_vars => IInv'
  BY NextIInv
<1> QED
  BY <1>1, <1>2, PTL DEF Spec

(* Every variable keeps its type, and the record index stays in the index. *)
THEOREM TypeCorrect == Spec => []TypeOK
<1>1. IInv => TypeOK
  BY DEF IInv
<1> QED
  BY <1>1, Invariance, PTL

(* No strip ever cuts off a byte that is still to be decoded, whatever the *)
(* number of blocks, the threshold and the sizes of the reads.             *)
THEOREM NothingLost == Spec => []UnreadNeverStripped
<1>1. IInv => UnreadNeverStripped
  <2> SUFFICES ASSUME IInv PROVE base <= want
    BY DEF UnreadNeverStripped
  <2>1. Numbers /\ base + offset <= want
    BY TypeNumbers DEF IInv, PlaceInv
  <2> QED
    BY <2>1 DEF Numbers
<1> QED
  BY <1>1, Invariance, PTL

(* How far the handle has fallen behind and how far the next strip will    *)
(* put it back are together no more than the blocks that have ended: a     *)
(* block's end adds its marker to the one, a strip moves it to the other.  *)
(* Nothing is cut off as long as no strip has come, since the first one    *)
(* cuts off the headers at least.                                          *)
DebtInv ==
  /\ ~DryRun /\ base = 0 =>
        Placed /\ bytes_processed_since_last_strip >= StreamHeaderSize
  /\ Behind <= current_record_idx
  /\ pc \notin Finished => Behind + Lag <= current_record_idx

(* A step that reads the byte it means to leaves nothing behind.           *)
LEMMA PlacedDebt ==
  ASSUME TypeOK, LagBounded, Placed,
         ~DryRun /\ base = 0 => bytes_processed_since_last_strip >= StreamHeaderSize
  PROVE  DebtInv
<1>1. Numbers
  BY TypeNumbers
<1>2. Behind = 0
  BY <1>1 DEF Behind, Placed, Numbers
<1>3. pc \notin Finished => Lag \in 0 .. current_record_idx
  BY DEF LagBounded
<1> QED
  BY <1>1, <1>2, <1>3 DEF DebtInv, Numbers

LEMMA InitDebt == Init => DebtInv
<1> SUFFICES ASSUME Init PROVE DebtInv
  OBVIOUS
<1>1. TypeOK /\ LagBounded
  BY InitIInv DEF IInv
<1>2. Placed /\ bytes_processed_since_last_strip >= StreamHeaderSize
  BY DEF Init, Placed, StreamHeaderSize
<1> QED
  BY <1>1, <1>2, PlacedDebt

LEMMA DebtMoves ==
  ASSUME NEW b \in Int, NEW l \in Int, NEW m \in Int, NEW i \in Int, NEW j \in Int,
         b + l <= i, m - j <= l - i
  PROVE  b + m <= j
  OBVIOUS

(* Steps that move handle and wanted byte together, or neither.            *)
LEMMA SteadyDebt ==
  ASSUME DebtInv, Numbers, mode' = mode, base' = base, Behind' = Behind,
         bytes_processed_since_last_strip' \in Nat,
         bytes_processed_since_last_strip' >= bytes_processed_since_last_strip,
         current_record_idx' \in Nat, current_record_idx' >= current_record_idx,
         Placed => Placed',
         pc' \notin Finished =>
           pc \notin Finished /\ Lag' - current_record_idx' <= Lag - current_record_idx,
         Lag \in Int, Lag' \in Int
  PROVE  DebtInv'
<1>1. Behind \in Int /\ current_record_idx \in Nat /\ bytes_processed_since_last_strip \in Nat
  BY DEF Behind, Numbers
<1>2. Behind' <= current_record_idx'
  BY <1>1 DEF DebtInv
<1>3. ASSUME pc' \notin Finished PROVE Behind' + Lag' <= current_record_idx'
  <2> DEFINE l == Lag
             lp == Lag'
             i == current_record_idx
             ip == current_record_idx'
  <2>1. Behind + l <= i
    BY <1>3 DEF DebtInv
  <2>2. lp - ip <= l - i
    BY <1>3
  <2>3. l \in Int /\ lp \in Int /\ i \in Int /\ ip \in Int
    BY <1>1
  <2> HIDE DEF l, lp, i, ip
  <2>4. Behind + lp <= ip
    BY <1>1, <2>1, <2>2, <2>3, DebtMoves
  <2> QED
    BY <2>4 DEF lp, ip
<1>4. ~DryRun' /\ base' = 0 =>
        Placed' /\ bytes_processed_since_last_strip' >= StreamHeaderSize
  BY <1>1 DEF DebtInv, DryRun, StreamHeaderSize
<1> QED
  BY <1>2, <1>3, <1>4 DEF DebtInv

(* What the handle was left behind by the counted bytes goes over to it.   *)
LEMMA StripDebt == IInv /\ IInv' /\ DebtInv /\ Strip => DebtInv'
<1> SUFFICES ASSUME IInv, IInv', DebtInv, Strip PROVE DebtInv'
  OBVIOUS
<1> DEFINE p == bytes_processed_since_last_strip
<1>1. /\ TypeOK /\ PositionInv /\ PlaceInv /\ CallInv /\ OffsetTracked /\ LagBounded
      /\ Numbers
  BY TypeNumbers DEF IInv
<1>2. /\ pc = "strip" /\ pc' = "idle" /\ want' = want /\ mode' = mode
      /\ archive' = archive /\ current_record_idx' = current_record_idx
      /\ p' = 0 /\ Lag' = 0
  BY DEF Strip, args, Lag
<1>3. Lag \in Nat /\ Lag = initial_offset + count - p
  BY <1>1, <1>2 DEF LagBounded, Lag, Finished, Numbers
<1>4. Behind + Lag <= current_record_idx /\ Behind \in Nat
  BY <1>1, <1>2 DEF DebtInv, Finished, PlaceInv, Behind, Numbers
<1>5. reader # "none"
  BY <1>1, <1>2 DEF CallInv
<1>6. want < archive.size /\ archive.size \in Nat
  BY <1>1, <1>5, WantInside, BlockFacts DEF TypeOK
<1>7. CASE DryRun
  <2>1. base' = base /\ offset' = offset /\ DryRun'
    BY <1>2, <1>7 DEF Strip, DryRun
  <2>2. Placed'
    BY <1>1, <1>2, <1>7, <2>1 DEF PlaceInv, PlaceFixed, Placed
  <2>3. TypeOK' /\ LagBounded'
    BY DEF IInv
  <2>4. Behind' = 0 /\ Lag' = 0 /\ current_record_idx \in Nat
    BY <1>1, <1>2, <2>1, <2>2 DEF Behind, Placed, Numbers
  <2> QED
    BY <1>2, <2>1, <2>4 DEF DebtInv
<1>8. CASE ~DryRun
  <2>1. base' = base + Removed(p) /\ offset' = 0
    BY <1>8 DEF Strip
  <2>2. offset = initial_offset + count /\ base + offset <= want
    BY <1>1, <1>8 DEF OffsetTracked, PlaceInv
  <2> HIDE DEF p
  <2>3. p \in Nat
    BY <1>1 DEF Numbers, p
  <2>4. p < archive.size - base
    BY <1>1, <1>3, <1>6, <2>2, <2>3 DEF Numbers
  <2>5. Removed(p) = p
    BY <2>3, <2>4 DEF Removed
  <2>6. Behind' = Behind + Lag
    <3>1. Behind = want - (base + offset) /\ Behind' = want - (base + p + 0)
      BY <1>2, <2>1, <2>5 DEF Behind
    <3> QED
      BY <1>1, <1>3, <2>2, <2>3, <3>1 DEF Numbers
  <2>7. base' # 0
    <3>1. base = 0 => p >= 12
      BY <1>8 DEF DebtInv, StreamHeaderSize, p
    <3> QED
      BY <1>1, <2>1, <2>3, <2>5, <3>1 DEF Numbers
  <2>8. Behind' <= current_record_idx' /\ Behind' + Lag' <= current_record_idx'
    BY <1>2, <1>3, <1>4, <2>6
  <2> QED
    BY <2>7, <2>8 DEF DebtInv
<1> QED
  BY <1>7, <1>8

(* A block's end leaves the place and may add its marker to the lag.       *)
LEMMA EndBlockDebt == IInv /\ DebtInv /\ EndBlock => DebtInv'
<1> SUFFICES ASSUME IInv, DebtInv, EndBlock PROVE DebtInv'
  OBVIOUS
<1> DEFINE p == bytes_processed_since_last_strip
           k == to_skip
<1>1. TypeOK /\ PositionInv /\ CallInv /\ LagBounded /\ Numbers
  BY TypeNumbers DEF IInv
<1>2. /\ pc = "read" /\ pc' = "loop" /\ bytes_read = 0 /\ reader = "ended"
      /\ count' = 0 /\ offset' = offset + k /\ initial_offset' = initial_offset + count + k
      /\ p' = p + k /\ current_record_idx' = current_record_idx + 1
      /\ mode' = mode /\ base' = base
  BY DEF EndBlock, args
<1>3. k \in Nat /\ want' = want + k
  BY <1>1, SkipLeadsOn
<1> HIDE DEF p, k
<1>4. /\ p \in Nat /\ p' \in Nat /\ p' >= p
      /\ current_record_idx' \in Nat /\ current_record_idx' >= current_record_idx
  BY <1>1, <1>2, <1>3 DEF Numbers, p
<1>5. Behind' = Behind /\ (Placed => Placed')
  BY <1>1, <1>2, <1>3 DEF Behind, Placed, Numbers
<1>6. count - prev_in \in 0 .. 1
  BY <1>1, <1>2 DEF CallInv, Numbers
<1>7. /\ Lag = initial_offset + count - p - (count - prev_in)
      /\ Lag' = initial_offset + count + k + 0 - (p + k) - 0
  BY <1>2 DEF Lag, consumed_in, p
<1>8. Lag \in Int /\ Lag' \in Int /\ Lag' - current_record_idx' <= Lag - current_record_idx
  BY <1>1, <1>2, <1>3, <1>4, <1>6, <1>7 DEF Numbers
<1> QED
  BY <1>1, <1>2, <1>4, <1>5, <1>8, SteadyDebt DEF p, Finished

(* The steps that leave the file alone.                                    *)
LEMMA ControlDebt ==
  IInv /\ IInv' /\ DebtInv /\ ((\E n \in ReadSizes : Call(n)) \/ ReturnEof
     \/ ResumeBlock \/ Account \/ Misread \/ Fail \/ UNCHANGED vars) => DebtInv'
<1> DEFINE p == bytes_processed_since_last_strip
           Stays == /\ UNCHANGED <<args, file>> /\ initial_offset' = initial_offset
                    /\ count' = count /\ current_record_idx' = current_record_idx
<1> SUFFICES ASSUME IInv, IInv', DebtInv,
                    (\E n \in ReadSizes : Call(n)) \/ ReturnEof \/ ResumeBlock
                      \/ Account \/ Misread \/ Fail \/ UNCHANGED vars
             PROVE  DebtInv'
  OBVIOUS
<1>1. TypeOK /\ Numbers
  BY TypeNumbers DEF IInv
<1>2. p' \in Nat /\ p \in Nat
  BY <1>1 DEF IInv, TypeOK
<1>3. Stays
  BY DEF Call, ReturnEof, ResumeBlock, Account, Misread, Fail, vars, books, lzma2
<1>4. mode' = mode /\ base' = base /\ offset' = offset /\ want' = want
  BY <1>3 DEF args, file
<1>5. Behind' = Behind /\ (Placed => Placed')
  BY <1>4 DEF Behind, Placed
<1>6. Lag \in Int
  BY <1>1 DEF Lag, consumed_in, Numbers
<1>7. p' >= p /\ (pc' \notin Finished => pc \notin Finished /\ Lag' = Lag)
  <2>1. CASE (\E n \in ReadSizes : Call(n)) \/ ReturnEof
    <3>1. p' = p /\ pc \in Resting \cup {"loop"} /\ pc' \in {"loop", "eof"}
      BY <2>1 DEF Call, ReturnEof, books
    <3>2. Lag' = Lag
      BY <1>3, <3>1 DEF Lag, Resting
    <3> QED
      BY <1>2, <3>1, <3>2 DEF Resting, Finished
  <2>2. CASE ResumeBlock
    <3>1. p' = p /\ pc = "loop" /\ pc' = "read" /\ prev_in' = count
      BY <2>2 DEF ResumeBlock, books
    <3>2. /\ Lag = initial_offset + count - p - 0
          /\ Lag' = initial_offset + count - p - (count - count)
      BY <1>3, <3>1 DEF Lag, consumed_in
    <3>3. Lag' = Lag
      BY <1>1, <3>2 DEF Numbers
    <3> QED
      BY <1>2, <3>1, <3>3 DEF Finished
  <2>3. CASE Account
    <3>1. /\ pc = "read" /\ pc' \in {"strip", "idle"}
          /\ p' = p + (count - prev_in)
      BY <2>3 DEF Account, consumed_in
    <3>2. prev_in <= count
      BY <1>1, <3>1 DEF TypeOK
    <3>3. /\ Lag = initial_offset + count - p - (count - prev_in)
          /\ Lag' = initial_offset + count - p' - 0
      BY <1>3, <3>1 DEF Lag, consumed_in
    <3>4. Lag' = Lag /\ p' >= p
      BY <1>1, <3>1, <3>2, <3>3 DEF Numbers
    <3> QED
      BY <3>1, <3>4 DEF Finished
  <2>4. CASE Misread \/ Fail
    <3>1. p' = p /\ pc' \in Finished
      BY <2>4 DEF Misread, Fail, books, Finished
    <3> QED
      BY <1>2, <3>1
  <2>5. CASE UNCHANGED vars
    <3>1. p' = p /\ pc' = pc /\ prev_in' = prev_in
      BY <2>5 DEF vars, books, call
    <3>2. Lag' = Lag
      BY <1>3, <3>1 DEF Lag, consumed_in
    <3> QED
      BY <1>2, <3>1, <3>2
  <2> QED
    BY <2>1, <2>2, <2>3, <2>4, <2>5
<1>8. Lag' \in Int
  <2>1. /\ initial_offset' \in Nat /\ count' \in Nat /\ prev_in' \in Nat /\ p' \in Nat
    BY DEF IInv, TypeOK
  <2> QED
    BY <2>1 DEF Lag, consumed_in
<1>9. current_record_idx' \in Nat /\ current_record_idx' = current_record_idx
  BY <1>1, <1>3 DEF Numbers
<1>10. current_record_idx' >= current_record_idx
  BY <1>1, <1>9 DEF Numbers
<1>11. pc' \notin Finished =>
         pc \notin Finished /\ Lag' - current_record_idx' <= Lag - current_record_idx
  BY <1>1, <1>6, <1>7, <1>9 DEF Numbers
<1> QED
  BY <1>1, <1>2, <1>4, <1>5, <1>6, <1>7, <1>8, <1>9, <1>10, <1>11, SteadyDebt

(* The steps that read.                                                    *)
LEMMA ReadDebt ==
  IInv /\ IInv' /\ DebtInv
    /\ (SetupNextBlock \/ DecodeChunkHeader \/ DecodeEndMarker \/ CopyOut) => DebtInv'
<1> DEFINE p == bytes_processed_since_last_strip
<1> SUFFICES ASSUME IInv, IInv', DebtInv,
                    SetupNextBlock \/ DecodeChunkHeader \/ DecodeEndMarker \/ CopyOut
             PROVE  DebtInv'
  OBVIOUS
<1>1. TypeOK /\ Numbers
  BY TypeNumbers DEF IInv
<1>2. TypeOK' /\ LagBounded' /\ p' \in Nat
  BY DEF IInv, TypeOK
<1>3. mode' = mode /\ base' = base /\ current_record_idx' = current_record_idx
  BY DEF SetupNextBlock, DecodeChunkHeader, DecodeEndMarker, CopyOut, args, books
<1>4. CASE CopyOut /\ ~AtChunk.stored
  <2>1. /\ UNCHANGED <<offset, want, count, prev_in, books>>
        /\ pc = "read" /\ pc' = "read"
    BY <1>4 DEF CopyOut, Decoding
  <2>2. Behind' = Behind /\ Lag' = Lag /\ (Placed => Placed') /\ p' = p
    BY <1>3, <2>1 DEF Behind, Lag, consumed_in, Placed, books
  <2>3. Lag \in Int
    BY <1>1 DEF Lag, consumed_in, Numbers
  <2>4. /\ current_record_idx' \in Nat /\ current_record_idx' >= current_record_idx
        /\ p' >= p /\ Lag' \in Int
        /\ Lag' - current_record_idx' <= Lag - current_record_idx
    BY <1>1, <1>3, <2>2, <2>3 DEF Numbers
  <2> QED
    BY <1>1, <1>2, <1>3, <2>1, <2>2, <2>3, <2>4, SteadyDebt DEF Finished
<1>5. CASE SetupNextBlock \/ DecodeChunkHeader \/ DecodeEndMarker
           \/ (CopyOut /\ AtChunk.stored)
  <2>1. \E n \in Nat : /\ Placed /\ offset' = offset + n /\ want' = want + n
                       /\ p' = p \/ p' = p + n
    <3>1. CASE SetupNextBlock
      <4>1. ~ (current_record_idx >= Records)
        BY <3>1 DEF SetupNextBlock, NoRecordLeft
      <4>2. IsBlock(archive, Block) /\ archive.check \in Nat
        BY <1>1, <4>1, BlockFacts DEF Numbers
      <4>3. Block.header \in Nat
        BY <4>2, BlockSizes
      <4> QED
        BY <3>1, <4>3 DEF SetupNextBlock
    <3>2. CASE DecodeChunkHeader
      <4> DEFINE c == Block.chunks[chunk + 1]
      <4>1. /\ reader = "open" /\ chunk < Len(Block.chunks) /\ TakeIn(c.taken) /\ p' = p
        BY <3>2 DEF DecodeChunkHeader, NeedsHeader, Decoding, books
      <4>2. current_record_idx < Records /\ chunk \in 0 .. Len(Block.chunks)
        BY <1>1, <4>1 DEF TypeOK
      <4>3. IsBlock(archive, Block)
        BY <1>1, <4>2, BlockFacts
      <4>4. chunk + 1 \in 1 .. Len(Block.chunks)
        BY <4>1, <4>2, <4>3 DEF IsBlock
      <4>5. c.taken \in Nat
        BY <4>3, <4>4 DEF IsBlock, IsChunk
      <4> QED
        BY <4>1, <4>5 DEF TakeIn
    <3>3. CASE DecodeEndMarker
      BY <3>3 DEF DecodeEndMarker, TakeIn, books
    <3>4. CASE CopyOut /\ AtChunk.stored
      <4>1. PICK n \in 1 .. copy_size_max : TakeIn(n)
        BY <3>4 DEF CopyOut
      <4>2. n \in Nat /\ p' = p
        BY <1>1, <3>4 DEF CopyOut, copy_size_max, Smaller, Numbers, books
      <4> QED
        BY <4>1, <4>2 DEF TakeIn
    <3> QED
      BY <1>5, <3>1, <3>2, <3>3, <3>4
  <2>2. Placed'
    BY <1>1, <1>3, <2>1 DEF Placed, Numbers
  <2>3. p' >= p
    BY <1>1, <2>1 DEF Numbers
  <2>4. ~DryRun' /\ base' = 0 => p' >= StreamHeaderSize
    BY <1>1, <1>2, <1>3, <2>3 DEF DebtInv, DryRun, StreamHeaderSize, Numbers
  <2>5. Behind' = 0
    BY <1>1, <1>3, <2>1 DEF Behind, Placed, Numbers
  <2>6. current_record_idx \in Nat /\ (pc' \notin Finished => Lag' \in 0 .. current_record_idx)
    BY <1>1, <1>2, <1>3 DEF LagBounded, Numbers
  <2> QED
    BY <1>3, <2>2, <2>4, <2>5, <2>6 DEF DebtInv
<1> QED
  BY <1>4, <1>5

LEMMA NextDebt == IInv /\ DebtInv /\ [Next]_vars => DebtInv'
<1> SUFFICES ASSUME IInv, DebtInv, [Next]_vars PROVE DebtInv'
  OBVIOUS
<1>1. IInv'
  BY NextIInv
<1> QED
  BY <1>1, StripDebt, EndBlockDebt, ControlDebt, ReadDebt DEF Next, Progress

(* The reader reads the byte it means to, or one not far in front of it.   *)
THEOREM PlaceIsKept == Spec => []PlaceKept
<1>1. Init => DebtInv
  BY InitDebt
<1>2. IInv /\ DebtInv /\ [Next]_vars => DebtInv'
  BY NextDebt
<1>3. IInv /\ DebtInv => PlaceKept
  <2> SUFFICES ASSUME IInv, DebtInv PROVE PlaceKept
    OBVIOUS
  <2>1. Numbers /\ PlaceInv
    BY TypeNumbers DEF IInv
  <2>2. Behind \in 0 .. current_record_idx
    BY <2>1 DEF DebtInv, PlaceInv, Behind, Numbers
  <2>3. DryRun \/ Records = 1 \/ base = 0 => Placed
    BY <2>1 DEF DebtInv, PlaceInv, PlaceFixed
  <2> QED
    BY <2>2, <2>3 DEF PlaceKept
<1> QED
  BY <1>1, <1>2, <1>3, Invariance, PTL DEF Spec

(* initial_offset plus the reader's count is the handle's offset, always.  *)
THEOREM OffsetKnown == Spec => []OffsetTracked
<1>1. IInv => OffsetTracked
  BY DEF IInv
<1> QED
  BY <1>1, Invariance, PTL

(* The bytes counted as processed never overtake the handle, and lag by at *)
(* most one byte a block.                                                  *)
THEOREM LagIsBounded == Spec => []LagBounded
<1>1. IInv => LagBounded
  BY DEF IInv
<1> QED
  BY <1>1, Invariance, PTL

(* The Take never cuts a block short, strips in mid-block included.        *)
THEOREM LimitEnough == Spec => []LimitCoversBlock
<1>1. IInv => LimitCoversBlock
  BY DEF IInv
<1> QED
  BY <1>1, Invariance, PTL

(* Across strips and block ends the handle's offset is known exactly, the  *)
(* count of processed bytes and the place in the archive within one byte   *)
(* for each block that has ended.                                          *)
THEOREM BooksKept == Spec => []BooksAgree
<1>1. PlaceKept /\ OffsetTracked /\ LagBounded => BooksAgree
  BY DEF BooksAgree
<1> QED
  BY <1>1, PlaceIsKept, OffsetKnown, LagIsBounded, PTL
-----------------------------------------------------------------------------
(* When a call returns data without a strip, the threshold is not reached. *)
SpaceInv ==
  pc = "idle" /\ current_uncompressed > 0 /\ ~DryRun =>
    offset = 0 \/ bytes_processed_since_last_strip < strip_threshold

LEMMA NextSpace == IInv /\ SpaceInv /\ [Next]_vars => SpaceInv'
<1> SUFFICES ASSUME IInv, SpaceInv, [Next]_vars, pc' = "idle",
                    current_uncompressed' > 0, ~DryRun'
             PROVE  \/ offset' = 0
                    \/ bytes_processed_since_last_strip' < strip_threshold'
  BY DEF SpaceInv
<1>1. CASE Account
  <2>1. /\ ~ThresholdReached(bytes_processed_since_last_strip')
        /\ strip_threshold' = strip_threshold
    BY <1>1 DEF Account, args
  <2>2. bytes_processed_since_last_strip' \in Nat /\ strip_threshold \in Nat
    <3>1. IInv'
      BY NextIInv
    <3> QED
      BY <3>1 DEF IInv, TypeOK
  <2> QED
    BY <2>1, <2>2 DEF ThresholdReached
<1>2. CASE Strip
  <2>1. ~DryRun
    BY <1>2 DEF Strip, DryRun, args
  <2> QED
    BY <1>2, <2>1 DEF Strip
<1>3. CASE UNCHANGED vars
  BY <1>3 DEF vars, args, file, books, SpaceInv, DryRun
<1>4. CASE (\E n \in ReadSizes : Call(n)) \/ ReturnEof \/ SetupNextBlock \/ ResumeBlock
           \/ EndBlock \/ Misread \/ Fail
  BY <1>4 DEF Call, ReturnEof, SetupNextBlock, ResumeBlock, EndBlock, Misread, Fail
<1>5. CASE DecodeChunkHeader \/ DecodeEndMarker \/ CopyOut
  BY <1>5 DEF DecodeChunkHeader, DecodeEndMarker, CopyOut, NeedsHeader, Decoding
<1> QED
  BY <1>1, <1>2, <1>3, <1>4, <1>5 DEF Next, Progress

(* When a call returns data, what it leaves of consumed bytes in the file  *)
(* is less than the threshold, but for one byte for each block that ended. *)
THEOREM SpaceIsReclaimed == Spec => []SpaceReclaimed
<1>1. Init => SpaceInv
  BY DEF Init, SpaceInv
<1>2. IInv /\ SpaceInv => SpaceReclaimed
  <2> SUFFICES ASSUME IInv, SpaceInv, pc = "idle", current_uncompressed > 0, ~DryRun
               PROVE  \/ offset <= current_record_idx
                      \/ offset < strip_threshold + current_record_idx
    BY DEF SpaceReclaimed
  <2>1. Numbers /\ strip_threshold \in Nat
    BY TypeNumbers DEF IInv, TypeOK
  <2>2. offset = initial_offset + count
    BY DEF IInv, OffsetTracked
  <2>3. initial_offset + count - bytes_processed_since_last_strip - 0
          \in 0 .. current_record_idx
    BY DEF IInv, LagBounded, Lag, Finished
  <2>4. offset = 0 \/ bytes_processed_since_last_strip < strip_threshold
    BY DEF SpaceInv
  <2> QED
    BY <2>1, <2>2, <2>3, <2>4 DEF Numbers
<1> QED
  BY <1>1, <1>2, NextSpace, Invariance, PTL DEF Spec
-----------------------------------------------------------------------------
(* What has been handed out, in this call and before it.                   *)
Got == current_uncompressed + IF pc = "read" THEN bytes_read ELSE 0

(* What the records before the k-th promise.                               *)
From(k) == IF k <= Records THEN archive.blocks[k].from ELSE Total(archive)

(* How much of the contents has come out when the decoder is where it is.  *)
DeliveredInv ==
  /\ pc = "loop" => bytes_read = 0
  /\ pc = "eof" => reader = "none" /\ current_record_idx = Records
  /\ pc \notin Finished =>
       /\ reader = "none" => Got = From(current_record_idx + 1)
       /\ reader = "open" /\ chunk = 0 => Got = Block.from /\ uncompressed_size = 0
       /\ reader = "open" /\ chunk > 0 =>
            Got + uncompressed_size = AtChunk.from + AtChunk.out
       /\ reader = "ended" => Got = Block.from + Block.uncompressed

(* The numbers of the block and the chunk that are being read.             *)
LEMMA ContentFacts ==
  ASSUME IInv, current_record_idx < Records
  PROVE  /\ From(current_record_idx + 1) = Block.from
         /\ From(current_record_idx + 2) = Block.from + Block.uncompressed
         /\ Block.from \in Nat /\ Block.uncompressed \in Nat
         /\ Len(Block.chunks) = 0 => Block.from + Block.uncompressed = Block.from
         /\ Len(Block.chunks) > 0 =>
              LET last == Block.chunks[Len(Block.chunks)] IN
              Block.from + Block.uncompressed = last.from + last.out
         /\ \A i \in 1 .. Len(Block.chunks) :
              /\ Block.chunks[i].from \in Nat /\ Block.chunks[i].out \in Nat
              /\ Block.chunks[i].from
                   = IF i = 1 THEN Block.from
                     ELSE Block.chunks[i - 1].from + Block.chunks[i - 1].out
<1>1. TypeOK /\ IsArchive(archive) /\ Numbers
  BY TypeNumbers DEF IInv, TypeOK
<1>2. IsBlock(archive, Block)
  BY <1>1, BlockFacts
<1>3. Block.from \in Nat /\ Block.uncompressed \in Nat /\ Len(Block.chunks) \in Nat
  BY <1>2 DEF IsBlock
<1>4. current_record_idx + 1 \in 1 .. Records /\ Records = Len(archive.blocks)
  BY <1>1 DEF Numbers, Records
<1>5. From(current_record_idx + 1) = Block.from
  BY <1>4 DEF From, Block
<1>6. From(current_record_idx + 2) = Block.from + Block.uncompressed
  <2>1. CASE current_record_idx + 2 <= Records
    <3>1. /\ current_record_idx + 2 \in 1 .. Len(archive.blocks)
          /\ current_record_idx + 2 # 1
          /\ (current_record_idx + 2) - 1 = current_record_idx + 1
      BY <1>1, <1>4, <2>1 DEF Numbers
    <3>2. archive.blocks[current_record_idx + 2].from
            = archive.blocks[(current_record_idx + 2) - 1].from
              + archive.blocks[(current_record_idx + 2) - 1].uncompressed
      BY <1>1, <3>1 DEF IsArchive
    <3> QED
      BY <2>1, <3>1, <3>2 DEF From, Block
  <2>2. CASE current_record_idx + 1 = Records
    <3>1. ~ (current_record_idx + 2 <= Records) /\ Len(archive.blocks) # 0
      BY <1>1, <1>4, <2>2 DEF Numbers
    <3> QED
      BY <1>4, <2>2, <3>1 DEF From, Total, Block
  <2> QED
    BY <1>1, <1>4, <2>1, <2>2 DEF Numbers
<1>7. /\ Len(Block.chunks) = 0 => Block.from + Block.uncompressed = Block.from
      /\ Len(Block.chunks) > 0 =>
           Block.from + Block.uncompressed
             = Block.chunks[Len(Block.chunks)].from + Block.chunks[Len(Block.chunks)].out
  BY <1>2, <1>3 DEF IsBlock
<1>8. \A i \in 1 .. Len(Block.chunks) :
        /\ Block.chunks[i].from \in Nat /\ Block.chunks[i].out \in Nat
        /\ Block.chunks[i].from
             = IF i = 1 THEN Block.from
               ELSE Block.chunks[i - 1].from + Block.chunks[i - 1].out
  BY <1>2 DEF IsBlock, IsChunk
<1> QED
  BY <1>3, <1>5, <1>6, <1>7, <1>8

LEMMA InitDelivered == Init => DeliveredInv
<1> SUFFICES ASSUME Init PROVE DeliveredInv
  OBVIOUS
<1>1. IInv
  BY InitIInv
<1>2. Numbers /\ IsArchive(archive)
  BY <1>1, TypeNumbers DEF IInv, TypeOK
<1>3. From(1) = 0
  <2>1. CASE Records = 0
    BY <2>1 DEF From, Total, Records
  <2>2. CASE Records >= 1
    <3>1. 1 \in 1 .. Len(archive.blocks)
      BY <1>2, <2>2 DEF Records, IsArchive
    <3>2. archive.blocks[1].from = 0
      BY <1>2, <3>1 DEF IsArchive
    <3> QED
      BY <2>2, <3>2 DEF From
  <2> QED
    BY <1>2, <2>1, <2>2 DEF Numbers
<1> QED
  BY <1>3 DEF Init, DeliveredInv, Got

(* The steps which hand nothing out and leave block and chunk alone.       *)
LEMMA GotStays ==
  ASSUME IInv, DeliveredInv, UNCHANGED <<args, books, lzma2>>, pc \notin Finished,
         Got' = Got, pc' = "loop" => bytes_read' = 0,
         pc' = "eof" => reader = "none" /\ current_record_idx = Records
  PROVE  DeliveredInv'
<1>1. /\ Records' = Records /\ Block' = Block /\ AtChunk' = AtChunk
      /\ archive' = archive /\ current_record_idx' = current_record_idx
      /\ reader' = reader /\ chunk' = chunk /\ uncompressed_size' = uncompressed_size
  BY DEF args, books, lzma2, Records, Block, AtChunk
<1>2. From(current_record_idx + 1)' = From(current_record_idx + 1)
  BY <1>1 DEF From
<1> QED
  BY <1>1, <1>2 DEF DeliveredInv

LEMMA NextDelivered == IInv /\ DeliveredInv /\ [Next]_vars => DeliveredInv'
<1> SUFFICES ASSUME IInv, DeliveredInv, [Next]_vars PROVE DeliveredInv'
  OBVIOUS
<1>1. TypeOK /\ Numbers /\ current_uncompressed \in Nat
  BY TypeNumbers DEF IInv, TypeOK
<1>2. CASE \E n \in ReadSizes : Call(n)
  <2>1. /\ pc \in Resting /\ pc' = "loop" /\ bytes_read' = 0
        /\ UNCHANGED <<args, books, lzma2>>
    BY <1>2 DEF Call
  <2>2. Got' = Got
    BY <1>1, <2>1 DEF Got, books, Resting
  <2> QED
    BY <2>1, <2>2, GotStays DEF Resting, Finished
<1>3. CASE ReturnEof
  <2>1. /\ pc = "loop" /\ pc' = "eof" /\ reader = "none"
        /\ UNCHANGED <<args, books, lzma2>> /\ current_record_idx >= Records
    BY <1>3 DEF ReturnEof, NoRecordLeft
  <2>2. current_record_idx = Records
    BY <1>1, <2>1 DEF TypeOK, Numbers
  <2>3. Got' = Got
    BY <1>1, <2>1 DEF Got, books
  <2> QED
    BY <2>1, <2>2, <2>3, GotStays DEF Finished
<1>4. CASE SetupNextBlock
  <2>1. /\ pc = "loop" /\ pc' = "read" /\ reader = "none" /\ reader' = "open"
        /\ chunk' = 0 /\ uncompressed_size' = 0 /\ bytes_read' = bytes_read
        /\ current_uncompressed' = current_uncompressed
        /\ archive' = archive /\ current_record_idx' = current_record_idx
        /\ ~ (current_record_idx >= Records)
    BY <1>4 DEF SetupNextBlock, NoRecordLeft, args
  <2>2. Block' = Block /\ current_record_idx < Records
    BY <1>1, <2>1 DEF Block, Numbers
  <2>3. Got' = Got
    BY <1>1, <2>1 DEF Got, DeliveredInv
  <2>4. Got = Block.from
    BY <2>1, <2>2, ContentFacts DEF DeliveredInv, Finished
  <2> QED
    BY <2>1, <2>2, <2>3, <2>4 DEF DeliveredInv
<1>5. CASE ResumeBlock
  <2>1. /\ pc = "loop" /\ pc' = "read" /\ bytes_read' = bytes_read
        /\ UNCHANGED <<args, books, lzma2>> /\ bytes_read = 0
    BY <1>5 DEF ResumeBlock, DeliveredInv
  <2>2. Got' = Got
    BY <1>1, <2>1 DEF Got, books
  <2> QED
    BY <2>1, <2>2, GotStays DEF Finished
<1>6. CASE DecodeChunkHeader
  <2>1. /\ pc = "read" /\ pc' = "read" /\ reader = "open" /\ reader' = "open"
        /\ uncompressed_size = 0 /\ chunk < Len(Block.chunks) /\ chunk' = chunk + 1
        /\ uncompressed_size' = Block.chunks[chunk + 1].out
        /\ bytes_read' = bytes_read /\ current_uncompressed' = current_uncompressed
        /\ archive' = archive /\ current_record_idx' = current_record_idx
    BY <1>6 DEF DecodeChunkHeader, NeedsHeader, Decoding, args, books, call
  <2>2. /\ Block' = Block /\ Got' = Got /\ current_record_idx < Records
        /\ chunk \in Nat /\ Len(Block.chunks) \in Nat
    <3>1. current_record_idx < Records /\ chunk \in Nat
      BY <1>1, <2>1 DEF TypeOK
    <3>2. IsBlock(archive, Block)
      BY <1>1, <3>1, BlockFacts
    <3> QED
      BY <2>1, <3>1, <3>2 DEF Got, Block, IsBlock
  <2>3. AtChunk' = Block.chunks[chunk + 1] /\ chunk + 1 \in 1 .. Len(Block.chunks)
    BY <2>1, <2>2 DEF AtChunk
  <2>4. Got = Block.chunks[chunk + 1].from
    <3>1. CASE chunk = 0
      <4>1. Got = Block.from /\ chunk + 1 = 1
        BY <2>1, <3>1 DEF DeliveredInv, Finished
      <4> QED
        BY <2>2, <2>3, <4>1, ContentFacts
    <3>2. CASE chunk > 0
      <4>1. Got + 0 = AtChunk.from + AtChunk.out
        BY <2>1, <3>2 DEF DeliveredInv, Finished
      <4>2. AtChunk = Block.chunks[(chunk + 1) - 1] /\ chunk + 1 # 1
        BY <2>2, <3>2 DEF AtChunk
      <4>3. Block.chunks[chunk + 1].from = AtChunk.from + AtChunk.out
        BY <2>2, <2>3, <4>2, ContentFacts
      <4>4. Got \in Nat
        BY <1>1 DEF Got, Numbers
      <4> QED
        BY <4>1, <4>3, <4>4
    <3> QED
      BY <2>2, <3>1, <3>2
  <2>5. Got' + uncompressed_size' = AtChunk'.from + AtChunk'.out
    BY <2>1, <2>2, <2>3, <2>4
  <2>6. chunk' > 0
    BY <2>1, <2>2
  <2> QED
    BY <2>1, <2>5, <2>6 DEF DeliveredInv
<1>7. CASE DecodeEndMarker
  <2>1. /\ pc = "read" /\ pc' = "read" /\ reader = "open" /\ reader' = "ended"
        /\ uncompressed_size = 0 /\ chunk = Len(Block.chunks)
        /\ bytes_read' = bytes_read /\ current_uncompressed' = current_uncompressed
        /\ archive' = archive /\ current_record_idx' = current_record_idx
    BY <1>7 DEF DecodeEndMarker, NeedsHeader, Decoding, args, books, call
  <2>2. /\ Block' = Block /\ Got' = Got /\ current_record_idx < Records
        /\ chunk \in Nat /\ Got \in Nat
    BY <1>1, <2>1 DEF TypeOK, Got, Block, Numbers
  <2>3. Got = Block.from + Block.uncompressed
    <3>1. CASE chunk = 0
      BY <2>1, <2>2, <3>1, ContentFacts DEF DeliveredInv, Finished
    <3>2. CASE chunk > 0
      <4>1. Got + 0 = AtChunk.from + AtChunk.out
        BY <2>1, <3>2 DEF DeliveredInv, Finished
      <4> QED
        BY <2>1, <2>2, <3>2, <4>1, ContentFacts DEF AtChunk
    <3> QED
      BY <2>2, <3>1, <3>2
  <2> QED
    BY <2>1, <2>2, <2>3 DEF DeliveredInv
<1>8. CASE CopyOut
  <2>1. PICK m \in 1 .. copy_size_max :
          /\ bytes_read' = bytes_read + m
          /\ uncompressed_size' = uncompressed_size - m
    BY <1>8 DEF CopyOut
  <2>2. /\ pc = "read" /\ pc' = "read" /\ reader = "open" /\ reader' = "open"
        /\ uncompressed_size > 0 /\ chunk' = chunk
        /\ current_uncompressed' = current_uncompressed
        /\ archive' = archive /\ current_record_idx' = current_record_idx
    BY <1>8 DEF CopyOut, Decoding, args, books
  <2>3. /\ Block' = Block /\ AtChunk' = AtChunk /\ m \in Nat
        /\ chunk \in Nat /\ Got \in Nat
    <3>1. m \in Nat
      BY <1>1 DEF copy_size_max, Smaller, Numbers
    <3> QED
      BY <1>1, <2>2, <3>1 DEF TypeOK, Got, Block, AtChunk, Numbers
  <2>4. Got' = Got + m
    BY <1>1, <2>1, <2>2, <2>3 DEF Got, Numbers
  <2>5. chunk > 0 /\ Got + uncompressed_size = AtChunk.from + AtChunk.out
    <3>1. ~ (chunk = 0)
      BY <1>1, <2>2 DEF DeliveredInv, Finished, Numbers
    <3> QED
      BY <2>2, <2>3, <3>1 DEF DeliveredInv, Finished
  <2>6. Got' + uncompressed_size' = Got + uncompressed_size
    BY <1>1, <2>1, <2>3, <2>4 DEF Numbers
  <2> QED
    BY <2>2, <2>3, <2>5, <2>6 DEF DeliveredInv
<1>9. CASE Account
  <2>1. /\ pc = "read" /\ pc' \in {"strip", "idle"}
        /\ current_uncompressed' = current_uncompressed + bytes_read
        /\ UNCHANGED <<args, current_record_idx, lzma2, call>>
    BY <1>9 DEF Account
  <2>2. Got' = Got
    BY <1>1, <2>1 DEF Got, Numbers
  <2>3. /\ Records' = Records /\ Block' = Block /\ AtChunk' = AtChunk
        /\ From(current_record_idx + 1)' = From(current_record_idx + 1)
        /\ reader' = reader /\ chunk' = chunk /\ uncompressed_size' = uncompressed_size
    BY <2>1 DEF args, lzma2, Records, Block, AtChunk, From
  <2> QED
    BY <2>1, <2>2, <2>3 DEF DeliveredInv, Finished
<1>10. CASE Strip
  <2>1. /\ pc = "strip" /\ pc' = "idle" /\ reader' = reader /\ chunk' = chunk
        /\ uncompressed_size' = uncompressed_size
        /\ current_uncompressed' = current_uncompressed
        /\ archive' = archive /\ current_record_idx' = current_record_idx
    BY <1>10 DEF Strip, args
  <2>2. Got' = Got
    BY <2>1 DEF Got
  <2>3. /\ Records' = Records /\ Block' = Block /\ AtChunk' = AtChunk
        /\ From(current_record_idx + 1)' = From(current_record_idx + 1)
    BY <2>1 DEF Records, Block, AtChunk, From
  <2> QED
    BY <2>1, <2>2, <2>3 DEF DeliveredInv, Finished
<1>11. CASE EndBlock
  <2>1. /\ pc = "read" /\ pc' = "loop" /\ bytes_read = 0 /\ bytes_read' = 0
        /\ reader = "ended" /\ reader' = "none" /\ archive' = archive
        /\ current_uncompressed' = current_uncompressed
        /\ current_record_idx' = current_record_idx + 1
    BY <1>11 DEF EndBlock, args, call
  <2>2. current_record_idx < Records /\ Records' = Records
    BY <1>1, <2>1 DEF TypeOK, Records
  <2>3. Got = Block.from + Block.uncompressed
    BY <2>1 DEF DeliveredInv, Finished
  <2>4. Got' = Got
    BY <1>1, <2>1 DEF Got
  <2>5. From(current_record_idx + 1)' = From(current_record_idx + 2)
    <3>1. current_record_idx' + 1 = current_record_idx + 2
      BY <1>1, <2>1 DEF Numbers
    <3> QED
      BY <2>1, <2>2, <3>1 DEF From
  <2> QED
    BY <2>1, <2>2, <2>3, <2>4, <2>5, ContentFacts DEF DeliveredInv
<1>12. CASE Misread \/ Fail
  BY <1>12 DEF Misread, Fail, DeliveredInv, Finished
<1>13. CASE UNCHANGED vars
  <2>1. /\ UNCHANGED <<args, books, lzma2>> /\ pc' = pc /\ bytes_read' = bytes_read
        /\ current_uncompressed' = current_uncompressed
    BY <1>13 DEF vars, call, books
  <2>2. Got' = Got
    BY <2>1 DEF Got
  <2>3. CASE pc \notin Finished
    BY <2>1, <2>2, <2>3, GotStays DEF DeliveredInv
  <2>4. CASE pc \in Finished
    BY <2>1, <2>4 DEF DeliveredInv, Finished
  <2> QED
    BY <2>3, <2>4
<1> QED
  BY <1>2, <1>3, <1>4, <1>5, <1>6, <1>7, <1>8, <1>9, <1>10, <1>11, <1>12, <1>13
  DEF Next, Progress

(* Ok(0), by which untar knows the end of the stream, comes only when all  *)
(* the bytes that the index's records promise have been handed out.        *)
THEOREM AllIsDelivered == Spec => []DeliveredAll
<1>1. IInv /\ DeliveredInv => DeliveredAll
  <2> SUFFICES ASSUME IInv, DeliveredInv, pc = "eof"
               PROVE  current_uncompressed = Total(archive)
    BY DEF DeliveredAll
  <2>1. reader = "none" /\ current_record_idx = Records /\ current_uncompressed \in Nat
        /\ Records \in Nat
    BY TypeNumbers DEF DeliveredInv, IInv, TypeOK, Numbers
  <2>2. Got = From(Records + 1)
    BY <2>1 DEF DeliveredInv, Finished
  <2>3. From(Records + 1) = Total(archive)
    BY <2>1 DEF From
  <2> QED
    BY <2>1, <2>2, <2>3 DEF Got
<1> QED
  BY <1>1, InitDelivered, NextDelivered, Invariance, PTL DEF Spec
=============================================================================
