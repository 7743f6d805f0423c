--------------------------- MODULE StrippingReader ---------------------------
(***************************************************************************)
(* StrippingReader of src/main.rs: the Read that hands the uncompressed    *)
(* bytes of an .xz file to the TAR parser and, each time strip_threshold   *)
(* compressed bytes have gone by, cuts the consumed prefix off the file    *)
(* and goes on from a fresh handle at offset 0.  With it, the parts of     *)
(* xz_parser that find a block's data (parse_block_header, get_check_size) *)
(* and the reading loop of Lzma2Reader as far as input positions go.       *)
(*                                                                         *)
(* Bytes are counted, never looked at.  A logical position is an offset in *)
(* the archive as it was before anything was stripped: the file on disk    *)
(* starts at logical position `base`, so a handle at `offset` reads byte   *)
(* base + offset, and `want` is the byte the decoder needs next.  Reading  *)
(* any other byte ends the behaviour in "misread": what the decoder makes  *)
(* of it is no longer the archive's content.                               *)
(*                                                                         *)
(* strip_file_prefix is one step here, as StripContract promises.          *)
(***************************************************************************)
EXTENDS Integers, Sequences

CONSTANTS
  Archives,        \* the .xz files considered, see IsArchive
  StripThresholds, \* values of strip_threshold
  ReadSizes        \* lengths of the buffers the caller passes, never empty

StreamHeaderSize == 12

(* get_check_size, for the ids the format defines.                         *)
CheckSizes == {0, 4, 8, 32}

(* Fault: the bytes that are past a multiple of four.                      *)
PaddingSizeExcess(n) == n % 4

(* Bytes that bring n up to a multiple of four: ((n + 3) & !3) - n.        *)
PaddingSize(n) == (4 - (n % 4)) % 4

(* One LZMA2 chunk: `at` is where its control byte is, counted from the    *)
(* block's start; `taken` is what decode_chunk_header reads from the file, *)
(* the whole chunk when it is an LZMA one (RangeDecoder::prepare buffers   *)
(* it) and the 3 bytes of its header when it is stored; `out` is its       *)
(* uncompressed size, and `from' how much the archive's chunks before it   *)
(* bring.                                                                  *)
ChunkEnd(c) == c.at + c.taken + IF c.stored THEN c.out ELSE 0

IsChunk(c) ==
  /\ c.at \in Nat /\ c.taken \in Nat \ {0} /\ c.out \in Nat \ {0}
  /\ c.stored \in BOOLEAN /\ c.from \in Nat

(* One block: `start` is its logical position, `header` the size of its    *)
(* header, `declares` whether the header states the compressed size, and   *)
(* `unpadded` and `uncompressed` are its index record; `from' is what the  *)
(* records before it say in all.  The LZMA2 stream ends with a control     *)
(* byte 0x00, and the check follows it.                                    *)
MarkerAt(a, b) == b.unpadded - a.check - 1

IsBlock(a, b) ==
  /\ b.start \in Nat /\ b.start % 4 = 0
  /\ b.header \in Nat \ {0} /\ b.unpadded \in Nat /\ b.uncompressed \in Nat
  /\ b.declares \in BOOLEAN /\ b.from \in Nat
  /\ Len(b.chunks) \in Nat
  /\ \A i \in 1 .. Len(b.chunks) :
        IsChunk(b.chunks[i]) /\ ChunkEnd(b.chunks[i]) <= MarkerAt(a, b)
  /\ \A i \in 1 .. Len(b.chunks) :
        b.chunks[i].at = IF i = 1 THEN b.header ELSE ChunkEnd(b.chunks[i - 1])
  /\ MarkerAt(a, b) = IF Len(b.chunks) = 0 THEN b.header
                                           ELSE ChunkEnd(b.chunks[Len(b.chunks)])
  /\ \A i \in 1 .. Len(b.chunks) :
        b.chunks[i].from = IF i = 1 THEN b.from
                           ELSE b.chunks[i - 1].from + b.chunks[i - 1].out
  /\ b.from + b.uncompressed
        = IF Len(b.chunks) = 0 THEN b.from
          ELSE b.chunks[Len(b.chunks)].from + b.chunks[Len(b.chunks)].out

(* Zero bytes follow up to the next multiple of four.                      *)
BlockEnd(b) == b.start + ((b.unpadded + 3) \div 4) * 4

(* One .xz file with one stream: `size` bytes, the last ones the index and *)
(* the footer, from which main took the records and the check size.        *)
IsArchive(a) ==
  /\ a.check \in CheckSizes /\ a.size \in Nat
  /\ Len(a.blocks) \in Nat
  /\ \A i \in 1 .. Len(a.blocks) :
        /\ IsBlock(a, a.blocks[i])
        /\ a.blocks[i].start = IF i = 1 THEN StreamHeaderSize
                                        ELSE BlockEnd(a.blocks[i - 1])
        /\ BlockEnd(a.blocks[i]) < a.size
        /\ a.blocks[i].from = IF i = 1 THEN 0
                              ELSE a.blocks[i - 1].from + a.blocks[i - 1].uncompressed

(* What the records promise in all.                                        *)
Total(a) ==
  IF Len(a.blocks) = 0 THEN 0
  ELSE a.blocks[Len(a.blocks)].from + a.blocks[Len(a.blocks)].uncompressed

ASSUME ArchivesAssumption == \A a \in Archives : IsArchive(a)
ASSUME StripThresholdsAssumption == StripThresholds \subseteq Nat
ASSUME ReadSizesAssumption == ReadSizes \subseteq Nat \ {0}

VARIABLES
  archive, strip_threshold,  \* arguments of the run
  mode,         \* "dry_run", or "in_place" without --dry-run
  base,         \* bytes cut off the front of the file so far
  offset,       \* of the handle the reader reads from
  want,         \* logical position of the byte to decode next
  pc,           \* where the call to read is, or how the last one ended
  current_record_idx, current_uncompressed, initial_offset,
  bytes_processed_since_last_strip,
  reader,       \* self.reader: "none", "open", or "ended" (end_reached)
  limit,        \* bytes the Take around the file still lets through
  count,        \* total_in() of the reader
  chunk,        \* chunks of the block whose header has been decoded
  uncompressed_size,  \* bytes of the current chunk not yet handed out
  buf_len,      \* room in the caller's buffer
  bytes_read,   \* bytes already put there by this call
  prev_in       \* total_in() before this call read from the reader

file   == <<base, offset, want>>
args   == <<archive, strip_threshold, mode>>
books  == <<current_record_idx, current_uncompressed, initial_offset,
            bytes_processed_since_last_strip>>
lzma2  == <<reader, limit, count, chunk, uncompressed_size>>
call   == <<buf_len, bytes_read, prev_in>>
vars   == <<args, file, pc, books, lzma2, call>>

Resting  == {"idle", "eof"}
Running  == {"loop", "read", "strip"}
Finished == {"failed", "misread"}

Modes   == {"in_place", "dry_run"}
DryRun  == mode = "dry_run"
Placed  == base + offset = want
Records == Len(archive.blocks)
Block   == archive.blocks[current_record_idx + 1]
AtChunk == Block.chunks[chunk]
-----------------------------------------------------------------------------
(* main has read the footer and the index and sought past the header.      *)
Init ==
  /\ archive \in Archives /\ strip_threshold \in StripThresholds
  /\ mode \in Modes
  /\ pc = "idle"
  /\ base = 0 /\ offset = StreamHeaderSize /\ want = StreamHeaderSize
  /\ current_record_idx = 0 /\ current_uncompressed = 0
  /\ initial_offset = StreamHeaderSize
  /\ bytes_processed_since_last_strip = StreamHeaderSize
  /\ reader = "none" /\ limit = 0 /\ count = 0 /\ chunk = 0
  /\ uncompressed_size = 0
  /\ buf_len = 0 /\ bytes_read = 0 /\ prev_in = 0

(* The TAR parser asks for n more bytes.                                   *)
Call(n) ==
  /\ pc \in Resting
  /\ pc' = "loop"
  /\ buf_len' = n
  /\ bytes_read' = 0
  /\ UNCHANGED <<args, file, books, lzma2, prev_in>>

(* Fault: the last record is taken for the end of the archive.             *)
NoRecordLeftEarly == current_record_idx + 1 >= Records

NoRecordLeft == current_record_idx >= Records

(* No block is left: Ok(0).                                                *)
ReturnEof ==
  /\ pc = "loop" /\ reader = "none"
  /\ NoRecordLeft
  /\ pc' = "eof"
  /\ UNCHANGED <<args, file, books, lzma2, call>>

(* Fault: the end marker is not counted as part of the block's data.       *)
CompressedSizeNoMarker(b) == MarkerAt(archive, b) - b.header

(* What parse_block_header calls the compressed size: one more than the    *)
(* declared one, or all of the unpadded block but its header, check        *)
(* included.  It only limits what the reader may take.                     *)
CompressedSize(b) ==
  IF b.declares THEN MarkerAt(archive, b) + 1 - b.header + 1
                ELSE b.unpadded - b.header

(* The next block's header is parsed and a new Lzma2Reader starts on its   *)
(* data, over a clone of the handle that shares the handle's offset.       *)
SetupNextBlock ==
  /\ pc = "loop" /\ reader = "none"
  /\ ~NoRecordLeft
  /\ Placed
  /\ pc' = "read"
  /\ offset' = offset + Block.header
  /\ want' = want + Block.header
  /\ initial_offset' = initial_offset + Block.header
  /\ bytes_processed_since_last_strip' =
        bytes_processed_since_last_strip + Block.header
  /\ reader' = "open" /\ limit' = CompressedSize(Block) /\ count' = 0
  /\ chunk' = 0 /\ uncompressed_size' = 0
  /\ prev_in' = 0
  /\ UNCHANGED <<args, base, current_record_idx, current_uncompressed,
                 buf_len, bytes_read>>

(* A reader is there already: remember how much it has taken so far.       *)
ResumeBlock ==
  /\ pc = "loop" /\ reader # "none"
  /\ pc' = "read"
  /\ prev_in' = count
  /\ UNCHANGED <<args, file, books, lzma2, buf_len, bytes_read>>
-----------------------------------------------------------------------------
(* The reader takes n bytes from the file, through the Take, and counts    *)
(* them (CountingReader).                                                  *)
TakeIn(n) ==
  /\ Placed /\ n <= limit
  /\ offset' = offset + n
  /\ want' = want + n
  /\ limit' = limit - n
  /\ count' = count + n

(* Lzma2Reader::read goes round its loop.                                  *)
Decoding == pc = "read" /\ reader = "open" /\ bytes_read < buf_len

(* Fault: the next header is only looked for while the buffer is empty.    *)
NeedsHeaderOnce == Decoding /\ uncompressed_size = 0 /\ bytes_read = 0

NeedsHeader == Decoding /\ uncompressed_size = 0

Smaller(a, b) == IF a < b THEN a ELSE b

copy_size_max == Smaller(uncompressed_size, buf_len - bytes_read)

(* The current chunk is used up: decode_chunk_header finds another one ... *)
DecodeChunkHeader ==
  /\ NeedsHeader
  /\ chunk < Len(Block.chunks)
  /\ TakeIn(Block.chunks[chunk + 1].taken)
  /\ chunk' = chunk + 1
  /\ uncompressed_size' = Block.chunks[chunk + 1].out
  /\ UNCHANGED <<args, base, pc, books, reader, call>>

(* ... or the end marker.                                                  *)
DecodeEndMarker ==
  /\ NeedsHeader
  /\ chunk = Len(Block.chunks)
  /\ TakeIn(1)
  /\ reader' = "ended"
  /\ UNCHANGED <<args, base, pc, books, chunk, uncompressed_size, call>>

(* Some of the current chunk is decoded into the window and flushed to the *)
(* caller's buffer; less than there is room for when the window wraps.  A  *)
(* stored chunk is read from the file as it goes, an LZMA chunk is in the  *)
(* range decoder's buffer already.                                         *)
CopyOut ==
  /\ Decoding /\ uncompressed_size > 0
  /\ \E m \in 1 .. copy_size_max :
        /\ bytes_read' = bytes_read + m
        /\ uncompressed_size' = uncompressed_size - m
        /\ IF AtChunk.stored THEN TakeIn(m)
                             ELSE UNCHANGED <<offset, want, limit, count>>
  /\ UNCHANGED <<args, base, pc, books, reader, chunk, buf_len, prev_in>>

(* Fault: all the reader has taken since the last strip is counted again.  *)
AllTakenIn == count

consumed_in == count - prev_in

(* Fault: the threshold must be exceeded.                                  *)
ThresholdExceeded(processed) == processed > strip_threshold

ThresholdReached(processed) == processed >= strip_threshold

(* The Lzma2Reader returned data: count what it took, strip if it is time, *)
(* otherwise return.                                                       *)
Account ==
  /\ pc = "read" /\ bytes_read > 0
  /\ bytes_read = buf_len \/ reader = "ended"
  /\ current_uncompressed' = current_uncompressed + bytes_read
  /\ bytes_processed_since_last_strip' =
        bytes_processed_since_last_strip + consumed_in
  /\ pc' = IF ThresholdReached(bytes_processed_since_last_strip')
           THEN "strip" ELSE "idle"
  /\ UNCHANGED <<args, file, current_record_idx, initial_offset, lzma2, call>>
-----------------------------------------------------------------------------
(* What strip_file_prefix removes when asked for n bytes: nothing when n   *)
(* is zero or would leave nothing.                                         *)
Removed(n) == IF 0 < n /\ n < archive.size - base THEN n ELSE 0

(* The consumed prefix is cut off, the file opened again and its new       *)
(* handle, at offset 0, put under the reader with what was left of the     *)
(* limit.  A dry run only resets its counters.                             *)
Strip ==
  /\ pc = "strip"
  /\ IF DryRun
     THEN UNCHANGED <<base, offset>>
     ELSE /\ base' = base + Removed(bytes_processed_since_last_strip)
          /\ offset' = 0
  /\ count' = 0
  /\ initial_offset' = 0
  /\ bytes_processed_since_last_strip' = 0
  /\ pc' = "idle"
  /\ UNCHANGED <<args, want, current_record_idx, current_uncompressed, reader,
                 limit, chunk, uncompressed_size, call>>

(* The check and the padding that the index record tells.                  *)
to_skip == archive.check + PaddingSize(Block.unpadded)

(* The Lzma2Reader returned 0, which the code takes for the end of the     *)
(* block: seek over what follows the data.                                 *)
(* Of the bytes the reader took since prev_in, the end marker if it was    *)
(* read by this call, none are added to bytes_processed_since_last_strip.  *)
EndBlock ==
  /\ pc = "read" /\ bytes_read = 0 /\ reader = "ended"
  /\ reader' = "none" /\ count' = 0
  /\ offset' = offset + to_skip
  /\ want' = BlockEnd(Block)
  /\ initial_offset' = initial_offset + count + to_skip
  /\ bytes_processed_since_last_strip' =
        bytes_processed_since_last_strip + to_skip
  /\ current_record_idx' = current_record_idx + 1
  /\ pc' = "loop"
  /\ UNCHANGED <<args, base, current_uncompressed, limit, chunk,
                 uncompressed_size, call>>
-----------------------------------------------------------------------------
(* The program reads another byte of the file than the one it means to.    *)
Misread ==
  /\ ~Placed
  /\ \/ pc = "loop" /\ reader = "none" /\ ~NoRecordLeft
     \/ NeedsHeader
     \/ Decoding /\ uncompressed_size > 0 /\ AtChunk.stored
  /\ pc' = "misread"
  /\ UNCHANGED <<args, file, books, lzma2, call>>

(* A system call fails or the data are damaged: the error goes up to main, *)
(* which exits.  What a failed strip leaves behind is StripContract's.     *)
Fail ==
  /\ pc \in Running
  /\ pc' = "failed"
  /\ UNCHANGED <<args, file, books, lzma2, call>>

Progress ==
  \/ ReturnEof \/ SetupNextBlock \/ ResumeBlock
  \/ DecodeChunkHeader \/ DecodeEndMarker \/ CopyOut \/ Account
  \/ Strip \/ EndBlock \/ Misread

Next == (\E n \in ReadSizes : Call(n)) \/ Progress \/ Fail

Spec == Init /\ [][Next]_vars

(* The one thread of the program runs on inside a call; nothing obliges    *)
(* the TAR parser to call again.                                           *)
FairSpec == Spec /\ WF_vars(Progress)
-----------------------------------------------------------------------------
TypeOK ==
  /\ IsArchive(archive) /\ strip_threshold \in Nat /\ mode \in Modes
  /\ base \in Nat /\ offset \in Nat /\ want \in Nat
  /\ pc \in Resting \cup Running \cup Finished
  /\ current_record_idx \in 0 .. Records
  /\ current_uncompressed \in Nat /\ initial_offset \in Nat
  /\ bytes_processed_since_last_strip \in Nat
  /\ reader \in {"none", "open", "ended"}
  /\ limit \in Nat /\ count \in Nat /\ uncompressed_size \in Nat
  /\ reader # "none" => /\ current_record_idx < Records
                   /\ chunk \in 0 .. Len(Block.chunks)
  /\ buf_len \in Nat /\ bytes_read \in 0 .. buf_len
  /\ prev_in \in Nat /\ (pc = "read" => reader # "none" /\ prev_in <= count)

(* Stripping destroys nothing that is still to be decoded, and the file    *)
(* never starts behind the place the decoder has come to.                  *)
UnreadNeverStripped == base <= want

(* How far the handle is in front of the byte that is wanted.              *)
Behind == want - (base + offset)

(* The reader reads the byte it means to as long as nothing is cut off, in *)
(* a dry run, and in an archive with one block: no end of a block, with    *)
(* its skip over check and padding, displaces it.  A strip that comes      *)
(* after a block's end may, but only towards the front, and all strips     *)
(* together by no more than a byte, its end marker, for each such block.   *)
PlaceKept ==
  /\ DryRun \/ Records = 1 \/ base = 0 => Placed
  /\ Behind \in 0 .. current_record_idx

(* initial_offset and the reader's count say where the handle is, across   *)
(* strips and block ends.  (A dry run resets both and keeps the handle.)   *)
OffsetTracked == ~DryRun => offset = initial_offset + count

(* How far bytes_processed_since_last_strip lags behind them: by what the  *)
(* running call has taken, and by the end markers never accounted for.     *)
Lag == initial_offset + count - bytes_processed_since_last_strip
       - IF pc = "read" THEN consumed_in ELSE 0

(* The bytes counted as processed are never too many, and too few by no    *)
(* more than one for each block that has ended.                            *)
LagBounded == pc \notin Finished => Lag \in 0 .. current_record_idx

(* initial_offset and total_in() always give the handle's offset, the      *)
(* count of processed bytes lacks at most the end markers of the blocks    *)
(* that have ended, and so the handle stands on the wanted byte or no more *)
(* than so many bytes in front of it.                                      *)
BooksAgree == PlaceKept /\ OffsetTracked /\ LagBounded

(* The Take always lets the rest of the block's LZMA2 stream through, also *)
(* when it has been moved to a new handle by a strip in mid-block.         *)
LimitCoversBlock ==
  reader = "open" =>
    limit >= Block.start + MarkerAt(archive, Block) + 1 - want

(* Ok(0) is returned only when all the records promise has been returned.  *)
DeliveredAll ==
  pc = "eof" => current_uncompressed = Total(archive)

(* When a call returns data, less than strip_threshold consumed bytes are  *)
(* left in the file, but for one for each block that has ended.            *)
SpaceReclaimed ==
  pc = "idle" /\ current_uncompressed > 0 /\ ~DryRun =>
    \/ offset <= current_record_idx
    \/ offset < strip_threshold + current_record_idx

(* Every call returns, or ends the program.                                *)
CallReturns == pc \in Running ~> pc \in Resting \cup Finished

(* README.md on the truncation: the remaining compressed data is shifted   *)
(* to the beginning of the file, so that the file then starts with the     *)
(* next byte to be decoded.                                                *)
RemainingAtFront ==
  [][pc = "strip" /\ pc' = "idle" /\ ~DryRun => base' = want']_vars

(* README.md on the headers: they are removed from the beginning of the    *)
(* file before the decompression starts.                                   *)
HeadersStrippedFirst ==
  chunk > 0 /\ ~DryRun => base >= StreamHeaderSize + archive.blocks[1].header
=============================================================================
