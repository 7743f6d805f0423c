# itarxz in TLA+

Specifications, model checks and proofs for `itarxz` (the Rust program in
`src/`): a tool that extracts a `.tar.xz` archive while it cuts the part it has
already consumed off the front of the input file, so that archive and contents
never need the disk space of both. What it does cannot be undone, so what
matters is that no byte is destroyed before it has been used, that the bytes
which come out are the bytes that went in, and that `Ok` is only said when
everything was written, because `main` then removes the archive.

All paths below are relative to the repository (`src/main.rs` is listed as
`src/src/main.rs` in `PROJECT.json`).

## 1. The system

One thread, one process; the layers call each other as `Read`ers:

```
main ── TarParser ──read──> StrippingReader ──read──> Lzma2Reader ── LzmaDecoder ── RangeDecoder
                                 │      │                               │
              strip_file_prefix <┘      └─> xz_parser (block header)    └─> LzDecoder (window)
                                                    (footer, index: by main, before)
```

| component | state | operations | modelled in |
|---|---|---|---|
| `strip_file_prefix` (main.rs:12-55) | a file, two handles, two user-space buffers | one call: copy, flush, set_len, sync | `StripFilePrefix`, contract `StripContract` |
| `StrippingReader` (main.rs:185-318) | handle, record index, `initial_offset`, `bytes_processed_since_last_strip`, the current `Lzma2Reader`, its `Take` and its count | `setup_next_block`, `read` | `StrippingReader` |
| `xz_parser`, `types` | none: functions over header, footer, index | `parse_stream_footer`, `parse_index`, `parse_block_header`, multibyte integers | `XzParser`; check sizes and padding also in `StrippingReader` |
| `Lzma2Reader` (lzma2_reader.rs) | what the next chunk must reset, the current chunk, the decoder, whether the end was seen | `decode_chunk_header`, `read` | `Lzma2Reader` |
| `LzmaDecoder`, `state.rs`, tables of `mod.rs` | coder state, last four distances, which probabilities belong to what | `decode`, `reset` | the bits of a symbol in `LzmaDecoder`, abstract `LzmaSymbols`; the loop of `decode` in `Lzma2Reader` |
| `LzDecoder` (lz_decoder.rs) | cyclic buffer, `start`, `pos`, `full`, `limit`, the pending match | `reset`, `set_limit`, `put_byte`, `repeat`, `repeat_pending`, `copy_uncompressed`, `flush` | `LzDecoder`, abstract `Lz77` |
| `RangeDecoder` | range, code, input buffer, the probabilities it moves | `prepare`, `decode_bit`, `decode_direct_bits`, `normalize`, `is_finished` | `RangeDecoder`, abstract `RangeEncoder` |
| `TarParser` (tar_parser.rs) | the stream's position, the long name kept for the next entry | `untar` | `TarParser` |
| `main` | arguments, the input file's life | parse arguments, run, remove the archive | `Extraction`, over several starts |
| `decompressor.rs` | none | `decompress_lzma2`, called by nothing | not modelled |

### What is hard here

There is no concurrency inside the program. What is hard is

* **failure between two steps**: a strip overwrites the file it reads from.
  An I/O error, a kill or a power failure can come between any two system calls,
  and the bytes are then in user space, in the old place, in the new, or in two;
* **a second start** on what a run that ended early has left of the file: footer
  and index are still there, the beginning is not;
* **several books about one place**: the handle's offset, `initial_offset`,
  the reader's `total_in`, `bytes_processed_since_last_strip` and the limit of
  the `Take` all say something about where the reader is, are changed at
  different moments (a read, a block's end, a strip in mid-block), and the strip
  destroys data on the strength of one of them;
* **partial operations**: every read has a length the caller chose, so chunks,
  matches and TAR blocks are cut anywhere and have to go on where they stopped;
* **boundaries**: the window's end, sizes that are multiples of 4 or 512, and
  the end of the stream in the middle of something;
* **words that wrap on purpose**: the range coder works with wrapping
  subtractions and sign bits, which are right only while code, range and
  probabilities stay inside bounds that nothing checks;
* **loops which have to end** over inputs that produce no data.

The list of hazards, each with its line and the properties that cover it, is
`hazards` in `PROJECT.json`.

## 2. The modules

### `StripContract`, `StripFilePrefix`

`StripFilePrefix` follows the function system call by system call, at the grain
of one byte: `OpenHandles`, `Fill` (io::copy reads), `Drain` (the `BufWriter`
writes), `EndCopy`, `Flush`, `SetLen`, `Sync`; `Fail` is an error of any of them,
after which the drop of the `BufWriter` may still write (`unwind`); `Kill` and
`PowerLoss` may come at any moment. A byte is named by its first offset, so the
state says where each byte has gone. After a power failure every offset written
since the last sync may hold its old or its new byte, and the size may be the
old or the new one. `StripContract` is what the caller believes: the call does
nothing visible until it ends, then it has succeeded (prefix gone), been
abandoned with every byte of the rest still in the file, or lost power. The
mapping is one `INSTANCE`: while the call runs the caller's picture is the old file.

### `StrippingReader`

Positions only, no byte values. `base` is how much has been cut off, so a handle
at `offset` reads logical byte `base + offset`; `want` is the one the decoder
needs. If they differ when the program reads, the behaviour ends in `misread`,
since from there on the model cannot know what the decoder makes of the bytes.
An archive is a record of blocks with headers, declared or undeclared compressed
size, chunks (stored chunks are read from the file as they are handed out, LZMA
chunks are read whole by `RangeDecoder::prepare`), end marker, check and padding.
Every branch of `read` is an action: `SetupNextBlock`, `ResumeBlock`,
`DecodeChunkHeader`, `DecodeEndMarker`, `CopyOut`, `Account` (data came: count,
and strip when the threshold is reached), `Strip`, `EndBlock`, `ReturnEof`; `Fail`
stands for any `?`. `--dry-run` is a value of `mode`. A strip is one step,
as `StripFilePrefix` was shown to be to its caller.

### `Lz77`, `LzDecoder`

`LzDecoder` is the cyclic buffer with its indices as they are in the code;
`repeat` is cut into its first, wrapped part (`BeginRepeat`) and the rounds of
its copy loop (`CopyRun`). `pc` keeps the calls in the order in which
`Lzma2Reader::read` and `LzmaDecoder::decode` make them. `history`, `fresh` and
`delivered` are no variables of the code: they record what the buffer has ever
held, where the last reset was, and what was handed out. The buffer's size is
`get_dict_size` of the one asked for: rounded up to the alignment, unless it is
too near `MaxU32`. `Lz77` is the same
dictionary with no buffer at all, just the sequence of all bytes decoded;
`ImplementsDictionary` says that the window implements it.

### `Lzma2Reader`

Extends `LzDecoder` with the chunk machinery: `decode_chunk_header` over all
control bytes (and over the resets they ask for or forget), the two kinds of
chunk, the decoder that may or may not exist, its last distances,
and `read` as a loop over rounds of set-limit, decode, flush. An error ends the
behaviour, as nobody calls `read` again after one. How bits encode symbols is
left open here (`LzmaDecoder` and `RangeDecoder` say it): `decode` finds any
literal, match, or repeated match that the code could accept, and `is_finished`
may answer either way.

### `RangeEncoder`, `RangeDecoder`

`RangeDecoder` is the decoder over a buffer, word by word and with the wrapping
arithmetic of the code: the radix, the total of a probability and the speed at
which it moves are constants, so that the same definitions run at a small width
and are proved at all. A chunk stands at the end of the buffer, behind the
bytes of earlier chunks, and reading past the end gives 1s as in the code.
`RangeEncoder` is the coder that wrote the bits: an interval and its division,
nothing else. `low`, `stray` and `message` are no variables of the code: where the
encoder's interval begins, whether the bytes lie in what it rounded away, and
the chunk itself. The mapping makes the shift early, as an encoder does.

### `LzmaSymbols`, `LzmaDecoder`

`LzmaDecoder` goes from bits to symbols, one symbol a step: the coder state, the
last four distances (i32, with their sign), the trees for lengths, slots,
distances and literals. `cells` names for each bit the table entry whose probability
it was decoded with. The loops of the code over bits (a tree from the top, one in
reverse, a literal beside its match byte) are functions of how many bits have been
taken, so that they can be reasoned about. `LzmaSymbols` is the format from the encoder's side: the bits
that stand for a literal, a match, a repeated match. `ImplementsFormat` says that
what is decoded is what those bits mean, and that both remember the same.

### `XzParser`

Footer, index and block header, with multibyte integers, u32 and u64 of given
widths, in a build that checks for overflow and in one that does not. A word is
the set of its bits, so `|` is a union and what a shift moves out of the word is
lost. The records, and the filters of a header, are parsed one a step. A file is any
bytes at all; of one that a compressor has written (`intact`) `IsFile` knows what
was meant and where it stands, as the format has it and not as the parser finds it:
`Spelt` (a number from place a to place b), `IndexWritten`, `HeaderWritten`. A
checksum is right or wrong.

### `Extraction`

The composition: an archive goes through `main`, `StrippingReader` and
`TarParser`, at the grain of a unit, which is one TAR block in one LZMA chunk. Any
run may be stopped, or may fail, at any step but the last run, and another
start finds the file as it was left. `base` is what is cut off, `written` what is on
disk; both outlive a run, everything else does not. Positions, counts and record
numbers are those of `StrippingReader`, the member being written and what it
lacks those of `TarParser`. `Gone` is what is cut off and was never written; it
leaves out the units that begin in the twelve bytes before a block (`PassedOver`),
which a start may take for the stream's header (section 6). Power failures are not part of it (`StripFilePrefix` has them).

### `TarParser`

The loop of `untar` in both modes over a list of entries: headers, bodies read
in pieces or skipped by `io::copy` (which does not report an early end), padding,
long names, PAX names, the two zero blocks. The stream may be cut short anywhere.
What a header's bytes say (`parse_name`, `parse_octal`, the checksum) is
abstracted to the record of an entry.

## 3. The runs

| run | instance | what it shows |
|---|---|---|
| `strip_file_prefix` | files of up to 6 bytes, all lengths 0..7, up to 3 bytes in user space | no byte behind the prefix is ever missing while there is power; Ok means durable; the call ends; the contract is implemented |
| `stripping_reader` | archives of one to three blocks (LZMA, stored and empty, with and without declared size, checks of 0 and 8 bytes), thresholds 0, 14, 30, 45 and 1000, buffers of 1, 2, 3 and 5 | no unread byte is stripped; the books agree (the handle's offset always known; the count never ahead and at most a byte for each ended block behind; the place exact with one block, in a dry run and before the first strip, otherwise at most a byte for each ended block in front of the wanted byte); the `Take` is never short; everything promised is delivered before Ok(0); space is reclaimed; calls return |
| `front_of_file`, `headers_first`, `second_start` | two-block archives | the three findings of section 6 |
| `lz_decoder` | buffer of 4 bytes (asked for 3, aligned to 2), two byte values, distances 0..4, lengths up to 5, 7 bytes of output | the window equals the history across wraps, overlaps, cut matches and resets; position states agree, with a size that is rounded up; implements `Lz77` |
| `lzma2_reader` | a buffer of 3 bytes, a size too near the largest u32 (here 3) to be rounded up, one byte value, chunks of 1, 2 and 4 bytes, buffers of 1, 3 and 5, all eight kinds of control byte | no use of a missing decoder, no read of stale window bytes, no chunk runs into the next, a short read means the end, every read returns |
| `range_decoder` | digits of 2 bits (words of 4 digits), probabilities out of 8, two of them, moved by a quarter; chunks of up to 2 bytes behind the first 5, five bits of a chunk | no probability reaches an end; code below range, one shift is enough; the code is the distance to the encoder's interval; a chunk is accepted just if no byte is missing or left and its last word is the encoder's, and then all its bytes are the encoder's but for stray chunks (section 6); implements `RangeEncoder` |
| `lzma_decoder` | words of 8 bits, 16 slots, the widths of the code for the rest; every single symbol (`EverySymbol`), and rows of five (`LongHistory`) | no index leaves its table; the state names the history; the match byte counts up to the first difference; implements `LzmaSymbols` |
| `xz_parser` | groups of 3 bits, words of 10 and of 8; written files with numbers of one to four bytes, checks of 0 and 8, up to two filters before LZMA2, an id of two bytes; and files with a checksum, the footer or a byte of index or header changed | every number is found where and as it was written; nothing wraps or panics over a written file; over changed ones numbers keep their widths and no slice begins behind its end |
| `tar_parser` | up to three members with what GNU tar and PAX writers put before them, blocks of 2 and a copy buffer of 4 bytes, the stream cut at every length, both modes | framing, pairing of names, Ok only after everything was written, truncation reported, termination |
| `extraction` | one to three blocks with zeros, data, headers and the end at block borders, an archive without an end, thresholds that cut often and never, names good, refused and too short, three starts with a stop at any step | a run that found the file whole removes it only when all is on disk; a run costs at most the unit it had in hand, units passed over apart; the last run on a whole file comes to the removal |

The bounds, and why they are enough: *files* need a prefix shorter than, equal to
and longer than the rest, and a buffer which is sometimes full: 6 bytes and 3 in
flight give all of them. *Archives* need a strip in the first block, at its end,
and after it, a block with no data, a stored chunk cut by a read, and an unpadded
size that is and is not a multiple of four; the index sizes only change
constants. *The window* needs two wraps, a match that overlaps itself, one that
straddles the end, and one cut by a limit: a buffer of 4 and 7 bytes of output.
Two byte values tell any two positions apart in some behaviour. *Words* of 8 bits
for the range coder still need shifts in the middle of a chunk, at its end and
never, rounding in both kinds of bit, and a chunk behind a longer one; five bits
give all of them. *Symbols*: each table is walked alone, over a selection: the lengths, slots,
literals and property bytes at the borders where the code takes another branch or
another table (`LzmaDecoder_proofs` is about all of them); the memory of four
symbols is walked by rows of five.
*Multibyte integers* of 10 bits in groups of 3 have a last byte with one bit, as 64 in
groups of 7 have. *TAR blocks* are scaled down, keeping sizes of zero, below, at,
and above one block. *Starts*: a first run that cuts, a second that begins in
the middle, and a third that neither of them has prepared.

Several properties are conjunctions of named parts, each with its own comment in
the module: `BooksAgree`, `WindowExact`, `InOrder`, `InBounds`, `ContextRight`,
`DecoderReady`, `ChunksApart`, `InRange`, `InTables`, `NumbersExact`.

`MaxOutput` stops `LzDecoder` from starting a round that could exceed it, and
so does its counterpart in `Lzma2Reader`; `MaxBits` bounds the bits of a chunk,
`symbols` in `Settings` those decoded, `MaxRuns` the starts, and `MaxRecords` is how
many records find memory. Nothing else bounds a behaviour.
`CHECK_DEADLOCK FALSE` is given where the system really stops: after the call,
after the end of the archive, at the bound.

**Fairness.** The liveness properties (`Terminates`, `CallReturns`,
`ReadReturns`, `WholeArchiveDone`) assume weak fairness of the program's own steps:
it is one thread on regular files, so a step that can be made is made. Nothing is
assumed of the caller, of failures, of who starts the program, or about which
symbols come.

Every property has a mutant in `PROJECT.json`: a definition next to the one it
replaces, marked "Fault:", for which TLC finds the property violated.

## 4. The proofs

Checked by TLAPS, for every value of the constants under their named assumptions:

* `StripFilePrefix_proofs`: `TypeCorrect`, `NothingLost` (`UnconsumedSurvives`),
  `OkCorrect` (`OkMeansStripped`), `Durable` (`OkIsDurable`) and `ContractKept`, the
  refinement of `StripContract`. The invariant says where each byte is. While
  copying, `rpos = length + wpos + Len(buf)`, the file holds byte `p + length` at
  every `p < wpos` and byte `p` at every `p >= wpos`, and `buf` holds the bytes
  from `length + wpos` on: the writer never reaches what has not been read.
  `UnconsumedSurvives` alone is not inductive: it does not know that what `Drain`
  overwrites has a copy farther down.
* `StrippingReader_proofs`: `TypeCorrect`, `NothingLost` (`UnreadNeverStripped`),
  `PlaceIsKept` (`PlaceKept`), `OffsetKnown` (`OffsetTracked`),
  `LagIsBounded` (`LagBounded`), `LimitEnough` (`LimitCoversBlock`), for every
  archive, threshold and read size. The invariant adds to the properties
  where `want` is inside the block for each state of the reader
  (`PositionInv`), how `base + offset` relates to `want` (`PlaceInv`), and what
  holds while a call runs (`CallInv`). The safety of a strip rests on
  `LagBounded`: the count never runs ahead of the handle. `PlaceIsKept` needs more than that
  (`DebtInv`): how far the handle stands in front of the wanted byte and how far
  the count lags are together no more than the blocks that have ended, since a
  block's end adds its marker to the lag and a strip moves the lag into the place;
  neither bound is inductive without the other. `BooksKept` puts place, offset and
  lag together. `SpaceIsReclaimed` and `AllIsDelivered` add how much is
  left of a block and how much has been handed out: an archive records at each
  chunk and block how many bytes come before it, which turns the sum over all
  blocks into one equation that a step keeps.
* `Lzma2Reader_proofs`, first part, of `LzDecoder` alone (`LzSpec`): every safety
  property of the window, for every buffer size, distance and length
  (`WindowIsHistory`, `RefusalIsExact`, `OutputInOrder`, `CopiesInBounds`, `FlushesFit`, `OwedComesFirst`, `ContextIsFresh`,
  `PositionIsKept`, `PositionStatesAgree`), put together as the run has them (`WindowIsExact`,
  `AllInOrder`, `AllInBounds`, `ContextIsRight`), and `WindowImplements`, the
  refinement of `Lz77`. The invariant `LzInv` has a part
  for the bounds of the indices in each state, for what `full` counts, for the ring
  (which index holds which byte of the history), for what has been handed out,
  for the match that is owed, and for the registers of the copy loop. The last
  is the hard one: a round of `CopyRun` copies from `back`, which stays where it
  is while `pos` moves on, so a match longer than its distance is copied in
  doubling runs; each run is right because what has been copied so far repeats
  with period `dist + 1`. `WindowHolds` alone is not inductive: it does not know
  what a half-done copy still has to bring. `PositionIsKept` says of every
  size that the position in the output and the one in the buffer are whole buffers
  apart. `PositionStatesAgree` follows from it for sizes that `get_dict_size`
  rounds up, whose buffer the alignment divides (`SizeAligned`), and for the
  largest, which are not, only until the buffer wraps (`BeforeWrap`); section 6
  says what comes after.
* `Lzma2Reader_proofs`, second part: `ReaderUsesWindow` (`Spec => LzSpec`): the reader asks of
  the window only what `LzDecoder` allows its user, so all of the above holds
  for every stream of chunks; then `DecoderIsThere`, `MatchByteReachable`,
  `FlushesWithinChunk`, `ChunksAreSeparate`, `ShortReadsEnd`, and of the first ones
  together `DecoderIsReady` and `ChunksAreApart`. Its invariant
  adds to that of the window what a round belongs to (`RoundInv`), when a
  decoder exists and its first distance fits (`PropsInv`), and that a chunk with
  nothing left is complete (`SeparateInv`).

* `RangeDecoder_proofs`: `ProbsStayInside`, `StaysInRange` and
  `DecoderFollowsEncoder`, for every radix, total and speed that fit each other as
  those of the code do (`WidthAssumption`). The invariant keeps a probability at
  least `Move - 1` from both ends, from which an interval that was at least `Top`
  is at least `Radix * Radix` after a bit, so that one shift widens it again, the
  code stays below the range, and a wrapped difference has the sign it seems to have.
  The work is in lemmas about division: what the one subtraction in `moved`
  comes to for a 0 and for a 1, with the truncation to u16.
  `CodeStaysOffset` (`CodeIsOffset`) and `AcceptsTheEncodersBytes`
  (`AcceptanceExact`) go on from there: a chunk is accepted just if no byte is
  missing or left and its last word is the encoder's (`LastWordFlushed`), and
  then, unless it is stray, all its bytes are. What is used is that the
  number of the digits read is `low + code`, up to the words a shift has dropped, and nothing is dropped unless
  the bytes lie in what the encoder rounded away (`OInv`, `OffsetInvariance`).
  `Value`, a recursive function, is opened one digit at a time; that two numbers
  are equal only if their digits are is shown by the least place where they differ.
* `LzmaDecoder_proofs`: `StateIsHistory` (`StateNamesHistory`) and `StateHasRow`: the
  number of a state is what its name in state.rs says of the last symbols, after any
  row of symbols and resets. The last three kinds determine where each of the four
  updates leads; all twelve states are gone through. `StaysInTables` (`InTables`):
  a tree walked for n bits ends below 2^n, a slot's distance below 2^32, and the
  cell of every bit taken so far is in its table (`TypeInv` with `HistoryInv`).
  `MatchByteSteers` (`MatchByteCounts`): the tree of a bit is chosen by the match
  byte just if all bits before were its own. `DecoderFollowsFormat`
  (`ImplementsFormat`), the refinement of `LzmaSymbols`: the bits a symbol was
  decoded from are those that the format has for it. Its core is that a walk
  through a tree undoes the spelling of a number, in both orders (`TreeBits`,
  `ReverseBits`), and that a length, or a distance, takes exactly one slot of
  its table. Powers of two are counted as subsets (`PowerStep`, `PowerAdd`), and
  the loops are recursive functions whose existence (`RoundsExist`) and values are
  shown by the least round that would be wrong.
* `TarParser_proofs`: `TypeCorrect`, `HeadersInPlace` (`FramingKept`), `NamesMeet`
  (`NamesPaired`), `OkIsComplete` (`OkMeansExtracted`), `ShortStreamsFail`
  (`CutShortFails`), for every archive, block size, buffer size and cut. The
  invariant has the position in each part of the loop (`Position`), who the kept
  name belongs to (`Naming`), and what is written so far (`Writing`). That no place
  is taken for another's rests on the places growing along the archive
  (`PlacesGrow`, by the least counterexample), and that the padding in the code
  fills the blocks of the format on Euclid's division (`PaddingFills`).
* `XzParser_proofs`: `TypeCorrect` (`TypeOK`) for files of any content, `WrittenIsParsed`
  (`IntactParsed`) and `NumbersAreExact` (`NumbersExact`) for written ones, of
  every width, in both builds. The core is that reading undoes writing
  (`ReadsBack`): the k-th byte of a number sets the bits of its group and no others,
  so a bit of the word is set just if it is one of the number (`SpeltBits`), and
  a word is the sum of its bits (`OfBitsBack`). No byte of a written number is
  shifted by the width or more, since its group would be zero (`SpeltEnds`). `IntactInv` adds to the properties how far the
  parser has come: which records it has and that it stands where the next begins
  (`IndexRead`), and the same for filters (`FiltersRead`).
* `Extraction_proofs`: `TypeCorrect` and `RemovalIsComplete` (`CompleteWhenWhole`), for
  every archive, threshold and number of starts. The invariant says of a run that
  began with the whole file that its record number is that of its block, that what
  it lacks is what the archive owes there, and that all data behind it are on
  disk in members which no header to come will truncate (`WholeRun`). The step
  at a block's end needs that check and padding lead to the next block and to no
  other (`NextBlock`, `BlocksGrow`). `OneUnitIsLost` (`OneUnitPerRun`) holds of
  every run, whole file or not: a running process has written all it has passed
  since where it began but for the unit in hand, and has never cut farther than
  that unit (`LittleLost`), so a start finds at most one unit a run gone
  (`LossInv`). Units that begin in the twelve bytes before a block are not counted:
  a start may pass over them, and they are then lost besides (section 6). `OneUnitPerRun` alone is not inductive: it does not know that
  what is cut next has been written.

The assumptions are those of the modules: sets of sizes and lengths are sets of
positive numbers, distances natural numbers that include 0, the size asked for is positive and
at most `MaxU32` (`SizesAssumption`; how it is rounded, or not, is `get_dict_size`), bounds are natural numbers,
the widths of the LZMA tables fit each other as lzma_decoder.rs has them
(`WidthsAssumption`), inputs are bits and bytes bytes (`SettingsAssumption`), and
archives are archives (`IsArchive`): each part is where the ones before it end.
In three modules their parts carry the place, or the sum, that follows from the
parts before; the assumption pins it, and the MC modules compute it.

`FilesAssumption` says of files only what `IsFile` says, and of the widths that they
hold what the format puts in them (the largest dictionary fits a u32).
`IndexWritten` takes an index to be shorter than half a u32's range, so the `as u32`
at xz_parser.rs:63, which would cut a backward size of 4 GiB or more, is out of
reach of what is shown about written files.

Only model-checked: liveness (`Terminates` twice, `CallReturns`, `ReadReturns`,
`WholeArchiveDone`), which is outside the prover's reach. Every safety property
of a run has a theorem.

## 5. What is left out

* `parse_octal`, `parse_name` and the base-256 sizes of TAR headers, `parse_size` of
  the command line: text to numbers, without state. A TAR entry is the record of
  what its header says.
* CRCs and SHA are right or wrong; block checks are not looked at by the code.
* `ByteReader` but for the numbers it returns, `AutoFinisher`, `ByteWriter`, the
  range decoder over a stream and `parse_stream_header`: wrappers, or without a
  caller.
* The composition of the decoder with the range coder and with the window is by
  interfaces (which bits, which symbols, which bytes), each side open to all that
  the other can do; it is not one big module.
* `new` with a preset dictionary and `decompressor.rs`: no caller.
* Wording of messages, progress output, permissions and times of files.
* In `Extraction`: runs with `--dry-run`, which remove nothing (main.rs:174-180;
  `StrippingReader` and `TarParser` have both modes), power failures, a file changed by somebody else between two
  starts, several units in one chunk, and two members with one name.

## 6. What the models say about the code

Three disagreements between code and README are runs that fail:

1. `front_of_file`: main.rs:310-311. At a block's end `initial_offset` grows by
   all the reader took, but `bytes_processed_since_last_strip` only by check and
   padding: the end marker, taken by the read that returned 0, is missing. The
   next strip removes one byte too few per ended block and reading goes on at
   offset 0, one byte early (README.md:18).
2. `headers_first`: the headers are not removed before decompression starts
   (README.md:16), but with the first strip.
3. `second_start`: main.rs:139. Every start seeks to 12, whatever a run before it
   has cut off. If a block happens to begin there (a cut in front of the last
   bytes of a block, which end marker, check and padding make 12), it is taken for
   the first, and zeros in it for the end: `untar` returns Ok and the archive is
   removed with members missing (README.md:20). `CompleteWhenWhole` says that a run
   on a whole file does not come to this, as long as it reads the bytes it means to.
   If a strip displaces it (finding 1), `Extraction` ends in `Misread`, and
   nothing is said of what the run decodes from there on.

Observations with no line of the repository to hold them against:

* The same seek costs a unit even where it goes well. If a block's last unit is
  so small that it begins in the twelve bytes before the next block (an LZMA chunk
  of at most eleven bytes, the end marker, and no check), a first run that
  cuts in front of it and is killed leaves those twelve bytes where the
  stream header was; the second start seeks over them and goes on with the next
  block, and the unit is in no file. The proof of `OneUnitPerRun` found this; the
  property leaves such units out (`PassedOver`) and the run has such an archive.
* parse_block_header (xz_parser.rs:170-176) takes the compressed size one too
  large, or with the check included; `LimitCoversBlock` shows it never hurts.
* strip_file_prefix returns Ok without stripping for a length out of range
  (main.rs:18), and its caller reopens at offset 0 all the same; a valid archive
  always leaves the index behind, so it does not happen.
* Block checks are never verified. A file of several streams is read by the
  index of its last one.
* main takes seven characters from a name of which it only knows that it ends in
  `.xz` (main.rs:109): a name shorter than that ends in a panic.
* Filters other than LZMA2 are passed over without a word (xz_parser.rs:209), and
  a header without LZMA2 gets a dictionary of 8 MiB. `HeaderExact` shows that such a
  chain does not throw the parser off.
* The arithmetic on sizes from footer and index (xz_parser.rs:84, types.rs:38) can
  overflow for files nobody writes; `IntactParsed` shows it does not for others.
* Distances are kept as i32 and widened with their sign (lzma_decoder.rs:76): one
  of 2^31 or more is refused.
* The comment at range_decoder.rs:259-263 expects reads behind the end of a chunk
  to end in "dist overflow". They need not; but a chunk that made one is never
  accepted, since `is_finished` compares positions (`AcceptanceExact`).
* A chunk can be accepted that no encoder writes. One that begins with 00 FF FF FF
  FF has a code as large as the range, and when an odd range is halved for a direct
  bit its last number belongs to neither half; nothing compares code and range,
  neither in `prepare` (range_decoder.rs:174) nor after, and `is_finished` looks
  only at the last word. These are the `stray` chunks, which `AcceptanceExact`
  leaves out where it speaks of all bytes.
* TarParser: `next_long_name` is taken by whatever header follows
  (tar_parser.rs:33), also by a long link name or a PAX header. Sizes in PAX
  headers are ignored. Links and other types are skipped, and the archive is
  removed afterwards.
* get_dict_size rounds a size up to a multiple of 16, but returns u32::MAX for the
  largest (lzma2_reader.rs:55-57), which is no multiple of it and above
  `DICT_SIZE_MAX` (mod.rs:77-78). A header may ask for that: the dictionary code 40
  stands for 4 GiB - 1 (xz_parser.rs:218-219). The position state is taken from the
  buffer's position, so when more than 4 GiB - 1 bytes have come since the last
  dictionary reset and the buffer has wrapped, it is off by one, and by one more
  with each wrap: the decoder then uses other probabilities than the encoder did.
  `PositionStateKept` therefore ends at the first wrap for such a size;
  `PositionKept` holds for all.

## 7. Plan

Done:

1. `StripContract`, `StripFilePrefix`; proofs with the refinement.
2. `StrippingReader`; proofs, `SpaceReclaimed` and `DeliveredAll` included.
3. `Lz77`, `LzDecoder`, then `Lzma2Reader` on top of it; proofs with the refinement.
4. `TarParser`; proofs.
5. `RangeEncoder`, `RangeDecoder`; proofs with the refinement, with the code as an
   offset and the acceptance of a chunk.
6. `LzmaSymbols`, `LzmaDecoder`; proofs with the refinement.
7. `XzParser`; proofs.
8. `Extraction`; proofs of `CompleteWhenWhole` and `OneUnitPerRun`.

Left:

1. Numbers in TAR headers (octal, base 256) and `parse_size`, against reference
   definitions.
