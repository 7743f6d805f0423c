------------------------------ MODULE XzParser ------------------------------
(***************************************************************************)
(* The integers and fields of an .xz file as src/xz_parser.rs and          *)
(* src/types.rs read them: main parses the stream footer, then the index   *)
(* in front of it, then StrippingReader a block header.  The file may be   *)
(* one a compressor has written or anything else.                          *)
(*                                                                         *)
(* A byte has a bit for `more follows' and GroupBits others (7 in the      *)
(* code), a u64 WordBits bits (64), a u32 HalfBits (32).  A checksum is    *)
(* only right or wrong.  Arithmetic that overflows ends the program in a   *)
(* build that checks it, and wraps in one that does not.                   *)
(***************************************************************************)
EXTENDS Integers, Sequences

CONSTANTS
  GroupBits, WordBits, HalfBits,
  MaxRecords,  \* how many records with_capacity finds memory for
  Lzma2,       \* the filter's id, 0x21
  MaxDict, DictShift,  \* 40 and 11: of the byte for a dictionary's size
  DefaultDict, \* 8 MiB
  Files        \* see IsFile

More  == 2 ^ GroupBits
Bytes == 0 .. 2 * More - 1
Word  == 2 ^ WordBits
Half  == 2 ^ HalfBits

(* n is written in data from place a up to place b, as the format writes   *)
(* it: lowest group first, no more of them than it needs.                  *)
Spelt(data, a, b, n) ==
  /\ n \in 0 .. Word - 1 /\ a \in 0 .. Len(data) - 1 /\ b \in a + 1 .. Len(data)
  /\ n < 2 ^ (GroupBits * (b - a))
  /\ b = a + 1 \/ n >= 2 ^ (GroupBits * (b - a - 1))
  /\ \A k \in 1 .. b - a :
        data[a + k] = ((n \div 2 ^ (GroupBits * (k - 1))) % More)
                        + (IF k < b - a THEN More ELSE 0)

(* The index of a file: an indicator, how many records, and two numbers    *)
(* for each of them, which begin at the places given.                      *)
IndexWritten(f) ==
  LET n == Len(f.records) IN
  /\ f.records \in Seq([unpadded_size : 0 .. Word - 1, uncompressed_size : 0 .. Word - 1])
  /\ n <= MaxRecords
  /\ Len(f.index) = (f.backward + 1) * 4 /\ Len(f.index) < Half
  /\ f.index[1] = 0 /\ Spelt(f.index, 1, f.starts[1], n)
  /\ \A r \in 1 .. n :
        /\ Spelt(f.index, f.starts[r], f.seconds[r], f.records[r].unpadded_size)
        /\ Spelt(f.index, f.seconds[r], f.starts[r + 1], f.records[r].uncompressed_size)

(* The header of the first block: its size, flags, up to two sizes, the    *)
(* filters.  The last is LZMA2 with a byte for the dictionary.             *)
HeaderWritten(f) ==
  LET body == SubSeq(f.header, 2, Len(f.header))
      n    == Len(f.filters)
      last == f.filters[n]
      packed == (body[1] \div (More \div 2)) % 2 = 1
      plain  == (body[1] \div More) % 2 = 1
  IN
  /\ Len(f.header) = (f.header[1] + 1) * 4 /\ f.block.block_total_size = Len(f.header)
  /\ n = (body[1] % 4) + 1
  /\ IF packed THEN /\ Spelt(body, 1, f.plain_at, f.block.compressed_size)
                    /\ f.block.compressed_size < Word - 1
     ELSE f.plain_at = 1
  /\ IF plain THEN /\ Spelt(body, f.plain_at, f.filters[1].at, f.block.uncompressed_size)
                   /\ f.block.uncompressed_size < Word - 1
     ELSE /\ f.filters[1].at = f.plain_at
          /\ f.block.uncompressed_size = f.records[1].uncompressed_size
  /\ f.records[1].unpadded_size = Len(f.header) + f.block.compressed_size + f.check
  /\ \A i \in 1 .. n :
        LET t == f.filters[i] IN
        /\ Spelt(body, t.at, t.size_at, t.id) /\ Spelt(body, t.size_at, t.props_at, t.size)
        /\ t.props_at + t.size <= Len(body)
        /\ i < n => t.id # Lzma2 /\ f.filters[i + 1].at = t.props_at + t.size
  /\ last.id = Lzma2 /\ last.size > 0 /\ body[last.props_at + 1] <= MaxDict
  /\ f.block.dict_size =
        LET d == body[last.props_at + 1] IN
        IF d = MaxDict THEN Half - 1 ELSE (2 + (d % 2)) * 2 ^ (d \div 2 + DictShift)

(* What stands before the index, the index, the footer's size of it, and   *)
(* the bytes of the first block's header; whether magic and checksums are  *)
(* right; whether a compressor wrote it so, and if so what it meant and    *)
(* where: the records, the block, the size of its check.                   *)
IsFile(f) ==
  /\ f.front \in Seq(Bytes) /\ f.index \in Seq(Bytes) /\ f.header \in Seq(Bytes)
  /\ Len(f.header) > 0 /\ f.backward \in 0 .. Half - 1
  /\ {f.magic, f.footer_crc, f.index_crc, f.header_crc, f.intact} \subseteq BOOLEAN
  /\ f.intact =>
       /\ f.magic /\ f.footer_crc /\ f.index_crc /\ f.header_crc
       /\ f.check \in Nat /\ f.block.compressed_size \in Nat
       /\ IndexWritten(f) /\ (f.records # <<>> => HeaderWritten(f))

(* 7, 64, 32, 40 and 11 in the code: the largest dictionary but for the    *)
(* last, which is an exception, fills the top of a u32.                    *)
ASSUME FilesAssumption ==
  /\ {GroupBits, WordBits, HalfBits, MaxRecords, MaxDict, DictShift} \subseteq Nat
  /\ GroupBits >= 1 /\ GroupBits + 3 <= WordBits /\ HalfBits <= WordBits
  /\ MaxDict % 2 = 0 /\ MaxDict \div 2 + DictShift < HalfBits
  /\ DefaultDict \in 0 .. Half - 1
  /\ \A f \in Files : IsFile(f)

VARIABLES
  file,
  checked,      \* whether the build checks for overflow
  pc,           \* "footer", "index", "records", "header", "filters", "done",
                \* or "failed", "panicked"
  backward_size, index_offset, index_data,
  pos,          \* in index_data, and then in the header's rest
  left,         \* records, or filters, still to parse
  records,
  block         \* what parse_block_header returns

vars == <<file, checked, pc, backward_size, index_offset, index_data, pos, left,
          records, block>>

None == [compressed_size |-> 0, uncompressed_size |-> 0, block_total_size |-> 0,
         dict_size |-> 0]

Init ==
  /\ file \in Files /\ checked \in BOOLEAN
  /\ pc = "footer"
  /\ backward_size = 0 /\ index_offset = 0 /\ index_data = <<>> /\ pos = 0
  /\ left = 0 /\ records = <<>> /\ block = None
-----------------------------------------------------------------------------
(* types.rs                                                                *)

(* The number that has the bits in B: to `or' two words is to unite them.  *)
of_bits(B) ==
  LET below[b \in 0 .. WordBits] ==
        IF b = 0 THEN 0 ELSE below[b - 1] + (IF b - 1 \in B THEN 2 ^ (b - 1) ELSE 0)
  IN  below[WordBits]

bit(n, b) == (n \div 2 ^ b) % 2 = 1

(* The bits that the k-th byte of an integer sets.  What is shifted out of *)
(* the word is lost, and a shift by its width or more, where it does not   *)
(* panic, is taken modulo the width.                                       *)
folded(byte, k) ==
  {b \in 0 .. WordBits - 1 : \E g \in 0 .. GroupBits - 1 :
     bit(byte, g) /\ b = ((GroupBits * (k - 1)) % WordBits) + g}

(* read_multibyte_integer from index i of data on: the value, the number   *)
(* of bytes, and how it ended.                                             *)
Multibyte(data, i) ==
  LET lasts == {k \in 1 .. Len(data) - i : data[i + k] < More}
      len   == IF lasts = {} THEN Len(data) - i
               ELSE CHOOSE k \in lasts : \A l \in lasts : k <= l
  IN  [value |-> of_bits(UNION {folded(data[i + k], k) : k \in 1 .. len}),
       len |-> len,
       end |-> IF checked /\ GroupBits * (len - 1) >= WordBits THEN "panic"
               ELSE IF lasts = {} THEN "error" ELSE "ok"]

Ends(s) == pc' = IF s.end = "panic" THEN "panicked" ELSE "failed"

(* a - b in a u64.                                                         *)
Overflows(a, b) == b > a
-----------------------------------------------------------------------------
(* parse_stream_footer; the sum is a u32's, and so is the result's cast.   *)
ParseFooter ==
  /\ pc = "footer"
  /\ backward_size' = (((file.backward + 1) % Half) * 4) % Half
  /\ pc' = IF ~file.magic \/ ~file.footer_crc THEN "failed"
           ELSE IF file.backward + 1 >= Half /\ checked THEN "panicked"
           ELSE "index"
  /\ UNCHANGED <<file, checked, index_offset, index_data, pos, left, records, block>>

Content == file.front \o file.index   \* the file but for its footer

(* parse_index up to the number of records; a wrapped offset cannot be     *)
(* sought to.                                                              *)
ReadIndex ==
  /\ pc = "index"
  /\ IF Overflows(Len(Content), backward_size)
     THEN /\ pc' = IF checked THEN "panicked" ELSE "failed"
          /\ UNCHANGED <<index_offset, index_data, pos, left>>
     ELSE /\ index_offset' = Len(Content) - backward_size
          /\ index_data' = SubSeq(Content, index_offset' + 1, Len(Content))
          /\ LET number == Multibyte(index_data', 1) IN
             IF backward_size < 2 \/ index_data'[1] # 0
             THEN pc' = "failed" /\ UNCHANGED <<pos, left>>
             ELSE IF number.end # "ok" THEN Ends(number) /\ UNCHANGED <<pos, left>>
             ELSE /\ pos' = number.len + 1
                  /\ left' = number.value
                  /\ pc' = IF number.value > MaxRecords THEN "panicked"
                           ELSE "records"
  /\ UNCHANGED <<file, checked, backward_size, records, block>>

(* Fault: the second size is read from where the first one was.            *)
second_at_first(first) == pos

second_at(first) == pos + first.len

ParseRecord ==
  /\ pc = "records" /\ left > 0
  /\ LET first  == Multibyte(index_data, pos)
         second == Multibyte(index_data, second_at(first))
     IN  IF first.end # "ok" THEN Ends(first) /\ UNCHANGED <<pos, left, records>>
         ELSE IF second.end # "ok" THEN Ends(second) /\ UNCHANGED <<pos, left, records>>
         ELSE /\ pos' = second_at(first) + second.len
              /\ left' = left - 1
              /\ records' = Append(records, [unpadded_size |-> first.value,
                                             uncompressed_size |-> second.value])
              /\ UNCHANGED pc
  /\ UNCHANGED <<file, checked, backward_size, index_offset, index_data, block>>

(* The checksum is the last thing parse_index looks at, and it looks at it *)
(* wherever the records have ended.  It is right only for the index itself.*)
CheckIndex ==
  /\ pc = "records" /\ left = 0
  /\ pc' = IF file.index_crc /\ index_data = file.index THEN "header" ELSE "failed"
  /\ UNCHANGED <<file, checked, backward_size, index_offset, index_data, pos, left,
                 records, block>>
-----------------------------------------------------------------------------
(* parse_block_header, with the first record.  `rest' is the header        *)
(* without its size byte; places in it are counted from 0.                 *)
block_total_size == (file.header[1] + 1) * 4

rest == SubSeq(file.header, 2, block_total_size)

Flags == rest[1]
compressed_size_present   == (Flags \div (More \div 2)) % 2 = 1   \* 0x40
uncompressed_size_present == (Flags \div More) % 2 = 1   \* 0x80
num_filters == (Flags % 4) + 1

(* A size, as the header states it, or what the index has told.            *)
Stated(present, at, otherwise) ==
  IF present
  THEN LET n == Multibyte(rest, at) IN
       [value |-> (n.value + 1) % Word, at |-> at + n.len,
        end |-> IF n.end = "ok" /\ n.value + 1 >= Word /\ checked THEN "panic"
                ELSE n.end]
  ELSE [value |-> otherwise % Word, at |-> at,
        end |-> IF otherwise < 0 /\ checked THEN "panic" ELSE "ok"]

(* Fault: the largest dictionary is refused.                               *)
dict_refused_early(d) == d >= MaxDict

dict_refused(d) == d > MaxDict

(* Fault: the largest dictionary is one byte too large for a u32.          *)
dict_size_whole(d) == (2 + (d % 2)) * 2 ^ (d \div 2 + DictShift)

dict_size(d) ==
  IF d = MaxDict THEN Half - 1
  ELSE ((2 + (d % 2)) * 2 ^ (d \div 2 + DictShift)) % Half

(* parse_block_header up to the filters.                                   *)
ParseHeader ==
  /\ pc = "header" /\ Len(records) > 0
  /\ LET record == records[1]
         packed == Stated(compressed_size_present, 1,
                          record.unpadded_size - block_total_size)
         plain  == Stated(uncompressed_size_present, packed.at,
                          record.uncompressed_size)
     IN  IF Len(file.header) < block_total_size \/ ~file.header_crc
         THEN pc' = "failed" /\ UNCHANGED <<pos, left, block>>
         ELSE IF packed.end # "ok" THEN Ends(packed) /\ UNCHANGED <<pos, left, block>>
         ELSE IF plain.end # "ok" THEN Ends(plain) /\ UNCHANGED <<pos, left, block>>
         ELSE /\ pc' = "filters" /\ pos' = plain.at /\ left' = num_filters
              /\ block' = [compressed_size |-> packed.value,
                           uncompressed_size |-> plain.value,
                           block_total_size |-> block_total_size,
                           dict_size |-> DefaultDict]
  /\ UNCHANGED <<file, checked, backward_size, index_offset, index_data, records>>

(* One round of the loop over the filters.  Those that are not LZMA2 are   *)
(* passed over.                                                            *)
ParseFilter ==
  /\ pc = "filters" /\ left > 0 /\ pos < Len(rest)
  /\ LET id    == Multibyte(rest, pos)
         size  == Multibyte(rest, pos + id.len)
         props == pos + id.len + size.len
         Stops(how) == pc' = how /\ UNCHANGED <<pos, left, block>>
     IN  IF id.end # "ok" THEN Ends(id) /\ UNCHANGED <<pos, left, block>>
         ELSE IF size.end # "ok" THEN Ends(size) /\ UNCHANGED <<pos, left, block>>
         ELSE IF props + size.value >= Word
              THEN Stops("panicked")   \* the sum, or else the slice
         ELSE IF props + size.value > Len(rest) THEN Stops("failed")
         ELSE IF id.value = Lzma2 /\ (size.value = 0 \/ dict_refused(rest[props + 1]))
              THEN Stops("failed")
         ELSE /\ pos' = props + size.value /\ left' = left - 1
              /\ block' = IF id.value # Lzma2 THEN block
                          ELSE [block EXCEPT !.dict_size = dict_size(rest[props + 1])]
              /\ UNCHANGED pc
  /\ UNCHANGED <<file, checked, backward_size, index_offset, index_data, records>>

(* After the last filter, or when there are no bytes left for one.         *)
EndHeader ==
  /\ pc = "filters" /\ (left = 0 \/ pos >= Len(rest))
  /\ pc' = "done"
  /\ UNCHANGED <<file, checked, backward_size, index_offset, index_data, pos, left,
                 records, block>>

(* No block: StrippingReader returns 0 at once.                            *)
NoBlock ==
  /\ pc = "header" /\ Len(records) = 0
  /\ pc' = "done"
  /\ UNCHANGED <<file, checked, backward_size, index_offset, index_data, pos, left,
                 records, block>>

Next == \/ ParseFooter \/ ReadIndex \/ ParseRecord \/ CheckIndex
        \/ ParseHeader \/ ParseFilter \/ EndHeader \/ NoBlock

Spec == Init /\ [][Next]_vars
-----------------------------------------------------------------------------
(* Numbers keep their widths, and no place is behind the end of what is    *)
(* read from there, where a slice would panic.                             *)
TypeOK ==
  /\ pc \in {"footer", "index", "records", "header", "filters", "done", "failed",
            "panicked"}
  /\ backward_size \in 0 .. Half - 1 /\ index_offset \in 0 .. Len(Content)
  /\ pos \in Nat /\ left \in 0 .. Word - 1
  /\ pc = "records" => pos <= Len(index_data)
  /\ pc = "filters" => pos <= Len(rest)
  /\ \A i \in 1 .. Len(records) :
        {records[i].unpadded_size, records[i].uncompressed_size} \subseteq 0 .. Word - 1
  /\ {block.compressed_size, block.uncompressed_size} \subseteq 0 .. Word - 1
  /\ block.dict_size \in 0 .. Half - 1

(* What a compressor has written is parsed to the end: no sum overflows,   *)
(* no size is too large, no filter before LZMA2 throws the parser off.     *)
IntactParsed == file.intact => pc \notin {"failed", "panicked"}

(* The index is found at its place, and every number in it is the one that *)
(* was written, whatever the number of its bytes.                          *)
IndexExact ==
  file.intact /\ pc \in {"header", "done"} =>
    index_offset = Len(file.front) /\ records = file.records

(* A header is as long as it says, and the dictionary as large as LZMA2's  *)
(* properties say, however many filters there are before it.  A size that  *)
(* the header states comes out one too large, for the format writes it as  *)
(* it is, and one from the index has the check in it, but none comes out   *)
(* too small: no block is cut short (LimitCoversBlock of StrippingReader   *)
(* needs no more).                                                         *)
HeaderExact ==
  file.intact /\ pc = "done" /\ records # <<>> =>
    /\ block.block_total_size = file.block.block_total_size
    /\ block.dict_size = file.block.dict_size
    /\ block.compressed_size - file.block.compressed_size \in {1, file.check}
    /\ block.uncompressed_size - file.block.uncompressed_size \in {0, 1}

(* The numbers of a written file, to the last bit of a word.               *)
NumbersExact == IndexExact /\ HeaderExact
=============================================================================
