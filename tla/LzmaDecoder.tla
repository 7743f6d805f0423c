----------------------------- MODULE LzmaDecoder -----------------------------
(***************************************************************************)
(* LzmaDecoder of src/minilzma/lzma_decoder.rs with its State (state.rs)   *)
(* and its tables (mod.rs): from bits to symbols.  The bits are arbitrary: *)
(* RangeDecoder says where they come from, LzDecoder what becomes of the   *)
(* symbols.  A symbol is one step; `cells` names, bit by bit, the table    *)
(* entry whose probability the bit was decoded with, as <<table, row,      *)
(* column>>.  Direct bits have none.                                       *)
(*                                                                         *)
(* The widths are those of the code but for the word of a distance, which  *)
(* has WordBits bits and 2 * WordBits slots instead of 32 and 64.          *)
(***************************************************************************)
EXTENDS Integers, Sequences, FiniteSets

CONSTANTS
  LitBits, LowBits, MidBits, HighBits, WordBits, SlotBits,
  DIST_MODEL_END, ALIGN_BITS,
  DictSize,     \* bytes of the dictionary
  Settings      \* bounds: what may come, in records of
                \*   inputs   the runs of bits, by their length
                \*   long     whether matches of more than the first tree
                \*   bytes, positions   found in the dictionary
                \*   fills    bytes in it when the decoder begins
                \*   props    property bytes
                \*   symbols  how many symbols are decoded

(* A byte is wide enough for lc, a distance for those that are their slot, *)
(* and the tables of borders for the slots that use them.                  *)
ASSUME WidthsAssumption ==
  /\ {LitBits, LowBits, MidBits, HighBits, WordBits, SlotBits, ALIGN_BITS} \subseteq Nat \ {0}
  /\ LitBits >= 4 /\ WordBits >= 3 /\ 2 ^ SlotBits = 2 * WordBits
  /\ DIST_MODEL_END \in 4 .. 14
  /\ DIST_MODEL_END % 2 = 0 /\ DIST_MODEL_END \div 2 - 1 >= ALIGN_BITS

ASSUME SettingsAssumption ==
  /\ DictSize \in Nat
  /\ \A s \in Settings :
        /\ s.inputs \subseteq Seq({0, 1}) /\ s.symbols \in Nat
        /\ s.bytes \subseteq 0 .. 2 ^ LitBits - 1 /\ s.positions \subseteq Nat
        /\ s.fills \subseteq 0 .. DictSize /\ s.props \subseteq Nat

VARIABLES
  setting,     \* one of Settings
  lc, lp, pb, state,
  reps,        \* i32
  full,        \* of LzDecoder
  status,      \* "ok", or "refused" after a distance overflow
  symbols,     \* decoded
  symbol, taken, cells, kinds   \* the last symbol, its bits and their cells,
                                \* the last four kinds: none is in the code

tables == <<setting, lc, lp, pb>>
seen   == <<symbol, taken, cells, kinds>>
vars   == <<tables, state, reps, full, status, symbols, seen>>

Word == 2 ^ WordBits
DIST_MODEL_START == 4
STATES == 12
LIT_STATES == 7
POS_STATES_MAX == 16
MATCH_LEN_MIN == 2
DIST_STATES == 4
DIST_SPECIAL_INDEX == <<0, 2, 4, 8, 12, 20, 28, 44, 60, 92>>
DIST_SPECIAL_END   == <<2, 4, 8, 12, 20, 28, 44, 60, 92, 124>>

Strings(k) == {s \in setting.inputs : Len(s) = k}

(* A number as an i32 holds it.                                            *)
Signed(n) == IF n % Word >= Word \div 2 THEN (n % Word) - Word ELSE n % Word

NoReps  == [i \in 0 .. 3 |-> 0]
NoKinds == [i \in 1 .. 4 |-> "literal"]
-----------------------------------------------------------------------------
(* state.rs                                                                *)

is_literal == state < LIT_STATES

(* Fault: a literal after a short rep counts as one after a literal.       *)
after_literal_early ==
  IF state <= 3 THEN 0 ELSE IF state < 9 THEN state - 3 ELSE state - 6

after_literal ==
  IF state <= 3 THEN 0 ELSE IF state <= 9 THEN state - 3 ELSE state - 6

after_match     == IF is_literal THEN 7 ELSE 10
after_long_rep  == IF is_literal THEN 8 ELSE 11
after_short_rep == IF is_literal THEN 9 ELSE 11
-----------------------------------------------------------------------------
(* Bit trees (range_decoder.rs)                                            *)

(* Where the loop stands in its tree after i bits.                         *)
place(bits, i) ==
  LET at[j \in 0 .. Len(bits)] == IF j = 0 THEN 1 ELSE 2 * at[j - 1] + bits[j]
  IN  at[i]

(* decode_bit_tree: the place in the end, less the size of the tree.       *)
tree(bits) == place(bits, Len(bits)) - 2 ^ Len(bits)

(* decode_reverse_bit_tree: the first bit is the lowest.                   *)
reverse(bits) ==
  LET sum[j \in 0 .. Len(bits)] ==
        IF j = 0 THEN 0 ELSE sum[j - 1] + bits[j] * 2 ^ (j - 1)
  IN  sum[Len(bits)]

(* The cells of a tree that begins at column `first` of a row.             *)
TreeCells(table, row, first, bits) ==
  [i \in 1 .. Len(bits) |-> <<table, row, first + place(bits, i - 1)>>]

PosState(pos) == pos % 2 ^ pb   \* pos & pos_mask
-----------------------------------------------------------------------------
(* LengthCoder::decode; `coder` is the match's or the rep's.               *)

LengthInputs ==
  {<<0>> \o s : s \in Strings(LowBits)} \cup
  IF setting.long THEN {<<1, 0>> \o s : s \in Strings(MidBits)} \cup
                       {<<1, 1>> \o s : s \in Strings(HighBits)}
  ELSE {}

Rest(bits) == IF bits[1] = 0 THEN Tail(bits) ELSE Tail(Tail(bits))

length(bits) ==
  tree(Rest(bits)) + MATCH_LEN_MIN
    + IF bits[1] = 0 THEN 0
      ELSE IF bits[2] = 0 THEN 2 ^ LowBits ELSE 2 ^ LowBits + 2 ^ MidBits

LengthCells(coder, bits, pos) ==
  IF bits[1] = 0
  THEN <<<<coder, <<"choice", 0>>, 0>>>>
         \o TreeCells(coder, <<"low", PosState(pos)>>, 0, Rest(bits))
  ELSE <<<<coder, <<"choice", 0>>, 0>>, <<coder, <<"choice", 0>>, 1>>>>
         \o TreeCells(coder, IF bits[2] = 0 THEN <<"mid", PosState(pos)>>
                             ELSE <<"high", 0>>, 0, Rest(bits))
-----------------------------------------------------------------------------
(* LiteralSubDecoder::decode                                               *)

get_sub_coder_index(prev_byte, pos) ==
  (prev_byte \div 2 ^ (LitBits - lc)) + ((pos % 2 ^ lp) * 2 ^ lc)

(* Fault: the match byte goes on counting after the bits have differed.    *)
offset_kept(offset, match_bit, bit) == offset

(* offset & (-bit ^ !match_bit), for words with at most the one bit set.   *)
offset_after(offset, match_bit, bit) ==
  IF bit = 1 THEN match_bit ELSE offset - match_bit

(* The loop after a match: which column of the row each bit is decoded     *)
(* with, while match_byte is shifted out at the top.                       *)
MatchedColumns(bits, match_byte) ==
  LET loop[i \in 0 .. Len(bits)] ==
        IF i = 0 THEN [match_byte |-> match_byte, offset |-> 2 ^ LitBits, column |-> 0]
        ELSE LET s         == loop[i - 1]
                 match_bit == (((2 * s.match_byte) \div 2 ^ LitBits) % 2) * s.offset
             IN  [match_byte |-> 2 * s.match_byte,
                  offset |-> offset_after(s.offset, match_bit, bits[i]),
                  column |-> s.offset + match_bit + place(bits, i - 1)]
  IN  [i \in 1 .. Len(bits) |-> loop[i].column]

LiteralCells(row, bits, match_byte) ==
  IF is_literal THEN TreeCells("literal", row, 0, bits)
  ELSE LET columns == MatchedColumns(bits, match_byte)
       IN  [i \in 1 .. Len(bits) |-> <<"literal", row, columns[i]>>]
-----------------------------------------------------------------------------
(* decode_match                                                            *)

(* Fault: the state of long matches is not cut off.                        *)
dist_state_open(len) == len - MATCH_LEN_MIN

(* coder_get_dict_size: which row of dist_slots.                           *)
dist_state(len) ==
  IF len < DIST_STATES + MATCH_LEN_MIN THEN len - MATCH_LEN_MIN ELSE DIST_STATES - 1

Limit(slot) == slot \div 2 - 1

RestBits(slot) == IF slot < DIST_MODEL_START THEN 0 ELSE Limit(slot)

(* The bits after the slot: reverse, or direct ones and the align tree.    *)
distance(slot, bits) ==
  LET base   == (2 + (slot % 2)) * 2 ^ Limit(slot)
      direct == Limit(slot) - ALIGN_BITS
  IN  IF slot < DIST_MODEL_START THEN slot
      ELSE IF slot < DIST_MODEL_END THEN Signed(base + reverse(bits))
      ELSE Signed(base + tree(SubSeq(bits, 1, direct)) * 2 ^ ALIGN_BITS
                       + reverse(SubSeq(bits, direct + 1, Limit(slot))))

DistanceCells(slot, bits) ==
  IF slot < DIST_MODEL_START THEN <<>>
  ELSE IF slot < DIST_MODEL_END
  THEN TreeCells("dist_special", 0,
                 DIST_SPECIAL_INDEX[slot - DIST_MODEL_START + 1], bits)
  ELSE TreeCells("dist_align", 0, 0,
                 SubSeq(bits, Limit(slot) - ALIGN_BITS + 1, Limit(slot)))
-----------------------------------------------------------------------------
(* LzmaDecoder                                                             *)

(* decode_props: lc, lp and pb from the byte; refused when the rows of the *)
(* literal coder would be too many.                                        *)
LcOf(props) == props % 9
LpOf(props) == (props \div 9) % 5
PbOf(props) == props \div 45

PropsFit(props) == props <= 224 /\ LcOf(props) + LpOf(props) <= 4

Init ==
  /\ setting \in Settings
  /\ \E props \in setting.props : /\ PropsFit(props)
                          /\ lc = LcOf(props) /\ lp = LpOf(props) /\ pb = PbOf(props)
  /\ state = 0 /\ reps = NoReps
  /\ full \in setting.fills /\ status = "ok" /\ symbols = 0
  /\ symbol = <<"none">> /\ taken = <<>> /\ cells = <<>> /\ kinds = NoKinds

(* A control byte of Lzma2Reader: reset, or, with new props, new.          *)
Reset ==
  /\ status = "ok"
  /\ state' = 0 /\ reps' = NoReps /\ kinds' = NoKinds /\ cells' = <<>>
  /\ UNCHANGED <<full, status, symbols, symbol, taken>>

Renew(props) ==
  /\ PropsFit(props)
  /\ Reset
  /\ lc' = LcOf(props) /\ lp' = LpOf(props) /\ pb' = PbOf(props)
  /\ UNCHANGED setting

Decoded(s, bits, used) ==
  /\ symbols' = symbols + 1
  /\ symbol' = s /\ taken' = bits /\ cells' = used
  /\ kinds' = <<kinds[2], kinds[3], kinds[4], s[1]>>
  /\ UNCHANGED tables

(* The test in LzDecoder::repeat; `as usize` makes a negative i32 huge.    *)
Reachable(dist) == dist >= 0 /\ dist < full

Filled(n) == IF full + n < DictSize THEN full + n ELSE DictSize

Repeat(len) ==
  \/ Reachable(reps'[0]) /\ full' = Filled(len) /\ UNCHANGED status
  \/ ~Reachable(reps'[0]) /\ status' = "refused" /\ UNCHANGED full

(* LiteralDecoder::decode; match_byte is looked at only after a match.     *)
Literal(bits, prev_byte, pos, match_byte) ==
  /\ LET byte == place(bits, LitBits) % 2 ^ LitBits   \* symbol as u8
         row  == get_sub_coder_index(prev_byte, pos)
     IN  Decoded(<<"literal", byte, match_byte>>, <<0>> \o bits,
                 <<<<"is_match", state, PosState(pos)>>>>
                   \o LiteralCells(row, bits, match_byte))
  /\ state' = after_literal
  /\ full' = Filled(1)
  /\ UNCHANGED <<reps, status>>

Match(len_bits, slot_bits, rest, pos) ==
  /\ LET len  == length(len_bits)
         slot == tree(slot_bits)
     IN  /\ Len(rest) = RestBits(slot)
         /\ reps' = [i \in 0 .. 3 |-> IF i = 0 THEN distance(slot, rest)
                                      ELSE reps[i - 1]]
         /\ Decoded(<<"match", reps'[0] % Word, len>>,
                    <<1, 0>> \o len_bits \o slot_bits \o rest,
                    <<<<"is_match", state, PosState(pos)>>, <<"is_rep", state, 0>>>>
                      \o LengthCells("match_len", len_bits, pos)
                      \o TreeCells("dist_slots", dist_state(len), 0, slot_bits)
                      \o DistanceCells(slot, rest))
         /\ Repeat(len)
  /\ state' = after_match

RepCells(pos) ==
  <<<<"is_match", state, PosState(pos)>>, <<"is_rep", state, 0>>,
    <<"is_rep0", state, 0>>>>

ShortRep(pos) ==
  /\ Decoded(<<"short rep">>, <<1, 1, 0, 0>>,
             Append(RepCells(pos), <<"is_rep0_long", state, PosState(pos)>>))
  /\ UNCHANGED reps
  /\ Repeat(1)
  /\ state' = after_short_rep

(* Fault: the distances between are not moved down.                        *)
reps_swapped(i) == [reps EXCEPT ![0] = reps[i], ![i] = reps[0]]

(* The chain of copies through tmp.                                        *)
reps_after(i) ==
  [k \in 0 .. 3 |-> IF k = 0 THEN reps[i]
                    ELSE IF k <= i THEN reps[k - 1] ELSE reps[k]]

(* How decode_rep_match asks for the i-th distance, and with which cells.  *)
Choice == <<<<0, 1>>, <<1, 0>>, <<1, 1, 0>>, <<1, 1, 1>>>>

ChoiceCells(i, pos) ==
  CASE i = 0 -> <<<<"is_rep0_long", state, PosState(pos)>>>>
    [] i = 1 -> <<<<"is_rep1", state, 0>>>>
    [] OTHER -> <<<<"is_rep1", state, 0>>, <<"is_rep2", state, 0>>>>

LongRep(i, len_bits, pos) ==
  /\ Decoded(<<"rep", i, length(len_bits)>>,
             <<1, 1>> \o Choice[i + 1] \o len_bits,
             RepCells(pos) \o ChoiceCells(i, pos)
               \o LengthCells("rep_len", len_bits, pos))
  /\ reps' = reps_after(i)
  /\ Repeat(length(len_bits))
  /\ state' = after_long_rep

Symbol ==
  \/ \E bits \in Strings(LitBits), prev_byte \in setting.bytes, pos \in setting.positions,
        match_byte \in IF is_literal THEN {0} ELSE setting.bytes :
        Literal(bits, prev_byte, pos, match_byte)
  \/ \E len_bits \in LengthInputs, pos \in setting.positions :
        \/ \E i \in 0 .. 3 : LongRep(i, len_bits, pos)
        \/ \E slot_bits \in Strings(SlotBits) :
             \E rest \in Strings(RestBits(tree(slot_bits))) :
                Match(len_bits, slot_bits, rest, pos)
  \/ \E pos \in setting.positions : ShortRep(pos)

Next ==
  \/ Reset /\ UNCHANGED tables
  \/ \E props \in setting.props : Renew(props)
  \/ status = "ok" /\ symbols < setting.symbols /\ Symbol

Spec == Init /\ [][Next]_vars
-----------------------------------------------------------------------------
TypeOK ==
  /\ {lc, lp, pb} \subseteq Nat /\ state \in 0 .. STATES - 1
  /\ reps \in [0 .. 3 -> -(Word \div 2) .. Word \div 2 - 1]
  /\ full \in 0 .. DictSize /\ status \in {"ok", "refused"}
  /\ symbols \in 0 .. setting.symbols
  /\ taken \in Seq({0, 1}) /\ Len(kinds) = 4

(* The state is the one its name in state.rs says, from the kinds of the   *)
(* last four symbols; a short rep that follows a match is a rep.           *)
Kind(i) == IF kinds[i] = "short rep" /\ i > 1 /\ kinds[i - 1] # "literal"
           THEN "rep" ELSE kinds[i]

Nonlit(k) == CASE k = "match" -> 1 [] k = "rep" -> 2 [] OTHER -> 3

StateNamesHistory ==
  LET lit(i) == kinds[i] = "literal" IN
  state =
    CASE lit(4) /\ lit(3) /\ lit(2)  -> 0
      [] lit(4) /\ lit(3) /\ ~lit(2) -> Nonlit(Kind(2))
      [] lit(4) /\ ~lit(3)           -> 3 + Nonlit(Kind(3))
      [] ~lit(4) /\ lit(3)           -> 6 + Nonlit(kinds[4])
      [] ~lit(4) /\ ~lit(3)          -> IF kinds[4] = "match" THEN 10 ELSE 11

Rows(c) ==
  CASE c[1] \in {"is_match", "is_rep", "is_rep0", "is_rep0_long", "is_rep1",
                 "is_rep2"} -> 0 .. STATES - 1
    [] c[1] \in {"match_len", "rep_len"} ->
         {<<"choice", 0>>, <<"high", 0>>} \cup {"low", "mid"} \X (0 .. POS_STATES_MAX - 1)
    [] c[1] = "literal"    -> 0 .. 2 ^ (lc + lp) - 1
    [] c[1] = "dist_slots" -> 0 .. DIST_STATES - 1
    [] OTHER -> {0}

(* A tree's cell 0 is not part of it.                                      *)
Columns(c) ==
  CASE c[1] \in {"is_match", "is_rep0_long"} -> 0 .. POS_STATES_MAX - 1
    [] c[1] \in {"is_rep", "is_rep0", "is_rep1", "is_rep2"} -> {0}
    [] c[1] \in {"match_len", "rep_len"} ->
         IF c[2][1] = "choice" THEN 0 .. 1
         ELSE 1 .. 2 ^ (CASE c[2][1] = "low" -> LowBits [] c[2][1] = "mid" -> MidBits
                          [] OTHER -> HighBits) - 1
    [] c[1] = "literal"    -> 1 .. 3 * 2 ^ LitBits - 1
    [] c[1] = "dist_slots" -> 1 .. 2 ^ SlotBits - 1
    [] c[1] = "dist_align" -> 1 .. 2 ^ ALIGN_BITS - 1
    [] OTHER -> UNION {DIST_SPECIAL_INDEX[i] + 1 .. DIST_SPECIAL_END[i] - 1 :
                         i \in 1 .. DIST_MODEL_END - DIST_MODEL_START}

(* No index leaves its table, which would end the program.                 *)
CellsThere == \A i \in 1 .. Len(cells) :
  cells[i][2] \in Rows(cells[i]) /\ cells[i][3] \in Columns(cells[i])

(* Nothing leaves its type or its table.                                   *)
InTables == TypeOK /\ CellsThere

(* After a match, a bit of a literal is decoded with the cells for `the    *)
(* match byte's next bit is 0' or `is 1' as long as all bits before were   *)
(* the match byte's, and with the plain tree from the first difference on. *)
MatchByteCounts ==
  symbol[1] = "literal" /\ kinds[3] # "literal" =>
    \A i \in 1 .. LitBits :
      LET guess(k) == (symbol[3] \div 2 ^ (LitBits - k)) % 2
          plain == place(Tail(taken), i - 1)
      IN  cells[i + 1][3] =
            IF \A k \in 1 .. i - 1 : taken[k + 1] = guess(k)
            THEN 2 ^ LitBits * (1 + guess(i)) + plain ELSE plain

Format == INSTANCE LzmaSymbols WITH
  last <- IF is_literal THEN "literal" ELSE "match",
  reps <- [i \in 0 .. 3 |-> reps[i] % Word],
  sent <- taken

(* The bits taken are those the format writes for the symbol, and what the *)
(* decoder remembers is what the encoder does.                             *)
ImplementsFormat == Format!Spec
=============================================================================
