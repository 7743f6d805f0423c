---------------------------- MODULE RangeDecoder ----------------------------
(***************************************************************************)
(* RangeDecoder<RangeDecoderBuffer> of src/minilzma/range_decoder.rs, with *)
(* the calls LzmaDecoder and Lzma2Reader make: prepare takes the bytes of  *)
(* a chunk, decode_bit and decode_direct_bits give bits, in any order and  *)
(* for any probability, normalize ends every call of decode, is_finished   *)
(* is asked when the chunk has given all its bytes.                        *)
(*                                                                         *)
(* Words wrap as u32 and u16 do; Radix, Total and Move are those of        *)
(* RangeEncoder, so the arithmetic can be checked at a small width.        *)
(***************************************************************************)
EXTENDS Integers, Sequences

CONSTANTS
  Radix, Total, Move, Contexts,
  BufSize,    \* bytes of the buffer: COMPRESSED_SIZE_MAX - 5
  Messages,   \* what a chunk may consist of
  MaxBits     \* bound: bits taken from a chunk

Top      == Radix * Radix * Radix
Word     == Radix * Top
ProbWord == Radix * Radix       \* the values of a u16
Digits   == 0 .. Radix - 1

(* Both a 0 and a 1 leave the interval wide enough for one shift, and the  *)
(* truncation to u16 forgets what a wrapped subtraction puts above it.     *)
ASSUME WidthAssumption ==
  /\ Radix \in Nat /\ Total \in Nat /\ Move \in Nat
  /\ Radix > 1 /\ Move > 1 /\ Total >= 2 * (Move - 1) /\ Total < ProbWord
  /\ (Top \div Total) * (Move - 1) >= Radix * Radix
  /\ Word % (Move * ProbWord) = 0

ASSUME MessageAssumption ==
  /\ BufSize \in Nat /\ MaxBits \in Nat
  /\ \A m \in Messages : m \in Seq(Digits) /\ Len(m) <= BufSize + 5

VARIABLES
  range, code,
  buf, pos,    \* the chunk's bytes stand at the end of the buffer
  probs,       \* of a 0, by context
  pc,          \* "idle" between chunks, "decoding", or "failed"
  bits,        \* taken from this chunk
  message,     \* the bytes of this chunk
  low,         \* where the encoder's interval begins, and whether the message
  stray        \* was left out of it by a rounding: no variables of the code

vars == <<range, code, buf, pos, probs, pc, bits, message, low, stray>>

EvenProbs == [c \in Contexts |-> Total \div 2]

Init ==
  /\ range = 0 /\ code = 0
  /\ buf = [i \in 0 .. BufSize - 1 |-> 0] /\ pos = BufSize
  /\ probs = EvenProbs
  /\ pc = "idle" /\ bits = 0 /\ message = <<>>
  /\ low = 0 /\ stray = FALSE

-----------------------------------------------------------------------------
(* prepare                                                                 *)

Acceptable(m) == Len(m) >= 5 /\ m[1] = 0

(* Fault: the bytes are put at the front of the buffer.                    *)
PlacedInFront(m) == [i \in 0 .. BufSize - 1 |->
  IF i < Len(m) - 5 THEN m[i + 6] ELSE buf[i]]

(* Right-aligned; what the chunk before left in front of it stays.         *)
Placed(m) == [i \in 0 .. BufSize - 1 |->
  IF i >= BufSize - (Len(m) - 5) THEN m[i - BufSize + Len(m) + 1] ELSE buf[i]]

read_u32_be(m) == ((m[2] * Radix + m[3]) * Radix + m[4]) * Radix + m[5]

(* renewed: the chunk's control byte resets the decoder, see Lzma2Reader.  *)
Prepare(m, renewed) ==
  /\ pc = "idle"
  /\ Acceptable(m)
  /\ code' = read_u32_be(m) /\ range' = Word - 1
  /\ buf' = Placed(m) /\ pos' = BufSize - (Len(m) - 5)
  /\ probs' = IF renewed THEN EvenProbs ELSE probs
  /\ pc' = "decoding" /\ bits' = 0
  /\ message' = m /\ low' = 0 /\ stray' = (code' = Word - 1)

(* Too short, or a first byte that is not 0.                               *)
Refuse(m) ==
  /\ pc = "idle"
  /\ ~Acceptable(m)
  /\ pc' = "failed"
  /\ UNCHANGED <<range, code, buf, pos, probs, bits, message, low, stray>>
-----------------------------------------------------------------------------
(* A byte that is not there is 1, and is counted all the same.             *)
read_u8 == IF pos < BufSize THEN buf[pos] ELSE 1

(* Fault: a shift too late.                                                *)
late_due == range < Top \div Radix

normalize_due == range < Top

unshifted == [range |-> range, code |-> code, pos |-> pos, low |-> low]

normalized == IF normalize_due
  THEN [range |-> (range * Radix) % Word,
        code  |-> ((code * Radix) % Word) + read_u8,
        pos   |-> pos + 1, low |-> low * Radix]
  ELSE unshifted

RC_BIT_MODEL_OFFSET == (Move - 1 - Total) % Word

(* Fault: the offset leaves out the rounding.                              *)
moved_rounded_up(p, bit) ==
  LET offset == IF bit = 0 THEN (-Total) % Word ELSE 0
  IN  (p - ((p + offset) % Word) \div Move) % ProbWord

(* The probability after a bit: one wrapping subtraction does for both.    *)
moved(p, bit) ==
  LET offset == IF bit = 0 THEN RC_BIT_MODEL_OFFSET ELSE 0
  IN  (p - ((p + offset) % Word) \div Move) % ProbWord

bit_of(bound, c) == IF c >= bound THEN 1 ELSE 0

(* decode_bit, for the probability with the name c.                        *)
DecodeBit(c) ==
  LET n     == normalized
      bound == (n.range \div Total) * probs[c]
      bit   == bit_of(bound, n.code)
  IN  /\ pc = "decoding" /\ bits < MaxBits
      /\ range' = IF bit = 0 THEN bound ELSE n.range - bound
      /\ code' = n.code - bit * bound
      /\ low' = n.low + bit * bound
      /\ pos' = n.pos
      /\ probs' = [probs EXCEPT ![c] = moved(@, bit)]
      /\ bits' = bits + 1
      /\ UNCHANGED <<buf, pc, message, stray>>

(* Fault: the sign of the difference is taken for the bit.                 *)
sign_kept(difference) == IF difference >= Word \div 2 THEN 1 ELSE 0

(* t is the sign bit of a wrapped difference; the bit is 1 - t.            *)
direct_bit(difference) == IF difference >= Word \div 2 THEN 0 ELSE 1

(* A bit of decode_direct_bits, with the shift the loop makes before it.   *)
DecodeDirectBit ==
  LET n    == normalized
      half == n.range \div 2
      bit  == direct_bit((n.code - half) % Word)
  IN  /\ pc = "decoding" /\ bits < MaxBits
      /\ range' = half
      /\ code' = n.code - bit * half
      /\ low' = n.low + bit * half
      /\ pos' = n.pos
      /\ bits' = bits + 1
      /\ stray' = (stray \/ n.code = 2 * half)
      /\ UNCHANGED <<buf, probs, pc, message>>

finished(n) == n.pos = BufSize /\ n.code = 0

(* Fault: decode does not end with normalize.                              *)
not_at_end == unshifted

at_end == normalized

(* decode ends with normalize; with the chunk's last byte out, Lzma2Reader *)
(* asks is_finished and refuses the chunk otherwise.                       *)
EndRound(last) ==
  LET n == at_end
  IN  /\ pc = "decoding" /\ bits > 0
      /\ range' = n.range /\ code' = n.code /\ pos' = n.pos /\ low' = n.low
      /\ pc' = IF ~last THEN pc ELSE IF finished(n) THEN "idle" ELSE "failed"
      /\ UNCHANGED <<buf, probs, bits, message, stray>>

Next ==
  \/ \E m \in Messages, renewed \in BOOLEAN : Prepare(m, renewed)
  \/ \E m \in Messages : Refuse(m)
  \/ \E c \in Contexts : DecodeBit(c)
  \/ DecodeDirectBit
  \/ \E last \in BOOLEAN : EndRound(last)

Spec == Init /\ [][Next]_vars
-----------------------------------------------------------------------------
(* The state has the types of the code's fields.                           *)
TypeOK ==
  /\ range \in 0 .. Word - 1 /\ code \in 0 .. Word - 1
  /\ buf \in [0 .. BufSize - 1 -> Digits] /\ pos \in Nat
  /\ probs \in [Contexts -> 0 .. ProbWord - 1]
  /\ pc \in {"idle", "decoding", "failed"} /\ bits \in 0 .. MaxBits
  /\ message \in Seq(Digits) /\ low \in Nat /\ stray \in BOOLEAN

(* However often a bit is 0, or 1, its probability stays away from both    *)
(* ends (31 to 2017 of 2048), so neither bit ever becomes impossible.      *)
ProbsInside == \A c \in Contexts : probs[c] \in Move - 1 .. Total - (Move - 1)

(* One `if` in normalize is enough: no bit narrows the interval so far     *)
(* that it would take two shifts to widen it again.                        *)
OneShiftEnough == pc = "decoding" => range >= Radix * Radix

(* The code stays inside the interval, but for the numbers the encoder has *)
(* given up by rounding: the last one of a word, and the last one of an    *)
(* odd interval that was halved.  The sign bit in decode_direct_bits is    *)
(* the sign only because of this, and a shift of the code loses no bit.    *)
CodeInRange == pc = "decoding" /\ ~stray => code < range

(* The wrapping arithmetic never wraps where it should not.                *)
InRange == TypeOK /\ OneShiftEnough /\ CodeInRange

(* The number a sequence of digits stands for.                             *)
Value(s) ==
  LET f[i \in 0 .. Len(s)] == IF i = 0 THEN 0 ELSE f[i - 1] * Radix + s[i]
  IN  f[Len(s)]
(* Bytes of the word that have been read.                                  *)
Taken == 4 + pos - (BufSize - (Len(message) - 5))

(* The bytes read so far, with 1 for those behind the chunk's end.         *)
Read == [i \in 1 .. Taken |->
  IF i + 1 <= Len(message) THEN message[i + 1] ELSE 1]

(* The code is how far the bytes read, as a number, are above the bottom   *)
(* of the encoder's interval: no byte of another chunk, none twice, none   *)
(* left out.                                                               *)
CodeIsOffset ==
  pc = "decoding" => code = (Value(Read) - low) % Word

(* The message is what the encoder writes when it ends here: the bottom of *)
(* its interval, with all digits, after the shift that may still be due.   *)
Flushed ==
  IF range < Top
  THEN Taken + 1 = Len(message) - 1 /\ Value(Tail(message)) = low * Radix
  ELSE Taken = Len(message) - 1 /\ Value(Tail(message)) = low

(* The message has as many bytes as that, and its last word is the one of  *)
(* what the encoder writes.                                                *)
LastWordFlushed ==
  IF range < Top
  THEN /\ Taken + 1 = Len(message) - 1
       /\ (Value(Tail(message)) - low * Radix) % Word = 0
  ELSE /\ Taken = Len(message) - 1
       /\ (Value(Tail(message)) - low) % Word = 0

(* A chunk is accepted just if no byte is missing and none too many and    *)
(* its last word is the one the encoder would have written for the bits    *)
(* taken from it; and then, unless it is stray, all its bytes are those of *)
(* the encoder.  Nothing keeps a stray chunk, one that begins with the     *)
(* last number of a word or meets that of an odd interval that is halved,  *)
(* from being accepted though no encoder writes it: neither prepare nor    *)
(* decode_direct_bits looks whether the code is inside the range.          *)
AcceptanceExact ==
  [][pc = "decoding" =>
       /\ pc' = "idle" => LastWordFlushed /\ (~stray => Flushed)
       /\ pc' = "failed" => ~LastWordFlushed]_vars

(* The decoder makes the steps of the encoder, with the same interval and  *)
(* the same probabilities; it only makes the shift later.                  *)
Encoder == INSTANCE RangeEncoder WITH
  low   <- IF normalize_due THEN low * Radix ELSE low,
  range <- IF bits = 0 THEN Word - 1
           ELSE IF normalize_due THEN range * Radix ELSE range

ImplementsEncoder == Encoder!Spec
=============================================================================
