---------------------------- MODULE RangeEncoder ----------------------------
(***************************************************************************)
(* What src/minilzma/range_decoder.rs undoes: the coder that wrote an LZMA *)
(* chunk.  It keeps an interval of numbers, which every bit narrows to the *)
(* part its probability gives that bit, and which is read to one digit     *)
(* more whenever it has become too narrow.  Here low is a number without a *)
(* width, so no carry is lost.                                             *)
(***************************************************************************)
EXTENDS Integers

CONSTANTS
  Radix,     \* values of a byte: 1 << SHIFT_BITS
  Total,     \* BIT_MODEL_TOTAL: what a probability is out of
  Move,      \* 1 << MOVE_BITS: a bit moves its probability by 1 / Move
  Contexts   \* the names of the probabilities

VARIABLES low, range, probs

vars == <<low, range, probs>>

Top  == Radix * Radix * Radix   \* TOP_VALUE
Word == Radix * Top             \* the values of a u32

EvenProbs == [c \in Contexts |-> Total \div 2]

Init == low = 0 /\ range = Word - 1 /\ probs = EvenProbs

Begin(renewed) ==
  /\ low' = 0 /\ range' = Word - 1
  /\ probs' = IF renewed THEN EvenProbs ELSE probs

(* The interval is base up to base + width, with a digit more if need be.  *)
Narrow(base, width) ==
  \/ width >= Top /\ low' = base /\ range' = width
  \/ width < Top /\ low' = base * Radix /\ range' = width * Radix

(* The probability of a 0 moves towards the bit that came.                 *)
Moved(p, bit) ==
  IF bit = 0 THEN p + (Total - p) \div Move ELSE p - p \div Move

Bound(c) == (range \div Total) * probs[c]

Encode(c, bit) ==
  /\ IF bit = 0 THEN Narrow(low, Bound(c))
     ELSE Narrow(low + Bound(c), range - Bound(c))
  /\ probs' = [probs EXCEPT ![c] = Moved(@, bit)]

EncodeDirect(bit) ==
  /\ IF bit = 0 THEN Narrow(low, range \div 2)
     ELSE Narrow(low + range \div 2, range \div 2)
  /\ UNCHANGED probs

Next ==
  \/ \E renewed \in BOOLEAN : Begin(renewed)
  \/ \E c \in Contexts, bit \in {0, 1} : Encode(c, bit)
  \/ \E bit \in {0, 1} : EncodeDirect(bit)

Spec == Init /\ [][Next]_vars
=============================================================================
