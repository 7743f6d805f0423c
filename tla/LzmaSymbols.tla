----------------------------- MODULE LzmaSymbols -----------------------------
(***************************************************************************)
(* What src/minilzma/lzma_decoder.rs undoes: how the LZMA format writes a  *)
(* literal, a match, or a match with one of the last four distances as a   *)
(* row of bits, and what both sides remember from symbol to symbol.        *)
(***************************************************************************)
EXTENDS Integers, Sequences

CONSTANTS
  LitBits, LowBits, MidBits, HighBits,   \* of a byte, of the three lengths
  WordBits, SlotBits,                    \* of a distance, of its slot
  DIST_MODEL_END, ALIGN_BITS

VARIABLES
  last,     \* "literal" or "match"
  reps,     \* the last four distances
  symbol,   \* the symbol just written, a tuple that begins with its kind
  sent      \* its bits

vars == <<last, reps, symbol, sent>>

Bit(n, i) == (n \div 2 ^ i) % 2
HighFirst(n, k) == [i \in 1 .. k |-> Bit(n, k - i)]
LowFirst(n, k)  == [i \in 1 .. k |-> Bit(n, i - 1)]

(* Three trees for short, middle and long matches, from length 2 on.       *)
LengthCode(n) ==
  LET mid == n - 2 - 2 ^ LowBits
      high == mid - 2 ^ MidBits
  IN  IF mid < 0 THEN <<0>> \o HighFirst(n - 2, LowBits)
      ELSE IF high < 0 THEN <<1, 0>> \o HighFirst(mid, MidBits)
      ELSE <<1, 1>> \o HighFirst(high, HighBits)

Magnitude(d) == CHOOSE i \in 0 .. WordBits - 1 : 2 ^ i <= d /\ d < 2 ^ (i + 1)

(* The slot tells the highest bit of a distance and the one below it; the  *)
(* rest comes in reverse, or, but for its last bits, as it is.             *)
DistanceCode(d) ==
  IF d < 4 THEN HighFirst(d, SlotBits)
  ELSE LET m    == Magnitude(d)
           slot == 2 * m + Bit(d, m - 1)
       IN  HighFirst(slot, SlotBits) \o
           IF slot < DIST_MODEL_END THEN LowFirst(d, m - 1)
           ELSE HighFirst(d \div 2 ^ ALIGN_BITS, m - 1 - ALIGN_BITS)
                  \o LowFirst(d, ALIGN_BITS)

RepCode == <<<<0, 1>>, <<1, 0>>, <<1, 1, 0>>, <<1, 1, 1>>>>

NoReps == [i \in 0 .. 3 |-> 0]

Init == last = "literal" /\ reps = NoReps /\ symbol = <<"none">> /\ sent = <<>>

Literal ==
  /\ symbol'[1] = "literal"
  /\ sent' = <<0>> \o HighFirst(symbol'[2], LitBits)
  /\ last' = "literal" /\ UNCHANGED reps

Match ==
  /\ symbol'[1] = "match"
  /\ sent' = <<1, 0>> \o LengthCode(symbol'[3]) \o DistanceCode(symbol'[2])
  /\ reps' = [i \in 0 .. 3 |-> IF i = 0 THEN symbol'[2] ELSE reps[i - 1]]
  /\ last' = "match"

(* The i-th last distance becomes the last one.                            *)
Rep ==
  /\ symbol'[1] = "rep"
  /\ LET i == symbol'[2]
     IN  /\ sent' = <<1, 1>> \o RepCode[i + 1] \o LengthCode(symbol'[3])
         /\ reps' = [k \in 0 .. 3 |-> IF k = 0 THEN reps[i]
                                      ELSE IF k <= i THEN reps[k - 1] ELSE reps[k]]
  /\ last' = "match"

(* One byte from the last distance.                                        *)
ShortRep ==
  /\ symbol'[1] = "short rep" /\ sent' = <<1, 1, 0, 0>>
  /\ last' = "match" /\ UNCHANGED reps

Reset ==
  /\ last' = "literal" /\ reps' = NoReps
  /\ UNCHANGED <<symbol, sent>>

Next == Literal \/ Match \/ Rep \/ ShortRep \/ Reset

Spec == Init /\ [][Next]_vars
=============================================================================
