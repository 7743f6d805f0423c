-------------------------- MODULE RangeDecoder_proofs --------------------------
(***************************************************************************)
(* The arithmetic of RangeDecoder at every width that WidthAssumption      *)
(* allows, the code's own included (bytes of 256 values, probabilities out *)
(* of 2048, moved by a 32nd): where words wrap the result is right, the    *)
(* decoder makes the steps of the encoder, its code is always the number   *)
(* of the bytes read less the bottom of the encoder's interval, and so a   *)
(* chunk is accepted just if it is what the encoder would have written.    *)
(***************************************************************************)
EXTENDS RangeDecoder, TLAPS, WellFoundedInduction

(* Division                                                                *)

LEMMA DivMod ==
  ASSUME NEW a \in Nat, a > 0, NEW x \in Nat
  PROVE  x = a * (x \div a) + (x % a) /\ x % a \in 0 .. a - 1 /\ x \div a \in Nat
<1>1. x % a \in 0 .. a - 1
  BY SMTT(30)
<1>2. x \div a \in Nat
  BY SMTT(30)
<1>3. x = a * (x \div a) + (x % a)
  BY SMTT(30)
<1> QED
  BY <1>1, <1>2, <1>3

LEMMA ProductMonotone ==
  ASSUME NEW a \in Nat, NEW x \in Nat, NEW y \in Nat, x <= y
  PROVE  a * x <= a * y /\ x * a <= y * a /\ a * x \in Nat /\ x * a \in Nat
<1>1. a * (y - x) >= 0 /\ a * (y - x) = a * y - a * x
  BY SMTT(30)
<1>2. a * x = x * a /\ a * y = y * a /\ a * x \in Nat
  BY SMTT(30)
<1> QED
  BY <1>1, <1>2

(* A quotient is the only number between whose multiples the dividend is.  *)
LEMMA QuotientUnique ==
  ASSUME NEW a \in Nat, a > 0, NEW x \in Nat, NEW q \in Nat, NEW r \in 0 .. a - 1,
         x = a * q + r
  PROVE  x \div a = q /\ x % a = r
<1> DEFINE d == x \div a
           s == x % a
<1>1. x = a * d + s /\ s \in 0 .. a - 1 /\ d \in Nat
  BY DivMod
<1> HIDE DEF d, s
<1>2. CASE d > q
  <2>1. a * (q + 1) <= a * d /\ a * (q + 1) = a * q + a
    BY <1>1, <1>2, ProductMonotone, SMTT(30)
  <2> QED
    BY <1>1, <2>1
<1>3. CASE d < q
  <2>1. a * (d + 1) <= a * q /\ a * (d + 1) = a * d + a
    BY <1>1, <1>3, ProductMonotone, SMTT(30)
  <2> QED
    BY <1>1, <2>1
<1>4. CASE d = q
  BY <1>1, <1>4 DEF d, s
<1> QED
  BY <1>1, <1>2, <1>3, <1>4

LEMMA QuotientMonotone ==
  ASSUME NEW a \in Nat, a > 0, NEW x \in Nat, NEW y \in Nat, x <= y
  PROVE  x \div a <= y \div a
<1> DEFINE d == x \div a
           e == y \div a
           r == x % a
           s == y % a
<1>1. x = a * d + r /\ r \in 0 .. a - 1 /\ d \in Nat
  BY DivMod
<1>2. y = a * e + s /\ s \in 0 .. a - 1 /\ e \in Nat
  BY DivMod
<1> HIDE DEF d, e, r, s
<1>3. CASE d > e
  <2>1. a * (e + 1) <= a * d /\ a * (e + 1) = a * e + a
    BY <1>1, <1>2, <1>3, ProductMonotone, SMTT(30)
  <2> QED
    BY <1>1, <1>2, <2>1
<1>4. CASE d <= e
  BY <1>4 DEF d, e
<1> QED
  BY <1>1, <1>2, <1>3, <1>4

(* A word that is not too large is not changed by wrapping, and a          *)
(* difference below zero becomes its complement.                           *)
LEMMA Wraps ==
  ASSUME NEW w \in Nat, w > 0, NEW x \in 0 .. w - 1
  PROVE  x % w = x /\ (x > 0 => (-x) % w = w - x) /\ (x + w) % w = x
<1>1. x % w = x
  BY SMTT(30)
<1>2. x > 0 => (-x) % w = w - x
  BY SMTT(30)
<1>3. (x + w) % w = x
  BY SMTT(30)
<1> QED
  BY <1>1, <1>2, <1>3

(* Widths                                                                  *)

LEMMA Widths ==
  /\ Radix \in Nat /\ Total \in Nat /\ Move \in Nat
  /\ Radix >= 2 /\ Move >= 2 /\ Total >= 2 * (Move - 1) /\ Total >= Move
  /\ ProbWord \in Nat /\ Top \in Nat /\ Word \in Nat
  /\ Total < ProbWord /\ ProbWord >= 4
  /\ Top >= 2 * ProbWord /\ Word >= 2 * Top
  /\ Word = Radix * Top /\ Top = Radix * ProbWord /\ Word = Top * Radix
<1>1. /\ Radix \in Nat /\ Total \in Nat /\ Move \in Nat
      /\ Radix >= 2 /\ Move >= 2 /\ Total >= 2 * (Move - 1)
      /\ Total < ProbWord
  BY WidthAssumption
<1>2. Total >= Move
  BY <1>1
<1>3. ProbWord \in Nat /\ ProbWord >= 4
  <2>1. Radix * 2 <= Radix * Radix /\ Radix * Radix \in Nat
    BY <1>1, ProductMonotone
  <2> QED
    BY <1>1, <2>1 DEF ProbWord
<1>4. Top = Radix * ProbWord
  <2>1. Radix * Radix * Radix = Radix * (Radix * Radix)
    BY <1>1, SMTT(30)
  <2> QED
    BY <2>1 DEF Top, ProbWord
<1>5. Top \in Nat /\ Top >= 2 * ProbWord
  BY <1>1, <1>3, <1>4, ProductMonotone
<1>6. Word = Radix * Top
  BY DEF Word
<1>7. Word \in Nat /\ Word >= 2 * Top /\ Top * Radix = Radix * Top
  BY <1>1, <1>5, <1>6, ProductMonotone
<1> QED
  BY <1>1, <1>2, <1>3, <1>4, <1>5, <1>6, <1>7

(* A digit more: shifted in below, a number below a bound times Radix.     *)
LEMMA Shifts ==
  ASSUME NEW x \in Nat, NEW y \in Nat, x < y
  PROVE  x * Radix + Radix <= y * Radix /\ x * Radix \in Nat
<1>1. (x + 1) * Radix <= y * Radix
  BY Widths, ProductMonotone
<1>2. (x + 1) * Radix = x * Radix + Radix
  BY Widths, SMTT(30)
<1>3. x * Radix \in Nat
  BY Widths, ProductMonotone
<1> QED
  BY <1>1, <1>2, <1>3

(* A shifted word wraps to a multiple of Radix, so there is room for a     *)
(* digit.                                                                  *)
LEMMA WrappedShift ==
  ASSUME NEW x \in Nat
  PROVE  (x * Radix) % Word \in 0 .. Word - Radix
<1>0. Top \in Nat /\ Top > 0 /\ Word \in Nat /\ Word > 0 /\ Radix \in Nat
  BY Widths
<1>1. x = Top * (x \div Top) + (x % Top) /\ x % Top \in 0 .. Top - 1 /\ x \div Top \in Nat
  BY <1>0, DivMod
<1> DEFINE q == x \div Top
           r == x % Top
<1>2. x = Top * q + r /\ r \in 0 .. Top - 1 /\ q \in Nat
  BY <1>1
<1> HIDE DEF q, r
<1>3. r * Radix + Radix <= Word /\ r * Radix \in Nat
  BY <1>2, Shifts, Widths
<1>4. x * Radix = Word * q + r * Radix
  <2>1. x * Radix = (Top * q) * Radix + r * Radix
    BY <1>2, Widths, SMTT(30)
  <2>2. (Top * q) * Radix = (Radix * Top) * q
    BY <1>2, Widths, SMTT(30)
  <2> QED
    BY <2>1, <2>2, Widths
<1>5. r * Radix \in 0 .. Word - 1
  BY <1>3, Widths
<1>6. x * Radix \in Nat
  BY Widths, ProductMonotone
<1>7. (x * Radix) % Word = r * Radix
  <2> DEFINE y == x * Radix
             z == r * Radix
  <2>1. y \in Nat /\ z \in 0 .. Word - 1 /\ y = Word * q + z
    BY <1>4, <1>5, <1>6
  <2> HIDE DEF y, z
  <2>2. y % Word = z
    BY <1>0, <1>2, <2>1, QuotientUnique
  <2> QED
    BY <2>2 DEF y, z
<1> QED
  BY <1>0, <1>3, <1>7

(* Probabilities                                                           *)

(* What a move takes away leaves at least Move - 1.                        *)
LEMMA MoveLeaves ==
  ASSUME NEW q \in Nat, q >= Move - 1
  PROVE  q \div Move \in Nat /\ q - (q \div Move) >= Move - 1 /\ q \div Move <= q
<1>0. Move \in Nat /\ Move > 0 /\ Move >= 2
  BY Widths
<1>1. q = Move * (q \div Move) + (q % Move) /\ q % Move \in 0 .. Move - 1 /\ q \div Move \in Nat
  BY <1>0, DivMod
<1> DEFINE d == q \div Move
           r == q % Move
<1>2. q = Move * d + r /\ r \in 0 .. Move - 1 /\ d \in Nat
  BY <1>1
<1> HIDE DEF d, r
<1>3. d <= q /\ q - d >= Move - 1
  <2>1. CASE d = 0
    BY <2>1, <1>0
  <2>2. CASE d >= 1
    <3>1. (Move - 1) * 1 <= (Move - 1) * d /\ (Move - 1) * d \in Nat
      BY <1>0, <1>2, <2>2, ProductMonotone
    <3>2. Move * d = (Move - 1) * d + d /\ (Move - 1) * 1 = Move - 1
      BY <1>0, <1>2, SMTT(30)
    <3> QED
      BY <1>0, <1>2, <3>1, <3>2
  <2> QED
    BY <1>2, <2>1, <2>2
<1> QED
  BY <1>2, <1>3 DEF d

(* The complement of s, shifted: as though s were divided and rounded up.  *)
LEMMA ComplementQuotient ==
  ASSUME NEW k \in Nat, NEW s \in Nat, s >= 1, s <= Move * k
  PROVE  (Move * k - s) \div Move = k - ((s + Move - 1) \div Move)
<1>0. Move \in Nat /\ Move > 0 /\ Move >= 2
  BY Widths
<1> DEFINE n == s + Move - 1
           d == n \div Move
           r == n % Move
<1>1. n \in Nat
  BY <1>0
<1>2. n = Move * d + r /\ r \in 0 .. Move - 1 /\ d \in Nat
  <2> HIDE DEF n
  <2> QED
    BY <1>0, <1>1, DivMod
<1>3. n = s + Move - 1
  OBVIOUS
<1> HIDE DEF n, d, r
<1>4. d <= k
  <2> SUFFICES ASSUME d > k PROVE FALSE
    BY <1>2
  <2>1. Move * (k + 1) <= Move * d /\ Move * (k + 1) = Move * k + Move
    BY <1>0, <1>2, ProductMonotone, SMTT(30)
  <2>2. Move * d + r = s + Move - 1 /\ Move * k \in Nat /\ Move * d \in Nat
    BY <1>0, <1>2, <1>3, ProductMonotone
  <2> QED
    BY <1>0, <1>2, <2>1, <2>2
<1>5. Move * (k - d) = Move * k - Move * d /\ Move * k \in Nat /\ Move * d \in Nat
  <2>1. Move * (k - d) = Move * k - Move * d
    BY <1>0, <1>2, <1>4, SMTT(30)
  <2> QED
    BY <1>0, <1>2, <2>1, ProductMonotone
<1> DEFINE x == Move * k - s
           t == Move - 1 - r
           e == k - d
<1>6. x = Move * e + t /\ x \in Nat /\ t \in 0 .. Move - 1 /\ e \in Nat
  BY <1>0, <1>2, <1>3, <1>4, <1>5
<1> HIDE DEF x, t, e
<1>7. x \div Move = e
  BY <1>0, <1>6, QuotientUnique
<1> QED
  BY <1>7 DEF x, e, d, n

(* A word is a multiple of what Move and the truncation to u16 divide by.  *)
LEMMA WordFactor ==
  \E k \in Nat : /\ k >= 1 /\ ProbWord * k \in Nat
                 /\ Word = Move * (ProbWord * k)
<1> DEFINE a == Move * ProbWord
           k == Word \div a
<1>1. a \in Nat /\ a > 0
  BY Widths, ProductMonotone, SMTT(30)
<1>2. Word % a = 0
  BY WidthAssumption
<1>3. Word \in Nat /\ Word > 0
  BY Widths
<1>4. Word = a * k + (Word % a) /\ k \in Nat
  <2> HIDE DEF a
  <2> QED
    BY <1>1, <1>3, DivMod
<1>5. a * k = Move * (ProbWord * k) /\ ProbWord * k \in Nat
  <2>1. Move \in Nat /\ ProbWord \in Nat
    BY Widths
  <2> HIDE DEF k
  <2> QED
    BY <1>4, <2>1, SMTT(30)
<1>6. a * k \in Nat
  BY <1>1, <1>4, ProductMonotone
<1> HIDE DEF k, a
<1>7. k >= 1
  <2> SUFFICES ASSUME k = 0 PROVE FALSE
    BY <1>4
  <2>1. a * k = 0
    BY <1>1, SMTT(30)
  <2> QED
    BY <1>2, <1>3, <1>4, <2>1
<1> QED
  BY <1>2, <1>3, <1>4, <1>5, <1>6, <1>7

(* The truncation to u16 takes away multiples of ProbWord only.            *)
LEMMA Truncated ==
  ASSUME NEW n \in 0 .. ProbWord - 1, NEW k \in Nat
  PROVE  (n - ProbWord * k) % ProbWord = n /\ n % ProbWord = n
<1>1. ProbWord \in Nat /\ ProbWord > 0
  BY Widths
<1>2. n % ProbWord = n
  BY <1>1, SMTT(30)
<1>3. (n - ProbWord * k) % ProbWord = n
  <2> DEFINE x == n - ProbWord * k
             q == x \div ProbWord
             r == x % ProbWord
  <2>1. x = ProbWord * q + r /\ r \in 0 .. ProbWord - 1 /\ q \in Int /\ x \in Int
    BY <1>1, SMTT(30)
  <2> HIDE DEF q, r
  <2>2. n - r = ProbWord * (q + k)
    BY <1>1, <2>1, SMTT(30)
  <2> HIDE DEF x
  <2> DEFINE m == q + k
  <2>3. m \in Int /\ n - r = ProbWord * m
    BY <2>1, <2>2
  <2> HIDE DEF m
  <2>4. CASE m >= 1
    <3>1. ProbWord * m >= ProbWord
      BY <1>1, <2>3, <2>4, SMTT(30)
    <3> QED
      BY <1>1, <2>1, <2>3, <3>1
  <2>5. CASE m <= -1
    <3>1. ProbWord * m <= -ProbWord
      BY <1>1, <2>3, <2>5, SMTT(30)
    <3> QED
      BY <1>1, <2>1, <2>3, <3>1
  <2>6. CASE m = 0
    <3>1. ProbWord * m = 0
      BY <1>1, <2>6, SMTT(30)
    <3>2. n = r
      BY <1>1, <2>1, <2>3, <3>1
    <3> QED
      BY <3>2 DEF r, x
  <2> QED
    BY <2>3, <2>4, <2>5, <2>6
<1> QED
  BY <1>2, <1>3

Inside == Move - 1 .. Total - (Move - 1)

(* After a 1: no offset, no wrap.                                          *)
LEMMA MovedDown ==
  ASSUME NEW p \in Inside
  PROVE  moved(p, 1) = p - (p \div Move) /\ p - (p \div Move) \in Inside
<1>1. p \in Nat /\ p >= Move - 1 /\ p < ProbWord /\ p <= Total - (Move - 1)
  BY Widths DEF Inside
<1>2. p \div Move \in Nat /\ p - (p \div Move) >= Move - 1 /\ p \div Move <= p
  BY <1>1, MoveLeaves
<1>3. p \in 0 .. Word - 1
  BY <1>1, Widths
<1>4. (p + 0) % Word = p
  <2>1. p % Word = p /\ p + 0 = p
    BY <1>3, Widths, Wraps
  <2> QED
    BY <2>1
<1>5. moved(p, 1) = (p - (p \div Move)) % ProbWord
  BY <1>4 DEF moved
<1> DEFINE n == p - (p \div Move)
<1>6. n \in 0 .. ProbWord - 1 /\ n \in Inside
  <2> DEFINE d == p \div Move
  <2>1. d \in Nat /\ p - d >= Move - 1 /\ d <= p
    BY <1>2
  <2> HIDE DEF d
  <2>2. p - d \in 0 .. ProbWord - 1 /\ p - d \in Move - 1 .. Total - (Move - 1)
    BY <1>1, <2>1, Widths
  <2> QED
    BY <2>2 DEF d, Inside
<1>7. n % ProbWord = n
  <2> HIDE DEF n
  <2>1. 0 \in Nat
    OBVIOUS
  <2> QED
    BY <1>6, <2>1, Truncated
<1> QED
  BY <1>5, <1>6, <1>7

(* After a 0: the offset makes the word wrap just as the encoder rounds.   *)
LEMMA MovedUp ==
  ASSUME NEW p \in Inside
  PROVE  /\ moved(p, 0) = p + ((Total - p) \div Move)
         /\ p + ((Total - p) \div Move) \in Inside
<1> DEFINE q == Total - p
           d == q \div Move
           s == q - (Move - 1)
<1>1. /\ p \in Nat /\ Move \in Nat /\ Move >= 2 /\ Total \in Nat /\ Word \in Nat
      /\ q \in Nat /\ q >= Move - 1 /\ s \in Nat /\ q = Total - p
      /\ s = q - (Move - 1) /\ p >= Move - 1
      /\ ProbWord \in Nat /\ ProbWord > 0 /\ Total < ProbWord /\ Total < Word
  BY Widths DEF Inside
<1> HIDE DEF q, s
<1>2. d \in Nat /\ q - d >= Move - 1 /\ d <= q
  BY <1>1, MoveLeaves
<1> HIDE DEF d
<1>3. p + d \in Move - 1 .. Total - (Move - 1) /\ p + d \in 0 .. ProbWord - 1
  BY <1>1, <1>2
<1>4. RC_BIT_MODEL_OFFSET = Word - (Total - (Move - 1))
  <2> DEFINE x == Total - (Move - 1)
  <2>1. x \in 0 .. Word - 1 /\ x > 0 /\ Move - 1 - Total = -x /\ Word > 0
    BY <1>1, Widths
  <2> HIDE DEF x
  <2>2. (-x) % Word = Word - x
    <3>1. x > 0 => (-x) % Word = Word - x
      BY <1>1, <2>1, Wraps, Zenon
    <3> QED
      BY <2>1, <3>1
  <2>3. RC_BIT_MODEL_OFFSET = Word - x
    BY <2>1, <2>2 DEF RC_BIT_MODEL_OFFSET
  <2> QED
    BY <2>3 DEF x
<1>5. p + RC_BIT_MODEL_OFFSET = Word - s
  BY <1>1, <1>4
<1>6. moved(p, 0) = (p - (((Word - s) % Word) \div Move)) % ProbWord
  BY <1>5 DEF moved
<1>7. CASE s = 0
  <2>1. (Word - s) % Word = 0
    <3>1. 0 \in 0 .. Word - 1 /\ Word > 0 /\ Word - s = 0 + Word
      BY <1>1, <1>7, Widths
    <3>2. (0 + Word) % Word = 0
      BY <1>1, <3>1, Wraps
    <3> QED
      BY <3>1, <3>2
  <2>2. 0 \div Move = 0
    BY <1>1, SMTT(30)
  <2>3. d = 0
    <3>1. q = Move * 0 + (Move - 1) /\ Move - 1 \in 0 .. Move - 1 /\ Move > 0
      BY <1>1, <1>7, SMTT(30)
    <3> QED
      BY <1>1, <3>1, QuotientUnique DEF d
  <2>4. moved(p, 0) = p % ProbWord
    BY <1>1, <1>6, <2>1, <2>2
  <2>5. p \in 0 .. ProbWord - 1 /\ 0 \in Nat /\ p + d = p
    BY <1>1, <1>2, <2>3, <1>3
  <2>6. p % ProbWord = p
    BY <2>5, Truncated
  <2> QED
    BY <1>3, <2>4, <2>5, <2>6 DEF d, q, Inside
<1>8. CASE s >= 1
  <2>1. PICK k \in Nat : k >= 1 /\ ProbWord * k \in Nat /\ Word = Move * (ProbWord * k)
    BY WordFactor
  <2> DEFINE m == ProbWord * k
  <2>2. m \in Nat /\ Word = Move * m
    BY <2>1
  <2> HIDE DEF m
  <2>3. s <= Move * m /\ s < Word
    BY <1>1, <2>2
  <2>4. s + Move - 1 = q
    BY <1>1
  <2>5. (Move * m - s) \div Move = m - d
    <3>1. (Move * m - s) \div Move = m - ((s + Move - 1) \div Move)
      BY <1>1, <1>8, <2>2, <2>3, ComplementQuotient
    <3> QED
      BY <2>4, <3>1 DEF d
  <2>6. (Word - s) % Word = Word - s
    <3>1. Word - s \in 0 .. Word - 1 /\ Word > 0
      BY <1>1, <1>8, <2>3
    <3> QED
      BY <1>1, <3>1, Wraps
  <2>7. moved(p, 0) = (p - (m - d)) % ProbWord
    BY <1>6, <2>2, <2>5, <2>6
  <2>8. p - (m - d) = (p + d) - m
    BY <1>1, <1>2, <2>2
  <2> DEFINE n == p + d
  <2>9. n \in 0 .. ProbWord - 1
    BY <1>3
  <2> HIDE DEF n
  <2>10. (n - ProbWord * k) % ProbWord = n
    BY <2>1, <2>9, Truncated
  <2>11. moved(p, 0) = n
    BY <2>7, <2>8, <2>10 DEF m, n
  <2> QED
    BY <1>3, <2>11 DEF n, d, q, Inside
<1> QED
  BY <1>1, <1>7, <1>8

(* The invariant                                                           *)

(* A chunk begins with the widest interval.                                *)
FreshRange == pc = "decoding" /\ bits = 0 => range = Word - 1

IInv == TypeOK /\ ProbsInside /\ OneShiftEnough /\ CodeInRange /\ FreshRange

LEMMA ByteRead ==
  ASSUME TypeOK
  PROVE  read_u8 \in 0 .. Radix - 1
<1>1. CASE pos < BufSize
  <2>1. pos \in 0 .. BufSize - 1
    BY <1>1, MessageAssumption DEF TypeOK
  <2>2. buf[pos] \in Digits
    BY <2>1 DEF TypeOK
  <2> QED
    BY <1>1, <2>2 DEF read_u8, Digits
<1>2. CASE ~(pos < BufSize)
  BY <1>2, Widths DEF read_u8
<1> QED
  BY <1>1, <1>2

(* The fields after the shift that may be due: one is enough, and it loses *)
(* nothing of range, nor of code while it is below range.                  *)
LEMMA Normalized ==
  ASSUME IInv, pc = "decoding"
  PROVE  /\ normalized.range \in Top .. Word - 1
         /\ normalized.code \in 0 .. Word - 1
         /\ normalized.pos \in Nat /\ normalized.low \in Nat
         /\ ~stray => normalized.code < normalized.range
         /\ normalized.range = IF range < Top THEN range * Radix ELSE range
         /\ normalized.low = IF range < Top THEN low * Radix ELSE low
<1>1. /\ range \in 0 .. Word - 1 /\ code \in 0 .. Word - 1 /\ pos \in Nat /\ low \in Nat
      /\ range >= ProbWord /\ (~stray => code < range)
  BY DEF IInv, TypeOK, OneShiftEnough, CodeInRange, ProbWord
<1>2. CASE range < Top
  <2>1. /\ normalized.range = (range * Radix) % Word
        /\ normalized.code = ((code * Radix) % Word) + read_u8
        /\ normalized.pos = pos + 1 /\ normalized.low = low * Radix
    BY <1>2 DEF normalized, normalize_due
  <2>2. /\ range * Radix + Radix <= Word /\ range * Radix \in Nat
        /\ range * Radix >= Top
    <3>1. range * Radix + Radix <= Top * Radix /\ range * Radix \in Nat
      BY <1>1, <1>2, Shifts, Widths
    <3>2. ProbWord * Radix <= range * Radix
      BY <1>1, Widths, ProductMonotone
    <3>3. ProbWord * Radix = Radix * ProbWord
      BY Widths, SMTT(30)
    <3> QED
      BY <3>1, <3>2, <3>3, Widths
  <2>3. (range * Radix) % Word = range * Radix
    <3> DEFINE x == range * Radix
    <3>1. x \in 0 .. Word - 1 /\ Word \in Nat /\ Word > 0
      BY <2>2, Widths
    <3> HIDE DEF x
    <3>2. x % Word = x
      BY <3>1, Wraps
    <3> QED
      BY <3>2 DEF x
  <2>4. (code * Radix) % Word \in 0 .. Word - Radix
    BY <1>1, WrappedShift
  <2>5. read_u8 \in 0 .. Radix - 1
    BY ByteRead DEF IInv
  <2>6. normalized.code \in 0 .. Word - 1
    <3> DEFINE x == (code * Radix) % Word
    <3>1. x \in 0 .. Word - Radix
      BY <2>4
    <3> HIDE DEF x
    <3>2. x + read_u8 \in 0 .. Word - 1
      BY <2>5, <3>1, Widths
    <3> QED
      BY <2>1, <3>2 DEF x
  <2>7. ASSUME ~stray PROVE normalized.code < normalized.range
    <3>1. code * Radix + Radix <= range * Radix /\ code * Radix \in Nat
      BY <1>1, <2>7, Shifts
    <3> DEFINE x == code * Radix
               y == range * Radix
    <3>2. /\ x \in 0 .. Word - 1 /\ Word \in Nat /\ Word > 0
          /\ x + Radix <= y /\ y \in Nat
      BY <2>2, <3>1, Widths
    <3>3. normalized.range = y
      BY <2>1, <2>3
    <3>4. normalized.code = (x % Word) + read_u8
      BY <2>1
    <3> HIDE DEF x, y
    <3>5. x % Word = x
      BY <3>2, Wraps
    <3> QED
      BY <2>5, <3>2, <3>3, <3>4, <3>5, Widths
  <2>8. low * Radix \in Nat
    BY <1>1, Widths, ProductMonotone
  <2> QED
    BY <1>1, <1>2, <2>1, <2>2, <2>3, <2>6, <2>7, <2>8, Widths
<1>3. CASE ~(range < Top)
  <2>1. /\ normalized.range = range /\ normalized.code = code
        /\ normalized.pos = pos /\ normalized.low = low
    BY <1>3 DEF normalized, normalize_due, unshifted
  <2> QED
    BY <1>1, <1>3, <2>1, Widths
<1> QED
  BY <1>2, <1>3

(* A bound between 0 and 1 leaves both sides wide enough for one shift.    *)
LEMMA Narrows ==
  ASSUME NEW r \in Top .. Word - 1, NEW p \in Inside
  PROVE  LET bound == (r \div Total) * p
         IN  /\ bound \in Nat /\ bound >= ProbWord
             /\ bound <= r /\ r - bound >= ProbWord
<1> DEFINE d == r \div Total
           m == Move - 1
<1>1. /\ Total \in Nat /\ Total > 0 /\ r \in Nat /\ Top \in Nat /\ Top <= r
      /\ m \in Nat /\ m >= 1 /\ p \in Nat /\ p >= m /\ Total - p \in Nat
      /\ Total - p >= m /\ ProbWord \in Nat
  BY Widths DEF Inside
<1>2. (Top \div Total) * m >= ProbWord
  BY WidthAssumption DEF ProbWord
<1>3. Top \div Total <= d
  BY <1>1, QuotientMonotone
<1>4. r = Total * d + (r % Total) /\ r % Total \in 0 .. Total - 1 /\ d \in Nat
  BY <1>1, DivMod
<1>5. Top \div Total \in Nat
  BY <1>1, DivMod
<1> HIDE DEF d, m
<1>6. d * m >= ProbWord
  <2> DEFINE c == Top \div Total
  <2>1. c \in Nat /\ c <= d /\ c * m >= ProbWord
    BY <1>2, <1>3, <1>5
  <2> HIDE DEF c
  <2>2. c * m <= d * m /\ c * m \in Nat /\ d * m \in Nat
    BY <1>1, <1>4, <2>1, ProductMonotone
  <2> QED
    BY <1>1, <2>1, <2>2
<1>7. d * p \in Nat /\ d * m <= d * p
  BY <1>1, <1>4, ProductMonotone
<1>8. d * m <= d * (Total - p) /\ d * m \in Nat /\ d * (Total - p) \in Nat
  <2> DEFINE q == Total - p
  <2>1. q \in Nat /\ m <= q
    BY <1>1
  <2> HIDE DEF q
  <2>2. d * m <= d * q /\ d * m \in Nat
    BY <1>1, <1>4, <2>1, ProductMonotone
  <2>3. d * q \in Nat
    BY <1>4, <2>1, ProductMonotone
  <2> QED
    BY <2>2, <2>3 DEF q
<1>9. d * (Total - p) = Total * d - d * p
  BY <1>1, <1>4, SMTT(30)
<1>10. Total * d <= r /\ Total * d \in Nat
  <2>1. Total * d \in Nat
    BY <1>1, <1>4, ProductMonotone
  <2> DEFINE x == Total * d
             y == r % Total
  <2>2. r = x + y /\ y \in 0 .. Total - 1 /\ x \in Nat
    BY <1>4, <2>1
  <2> HIDE DEF x, y
  <2>3. x <= r
    BY <1>1, <2>2
  <2> QED
    BY <2>1, <2>3 DEF x
<1> DEFINE b == d * p
           e == d * (Total - p)
           f == d * m
           g == Total * d
<1>11. /\ b \in Nat /\ f \in Nat /\ e \in Nat /\ g \in Nat
       /\ f >= ProbWord /\ f <= b /\ f <= e /\ e = g - b /\ g <= r
  BY <1>6, <1>7, <1>8, <1>9, <1>10
<1> HIDE DEF b, e, f, g
<1>12. b \in Nat /\ b >= ProbWord /\ b <= r /\ r - b >= ProbWord
  BY <1>1, <1>11
<1> QED
  BY <1>12 DEF b, d

(* Of an interval r half as wide: what the sign bit of the wrapped         *)
(* difference says of a code c that is inside, or anywhere in the word.    *)
LEMMA Halves ==
  ASSUME NEW r \in Top .. Word - 1, NEW c \in 0 .. Word - 1
  PROVE  LET half == r \div 2
             bit  == direct_bit((c - half) % Word)
         IN  /\ half \in ProbWord .. Word - 1 /\ 2 * half \in r - 1 .. r
             /\ bit \in {0, 1} /\ (bit = 1 => c >= half)
             /\ c < r /\ bit = 0 => c < half
<1> DEFINE half == r \div 2
           sign == Word \div 2
           diff == (c - half) % Word
           bit  == direct_bit(diff)
<1>1. r \in Nat /\ Top <= r /\ r < Word /\ Word \in Nat /\ Word > 0 /\ ProbWord \in Nat
      /\ Top >= 2 * ProbWord /\ Top \in Nat
  BY Widths
<1>2. half \in Nat /\ 2 * half \in r - 1 .. r
  BY <1>1, SMTT(30)
<1>3. sign \in Nat /\ 2 * sign \in Word - 1 .. Word
  BY <1>1, SMTT(30)
<1>4. bit = IF diff >= sign THEN 0 ELSE 1
  BY DEF direct_bit
<1>5. CASE c >= half
  <2> DEFINE x == c - half
  <2>1. x \in 0 .. Word - 1
    BY <1>1, <1>2, <1>5
  <2>2. x % Word = x
    <3> HIDE DEF x
    <3> QED
      BY <1>1, <2>1, Wraps
  <2>3. diff = c - half
    BY <2>2
  <2> HIDE DEF diff, half, sign, bit
  <2>4. c < r => diff < sign
    BY <1>1, <1>2, <1>3, <2>3
  <2>5. c < r => bit = 1
    <3>1. ASSUME c < r PROVE ~(diff >= sign)
      BY <1>1, <1>2, <1>3, <2>3, <2>4, <3>1
    <3> QED
      BY <3>1, <1>4
  <2>6. half \in ProbWord .. Word - 1
    BY <1>1, <1>2
  <2>7. bit \in {0, 1}
    BY <1>4
  <2>8. c < r => ~(bit = 0)
    BY <2>5
  <2> QED
    BY <1>2, <1>5, <2>6, <2>7, <2>8 DEF half, bit, diff
<1>6. CASE c < half
  <2> DEFINE x == half - c
  <2>1. x \in 0 .. Word - 1 /\ x > 0 /\ c - half = -x
    BY <1>1, <1>2, <1>6
  <2>2. (-x) % Word = Word - x
    <3> HIDE DEF x
    <3>1. x > 0 => (-x) % Word = Word - x
      BY <1>1, <2>1, Wraps, Zenon
    <3> QED
      BY <2>1, <3>1
  <2>3. diff = Word - x
    BY <2>1, <2>2
  <2> HIDE DEF diff, sign, bit
  <2>4. diff >= sign
    BY <1>1, <1>2, <1>3, <1>6, <2>3
  <2>5. bit = 0
    BY <1>4, <2>4
  <2> HIDE DEF half
  <2>6. half \in ProbWord .. Word - 1
    BY <1>1, <1>2
  <2> QED
    BY <1>2, <1>6, <2>5, <2>6 DEF half, bit, diff
<1> QED
  BY <1>1, <1>2, <1>5, <1>6

LEMMA BitOf ==
  ASSUME NEW b \in Nat, NEW c \in Nat
  PROVE  \/ bit_of(b, c) = 0 /\ c < b
         \/ bit_of(b, c) = 1 /\ c >= b
  BY DEF bit_of

(* What decode_bit does to range, code and low, in either case.            *)
LEMMA BitSteps ==
  ASSUME IInv, NEW c \in Contexts, DecodeBit(c)
  PROVE  LET n == normalized
             b == (n.range \div Total) * probs[c]
         IN  /\ probs[c] \in Inside /\ b \in Nat
             /\ b >= ProbWord /\ b <= n.range /\ n.range - b >= ProbWord
             /\ \/ /\ n.code < b /\ range' = b /\ code' = n.code /\ low' = n.low
                   /\ probs' = [probs EXCEPT ![c] = moved(probs[c], 0)]
                \/ /\ n.code >= b /\ range' = n.range - b /\ code' = n.code - b
                   /\ low' = n.low + b
                   /\ probs' = [probs EXCEPT ![c] = moved(probs[c], 1)]
<1> DEFINE n == normalized
           b == (n.range \div Total) * probs[c]
           bit == bit_of(b, n.code)
<1>1. pc = "decoding"
  BY DEF DecodeBit
<1>2. n.range \in Top .. Word - 1 /\ n.code \in Nat /\ n.low \in Nat
  BY <1>1, Normalized
<1>3. probs[c] \in Inside
  BY DEF IInv, ProbsInside, Inside
<1>4. b \in Nat /\ b >= ProbWord /\ b <= n.range /\ n.range - b >= ProbWord
  <2> HIDE DEF n
  <2> QED
    BY <1>2, <1>3, Narrows
<1>5. /\ range' = IF bit = 0 THEN b ELSE n.range - b
      /\ code' = n.code - bit * b /\ low' = n.low + bit * b
      /\ probs' = [probs EXCEPT ![c] = moved(probs[c], bit)]
  BY DEF DecodeBit
<1>6. \/ bit = 0 /\ n.code < b
      \/ bit = 1 /\ n.code >= b
  <2> HIDE DEF b, n
  <2> QED
    BY <1>2, <1>4, BitOf
<1> HIDE DEF b, n, bit
<1>7. CASE bit = 0 /\ n.code < b
  <2>1. range' = b /\ code' = n.code - 0 * b /\ low' = n.low + 0 * b
        /\ probs' = [probs EXCEPT ![c] = moved(probs[c], 0)]
    BY <1>5, <1>7
  <2>2. 0 * b = 0
    BY <1>4
  <2>3. code' = n.code /\ low' = n.low
    BY <1>2, <2>1, <2>2
  <2> QED
    BY <1>3, <1>4, <1>7, <2>1, <2>3 DEF b, n
<1>8. CASE bit = 1 /\ n.code >= b
  <2>1. range' = n.range - b /\ code' = n.code - 1 * b /\ low' = n.low + 1 * b
        /\ probs' = [probs EXCEPT ![c] = moved(probs[c], 1)]
    BY <1>5, <1>8
  <2>2. 1 * b = b
    BY <1>4
  <2>3. code' = n.code - b /\ low' = n.low + b
    BY <1>2, <2>1, <2>2
  <2> QED
    BY <1>3, <1>4, <1>8, <2>1, <2>3 DEF b, n
<1> QED
  BY <1>6, <1>7, <1>8

LEMMA MovedInside ==
  ASSUME NEW p \in Inside, NEW bit \in {0, 1}
  PROVE  moved(p, bit) \in Inside
<1>1. moved(p, 0) \in Inside
  BY MovedUp
<1>2. moved(p, 1) \in Inside
  BY MovedDown
<1> QED
  BY <1>1, <1>2

LEMMA ProbsTyped ==
  ASSUME TypeOK, ProbsInside, NEW c \in Contexts, NEW p \in Inside,
         probs' = [probs EXCEPT ![c] = p]
  PROVE  probs' \in [Contexts -> 0 .. ProbWord - 1] /\ ProbsInside'
<1>1. Inside \subseteq 0 .. ProbWord - 1
  BY Widths DEF Inside
<1>2. p \in 0 .. ProbWord - 1
  BY <1>1
<1>3. probs \in [Contexts -> 0 .. ProbWord - 1] /\ \A d \in Contexts : probs[d] \in Inside
  BY DEF TypeOK, ProbsInside, Inside
<1> HIDE DEF Inside
<1>4. probs' \in [Contexts -> 0 .. ProbWord - 1]
  BY <1>2, <1>3
<1>5. \A d \in Contexts : probs'[d] \in Inside
  BY <1>3
<1> QED
  BY <1>4, <1>5 DEF ProbsInside, Inside

LEMMA BitInv ==
  ASSUME IInv, NEW c \in Contexts, DecodeBit(c)
  PROVE  IInv'
<1> DEFINE n == normalized
           b == (n.range \div Total) * probs[c]
<1>1. /\ pc = "decoding" /\ pc' = pc /\ pos' = n.pos /\ bits < MaxBits /\ bits' = bits + 1
      /\ buf' = buf /\ message' = message /\ stray' = stray
  BY DEF DecodeBit
<1>2. /\ n.range \in Top .. Word - 1 /\ n.code \in 0 .. Word - 1
      /\ n.pos \in Nat /\ n.low \in Nat /\ (~stray => n.code < n.range)
  BY <1>1, Normalized
<1>3. /\ probs[c] \in Inside /\ b \in Nat
      /\ b >= ProbWord /\ b <= n.range /\ n.range - b >= ProbWord
      /\ \/ /\ n.code < b /\ range' = b /\ code' = n.code /\ low' = n.low
            /\ probs' = [probs EXCEPT ![c] = moved(probs[c], 0)]
         \/ /\ n.code >= b /\ range' = n.range - b /\ code' = n.code - b
            /\ low' = n.low + b
            /\ probs' = [probs EXCEPT ![c] = moved(probs[c], 1)]
  BY BitSteps
<1> HIDE DEF b, n
<1>4. /\ range' \in 0 .. Word - 1 /\ range' >= ProbWord /\ code' \in 0 .. Word - 1
      /\ low' \in Nat /\ (~stray => code' < range')
  BY <1>2, <1>3, Widths
<1>5. probs' \in [Contexts -> 0 .. ProbWord - 1] /\ ProbsInside'
  <2>1. \E bit \in {0, 1} : probs' = [probs EXCEPT ![c] = moved(probs[c], bit)]
    BY <1>3
  <2>2. PICK bit \in {0, 1} : probs' = [probs EXCEPT ![c] = moved(probs[c], bit)]
    BY <2>1
  <2> DEFINE p == moved(probs[c], bit)
  <2>3. p \in Inside /\ probs' = [probs EXCEPT ![c] = p]
    BY <1>3, <2>2, MovedInside
  <2> HIDE DEF p
  <2> QED
    BY <2>3, ProbsTyped DEF IInv
<1>6. bits' \in 0 .. MaxBits /\ bits' # 0
  BY <1>1, MessageAssumption DEF IInv, TypeOK
<1>7. TypeOK'
  BY <1>1, <1>2, <1>4, <1>5, <1>6 DEF IInv, TypeOK
<1>8. OneShiftEnough' /\ CodeInRange' /\ FreshRange'
  BY <1>1, <1>4, <1>6 DEF OneShiftEnough, CodeInRange, FreshRange, ProbWord
<1> QED
  BY <1>5, <1>7, <1>8 DEF IInv

LEMMA DirectSteps ==
  ASSUME IInv, DecodeDirectBit
  PROVE  LET n == normalized
             half == n.range \div 2
         IN  /\ half \in ProbWord .. Word - 1 /\ 2 * half \in n.range - 1 .. n.range
             /\ range' = half /\ stray' = (stray \/ n.code = 2 * half)
             /\ \/ /\ n.code < n.range => n.code < half
                   /\ code' = n.code /\ low' = n.low
                \/ /\ n.code >= half /\ code' = n.code - half /\ low' = n.low + half
<1> DEFINE n == normalized
           half == n.range \div 2
           bit  == direct_bit((n.code - half) % Word)
<1>1. pc = "decoding"
  BY DEF DecodeDirectBit
<1>2. n.range \in Top .. Word - 1 /\ n.code \in 0 .. Word - 1 /\ n.low \in Nat
  BY <1>1, Normalized
<1>3. /\ half \in ProbWord .. Word - 1 /\ 2 * half \in n.range - 1 .. n.range
      /\ bit \in {0, 1} /\ (bit = 1 => n.code >= half)
      /\ (n.code < n.range /\ bit = 0 => n.code < half)
  <2> HIDE DEF n
  <2> QED
    BY <1>2, Halves
<1>4. /\ range' = half /\ stray' = (stray \/ n.code = 2 * half)
      /\ code' = n.code - bit * half /\ low' = n.low + bit * half
  BY DEF DecodeDirectBit
<1>5. half \in Nat
  BY <1>3, Widths
<1> HIDE DEF n, half, bit
<1>6. CASE bit = 0
  <2>1. 0 * half = 0
    BY <1>5
  <2>2. code' = n.code - 0 * half /\ low' = n.low + 0 * half
    BY <1>4, <1>6
  <2>3. code' = n.code /\ low' = n.low
    BY <1>2, <2>1, <2>2
  <2> QED
    BY <1>3, <1>4, <1>6, <2>3 DEF n, half
<1>7. CASE bit = 1
  <2>1. 1 * half = half
    BY <1>5
  <2>2. code' = n.code - 1 * half /\ low' = n.low + 1 * half
    BY <1>4, <1>7
  <2>3. code' = n.code - half /\ low' = n.low + half
    BY <1>2, <2>1, <2>2
  <2> QED
    BY <1>3, <1>4, <1>7, <2>3 DEF n, half
<1> QED
  BY <1>3, <1>6, <1>7

LEMMA DirectInv ==
  ASSUME IInv, DecodeDirectBit
  PROVE  IInv'
<1> DEFINE n == normalized
           half == n.range \div 2
<1>1. /\ pc = "decoding" /\ pc' = pc /\ pos' = n.pos /\ bits < MaxBits /\ bits' = bits + 1
      /\ buf' = buf /\ message' = message /\ probs' = probs
  BY DEF DecodeDirectBit
<1>2. /\ n.range \in Top .. Word - 1 /\ n.code \in 0 .. Word - 1
      /\ n.pos \in Nat /\ n.low \in Nat /\ (~stray => n.code < n.range)
  BY <1>1, Normalized
<1>3. /\ half \in ProbWord .. Word - 1 /\ 2 * half \in n.range - 1 .. n.range
      /\ range' = half /\ stray' = (stray \/ n.code = 2 * half)
      /\ \/ /\ n.code < n.range => n.code < half
            /\ code' = n.code /\ low' = n.low
         \/ /\ n.code >= half /\ code' = n.code - half /\ low' = n.low + half
  BY DirectSteps
<1>4. stray' \in BOOLEAN /\ (~stray' => ~stray /\ n.code # 2 * half)
  BY <1>3
<1>5. half \in Nat
  BY <1>3, Widths
<1> HIDE DEF half, n
<1>6. range' \in 0 .. Word - 1 /\ range' >= ProbWord
  BY <1>3, <1>5, Widths
<1>7. code' \in 0 .. Word - 1 /\ low' \in Nat
  BY <1>2, <1>3, <1>5, Widths
<1>8. ASSUME ~stray' PROVE code' < range'
  <2>1. n.code < n.range /\ n.code # 2 * half
    BY <1>2, <1>4, <1>8
  <2>2. CASE code' = n.code /\ n.code < half
    BY <1>3, <2>2
  <2>3. CASE code' = n.code - half
    BY <1>2, <1>3, <1>5, <2>1, <2>3
  <2> QED
    BY <1>3, <2>1, <2>2, <2>3
<1>9. bits' \in 0 .. MaxBits /\ bits' # 0
  BY <1>1, MessageAssumption DEF IInv, TypeOK
<1>10. TypeOK'
  BY <1>1, <1>2, <1>4, <1>6, <1>7, <1>9 DEF IInv, TypeOK
<1>11. OneShiftEnough' /\ CodeInRange' /\ FreshRange'
  BY <1>1, <1>6, <1>8, <1>9 DEF OneShiftEnough, CodeInRange, FreshRange, ProbWord
<1>12. ProbsInside'
  BY <1>1 DEF IInv, ProbsInside
<1> QED
  BY <1>10, <1>11, <1>12 DEF IInv

(* Five digits make a word.                                                *)
LEMMA DigitOnTop ==
  ASSUME NEW x \in Nat, NEW y \in Nat, x < y, NEW d \in Digits
  PROVE  x * Radix + d \in Nat /\ x * Radix + d < y * Radix
<1>1. x * Radix + Radix <= y * Radix /\ x * Radix \in Nat
  BY Shifts
<1>2. y * Radix \in Nat
  BY Widths, ProductMonotone
<1>3. d \in Nat /\ d < Radix /\ Radix \in Nat
  BY Widths DEF Digits
<1> DEFINE a == x * Radix
           b == y * Radix
<1>4. a \in Nat /\ b \in Nat /\ a + Radix <= b
  BY <1>1, <1>2
<1> HIDE DEF a, b
<1>5. a + d \in Nat /\ a + d < b
  BY <1>3, <1>4
<1> QED
  BY <1>5 DEF a, b

LEMMA WordRead ==
  ASSUME NEW m \in Seq(Digits), Len(m) >= 5
  PROVE  read_u32_be(m) \in 0 .. Word - 1
<1>1. m[2] \in Digits /\ m[3] \in Digits /\ m[4] \in Digits /\ m[5] \in Digits
  <2>1. 2 \in 1 .. Len(m) /\ 3 \in 1 .. Len(m) /\ 4 \in 1 .. Len(m) /\ 5 \in 1 .. Len(m)
    OBVIOUS
  <2> QED
    BY <2>1
<1> DEFINE x == m[2] * Radix + m[3]
           y == x * Radix + m[4]
           z == y * Radix + m[5]
<1>2. x \in Nat /\ x < ProbWord
  <2>1. m[2] \in Nat /\ m[2] < Radix /\ Radix \in Nat
    <3> DEFINE d == m[2]
    <3>1. d \in Digits
      BY <1>1
    <3> HIDE DEF d, x, y, z
    <3>2. Radix \in Nat
      BY Widths
    <3>3. d \in Nat /\ d < Radix
      BY <3>1, <3>2 DEF Digits
    <3> QED
      BY <3>2, <3>3 DEF d
  <2>2. m[2] * Radix + m[3] \in Nat /\ m[2] * Radix + m[3] < Radix * Radix
    BY <1>1, <2>1, DigitOnTop, Zenon
  <2> QED
    BY <2>2, Zenon DEF ProbWord
<1> HIDE DEF x
<1>3. y \in Nat /\ y < Top
  <2>1. y \in Nat /\ y < ProbWord * Radix
    BY <1>1, <1>2, Widths, DigitOnTop
  <2>2. ProbWord * Radix = Radix * ProbWord
    BY Widths, SMTT(30)
  <2> QED
    BY <2>1, <2>2, Widths
<1> HIDE DEF y
<1>4. z \in Nat /\ z < Word
  <2>1. z \in Nat /\ z < Top * Radix
    BY <1>1, <1>3, Widths, DigitOnTop
  <2> QED
    BY <2>1, Widths
<1>5. read_u32_be(m) = z
  BY DEF read_u32_be, x, y, z
<1> HIDE DEF z
<1> QED
  BY <1>4, <1>5, Widths

LEMMA PrepareInv ==
  ASSUME IInv, NEW m \in Messages, NEW renewed \in BOOLEAN, Prepare(m, renewed)
  PROVE  IInv'
<1>1. /\ m \in Seq(Digits) /\ Len(m) \in Nat /\ Len(m) <= BufSize + 5 /\ Len(m) >= 5
      /\ BufSize \in Nat /\ MaxBits \in Nat
  BY MessageAssumption DEF Prepare, Acceptable
<1>2. /\ code' = read_u32_be(m) /\ range' = Word - 1 /\ buf' = Placed(m)
      /\ pos' = BufSize - (Len(m) - 5)
      /\ probs' = (IF renewed THEN EvenProbs ELSE probs)
      /\ pc' = "decoding" /\ bits' = 0 /\ message' = m /\ low' = 0
      /\ stray' = (code' = Word - 1)
  BY DEF Prepare
<1>3. code' \in 0 .. Word - 1
  BY <1>1, <1>2, WordRead
<1>4. range' \in 0 .. Word - 1 /\ range' >= ProbWord
  BY <1>2, Widths
<1>5. stray' \in BOOLEAN /\ (~stray' => code' < range')
  <2>1. stray' \in BOOLEAN /\ (~stray' => code' # Word - 1)
    BY <1>2, Zenon
  <2>2. code' # Word - 1 => code' < range'
    BY <1>2, <1>3, Widths
  <2> QED
    BY <2>1, <2>2, Zenon
<1>6. pos' \in Nat
  BY <1>1, <1>2
<1>7. buf' \in [0 .. BufSize - 1 -> Digits]
  <2>1. ASSUME NEW i \in 0 .. BufSize - 1, i >= BufSize - (Len(m) - 5)
        PROVE  m[i - BufSize + Len(m) + 1] \in Digits
    <3> DEFINE k == i - BufSize + Len(m) + 1
    <3>1. k \in 1 .. Len(m)
      BY <1>1, <2>1
    <3> HIDE DEF k
    <3>2. m[k] \in Digits
      BY <1>1, <3>1
    <3> QED
      BY <3>2 DEF k
  <2>2. \A i \in 0 .. BufSize - 1 : buf[i] \in Digits
    BY DEF IInv, TypeOK
  <2> QED
    BY <1>2, <2>1, <2>2 DEF Placed
<1>8. probs' \in [Contexts -> 0 .. ProbWord - 1] /\ ProbsInside'
  <2>1. CASE renewed
    <3>1. Total \div 2 \in Inside /\ Total \div 2 \in 0 .. ProbWord - 1
      <4> DEFINE h == Total \div 2
      <4>1. h \in Nat /\ 2 * h \in Total - 1 .. Total
        BY Widths, SMTT(30)
      <4> HIDE DEF h
      <4>2. h \in Inside /\ h \in 0 .. ProbWord - 1
        BY <4>1, Widths DEF Inside
      <4> QED
        BY <4>2 DEF h
    <3>2. probs' = [c \in Contexts |-> Total \div 2]
      BY <1>2, <2>1 DEF EvenProbs
    <3> DEFINE h == Total \div 2
    <3>3. h \in Inside /\ h \in 0 .. ProbWord - 1 /\ probs' = [c \in Contexts |-> h]
      BY <3>1, <3>2
    <3> HIDE DEF h
    <3> QED
      BY <3>3 DEF ProbsInside, Inside
  <2>2. CASE ~renewed
    BY <1>2, <2>2 DEF IInv, TypeOK, ProbsInside
  <2> QED
    BY <2>1, <2>2
<1>9. TypeOK'
  BY <1>1, <1>2, <1>3, <1>4, <1>5, <1>6, <1>7, <1>8 DEF TypeOK
<1>10. OneShiftEnough' /\ CodeInRange' /\ FreshRange'
  BY <1>2, <1>4, <1>5 DEF OneShiftEnough, CodeInRange, FreshRange, ProbWord
<1> QED
  BY <1>8, <1>9, <1>10 DEF IInv

LEMMA RefuseInv ==
  ASSUME IInv, NEW m \in Messages, Refuse(m)
  PROVE  IInv'
  BY DEF Refuse, IInv, TypeOK, ProbsInside, OneShiftEnough, CodeInRange, FreshRange

LEMMA EndRoundInv ==
  ASSUME IInv, NEW last \in BOOLEAN, EndRound(last)
  PROVE  IInv'
<1> DEFINE n == normalized
<1>1. /\ pc = "decoding" /\ bits > 0 /\ range' = n.range /\ code' = n.code
      /\ pos' = n.pos /\ low' = n.low /\ pc' \in {"decoding", "idle", "failed"}
      /\ buf' = buf /\ probs' = probs /\ bits' = bits /\ message' = message
      /\ stray' = stray
  BY DEF EndRound, at_end
<1>2. /\ n.range \in Top .. Word - 1 /\ n.code \in 0 .. Word - 1
      /\ n.pos \in Nat /\ n.low \in Nat /\ (~stray => n.code < n.range)
  BY <1>1, Normalized
<1> HIDE DEF n
<1>3. /\ range' \in 0 .. Word - 1 /\ range' >= ProbWord /\ code' \in 0 .. Word - 1
      /\ (~stray' => code' < range') /\ bits' # 0
  <2>1. range' \in 0 .. Word - 1 /\ range' >= ProbWord /\ code' \in 0 .. Word - 1
    BY <1>1, <1>2, Widths
  <2>2. ~stray' => code' < range'
    BY <1>1, <1>2, Zenon
  <2>3. bits' # 0
    BY <1>1 DEF IInv, TypeOK
  <2> QED
    BY <2>1, <2>2, <2>3
<1>4. TypeOK'
  BY <1>1, <1>2, <1>3 DEF IInv, TypeOK
<1>5. OneShiftEnough' /\ CodeInRange' /\ FreshRange' /\ ProbsInside'
  BY <1>1, <1>3 DEF IInv, OneShiftEnough, CodeInRange, FreshRange, ProbsInside, ProbWord
<1> QED
  BY <1>4, <1>5 DEF IInv

LEMMA InitIInv == Init => IInv
<1> SUFFICES ASSUME Init PROVE IInv
  OBVIOUS
<1> DEFINE h == Total \div 2
<1>1. h \in Nat /\ 2 * h \in Total - 1 .. Total
  BY Widths, SMTT(30)
<1>2. probs = [c \in Contexts |-> h]
  BY DEF Init, EvenProbs
<1> HIDE DEF h
<1>3. h \in 0 .. ProbWord - 1 /\ h \in Inside
  BY <1>1, Widths DEF Inside
<1>4. probs \in [Contexts -> 0 .. ProbWord - 1] /\ ProbsInside
  BY <1>2, <1>3 DEF ProbsInside, Inside
<1>5. 0 \in Digits /\ 0 \in 0 .. Word - 1
  BY Widths DEF Digits
<1>6. TypeOK
  <2>1. /\ range = 0 /\ code = 0 /\ pc = "idle" /\ bits = 0 /\ message = <<>>
        /\ low = 0 /\ pos = BufSize
    BY DEF Init
  <2>2. buf \in [0 .. BufSize - 1 -> Digits]
    BY <1>5 DEF Init
  <2>3. stray \in BOOLEAN
    BY DEF Init
  <2>4. pos \in Nat /\ bits \in 0 .. MaxBits /\ message \in Seq(Digits) /\ low \in Nat
    BY <2>1, MessageAssumption
  <2> QED
    BY <1>4, <1>5, <2>1, <2>2, <2>3, <2>4 DEF TypeOK
<1> QED
  BY <1>4, <1>6 DEF IInv, Init, OneShiftEnough, CodeInRange, FreshRange

LEMMA NextIInv == IInv /\ [Next]_vars => IInv'
<1> SUFFICES ASSUME IInv, [Next]_vars PROVE IInv'
  OBVIOUS
<1>1. CASE \E m \in Messages, renewed \in BOOLEAN : Prepare(m, renewed)
  BY <1>1, PrepareInv
<1>2. CASE \E m \in Messages : Refuse(m)
  BY <1>2, RefuseInv
<1>3. CASE \E c \in Contexts : DecodeBit(c)
  BY <1>3, BitInv
<1>4. CASE DecodeDirectBit
  BY <1>4, DirectInv
<1>5. CASE \E last \in BOOLEAN : EndRound(last)
  BY <1>5, EndRoundInv
<1>6. CASE UNCHANGED vars
  BY <1>6 DEF vars, IInv, TypeOK, ProbsInside, OneShiftEnough, CodeInRange, FreshRange
<1> QED
  BY <1>1, <1>2, <1>3, <1>4, <1>5, <1>6 DEF Next

(* The inductive invariant, over chunks and bits in any order.             *)
THEOREM Invariance == Spec => []IInv
  BY InitIInv, NextIInv, PTL DEF Spec

(* No bit ever becomes impossible, however often the other one comes.      *)
THEOREM ProbsStayInside == Spec => []ProbsInside
<1>1. IInv => ProbsInside
  BY DEF IInv
<1> QED
  BY <1>1, Invariance, PTL

(* The words keep their width, one shift is always enough, and the code    *)
(* stays in the interval, so that a sign bit is as good as a comparison.   *)
THEOREM StaysInRange == Spec => []InRange
<1>1. IInv => InRange
  BY DEF IInv, InRange
<1> QED
  BY <1>1, Invariance, PTL

(* The encoder                                                             *)

elow   == IF normalize_due THEN low * Radix ELSE low
erange == IF bits = 0 THEN Word - 1
          ELSE IF normalize_due THEN range * Radix ELSE range

LEMMA EncoderWidths == Encoder!Top = Top /\ Encoder!Word = Word
  BY DEF Encoder!Top, Encoder!Word, Top, Word

(* Before a bit the encoder's interval is the one after the shift.         *)
LEMMA SameInterval ==
  ASSUME IInv, pc = "decoding"
  PROVE  elow = normalized.low /\ erange = normalized.range
<1>1. /\ normalized.range = IF range < Top THEN range * Radix ELSE range
      /\ normalized.low = IF range < Top THEN low * Radix ELSE low
  BY Normalized
<1>2. bits = 0 => range = Word - 1 /\ ~(range < Top)
  BY Widths DEF IInv, FreshRange
<1> QED
  BY <1>1, <1>2 DEF elow, erange, normalize_due

(* After one the encoder has shifted already where the decoder will.       *)
LEMMA SameNarrow ==
  ASSUME bits' # 0, NEW base \in Nat, NEW width \in Nat, low' = base, range' = width
  PROVE  /\ elow' = IF width < Top THEN base * Radix ELSE base
         /\ erange' = IF width < Top THEN width * Radix ELSE width
  BY DEF elow, erange, normalize_due

LEMMA NarrowOf ==
  ASSUME bits' # 0, NEW base \in Nat, NEW width \in Nat, low' = base, range' = width
  PROVE  Encoder!Narrow(base, width)
<1>1. /\ elow' = IF width < Top THEN base * Radix ELSE base
      /\ erange' = IF width < Top THEN width * Radix ELSE width
  BY SameNarrow
<1>2. Top \in Nat
  BY Widths
<1>3. width >= Top \/ width < Top
  BY <1>2
<1>4. ~(width >= Top /\ width < Top)
  BY <1>2
<1> QED
  BY <1>1, <1>3, <1>4, EncoderWidths DEF Encoder!Narrow, elow, erange

LEMMA InitEncoder == Init => Encoder!Init
<1> SUFFICES ASSUME Init PROVE Encoder!Init
  OBVIOUS
<1>1. low = 0 /\ bits = 0 /\ probs = EvenProbs
  BY DEF Init
<1>2. 0 * Radix = 0
  BY Widths
<1>3. elow = 0 /\ erange = Word - 1
  BY <1>1, <1>2 DEF elow, erange
<1> QED
  BY <1>1, <1>3, EncoderWidths DEF Encoder!Init, Encoder!EvenProbs, EvenProbs, elow, erange

LEMMA NarrowSteps ==
  ASSUME bits' # 0, NEW base \in Nat, NEW width \in Nat, low' = base, range' = width
  PROVE  \/ width >= Top /\ elow' = base /\ erange' = width
         \/ width < Top /\ elow' = base * Radix /\ erange' = width * Radix
<1>1. /\ elow' = IF width < Top THEN base * Radix ELSE base
      /\ erange' = IF width < Top THEN width * Radix ELSE width
  BY SameNarrow
<1>2. width >= Top \/ width < Top
  BY Widths
<1>3. ~(width >= Top /\ width < Top)
  BY Widths
<1> QED
  BY <1>1, <1>2, <1>3

LEMMA BitRefines ==
  ASSUME IInv, NEW c \in Contexts, DecodeBit(c)
  PROVE  \E bit \in {0, 1} : Encoder!Encode(c, bit)
<1> DEFINE n == normalized
           b == (n.range \div Total) * probs[c]
           p == probs[c]
<1>1. pc = "decoding" /\ bits' = bits + 1 /\ bits \in Nat
  BY DEF DecodeBit, IInv, TypeOK
<1>2. n.range \in Top .. Word - 1 /\ n.code \in 0 .. Word - 1 /\ n.low \in Nat
  BY <1>1, Normalized
<1>3. elow = n.low /\ erange = n.range
  BY <1>1, SameInterval
<1>4. Encoder!Bound(c) = b
  BY <1>3 DEF Encoder!Bound, erange
<1>5. /\ p \in Inside /\ b \in Nat /\ b <= n.range
      /\ \/ /\ n.code < b /\ range' = b /\ code' = n.code /\ low' = n.low
            /\ probs' = [probs EXCEPT ![c] = moved(p, 0)]
         \/ /\ n.code >= b /\ range' = n.range - b /\ code' = n.code - b
            /\ low' = n.low + b
            /\ probs' = [probs EXCEPT ![c] = moved(p, 1)]
  BY BitSteps
<1>6. bits' # 0
  BY <1>1
<1>7. moved(p, 0) = Encoder!Moved(p, 0) /\ moved(p, 1) = Encoder!Moved(p, 1)
  <2> HIDE DEF p
  <2>1. moved(p, 0) = p + ((Total - p) \div Move)
    BY <1>5, MovedUp
  <2>2. moved(p, 1) = p - (p \div Move)
    BY <1>5, MovedDown
  <2> QED
    BY <2>1, <2>2 DEF Encoder!Moved
<1> HIDE DEF n, b
<1>8. CASE /\ range' = b /\ low' = n.low
           /\ probs' = [probs EXCEPT ![c] = moved(p, 0)]
  <2>1. \/ b >= Top /\ elow' = n.low /\ erange' = b
        \/ b < Top /\ elow' = n.low * Radix /\ erange' = b * Radix
    BY <1>2, <1>5, <1>6, <1>8, NarrowSteps
  <2>2. Encoder!Narrow(elow, Encoder!Bound(c))
    BY <1>3, <1>4, <2>1, EncoderWidths DEF Encoder!Narrow, elow, erange
  <2>3. probs' = [probs EXCEPT ![c] = Encoder!Moved(@, 0)]
    BY <1>7, <1>8
  <2>4. Encoder!Encode(c, 0)
    BY <2>2, <2>3 DEF Encoder!Encode, elow
  <2> QED
    BY <2>4
<1>9. CASE /\ range' = n.range - b /\ low' = n.low + b
           /\ probs' = [probs EXCEPT ![c] = moved(p, 1)]
  <2> DEFINE base == n.low + b
             width == n.range - b
  <2>0. base \in Nat /\ width \in Nat
    BY <1>2, <1>5, Widths
  <2>1. \/ width >= Top /\ elow' = base /\ erange' = width
        \/ width < Top /\ elow' = base * Radix /\ erange' = width * Radix
    <3> HIDE DEF base, width
    <3> QED
      BY <1>6, <1>9, <2>0, NarrowSteps DEF base, width
  <2>2. Encoder!Narrow(elow + Encoder!Bound(c), erange - Encoder!Bound(c))
    BY <1>3, <1>4, <2>1, EncoderWidths DEF Encoder!Narrow, elow, erange
  <2>3. probs' = [probs EXCEPT ![c] = Encoder!Moved(@, 1)]
    BY <1>7, <1>9
  <2>4. Encoder!Encode(c, 1)
    BY <2>2, <2>3 DEF Encoder!Encode, elow, erange
  <2> QED
    BY <2>4
<1> QED
  BY <1>5, <1>8, <1>9

LEMMA DirectRefines ==
  ASSUME IInv, DecodeDirectBit
  PROVE  \E bit \in {0, 1} : Encoder!EncodeDirect(bit)
<1> DEFINE n == normalized
           half == n.range \div 2
<1>1. pc = "decoding" /\ bits' = bits + 1 /\ bits \in Nat /\ probs' = probs
  BY DEF DecodeDirectBit, IInv, TypeOK
<1>2. n.low \in Nat
  BY <1>1, Normalized
<1>3. elow = n.low /\ erange = n.range
  BY <1>1, SameInterval
<1>4. /\ half \in Nat /\ range' = half
      /\ low' = n.low \/ low' = n.low + half
  BY DirectSteps, Widths
<1>5. bits' # 0
  BY <1>1
<1>6. erange \div 2 = half
  BY <1>3
<1> HIDE DEF n, half
<1>7. CASE low' = n.low
  <2>1. \/ half >= Top /\ elow' = n.low /\ erange' = half
        \/ half < Top /\ elow' = n.low * Radix /\ erange' = half * Radix
    BY <1>2, <1>4, <1>5, <1>7, NarrowSteps
  <2>2. Encoder!Narrow(elow, erange \div 2)
    BY <1>3, <1>6, <2>1, EncoderWidths DEF Encoder!Narrow, elow, erange
  <2>3. Encoder!EncodeDirect(0)
    BY <1>1, <2>2 DEF Encoder!EncodeDirect, elow, erange
  <2> QED
    BY <2>3
<1>8. CASE low' = n.low + half
  <2> DEFINE base == n.low + half
  <2>0. base \in Nat
    BY <1>2, <1>4
  <2>1. \/ half >= Top /\ elow' = base /\ erange' = half
        \/ half < Top /\ elow' = base * Radix /\ erange' = half * Radix
    <3> HIDE DEF base
    <3> QED
      BY <1>4, <1>5, <1>8, <2>0, NarrowSteps DEF base
  <2>2. Encoder!Narrow(elow + (erange \div 2), erange \div 2)
    BY <1>3, <1>6, <2>1, EncoderWidths DEF Encoder!Narrow, elow, erange
  <2>3. Encoder!EncodeDirect(1)
    BY <1>1, <2>2 DEF Encoder!EncodeDirect, elow, erange
  <2> QED
    BY <2>3
<1> QED
  BY <1>4, <1>7, <1>8

(* The shift at the end of a call is one the encoder has made already.     *)
LEMMA EndRoundStutters ==
  ASSUME IInv, NEW last \in BOOLEAN, EndRound(last)
  PROVE  elow' = elow /\ erange' = erange /\ probs' = probs
<1> DEFINE n == normalized
<1>1. /\ pc = "decoding" /\ bits > 0 /\ range' = n.range /\ low' = n.low
      /\ probs' = probs /\ bits' = bits
  BY DEF EndRound, at_end
<1>2. n.range \in Top .. Word - 1
  BY <1>1, Normalized
<1>3. elow = n.low /\ erange = n.range
  BY <1>1, SameInterval
<1> HIDE DEF n
<1>4. bits' # 0 /\ ~(range' < Top)
  BY <1>1, <1>2, Widths DEF IInv, TypeOK
<1>5. elow' = low' /\ erange' = range'
  BY <1>4 DEF elow, erange, normalize_due
<1> QED
  BY <1>1, <1>3, <1>5

LEMMA StepEncoder == IInv /\ [Next]_vars => [Encoder!Next]_(Encoder!vars)
<1> SUFFICES ASSUME IInv, [Next]_vars
             PROVE  Encoder!Next \/ UNCHANGED Encoder!vars
  OBVIOUS
<1>1. CASE \E m \in Messages, renewed \in BOOLEAN : Prepare(m, renewed)
  <2>1. PICK m \in Messages, renewed \in BOOLEAN : Prepare(m, renewed)
    BY <1>1
  <2>2. /\ low' = 0 /\ range' = Word - 1 /\ bits' = 0
        /\ probs' = IF renewed THEN EvenProbs ELSE probs
    BY <2>1 DEF Prepare
  <2>3. 0 * Radix = 0
    BY Widths
  <2>4. elow' = 0 /\ erange' = Word - 1
    BY <2>2, <2>3 DEF elow, erange
  <2>5. Encoder!Begin(renewed)
    BY <2>2, <2>4, EncoderWidths
    DEF Encoder!Begin, Encoder!EvenProbs, EvenProbs, elow, erange
  <2> QED
    BY <2>5 DEF Encoder!Next
<1>2. CASE \E m \in Messages : Refuse(m)
  <2>1. UNCHANGED <<low, range, bits, probs>>
    BY <1>2 DEF Refuse
  <2> QED
    BY <2>1 DEF Encoder!vars, normalize_due
<1>3. CASE \E c \in Contexts : DecodeBit(c)
  BY <1>3, BitRefines DEF Encoder!Next
<1>4. CASE DecodeDirectBit
  BY <1>4, DirectRefines DEF Encoder!Next
<1>5. CASE \E last \in BOOLEAN : EndRound(last)
  <2>1. elow' = elow /\ erange' = erange /\ probs' = probs
    BY <1>5, EndRoundStutters
  <2> QED
    BY <2>1 DEF Encoder!vars, elow, erange
<1>6. CASE UNCHANGED vars
  BY <1>6 DEF vars, Encoder!vars, normalize_due
<1> QED
  BY <1>1, <1>2, <1>3, <1>4, <1>5, <1>6 DEF Next

(* For words of every width the decoder takes the steps the encoder took:  *)
(* the same intervals, the same probabilities, for every row of bits.      *)
THEOREM DecoderFollowsEncoder == Spec => ImplementsEncoder
  BY InitEncoder, StepEncoder, Invariance, PTL DEF Spec, ImplementsEncoder, Encoder!Spec

-----------------------------------------------------------------------------
(* The number of a sequence of digits.  Value is defined by recursion over *)
(* them: that there is such a function, that it is the only one and that   *)
(* a digit more is a shift is shown by the least place where it would fail.*)

(* Every nonempty set of natural numbers has a least element.              *)
LEMMA Least ==
  ASSUME NEW S, S \subseteq Nat, S # {}
  PROVE  \E x \in S : \A y \in S : x <= y
<1> DEFINE R == OpToRel(<, Nat)
<1>1. IsWellFoundedOn(R, Nat)
  BY NatLessThanWellFounded
<1>2. \A x, y \in Nat : y < x => <<y, x>> \in R
  BY DEF OpToRel
<1> HIDE DEF R
<1>3. PICK x \in S : \A y \in S : ~ (<<y, x>> \in R)
  BY <1>1, WFMin
<1>4. \A y \in S : ~ (y < x)
  BY <1>2, <1>3
<1>5. \A y \in S : x <= y
  BY <1>4
<1> QED
  BY <1>5

(* f gives the number of every prefix of s up to n digits.                 *)
Prefixes(f, s, n) ==
  /\ f \in [0 .. n -> Nat]
  /\ f[0] = 0
  /\ \A i \in 1 .. n : f[i] = f[i - 1] * Radix + s[i]

LEMMA DigitShift ==
  ASSUME NEW x \in Nat, NEW d \in Nat
  PROVE  x * Radix + d \in Nat
<1>1. x * Radix \in Nat
  BY Widths, ProductMonotone
<1> QED
  BY <1>1

LEMMA PrefixesExist ==
  ASSUME NEW s \in Seq(Nat)
  PROVE  \A n \in 0 .. Len(s) : \E f : Prefixes(f, s, n)
<1> DEFINE S == {n \in 0 .. Len(s) : ~ (\E f : Prefixes(f, s, n))}
<1> SUFFICES ASSUME S # {} PROVE FALSE
  OBVIOUS
<1>1. PICK n \in S : \A m \in S : n <= m
  <2>1. S \subseteq Nat
    OBVIOUS
  <2> QED
    BY <2>1, Least
<1>2. CASE n = 0
  <2>1. Prefixes([i \in 0 .. 0 |-> 0], s, 0)
    BY DEF Prefixes
  <2> QED
    BY <1>1, <1>2, <2>1
<1>3. CASE n > 0
  <2>1. n - 1 \in 0 .. Len(s) /\ n - 1 \notin S /\ n \in 1 .. Len(s)
    <3>1. n \in 0 .. Len(s) /\ Len(s) \in Nat
      OBVIOUS
    <3>2. n - 1 \in 0 .. Len(s) /\ n \in 1 .. Len(s) /\ ~(n <= n - 1)
      BY <1>3, <3>1
    <3>3. n - 1 \notin S
      <4> HIDE DEF S
      <4> QED
        BY <1>1, <3>2
    <3> QED
      BY <3>2, <3>3
  <2>2. PICK f : Prefixes(f, s, n - 1)
    BY <2>1
  <2> DEFINE g == [i \in 0 .. n |-> IF i = n THEN f[n - 1] * Radix + s[n] ELSE f[i]]
  <2>3. f[n - 1] * Radix + s[n] \in Nat
    <3>1. f[n - 1] \in Nat
      <4>1. n - 1 \in 0 .. n - 1
        BY <2>1
      <4> QED
        BY <2>2, <4>1 DEF Prefixes
    <3>2. s[n] \in Nat
      BY <2>1
    <3> QED
      BY <3>1, <3>2, DigitShift
  <2>4. g \in [0 .. n -> Nat] /\ g[0] = 0
    BY <1>3, <2>1, <2>2, <2>3 DEF Prefixes
  <2>5. ASSUME NEW i \in 1 .. n PROVE g[i] = g[i - 1] * Radix + s[i]
    <3>1. CASE i = n
      BY <1>3, <2>1, <3>1
    <3>2. CASE i # n
      <4>1. i \in 1 .. n - 1 /\ i - 1 \in 0 .. n - 1
        BY <2>1, <3>2
      <4>2. g[i] = f[i] /\ g[i - 1] = f[i - 1]
        BY <2>1, <3>2, <4>1
      <4>3. f[i] = f[i - 1] * Radix + s[i]
        BY <2>2, <4>1 DEF Prefixes
      <4> QED
        BY <4>2, <4>3
    <3> QED
      BY <3>1, <3>2
  <2>6. Prefixes(g, s, n)
    BY <2>4, <2>5 DEF Prefixes
  <2> QED
    BY <1>1, <2>6
<1> QED
  BY <1>1, <1>2, <1>3

(* What Value gives is the last of them.                                   *)
LEMMA ValueIsLast ==
  ASSUME NEW s \in Seq(Nat)
  PROVE  \E f : Prefixes(f, s, Len(s)) /\ Value(s) = f[Len(s)]
<1> DEFINE n == Len(s)
           Rule(f) == f = [i \in 0 .. n |-> IF i = 0 THEN 0 ELSE f[i - 1] * Radix + s[i]]
           g == CHOOSE f : Rule(f)
<1>0. n \in Nat
  OBVIOUS
<1>1. Value(s) = g[n]
  BY DEF Value
<1>2. PICK h : Prefixes(h, s, n)
  BY PrefixesExist
<1>3. Rule(h)
  BY <1>0, <1>2 DEF Prefixes
<1>4. Rule(g)
  BY <1>3
<1> HIDE DEF g
<1>5. g[0] = 0 /\ \A i \in 1 .. n : g[i] = g[i - 1] * Radix + s[i]
  <2>1. g[0] = 0
    BY <1>0, <1>4
  <2>2. ASSUME NEW i \in 1 .. n PROVE g[i] = g[i - 1] * Radix + s[i]
    <3>1. i \in 0 .. n /\ i # 0
      BY <1>0
    <3> QED
      BY <1>4, <3>1
  <2> QED
    BY <2>1, <2>2
<1>6. DOMAIN g = 0 .. n /\ g = [i \in 0 .. n |-> g[i]]
  BY <1>4
<1>7. \A i \in 0 .. n : g[i] \in Nat
  <2> DEFINE S == {i \in 0 .. n : g[i] \notin Nat}
  <2> SUFFICES ASSUME S # {} PROVE FALSE
    OBVIOUS
  <2>1. PICK i \in S : \A j \in S : i <= j
    <3>1. S \subseteq Nat
      BY <1>0
    <3> QED
      BY <3>1, Least
  <2>2. i \in 1 .. n /\ i - 1 \in 0 .. n /\ i - 1 \notin S
    BY <1>0, <1>5, <2>1
  <2>3. g[i - 1] \in Nat /\ s[i] \in Nat
    BY <2>2
  <2>4. g[i - 1] * Radix + s[i] \in Nat
    BY <2>3, DigitShift
  <2> QED
    BY <1>5, <2>1, <2>2, <2>4
<1>8. Prefixes(g, s, n)
  BY <1>5, <1>6, <1>7 DEF Prefixes
<1> QED
  BY <1>1, <1>8

(* The number is decided by the digits.                                    *)
LEMMA PrefixesAgree ==
  ASSUME NEW s, NEW t, NEW n \in Nat, NEW m \in Nat, n <= m, NEW f, NEW g,
         Prefixes(f, s, n), Prefixes(g, t, m), \A i \in 1 .. n : s[i] = t[i]
  PROVE  f[n] = g[n]
<1> DEFINE S == {i \in 0 .. n : f[i] # g[i]}
<1> SUFFICES ASSUME S # {} PROVE FALSE
  OBVIOUS
<1>1. PICK i \in S : \A j \in S : i <= j
  <2>1. S \subseteq Nat
    OBVIOUS
  <2> QED
    BY <2>1, Least
<1>2. i \in 1 .. n /\ i \in 1 .. m /\ i - 1 \in 0 .. n /\ i - 1 \notin S
  BY <1>1 DEF Prefixes
<1>3. f[i] = f[i - 1] * Radix + s[i] /\ g[i] = g[i - 1] * Radix + t[i]
  BY <1>2 DEF Prefixes
<1>4. f[i - 1] = g[i - 1] /\ s[i] = t[i]
  BY <1>2
<1> QED
  BY <1>1, <1>3, <1>4

(* A number takes one digit more by a shift.                               *)
LEMMA ValueOfOneMore ==
  ASSUME NEW s \in Seq(Nat), NEW t \in Seq(Nat), Len(t) = Len(s) + 1,
         \A i \in 1 .. Len(s) : t[i] = s[i]
  PROVE  Value(t) = Value(s) * Radix + t[Len(t)] /\ Value(s) \in Nat /\ Value(t) \in Nat
<1> DEFINE n == Len(s)
<1>0. n \in Nat /\ Len(t) = n + 1
  OBVIOUS
<1>1. PICK f : Prefixes(f, s, n) /\ Value(s) = f[n]
  BY ValueIsLast
<1>2. PICK g : Prefixes(g, t, n + 1) /\ Value(t) = g[n + 1]
  BY <1>0, ValueIsLast
<1>3. f[n] = g[n]
  <2>1. n + 1 \in Nat /\ n <= n + 1 /\ \A i \in 1 .. n : s[i] = t[i]
    BY <1>0
  <2> HIDE DEF n
  <2> QED
    BY <1>0, <1>1, <1>2, <2>1, PrefixesAgree
<1>4. g[n + 1] = g[n] * Radix + t[n + 1] /\ f[n] \in Nat /\ g[n + 1] \in Nat
  <2>1. n + 1 \in 1 .. n + 1 /\ (n + 1) - 1 = n
    BY <1>0
  <2>2. g[n + 1] = g[(n + 1) - 1] * Radix + t[n + 1] /\ g[n + 1] \in Nat
    <3> HIDE DEF n
    <3> QED
      BY <1>0, <1>2, <2>1 DEF Prefixes
  <2>3. f[n] \in Nat
    BY <1>0, <1>1 DEF Prefixes
  <2> QED
    BY <2>1, <2>2, <2>3
<1> QED
  BY <1>0, <1>1, <1>2, <1>3, <1>4

-----------------------------------------------------------------------------
(* The first t bytes of the word, with 1 for those behind the chunk's end. *)
ReadUpTo(t) == [i \in 1 .. t |->
  IF i + 1 <= Len(message) THEN message[i + 1] ELSE 1]

(* The bytes of the chunk stand at the end of the buffer, as many as there *)
(* are, and nothing before them is read.                                   *)
BufferHolds == pc = "decoding" =>
  /\ Len(message) \in 5 .. BufSize + 5
  /\ pos >= BufSize - (Len(message) - 5)
  /\ \A i \in 0 .. BufSize - 1 : i >= BufSize - (Len(message) - 5) =>
       buf[i] = message[i - BufSize + Len(message) + 1]

(* What a shift of the code drops is a multiple of the word, and nothing   *)
(* is dropped while the code is inside the interval.                       *)
OffsetUpTo(t, l, c) ==
  \E k \in Nat : Value(ReadUpTo(t)) = l + c + k * Word /\ (~stray => k = 0)

ExactOffset == pc = "decoding" => OffsetUpTo(Taken, low, code)

OInv == IInv /\ BufferHolds /\ ExactOffset

LEMMA ReadTyped ==
  ASSUME message \in Seq(Digits), NEW t \in Nat
  PROVE  /\ ReadUpTo(t) \in Seq(Nat) /\ Len(ReadUpTo(t)) = t
         /\ \A i \in 1 .. t : ReadUpTo(t)[i] = IF i + 1 <= Len(message)
                                                THEN message[i + 1] ELSE 1
<1>1. Digits \subseteq Nat
  BY Widths DEF Digits
<1>2. ASSUME NEW i \in 1 .. t, i + 1 <= Len(message) PROVE message[i + 1] \in Nat
  <2>1. i + 1 \in 1 .. Len(message)
    BY <1>2
  <2> DEFINE j == i + 1
  <2>2. j \in 1 .. Len(message)
    BY <2>1
  <2> HIDE DEF j
  <2>3. message[j] \in Digits
    BY <2>2
  <2> QED
    BY <1>1, <2>3 DEF j
<1>3. ReadUpTo(t) \in [1 .. t -> Nat]
  BY <1>2 DEF ReadUpTo
<1>4. ReadUpTo(t) \in Seq(Nat) /\ Len(ReadUpTo(t)) = t
  BY <1>3
<1> QED
  BY <1>4 DEF ReadUpTo

(* The byte that comes next is the one the shift takes.                    *)
LEMMA NextByte ==
  ASSUME OInv, pc = "decoding"
  PROVE  /\ Taken \in Nat /\ Taken >= 4
         /\ ReadUpTo(Taken + 1)[Taken + 1] = read_u8
         /\ Taken + 1 = 4 + (pos + 1) - (BufSize - (Len(message) - 5))
<1>1. /\ BufSize \in Nat /\ pos \in Nat /\ message \in Seq(Digits)
      /\ Len(message) \in 5 .. BufSize + 5 /\ pos >= BufSize - (Len(message) - 5)
  BY MessageAssumption DEF OInv, IInv, TypeOK, BufferHolds
<1>2. /\ Taken \in Nat /\ Taken >= 4 /\ Taken = (pos - BufSize) + Len(message) - 1
      /\ Taken + 1 = 4 + (pos + 1) - (BufSize - (Len(message) - 5))
  BY <1>1 DEF Taken
<1> DEFINE t == Taken + 1
<1>3. t \in Nat /\ t \in 1 .. t /\ t + 1 = pos - BufSize + Len(message) + 1
  BY <1>1, <1>2
<1>4. ReadUpTo(t)[t] = IF t + 1 <= Len(message) THEN message[t + 1] ELSE 1
  <2> HIDE DEF t
  <2> QED
    BY <1>1, <1>3, ReadTyped
<1>5. CASE pos < BufSize
  <2>1. pos \in 0 .. BufSize - 1 /\ t + 1 <= Len(message)
    BY <1>1, <1>3, <1>5
  <2>2. buf[pos] = message[pos - BufSize + Len(message) + 1]
    BY <1>1, <2>1 DEF OInv, BufferHolds
  <2>3. buf[pos] = message[t + 1]
    BY <1>3, <2>2
  <2> QED
    BY <1>2, <1>4, <1>5, <2>1, <2>3 DEF read_u8
<1>6. CASE ~(pos < BufSize)
  <2>1. ~(t + 1 <= Len(message))
    BY <1>1, <1>3, <1>6
  <2> QED
    BY <1>2, <1>4, <1>6, <2>1 DEF read_u8
<1> QED
  BY <1>5, <1>6

(* A shift of all of it, and the part the word has no room for.            *)
Carries(l, c, k, b) ==
  \E m \in Nat :
    /\ (l + c + k * Word) * Radix + b
         = l * Radix + (((c * Radix) % Word) + b) + m * Word
    /\ k = 0 /\ c < Top => m = 0

LEMMA ShiftCarries ==
  ASSUME NEW l \in Nat, NEW c \in Nat, NEW k \in Nat, NEW b \in Nat
  PROVE  Carries(l, c, k, b)
<1> DEFINE x == c * Radix
           q == x \div Word
           r == x % Word
           m == k * Radix + q
<1>1. /\ x \in Nat /\ Word \in Nat /\ Word > 0 /\ Radix \in Nat
      /\ k * Radix \in Nat
  BY Widths, ProductMonotone
<1>2. x = Word * q + r /\ q \in Nat /\ r \in 0 .. Word - 1 /\ r \in Nat
  <2> HIDE DEF x
  <2>1. x = Word * (x \div Word) + (x % Word) /\ x % Word \in 0 .. Word - 1 /\ x \div Word \in Nat
    BY <1>1, DivMod
  <2>2. x % Word \in Nat
    BY <1>1, <2>1
  <2> QED
    BY <2>1, <2>2
<1>3. m \in Nat
  BY <1>1, <1>2
<1>4. ASSUME k = 0, c < Top PROVE m = 0
  <2>1. x + Radix <= Top * Radix
    BY <1>4, Widths, Shifts
  <2>2. x \in 0 .. Word - 1
    BY <1>1, <2>1, Widths
  <2> HIDE DEF x
  <2>3. x \div Word = 0
    <3>1. x = Word * 0 + x /\ 0 \in Nat
      BY <1>1, SMTT(30)
    <3> QED
      BY <1>1, <2>2, <3>1, QuotientUnique
  <2>4. k * Radix = 0
    BY <1>1, <1>4, SMTT(30)
  <2> QED
    BY <2>3, <2>4
<1> HIDE DEF q, r
<1>5. m * Word = (k * Radix) * Word + Word * q
  <2> DEFINE y == k * Radix
  <2>1. y \in Nat
    BY <1>1
  <2> HIDE DEF y
  <2>2. (y + q) * Word = y * Word + Word * q
    BY <1>1, <1>2, <2>1, SMTT(30)
  <2> QED
    BY <2>2 DEF y
<1>6. (l + c + k * Word) * Radix = l * Radix + x + (k * Radix) * Word
  BY <1>1, SMTT(30)
<1> DEFINE A == (l + c + k * Word) * Radix
           B == l * Radix
           D == (k * Radix) * Word
           F == Word * q
           G == m * Word
<1>7. B \in Nat /\ D \in Nat /\ F \in Nat /\ G \in Nat
  BY <1>1, <1>2, <1>3, ProductMonotone
<1>8. A = B + x + D /\ x = F + r /\ G = D + F
  BY <1>2, <1>5, <1>6
<1> HIDE DEF A, B, D, F, G, x
<1>9. A + b = B + (r + b) + G
  BY <1>2, <1>7, <1>8
<1> HIDE DEF m
<1>10. (l + c + k * Word) * Radix + b = l * Radix + (r + b) + m * Word
  BY <1>9 DEF A, B, G
<1> QED
  BY <1>3, <1>4, <1>10 DEF r, x, Carries

(* After the shift that may be due, the code is still the offset.          *)
LEMMA NormalizedOffset ==
  ASSUME OInv, pc = "decoding"
  PROVE  LET n == normalized
             t == 4 + n.pos - (BufSize - (Len(message) - 5))
         IN  /\ t \in Nat /\ t >= 4 /\ OffsetUpTo(t, n.low, n.code)
             /\ n.pos >= pos
             /\ range < Top =>
                  /\ t = Taken + 1 /\ n.pos = pos + 1
                  /\ Value(ReadUpTo(t)) = Value(ReadUpTo(Taken)) * Radix + read_u8
             /\ range >= Top => t = Taken /\ n = unshifted
<1>1. /\ range \in Nat /\ code \in Nat /\ pos \in Nat /\ low \in Nat
      /\ BufSize \in Nat /\ message \in Seq(Digits)
      /\ Len(message) \in 5 .. BufSize + 5 /\ pos >= BufSize - (Len(message) - 5)
      /\ (~stray => code < range)
  <2>1. /\ range \in 0 .. Word - 1 /\ code \in 0 .. Word - 1 /\ Word \in Nat
        /\ pos \in Nat /\ low \in Nat /\ message \in Seq(Digits)
    BY Widths DEF OInv, IInv, TypeOK
  <2>2. range \in Nat /\ code \in Nat
    BY <2>1
  <2> QED
    BY <2>1, <2>2, MessageAssumption DEF OInv, IInv, BufferHolds, CodeInRange
<1>2. /\ Taken \in Nat /\ Taken >= 4 /\ ReadUpTo(Taken + 1)[Taken + 1] = read_u8
      /\ Taken + 1 = 4 + (pos + 1) - (BufSize - (Len(message) - 5))
  BY NextByte
<1>3. PICK k \in Nat : /\ Value(ReadUpTo(Taken)) = low + code + k * Word
                       /\ ~stray => k = 0
  BY DEF OInv, ExactOffset, OffsetUpTo
<1>4. CASE range < Top
  <2>1. /\ normalized.code = ((code * Radix) % Word) + read_u8
        /\ normalized.pos = pos + 1 /\ normalized.low = low * Radix
    BY <1>4 DEF normalized, normalize_due
  <2> DEFINE t == Taken + 1
             v == Value(ReadUpTo(Taken))
             w == Value(ReadUpTo(t))
  <2>2. /\ w = v * Radix + read_u8 /\ v \in Nat /\ w \in Nat
    <3>1. /\ t \in Nat /\ Taken \in Nat /\ t = Taken + 1
      BY <1>2
    <3>2. ReadUpTo(t)[t] = read_u8
      BY <1>2
    <3> HIDE DEF t
    <3>3. /\ ReadUpTo(Taken) \in Seq(Nat) /\ Len(ReadUpTo(Taken)) = Taken
          /\ ReadUpTo(t) \in Seq(Nat) /\ Len(ReadUpTo(t)) = t
      BY <1>1, <3>1, ReadTyped
    <3>4. \A i \in 1 .. Taken : ReadUpTo(t)[i] = ReadUpTo(Taken)[i]
      BY <3>1 DEF ReadUpTo
    <3>5. Len(ReadUpTo(t)) = Len(ReadUpTo(Taken)) + 1
      BY <3>1, <3>3
    <3>6. \A i \in 1 .. Len(ReadUpTo(Taken)) : ReadUpTo(t)[i] = ReadUpTo(Taken)[i]
      BY <3>3, <3>4
    <3> QED
      BY <3>2, <3>3, <3>5, <3>6, ValueOfOneMore
  <2>3. read_u8 \in Nat
    <3>1. read_u8 \in 0 .. Radix - 1 /\ Radix \in Nat
      BY ByteRead, Widths DEF OInv, IInv
    <3> QED
      BY <3>1
  <2> HIDE DEF w
  <2>4. Carries(low, code, k, read_u8)
    BY <1>1, <2>3, ShiftCarries
  <2>5. PICK m \in Nat :
          /\ v * Radix + read_u8
               = low * Radix + (((code * Radix) % Word) + read_u8) + m * Word
          /\ k = 0 /\ code < Top => m = 0
    BY <1>3, <2>4 DEF Carries
  <2>6. w = normalized.low + normalized.code + m * Word
    BY <2>1, <2>2, <2>5
  <2>7. OffsetUpTo(t, normalized.low, normalized.code)
    <3>1. ~stray => m = 0
      <4>1. ~stray => k = 0 /\ code < range
        BY <1>1, <1>3
      <4>2. code < range => code < Top
        BY <1>1, <1>4, Widths
      <4> QED
        BY <2>5, <4>1, <4>2, Zenon
    <3> QED
      BY <2>5, <2>6, <3>1 DEF OffsetUpTo, w
  <2>8. 4 + normalized.pos - (BufSize - (Len(message) - 5)) = t
    BY <1>2, <2>1
  <2>9. t \in Nat /\ t >= 4 /\ pos + 1 >= pos /\ ~(range >= Top)
    <3>1. Top \in Nat
      BY Widths
    <3> QED
      BY <1>1, <1>2, <1>4, <3>1
  <2> QED
    BY <1>4, <2>1, <2>2, <2>7, <2>8, <2>9 DEF w, v
<1>5. CASE ~(range < Top)
  <2>1. normalized = unshifted
    BY <1>5 DEF normalized, normalize_due
  <2>2. /\ normalized.code = code /\ normalized.pos = pos /\ normalized.low = low
    BY <2>1 DEF unshifted
  <2>3. 4 + normalized.pos - (BufSize - (Len(message) - 5)) = Taken
    BY <2>2 DEF Taken
  <2>4. pos >= pos
    BY <1>1
  <2>5. OffsetUpTo(Taken, low, code)
    BY DEF OInv, ExactOffset
  <2> QED
    BY <1>2, <1>5, <2>1, <2>2, <2>3, <2>4, <2>5
<1> QED
  BY <1>4, <1>5

(* A step that takes what was read from the interval's bottom, or leaves   *)
(* both where they are, keeps the offset.                                  *)
LEMMA OffsetKept ==
  ASSUME OInv, pc = "decoding", pos' = normalized.pos,
         message' = message, buf' = buf, stray \in BOOLEAN, ~stray' => ~stray,
         low' + code' = normalized.low + normalized.code
  PROVE  BufferHolds' /\ ExactOffset'
<1> DEFINE n == normalized
           t == 4 + n.pos - (BufSize - (Len(message) - 5))
<1>1. t \in Nat /\ t >= 4 /\ OffsetUpTo(t, n.low, n.code) /\ n.pos >= pos
  BY NormalizedOffset
<1>2. /\ Len(message) \in 5 .. BufSize + 5 /\ pos >= BufSize - (Len(message) - 5)
      /\ BufSize \in Nat /\ pos \in Nat /\ n.pos \in Nat
      /\ \A i \in 0 .. BufSize - 1 : i >= BufSize - (Len(message) - 5) =>
           buf[i] = message[i - BufSize + Len(message) + 1]
  BY MessageAssumption, Normalized DEF OInv, IInv, TypeOK, BufferHolds
<1>3. BufferHolds'
  <2>1. n.pos >= BufSize - (Len(message) - 5)
    <3> HIDE DEF n
    <3> QED
      BY <1>1, <1>2
  <2>2. pos' >= BufSize - (Len(message') - 5)
    BY <2>1
  <2> QED
    BY <1>2, <2>2 DEF BufferHolds
<1>4. PICK k \in Nat : /\ Value(ReadUpTo(t)) = n.low + n.code + k * Word
                       /\ ~stray => k = 0
  BY <1>1 DEF OffsetUpTo
<1>5. Taken' = t
  BY DEF Taken
<1>6. ReadUpTo(Taken)' = ReadUpTo(t)
  BY <1>5 DEF ReadUpTo
<1>7. Value(ReadUpTo(Taken))' = Value(ReadUpTo(t))
  BY <1>6
<1>8. ExactOffset'
  <2>1. Value(ReadUpTo(Taken))' = low' + code' + k * Word
    BY <1>4, <1>7
  <2>2. ~stray' => k = 0
    BY <1>4, Zenon
  <2> QED
    BY <2>1, <2>2 DEF ExactOffset, OffsetUpTo
<1> QED
  BY <1>3, <1>8

LEMMA BitOInv ==
  ASSUME OInv, NEW c \in Contexts, DecodeBit(c)
  PROVE  OInv'
<1> DEFINE n == normalized
           b == (n.range \div Total) * probs[c]
<1>1. /\ pc = "decoding" /\ pos' = n.pos /\ buf' = buf /\ message' = message
      /\ stray' = stray
  BY DEF DecodeBit
<1>2. n.code \in Nat /\ n.low \in Nat
  <2>1. n.code \in 0 .. Word - 1 /\ n.low \in Nat /\ Word \in Nat
    BY <1>1, Normalized, Widths DEF OInv
  <2> HIDE DEF n
  <2> QED
    BY <2>1
<1>3. /\ b \in Nat
      /\ \/ code' = n.code /\ low' = n.low
         \/ code' = n.code - b /\ low' = n.low + b
  BY BitSteps DEF OInv
<1> HIDE DEF b, n
<1>4. low' + code' = n.low + n.code
  BY <1>2, <1>3
<1>5. stray \in BOOLEAN
  BY DEF OInv, IInv, TypeOK
<1>6. ~stray' => ~stray
  BY <1>1, <1>5, Zenon
<1>7. BufferHolds' /\ ExactOffset'
  BY <1>1, <1>4, <1>5, <1>6, OffsetKept DEF n
<1>8. IInv'
  BY BitInv DEF OInv
<1> QED
  BY <1>7, <1>8 DEF OInv

LEMMA DirectOInv ==
  ASSUME OInv, DecodeDirectBit
  PROVE  OInv'
<1> DEFINE n == normalized
           half == n.range \div 2
<1>1. pc = "decoding" /\ pos' = n.pos /\ buf' = buf /\ message' = message
  BY DEF DecodeDirectBit
<1>2. n.code \in Nat /\ n.low \in Nat
  <2>1. n.code \in 0 .. Word - 1 /\ n.low \in Nat /\ Word \in Nat
    BY <1>1, Normalized, Widths DEF OInv
  <2> HIDE DEF n
  <2> QED
    BY <2>1
<1>3. /\ half \in ProbWord .. Word - 1 /\ stray' = (stray \/ n.code = 2 * half)
      /\ \/ code' = n.code /\ low' = n.low
         \/ code' = n.code - half /\ low' = n.low + half
  BY DirectSteps DEF OInv
<1> HIDE DEF half, n
<1>4. low' + code' = n.low + n.code
  BY <1>2, <1>3, Widths
<1>5. stray \in BOOLEAN
  BY DEF OInv, IInv, TypeOK
<1>6. ~stray' => ~stray
  BY <1>3, <1>5, Zenon
<1>7. BufferHolds' /\ ExactOffset'
  BY <1>1, <1>4, <1>5, <1>6, OffsetKept DEF n
<1>8. IInv'
  BY DirectInv DEF OInv
<1> QED
  BY <1>7, <1>8 DEF OInv

LEMMA EndRoundOInv ==
  ASSUME OInv, NEW last \in BOOLEAN, EndRound(last)
  PROVE  OInv'
<1> DEFINE n == normalized
<1>1. /\ pc = "decoding" /\ pos' = n.pos /\ buf' = buf /\ message' = message
      /\ stray' = stray /\ low' = n.low /\ code' = n.code
  BY DEF EndRound, at_end
<1>2. stray \in BOOLEAN
  BY DEF OInv, IInv, TypeOK
<1>3. ~stray' => ~stray
  BY <1>1, <1>2, Zenon
<1>4. BufferHolds' /\ ExactOffset'
  BY <1>1, <1>2, <1>3, OffsetKept
<1>5. IInv'
  BY EndRoundInv DEF OInv
<1> QED
  BY <1>4, <1>5 DEF OInv

(* The word that prepare reads is the number of the first four bytes after *)
(* the one that is 0.                                                      *)
LEMMA FirstWord ==
  ASSUME NEW m \in Seq(Digits), Len(m) >= 5, NEW s \in Seq(Nat), Len(s) = 4,
         \A i \in 1 .. 4 : s[i] = m[i + 1]
  PROVE  Value(s) = read_u32_be(m)
<1>1. PICK f : Prefixes(f, s, 4) /\ Value(s) = f[4]
  BY ValueIsLast
<1>2. f[0] = 0 /\ \A i \in 1 .. 4 : f[i] = f[i - 1] * Radix + s[i]
  BY <1>1 DEF Prefixes
<1>3. 1 \in 1 .. 4 /\ 2 \in 1 .. 4 /\ 3 \in 1 .. 4 /\ 4 \in 1 .. 4
  OBVIOUS
<1>4. /\ f[1] = f[1 - 1] * Radix + s[1] /\ f[2] = f[2 - 1] * Radix + s[2]
      /\ f[3] = f[3 - 1] * Radix + s[3] /\ f[4] = f[4 - 1] * Radix + s[4]
  BY <1>2, <1>3, Zenon
<1>5. /\ s[1] = m[1 + 1] /\ s[2] = m[2 + 1] /\ s[3] = m[3 + 1] /\ s[4] = m[4 + 1]
  BY <1>3, Zenon
<1>6. /\ 1 - 1 = 0 /\ 2 - 1 = 1 /\ 3 - 1 = 2 /\ 4 - 1 = 3
      /\ 1 + 1 = 2 /\ 2 + 1 = 3 /\ 3 + 1 = 4 /\ 4 + 1 = 5
  OBVIOUS
<1>7. s[1] \in Nat /\ Radix \in Nat
  <2>1. 1 \in 1 .. Len(s)
    BY <1>3
  <2>2. \A i \in 1 .. Len(s) : s[i] \in Nat
    <3>1. s \in Seq(Nat)
      OBVIOUS
    <3> QED
      BY ONLY <3>1
  <2> QED
    BY <2>1, <2>2, Widths
<1>8. 0 * Radix + s[1] = s[1]
  BY <1>7
<1>9. f[1] = m[2] /\ f[2] = f[1] * Radix + m[3]
      /\ f[3] = f[2] * Radix + m[4] /\ f[4] = f[3] * Radix + m[5]
  BY <1>2, <1>4, <1>5, <1>6, <1>8, Zenon
<1> QED
  BY <1>1, <1>9 DEF read_u32_be

LEMMA PrepareOInv ==
  ASSUME OInv, NEW m \in Messages, NEW renewed \in BOOLEAN, Prepare(m, renewed)
  PROVE  OInv'
<1>1. /\ m \in Seq(Digits) /\ Len(m) \in Nat /\ Len(m) <= BufSize + 5 /\ Len(m) >= 5
      /\ BufSize \in Nat
  BY MessageAssumption DEF Prepare, Acceptable
<1>2. /\ code' = read_u32_be(m) /\ buf' = Placed(m)
      /\ pos' = BufSize - (Len(m) - 5) /\ pc' = "decoding" /\ message' = m /\ low' = 0
  BY DEF Prepare
<1>3. IInv'
  BY PrepareInv DEF OInv
<1>4. BufferHolds'
  <2>1. /\ Len(m) \in 5 .. BufSize + 5
        /\ BufSize - (Len(m) - 5) >= BufSize - (Len(m) - 5)
    BY <1>1
  <2>2. \A i \in 0 .. BufSize - 1 : i >= BufSize - (Len(m) - 5) =>
          Placed(m)[i] = m[i - BufSize + Len(m) + 1]
    BY DEF Placed
  <2> QED
    BY <1>2, <2>1, <2>2 DEF BufferHolds
<1>5. Taken' = 4
  BY <1>1, <1>2 DEF Taken
<1> DEFINE s == [i \in 1 .. 4 |-> IF i + 1 <= Len(m) THEN m[i + 1] ELSE 1]
<1>6. ReadUpTo(Taken)' = s
  BY <1>2, <1>5 DEF ReadUpTo
<1>7. \A i \in 1 .. 4 : s[i] = m[i + 1] /\ m[i + 1] \in Nat
  <2> SUFFICES ASSUME NEW i \in 1 .. 4 PROVE s[i] = m[i + 1] /\ m[i + 1] \in Nat
    OBVIOUS
  <2> DEFINE j == i + 1
  <2>1. j \in 1 .. Len(m) /\ i + 1 <= Len(m)
    BY <1>1
  <2> HIDE DEF j
  <2>2. m[j] \in Digits /\ Digits \subseteq Nat
    BY <1>1, <2>1, Widths DEF Digits
  <2>3. m[i + 1] \in Nat
    BY <2>2 DEF j
  <2> QED
    BY <2>1, <2>3
<1>8. s \in Seq(Nat) /\ Len(s) = 4
  <2>1. s \in [1 .. 4 -> Nat] /\ 4 \in Nat
    BY <1>7
  <2> DEFINE four == 4
  <2>2. s \in [1 .. four -> Nat] /\ four \in Nat
    BY <2>1
  <2> HIDE DEF s, four
  <2>3. s \in Seq(Nat) /\ Len(s) = four
    BY <2>2
  <2> QED
    BY <2>3 DEF four
<1>9. Value(s) = read_u32_be(m)
  <2> HIDE DEF s
  <2> QED
    BY <1>1, <1>7, <1>8, FirstWord
<1>10. Value(ReadUpTo(Taken))' = code'
  BY <1>2, <1>6, <1>9
<1>11. code' = low' + code' + 0 * Word
  <2>1. code' \in 0 .. Word - 1 /\ Word \in Nat
    BY <1>3, Widths DEF IInv, TypeOK
  <2> QED
    BY <1>2, <2>1
<1>12. ExactOffset'
  <2>1. 0 \in Nat /\ Value(ReadUpTo(Taken))' = low' + code' + 0 * Word
    BY <1>10, <1>11
  <2> QED
    BY <2>1 DEF ExactOffset, OffsetUpTo
<1> QED
  BY <1>3, <1>4, <1>12 DEF OInv

LEMMA InitOInv == Init => OInv
<1>1. Init => BufferHolds /\ ExactOffset
  BY DEF Init, BufferHolds, ExactOffset
<1> QED
  BY <1>1, InitIInv DEF OInv

LEMMA OInvStep == OInv /\ [Next]_vars => OInv'
<1> SUFFICES ASSUME OInv, [Next]_vars PROVE OInv'
  OBVIOUS
<1>1. CASE \E m \in Messages, renewed \in BOOLEAN : Prepare(m, renewed)
  BY <1>1, PrepareOInv
<1>2. CASE \E m \in Messages : Refuse(m)
  <2>1. pc' = "failed"
    BY <1>2 DEF Refuse
  <2>2. IInv'
    BY <1>2, RefuseInv DEF OInv
  <2> QED
    BY <2>1, <2>2 DEF OInv, BufferHolds, ExactOffset
<1>3. CASE \E c \in Contexts : DecodeBit(c)
  BY <1>3, BitOInv
<1>4. CASE DecodeDirectBit
  BY <1>4, DirectOInv
<1>5. CASE \E last \in BOOLEAN : EndRound(last)
  BY <1>5, EndRoundOInv
<1>6. CASE UNCHANGED vars
  <2>1. IInv'
    BY <1>6, NextIInv DEF OInv
  <2>2. /\ pc' = pc /\ pos' = pos /\ message' = message /\ buf' = buf
        /\ low' = low /\ code' = code /\ stray' = stray
    BY <1>6 DEF vars
  <2>3. BufferHolds'
    BY <2>2 DEF OInv, BufferHolds
  <2>4. Taken' = Taken
    BY <2>2 DEF Taken
  <2>5. ReadUpTo(Taken)' = ReadUpTo(Taken)
    BY <2>2, <2>4 DEF ReadUpTo
  <2>6. ExactOffset'
    BY <2>2, <2>5 DEF OInv, ExactOffset, OffsetUpTo
  <2> QED
    BY <2>1, <2>3, <2>6 DEF OInv
<1> QED
  BY <1>1, <1>2, <1>3, <1>4, <1>5, <1>6 DEF Next

(* The chunk stands at the end of the buffer, and the number of its digits *)
(* read so far is low plus code, up to the words that a shift has dropped, *)
(* of which there are none while the bytes are those of an encoder: prepare *)
(* and normalize read each byte once and those of no other chunk.          *)
THEOREM OffsetInvariance == Spec => []OInv
  BY InitOInv, OInvStep, PTL DEF Spec

LEMMA ReadIsReadUpTo == Read = ReadUpTo(Taken)
  BY DEF Read, ReadUpTo

(* A multiple of the word makes no difference.                             *)
LEMMA WordLeavesNothing ==
  ASSUME NEW c \in 0 .. Word - 1, NEW k \in Nat
  PROVE  (c + k * Word) % Word = c
<1>1. /\ c + k * Word = Word * k + c /\ c + k * Word \in Nat
      /\ Word \in Nat /\ Word > 0
  BY Widths, SMTT(30)
<1> DEFINE x == c + k * Word
<1>2. x \in Nat /\ x = Word * k + c
  BY <1>1
<1> HIDE DEF x
<1>3. x % Word = c
  BY <1>1, <1>2, QuotientUnique
<1> QED
  BY <1>3 DEF x

(* The code is the offset, modulo the word.                                *)
LEMMA ExactIsOffset == OInv => CodeIsOffset
<1> SUFFICES ASSUME OInv, pc = "decoding"
             PROVE  code = (Value(Read) - low) % Word
  BY DEF CodeIsOffset
<1>1. PICK k \in Nat : Value(Read) = low + code + k * Word
  BY ReadIsReadUpTo DEF OInv, ExactOffset, OffsetUpTo
<1>2. code \in 0 .. Word - 1 /\ low \in Nat /\ k * Word \in Nat /\ Word \in Nat
  BY Widths, ProductMonotone DEF OInv, IInv, TypeOK
<1> DEFINE x == k * Word
<1>3. Value(Read) - low = code + x
  <2>1. x \in Nat /\ Value(Read) = low + code + x
    BY <1>1, <1>2
  <2> HIDE DEF x
  <2> QED
    BY <1>2, <2>1
<1>4. (code + k * Word) % Word = code
  BY <1>2, WordLeavesNothing
<1> QED
  BY <1>3, <1>4

(* The code is how far the bytes read are above the interval's bottom, in  *)
(* every chunk and after every bit: none of another chunk, none twice.     *)
THEOREM CodeStaysOffset == Spec => []CodeIsOffset
  BY ExactIsOffset, OffsetInvariance, PTL

(* With as many bytes read as the chunk has, they are the chunk's.         *)
LEMMA WholeRead ==
  ASSUME OInv, pc = "decoding"
  PROVE  ReadUpTo(Len(message) - 1) = Tail(message)
<1>1. message \in Seq(Digits) /\ Len(message) \in Nat /\ Len(message) >= 5
  BY MessageAssumption DEF OInv, IInv, TypeOK, BufferHolds
<1>2. Tail(message) = [i \in 1 .. Len(message) - 1 |-> message[i + 1]]
  <2> DEFINE t == Tail(message)
  <2>1. /\ t \in Seq(Digits) /\ Len(t) = Len(message) - 1
        /\ \A i \in 1 .. Len(t) : t[i] = message[i + 1]
    BY <1>1
  <2> HIDE DEF t
  <2>2. t = [i \in 1 .. Len(t) |-> t[i]]
    BY <2>1
  <2> QED
    BY <2>1, <2>2 DEF t
<1>3. \A i \in 1 .. Len(message) - 1 : i + 1 <= Len(message)
  BY <1>1
<1> QED
  BY <1>2, <1>3 DEF ReadUpTo

(* The message ends where the bytes do, with the interval's bottom, after  *)
(* the shift that may be due: what Flushed says in one case for both.      *)
LEMMA FlushedAfterShift ==
  ASSUME OInv, pc = "decoding"
  PROVE  LET n == normalized
             t == 4 + n.pos - (BufSize - (Len(message) - 5))
         IN  Flushed <=> /\ t = Len(message) - 1
                         /\ Value(Tail(message)) = n.low
<1>1. range \in Nat /\ Top \in Nat
  <2>1. range \in 0 .. Word - 1 /\ Word \in Nat /\ Top \in Nat
    BY Widths DEF OInv, IInv, TypeOK
  <2> QED
    BY <2>1
<1>2. CASE range < Top
  <2>1. 4 + normalized.pos - (BufSize - (Len(message) - 5)) = Taken + 1
    BY <1>2, NormalizedOffset
  <2>2. normalized.low = low * Radix
    BY <1>2 DEF normalized, normalize_due
  <2> QED
    BY <1>2, <2>1, <2>2 DEF Flushed
<1>3. CASE range >= Top
  <2>1. /\ 4 + normalized.pos - (BufSize - (Len(message) - 5)) = Taken
        /\ normalized = unshifted /\ ~(range < Top)
    BY <1>1, <1>3, NormalizedOffset
  <2>2. normalized.low = low
    BY <2>1 DEF unshifted
  <2> QED
    BY <1>3, <2>1, <2>2 DEF Flushed
<1> QED
  BY <1>1, <1>2, <1>3

(* The same of its last word.                                              *)
LEMMA LastWordAfterShift ==
  ASSUME OInv, pc = "decoding"
  PROVE  LET n == normalized
             t == 4 + n.pos - (BufSize - (Len(message) - 5))
         IN  LastWordFlushed <=> /\ t = Len(message) - 1
                                 /\ (Value(Tail(message)) - n.low) % Word = 0
<1>1. range \in Nat /\ Top \in Nat
  <2>1. range \in 0 .. Word - 1 /\ Word \in Nat /\ Top \in Nat
    BY Widths DEF OInv, IInv, TypeOK
  <2> QED
    BY <2>1
<1>2. CASE range < Top
  <2>1. 4 + normalized.pos - (BufSize - (Len(message) - 5)) = Taken + 1
    BY <1>2, NormalizedOffset
  <2>2. normalized.low = low * Radix
    BY <1>2 DEF normalized, normalize_due
  <2> QED
    BY <1>2, <2>1, <2>2 DEF LastWordFlushed
<1>3. CASE range >= Top
  <2>1. /\ 4 + normalized.pos - (BufSize - (Len(message) - 5)) = Taken
        /\ normalized = unshifted /\ ~(range < Top)
    BY <1>1, <1>3, NormalizedOffset
  <2>2. normalized.low = low
    BY <2>1 DEF unshifted
  <2> QED
    BY <1>3, <2>1, <2>2 DEF LastWordFlushed
<1> QED
  BY <1>1, <1>2, <1>3

(* is_finished is right about the last word, and about all bytes of a      *)
(* chunk that is not stray.                                                *)
LEMMA FinishedIsFlushed ==
  ASSUME OInv, pc = "decoding"
  PROVE  /\ finished(normalized) => LastWordFlushed
         /\ LastWordFlushed => finished(normalized)
         /\ finished(normalized) /\ ~stray => Flushed
<1> DEFINE n == normalized
           t == 4 + n.pos - (BufSize - (Len(message) - 5))
           v == Value(Tail(message))
<1>1. t \in Nat /\ OffsetUpTo(t, n.low, n.code)
  BY NormalizedOffset
<1>2. PICK k \in Nat : /\ Value(ReadUpTo(t)) = n.low + n.code + k * Word
                       /\ ~stray => k = 0
  BY <1>1 DEF OffsetUpTo
<1>3. t = Len(message) - 1 => Value(ReadUpTo(t)) = v
  BY WholeRead
<1>4. /\ n.code \in Nat /\ n.low \in Nat /\ n.pos \in Nat
      /\ BufSize \in Nat /\ Len(message) \in Nat
      /\ Word \in Nat /\ k * Word \in Nat
  <2>1. /\ n.code \in 0 .. Word - 1 /\ n.low \in Nat /\ n.pos \in Nat
        /\ Word \in Nat /\ message \in Seq(Digits)
    BY Normalized, Widths DEF OInv, IInv, TypeOK
  <2> HIDE DEF n
  <2> QED
    BY <2>1, MessageAssumption, ProductMonotone
<1>5. t = Len(message) - 1 <=> n.pos = BufSize
  <2> HIDE DEF n
  <2> QED
    BY <1>4
<1>6. Flushed <=> t = Len(message) - 1 /\ v = n.low
  BY FlushedAfterShift
<1>7. finished(n) <=> n.pos = BufSize /\ n.code = 0
  BY DEF finished
<1> DEFINE x == k * Word
<1>8. x \in Nat /\ (t = Len(message) - 1 => v = n.low + n.code + x)
  BY <1>2, <1>3, <1>4
<1>9. ~stray => x = 0
  <2>1. k = 0 => k * Word = 0
    BY <1>4
  <2> QED
    BY <1>2, <2>1, Zenon
<1> HIDE DEF n, t, v, x
<1>10. ASSUME t = Len(message) - 1, x = 0, n.code = 0
       PROVE  v = n.low
  BY <1>4, <1>8, <1>10
<1>11. finished(n) /\ ~stray => Flushed
  BY <1>5, <1>6, <1>7, <1>9, <1>10, Zenon
<1>12. LastWordFlushed <=> t = Len(message) - 1 /\ (v - n.low) % Word = 0
  BY LastWordAfterShift DEF n, t, v
<1>13. t = Len(message) - 1 => (v - n.low) % Word = n.code
  <2> SUFFICES ASSUME t = Len(message) - 1 PROVE (v - n.low) % Word = n.code
    OBVIOUS
  <2>1. v - n.low = n.code + x
    BY <1>4, <1>8
  <2>2. n.code \in 0 .. Word - 1
    BY Normalized DEF n, OInv
  <2>3. (n.code + k * Word) % Word = n.code
    BY <2>2, WordLeavesNothing
  <2> QED
    BY <2>1, <2>3 DEF x
<1>14. (finished(n) => LastWordFlushed) /\ (LastWordFlushed => finished(n))
  BY <1>5, <1>7, <1>12, <1>13, Zenon
<1> QED
  BY <1>11, <1>14 DEF n

LEMMA AcceptStep ==
  ASSUME OInv, [Next]_vars, pc = "decoding"
  PROVE  /\ pc' = "idle" => LastWordFlushed /\ (~stray => Flushed)
         /\ pc' = "failed" => ~LastWordFlushed
<1>1. CASE \E m \in Messages, renewed \in BOOLEAN : Prepare(m, renewed)
  BY <1>1 DEF Prepare
<1>2. CASE \E m \in Messages : Refuse(m)
  BY <1>2 DEF Refuse
<1>3. CASE \E c \in Contexts : DecodeBit(c)
  BY <1>3 DEF DecodeBit
<1>4. CASE DecodeDirectBit
  BY <1>4 DEF DecodeDirectBit
<1>5. CASE \E last \in BOOLEAN : EndRound(last)
  <2>1. \/ pc' = pc
        \/ pc' = "idle" /\ finished(normalized)
        \/ pc' = "failed" /\ ~finished(normalized)
    BY <1>5 DEF EndRound, at_end
  <2> QED
    BY <2>1, FinishedIsFlushed, Zenon
<1>6. CASE UNCHANGED vars
  BY <1>6 DEF vars
<1> QED
  BY <1>1, <1>2, <1>3, <1>4, <1>5, <1>6 DEF Next

(* A chunk is accepted just if its last word is the one the encoder would  *)
(* have written for the bits taken from it, with no byte missing and none  *)
(* too many; if it is not stray, all its bytes are then the encoder's.     *)
THEOREM AcceptsTheEncodersBytes == Spec => AcceptanceExact
<1>1. OInv /\ [Next]_vars =>
        [pc = "decoding" =>
           /\ pc' = "idle" => LastWordFlushed /\ (~stray => Flushed)
           /\ pc' = "failed" => ~LastWordFlushed]_vars
  BY AcceptStep
<1> QED
  BY <1>1, OffsetInvariance, PTL DEF Spec, AcceptanceExact
=============================================================================
