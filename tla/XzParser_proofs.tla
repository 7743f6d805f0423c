--------------------------- MODULE XzParser_proofs ---------------------------
(***************************************************************************)
(* Proofs about XzParser, for bytes and words of every width and files of  *)
(* every content.                                                          *)
(***************************************************************************)
EXTENDS XzParser, FiniteSetTheorems, FunctionTheorems, SequenceTheorems,
        WellFoundedInduction, TLAPS

(* Division                                                                *)
LEMMA DivMod ==
  ASSUME NEW a \in Nat, a > 0, NEW x \in Nat
  PROVE  x = a * (x \div a) + (x % a) /\ x % a \in 0 .. a - 1 /\ x \div a \in Nat
<1>1. x % a \in 0 .. a - 1
  BY SMTT(30)
<1>2. x \div a \in Nat
  BY SMTT(30)
<1>3. x = a * (x \div a) + (x % a)
  BY SMTT(30)
<1> QED
  BY <1>1, <1>2, <1>3

LEMMA ProductMonotone ==
  ASSUME NEW a \in Nat, NEW x \in Nat, NEW y \in Nat, x <= y
  PROVE  a * x <= a * y /\ x * a <= y * a /\ a * x \in Nat /\ x * a \in Nat
<1>1. a * (y - x) >= 0 /\ a * (y - x) = a * y - a * x
  BY SMTT(30)
<1>2. a * x = x * a /\ a * y = y * a /\ a * x \in Nat
  BY SMTT(30)
<1> QED
  BY <1>1, <1>2

(* A quotient is the only number between whose multiples the dividend is.  *)
LEMMA QuotientUnique ==
  ASSUME NEW a \in Nat, a > 0, NEW x \in Nat, NEW q \in Nat, NEW r \in 0 .. a - 1,
         x = a * q + r
  PROVE  x \div a = q /\ x % a = r
<1> DEFINE d == x \div a
           s == x % a
<1>1. x = a * d + s /\ s \in 0 .. a - 1 /\ d \in Nat
  BY DivMod
<1> HIDE DEF d, s
<1>2. CASE d > q
  <2>1. a * (q + 1) <= a * d /\ a * (q + 1) = a * q + a
    BY <1>1, <1>2, ProductMonotone, SMTT(30)
  <2> QED
    BY <1>1, <2>1
<1>3. CASE d < q
  <2>1. a * (d + 1) <= a * q /\ a * (d + 1) = a * d + a
    BY <1>1, <1>3, ProductMonotone, SMTT(30)
  <2> QED
    BY <1>1, <2>1
<1>4. CASE d = q
  BY <1>1, <1>4 DEF d, s
<1> QED
  BY <1>1, <1>2, <1>3, <1>4

LEMMA SmallRemainder ==
  ASSUME NEW a \in Nat, NEW x \in 0 .. a - 1
  PROVE  x % a = x
<1>1. a > 0 /\ x \in Nat
  OBVIOUS
<1>2. x = a * 0 + x
  <2>1. a * 0 = 0
    OBVIOUS
  <2> QED
    BY <2>1
<1> QED
  BY <1>1, <1>2, QuotientUnique

(* Powers of two, by counting the subsets of 1 .. n.                       *)
LEMMA Least ==
  ASSUME NEW S, S \subseteq Nat, S # {}
  PROVE  \E x \in S : \A y \in S : x <= y
<1> DEFINE R == OpToRel(<, Nat)
<1>1. IsWellFoundedOn(R, Nat)
  BY NatLessThanWellFounded
<1>2. \A x, y \in Nat : y < x => <<y, x>> \in R
  BY DEF OpToRel
<1> HIDE DEF R
<1>3. PICK x \in S : \A y \in S : ~ (<<y, x>> \in R)
  BY <1>1, WFMin
<1>4. \A y \in S : ~ (y < x)
  BY <1>2, <1>3
<1>5. \A y \in S : x <= y
  BY <1>4
<1> QED
  BY <1>5

LEMMA Subsets ==
  ASSUME NEW n \in Nat
  PROVE  /\ IsFiniteSet(SUBSET (1 .. n))
         /\ Cardinality(SUBSET (1 .. n)) = 2 ^ n /\ 2 ^ n \in Nat
<1>1. IsFiniteSet(1 .. n) /\ Cardinality(1 .. n) = n
  BY FS_Interval
<1>2. IsFiniteSet(SUBSET (1 .. n)) /\ Cardinality(SUBSET (1 .. n)) = 2 ^ n
  BY <1>1, FS_SUBSET
<1> QED
  BY <1>2, FS_CardinalityType

(* Half of them have n + 1 in them, and are the others with it.            *)
LEMMA PowerStep ==
  ASSUME NEW n \in Nat
  PROVE  2 ^ (n + 1) = 2 * 2 ^ n
<1> DEFINE A == SUBSET (1 .. n)
           B == {T \cup {n + 1} : T \in A}
           f == [T \in A |-> T \cup {n + 1}]
<1>0. ~ (n + 1 \in 1 .. n)
  OBVIOUS
<1>1. \A T \in A : ~ (n + 1 \in T)
  BY <1>0
<1>2. SUBSET (1 .. n + 1) = A \cup B
  <2>1. 1 .. n + 1 = (1 .. n) \cup {n + 1}
    OBVIOUS
  <2>2. ASSUME NEW T \in SUBSET (1 .. n + 1) PROVE T \in A \cup B
    <3>1. CASE n + 1 \in T
      <4>1. T \ {n + 1} \in A /\ T = (T \ {n + 1}) \cup {n + 1}
        BY <2>1, <3>1
      <4> QED
        BY <4>1
    <3>2. CASE ~ (n + 1 \in T)
      BY <2>1, <3>2
    <3> QED
      BY <3>1, <3>2
  <2>3. ASSUME NEW T \in A \cup B PROVE T \in SUBSET (1 .. n + 1)
    BY <2>1
  <2> QED
    BY <2>2, <2>3
<1>3. A \cap B = {}
  BY <1>1
<1>4. ExistsBijection(A, B)
  <2>1. f \in [A -> B]
    OBVIOUS
  <2>2. \A S, T \in A : f[S] = f[T] => S = T
    <3> SUFFICES ASSUME NEW S \in A, NEW T \in A, f[S] = f[T]
                 PROVE  S = T
      OBVIOUS
    <3>1. S \cup {n + 1} = T \cup {n + 1}
      OBVIOUS
    <3> QED
      BY <1>1, <3>1
  <2>3. \A b \in B : \E T \in A : f[T] = b
    OBVIOUS
  <2>4. f \in Bijection(A, B)
    BY <2>1, <2>2, <2>3, Fun_IsBij
  <2> QED
    BY <2>4, Fun_ExistsBij
<1>5. /\ IsFiniteSet(A) /\ Cardinality(A) = 2 ^ n /\ 2 ^ n \in Nat
  BY Subsets
<1>6. IsFiniteSet(B) /\ Cardinality(B) = Cardinality(A)
  BY <1>4, <1>5, FS_Bijection
<1> HIDE DEF A, B
<1>7. Cardinality(A \cup B) = Cardinality(A) + Cardinality(B) - Cardinality(A \cap B)
  BY <1>5, <1>6, FS_Union
<1>8. Cardinality(A \cap B) = 0
  BY <1>3, FS_EmptySet
<1>9. Cardinality(SUBSET (1 .. n + 1)) = 2 ^ (n + 1)
  BY Subsets
<1> DEFINE p == 2 ^ n
<1>10. p \in Nat /\ Cardinality(A) = p /\ Cardinality(B) = p
  BY <1>5, <1>6
<1> HIDE DEF p
<1>11. Cardinality(A \cup B) = 2 * p
  BY <1>7, <1>8, <1>10
<1> QED
  BY <1>2, <1>9, <1>11 DEF p

LEMMA PowerTyped ==
  ASSUME NEW n \in Nat
  PROVE  2 ^ n \in Nat /\ 2 ^ n >= 1
<1> DEFINE p(k) == 2 ^ k
           S == {k \in Nat : ~ (p(k) >= 1)}
<1>1. p(0) = 1
  OBVIOUS
<1>2. \A k \in Nat : p(k) \in Nat /\ p(k + 1) = 2 * p(k)
  BY Subsets, PowerStep
<1> HIDE DEF p
<1>3. S = {}
  <2> SUFFICES ASSUME S # {}
               PROVE  FALSE
    OBVIOUS
  <2>1. PICK k \in S : \A y \in S : k <= y
    <3>1. S \subseteq Nat
      OBVIOUS
    <3> QED
      BY <3>1, Least
  <2>2. k \in Nat /\ ~ (p(k) >= 1) /\ k # 0
    BY <1>1, <2>1
  <2>3. k - 1 \in Nat /\ k - 1 + 1 = k /\ ~ (k <= k - 1)
    BY <2>2
  <2>4. p(k - 1) >= 1
    BY <2>1, <2>3
  <2>5. p(k) = 2 * p(k - 1) /\ p(k - 1) \in Nat
    BY <1>2, <2>3
  <2> QED
    BY <2>2, <2>4, <2>5
<1>4. p(n) \in Nat /\ p(n) >= 1
  BY <1>2, <1>3
<1> QED
  BY <1>4 DEF p

LEMMA PowerAdd ==
  ASSUME NEW a \in Nat, NEW b \in Nat
  PROVE  2 ^ (a + b) = 2 ^ a * 2 ^ b
<1> DEFINE p(k) == 2 ^ k
           S == {k \in Nat : p(a + k) # p(a) * p(k)}
<1>1. p(0) = 1
  OBVIOUS
<1>2. \A k \in Nat : p(k) \in Nat /\ p(k + 1) = 2 * p(k)
  BY PowerTyped, PowerStep
<1> HIDE DEF p
<1>3. S = {}
  <2> SUFFICES ASSUME S # {}
               PROVE  FALSE
    OBVIOUS
  <2>1. PICK k \in S : \A y \in S : k <= y
    <3>1. S \subseteq Nat
      OBVIOUS
    <3> QED
      BY <3>1, Least
  <2>2. k \in Nat /\ p(a + k) # p(a) * p(k)
    BY <2>1
  <2>3. k # 0
    <3> SUFFICES ASSUME k = 0
                 PROVE  FALSE
      OBVIOUS
    <3>1. a + k = a /\ p(k) = 1 /\ p(a) \in Nat
      BY <1>1, <1>2
    <3>2. p(a) * 1 = p(a)
      BY <3>1
    <3> QED
      BY <2>2, <3>1, <3>2
  <2>4. /\ k - 1 \in Nat /\ k - 1 + 1 = k /\ ~ (k <= k - 1)
        /\ a + (k - 1) \in Nat /\ a + (k - 1) + 1 = a + k
    BY <2>2, <2>3
  <2>5. p(a + (k - 1)) = p(a) * p(k - 1)
    BY <2>1, <2>4
  <2>6. /\ p(a + k) = 2 * p(a + (k - 1)) /\ p(k) = 2 * p(k - 1)
        /\ p(a) \in Nat /\ p(k - 1) \in Nat
    BY <1>2, <2>4
  <2> DEFINE x == p(a)
             y == p(k - 1)
  <2>7. x \in Nat /\ y \in Nat
    BY <2>6
  <2>8. p(a + k) = 2 * (x * y) /\ p(k) = 2 * y
    BY <2>5, <2>6
  <2> HIDE DEF x, y
  <2>9. 2 * (x * y) = x * (2 * y)
    BY <2>7, SMTT(30)
  <2> QED
    BY <2>2, <2>8, <2>9 DEF x
<1> QED
  BY <1>3 DEF p

LEMMA PowerMonotone ==
  ASSUME NEW a \in Nat, NEW b \in Nat, a <= b
  PROVE  2 ^ a <= 2 ^ b
<1>1. b - a \in Nat /\ a + (b - a) = b
  OBVIOUS
<1> DEFINE c == b - a
           x == 2 ^ a
           y == 2 ^ c
<1>2. 2 ^ b = x * y
  BY <1>1, PowerAdd
<1>3. x \in Nat /\ y \in Nat /\ y >= 1
  BY <1>1, PowerTyped
<1> HIDE DEF c, x, y
<1>4. x * 1 <= x * y
  BY <1>3, ProductMonotone
<1>5. x * 1 = x
  BY <1>3
<1> QED
  BY <1>2, <1>4, <1>5 DEF x
-----------------------------------------------------------------------------
(* The loops over bits.  Each is a function defined by recursion over the  *)
(* number of bits taken; that there is such a function is shown once, for  *)
(* any loop, by the least number of rounds that it would not exist for.    *)
Rounds(f, G, S, b, n) ==
  /\ f \in [0 .. n -> S] /\ f[0] = b
  /\ \A j \in 1 .. n : f[j] = G[<<j, f[j - 1]>>]

LEMMA RoundsExist ==
  ASSUME NEW n \in Nat, NEW S, NEW b \in S, NEW G \in [(1 .. n) \X S -> S]
  PROVE  \E f : Rounds(f, G, S, b, n)
<1> DEFINE Bad == {m \in 0 .. n : ~ (\E f : Rounds(f, G, S, b, m))}
<1>1. Bad = {}
  <2> SUFFICES ASSUME Bad # {}
               PROVE  FALSE
    OBVIOUS
  <2>1. PICK m \in Bad : \A y \in Bad : m <= y
    <3>1. Bad \subseteq Nat
      OBVIOUS
    <3> QED
      BY <3>1, Least
  <2>2. m \in 0 .. n /\ ~ (\E f : Rounds(f, G, S, b, m))
    BY <2>1
  <2>3. m # 0
    <3>1. Rounds([i \in 0 .. 0 |-> b], G, S, b, 0)
      BY DEF Rounds
    <3> QED
      BY <2>2, <3>1
  <2>4. m - 1 \in 0 .. n /\ ~ (m <= m - 1) /\ m \in 1 .. n /\ m \in Nat
    BY <2>2, <2>3
  <2>5. PICK f : Rounds(f, G, S, b, m - 1)
    BY <2>1, <2>4
  <2>6. /\ f \in [0 .. m - 1 -> S] /\ f[0] = b
        /\ \A j \in 1 .. m - 1 : f[j] = G[<<j, f[j - 1]>>]
    BY <2>5 DEF Rounds
  <2> DEFINE last == G[<<m, f[m - 1]>>]
             g == [i \in 0 .. m |-> IF i = m THEN last ELSE f[i]]
  <2>7. last \in S
    <3>1. m - 1 \in 0 .. m - 1
      BY <2>4
    <3>2. <<m, f[m - 1]>> \in (1 .. n) \X S
      BY <2>4, <2>6, <3>1
    <3> QED
      BY <3>2
  <2>8. g \in [0 .. m -> S] /\ g[0] = b
    <3> HIDE DEF last
    <3>1. \A i \in 0 .. m : i # m => i \in 0 .. m - 1
      BY <2>4
    <3> QED
      BY <2>4, <2>6, <2>7, <3>1
  <2>9. ASSUME NEW j \in 1 .. m
        PROVE  g[j] = G[<<j, g[j - 1]>>]
    <3>1. j \in 0 .. m /\ j - 1 \in 0 .. m /\ j - 1 # m
      BY <2>4
    <3>2. g[j - 1] = f[j - 1]
      BY <3>1
    <3>3. CASE j = m
      BY <3>1, <3>2, <3>3
    <3>4. CASE j # m
      <4>1. j \in 1 .. m - 1
        BY <2>4, <3>4
      <4> QED
        BY <2>6, <3>1, <3>2, <3>4, <4>1
    <3> QED
      BY <3>3, <3>4
  <2>10. Rounds(g, G, S, b, m)
    BY <2>8, <2>9 DEF Rounds
  <2> QED
    BY <2>2, <2>10
<1>2. n \in 0 .. n /\ n \notin Bad
  BY <1>1
<1> QED
  BY <1>2

-----------------------------------------------------------------------------
(* What the assumption says, name by name.                                 *)
LEMMA Widths ==
  /\ GroupBits \in Nat /\ WordBits \in Nat /\ HalfBits \in Nat /\ MaxRecords \in Nat
  /\ MaxDict \in Nat /\ DictShift \in Nat
  /\ GroupBits >= 1 /\ GroupBits + 3 <= WordBits /\ HalfBits <= WordBits
  /\ MaxDict % 2 = 0 /\ MaxDict \div 2 + DictShift < HalfBits
  /\ DefaultDict \in 0 .. Half - 1
  BY FilesAssumption

LEMMA Words ==
  /\ More \in Nat /\ More >= 2 /\ Word \in Nat /\ Word >= 16 /\ Half \in Nat /\ Half >= 1
  /\ 8 * More <= Word /\ Half <= Word
  /\ Bytes \subseteq Nat /\ \A x \in Bytes : x <= 2 * More - 1
<1>1. More \in Nat /\ Word \in Nat /\ Half \in Nat /\ Half >= 1
  BY Widths, PowerTyped DEF More, Word, Half
<1>2. More >= 2
  <2> DEFINE p(k) == 2 ^ k
             one == 0 + 1
  <2>1. p(one) = 2 * p(0) /\ p(0) = 1
    BY PowerStep
  <2>2. p(one) <= p(GroupBits)
    <3>1. one \in Nat /\ GroupBits \in Nat /\ one <= GroupBits
      BY Widths
    <3> HIDE DEF one
    <3> QED
      BY <3>1, PowerMonotone
  <2>3. p(GroupBits) = More
    BY DEF More
  <2> HIDE DEF p
  <2> QED
    BY <1>1, <2>1, <2>2, <2>3
<1>3. 8 * More <= Word
  <2> DEFINE p(k) == 2 ^ k
             G == GroupBits
  <2>1. p(G + 1) = 2 * p(G) /\ p(G + 1 + 1) = 2 * p(G + 1) /\ p(G + 1 + 1 + 1) = 2 * p(G + 1 + 1)
    BY Widths, PowerStep
  <2>2. p(G + 3) <= p(WordBits)
    <3>1. G + 3 \in Nat /\ WordBits \in Nat /\ G + 3 <= WordBits
      BY Widths
    <3> QED
      BY <3>1, PowerMonotone
  <2>3. G + 1 + 1 + 1 = G + 3 /\ p(G) = More /\ p(WordBits) = Word
    BY Widths DEF More, Word
  <2> HIDE DEF p, G
  <2> QED
    BY <1>1, <2>1, <2>2, <2>3
<1>4. Half <= Word
  BY Widths, PowerMonotone DEF Half, Word
<1> QED
  BY <1>1, <1>2, <1>3, <1>4 DEF Bytes
-----------------------------------------------------------------------------
(* Words and their bits.                                                   *)

(* The sum over the bits of a word, bit by bit.                            *)
Sums(f, B) ==
  /\ f \in [0 .. WordBits -> Nat] /\ f[0] = 0
  /\ \A b \in 1 .. WordBits :
        f[b] = f[b - 1] + (IF b - 1 \in B THEN 2 ^ (b - 1) ELSE 0)

LEMMA SumsExist ==
  ASSUME NEW B
  PROVE  \E f : Sums(f, B) /\ of_bits(B) = f[WordBits]
<1> DEFINE n == WordBits
           add(b) == IF b - 1 \in B THEN 2 ^ (b - 1) ELSE 0
           Rule(f) == f = [b \in 0 .. n |-> IF b = 0 THEN 0 ELSE f[b - 1] + add(b)]
           below == CHOOSE f : Rule(f)
           G == [y \in (1 .. n) \X Nat |-> y[2] + add(y[1])]
<1>0. n \in Nat /\ \A b \in 1 .. n : add(b) \in Nat
  <2>1. n \in Nat
    BY Widths
  <2>2. ASSUME NEW b \in 1 .. n PROVE add(b) \in Nat
    <3>1. 2 ^ (b - 1) \in Nat
      BY <2>1, PowerTyped
    <3> QED
      BY <3>1
  <2> QED
    BY <2>1, <2>2
<1>1. of_bits(B) = below[n]
  BY DEF of_bits
<1> HIDE DEF add
<1>2. G \in [(1 .. n) \X Nat -> Nat]
  BY <1>0
<1>3. PICK f : Rounds(f, G, Nat, 0, n)
  <2> HIDE DEF G, n
  <2> QED
    BY <1>0, <1>2, RoundsExist
<1>4. f \in [0 .. n -> Nat] /\ f[0] = 0
  BY <1>3 DEF Rounds
<1>5. \A b \in 1 .. n : f[b] = f[b - 1] + add(b)
  <2> SUFFICES ASSUME NEW b \in 1 .. n
               PROVE  f[b] = f[b - 1] + add(b)
    OBVIOUS
  <2>1. f[b] = G[<<b, f[b - 1]>>]
    BY <1>3 DEF Rounds
  <2>2. b - 1 \in 0 .. n
    BY <1>0
  <2>3. <<b, f[b - 1]>> \in (1 .. n) \X Nat
    BY <1>4, <2>2
  <2> QED
    BY <2>1, <2>3
<1>6. Rule(f)
  BY <1>0, <1>4, <1>5
<1>7. Rule(below)
  BY <1>6
<1> HIDE DEF below
<1>8. below = f
  <2>1. below = [b \in 0 .. n |-> below[b]] /\ f = [b \in 0 .. n |-> f[b]]
    BY <1>4, <1>7
  <2>2. below[0] = 0
    BY <1>0, <1>7
  <2>3. \A b \in 1 .. n : below[b] = below[b - 1] + add(b)
    <3> SUFFICES ASSUME NEW b \in 1 .. n
                 PROVE  below[b] = below[b - 1] + add(b)
      OBVIOUS
    <3>1. b \in 0 .. n /\ b # 0
      BY <1>0
    <3> QED
      BY <1>7, <3>1
  <2> DEFINE S == {i \in Nat : i \in 0 .. n /\ below[i] # f[i]}
  <2>4. S = {}
    <3> SUFFICES ASSUME S # {}
                 PROVE  FALSE
      OBVIOUS
    <3>1. PICK i \in S : \A y \in S : i <= y
      <4>1. S \subseteq Nat
        OBVIOUS
      <4> QED
        BY <4>1, Least
    <3>2. i \in 0 .. n /\ below[i] # f[i] /\ i # 0
      BY <1>4, <2>2, <3>1
    <3>3. i \in 1 .. n /\ i - 1 \in 0 .. n /\ i - 1 \in Nat /\ ~ (i <= i - 1)
      BY <1>0, <3>2
    <3>4. below[i - 1] = f[i - 1]
      BY <3>1, <3>3
    <3> QED
      BY <1>5, <2>3, <3>2, <3>3, <3>4
  <2>5. \A i \in 0 .. n : below[i] = f[i]
    BY <1>0, <2>4
  <2> HIDE DEF Rule
  <2>6. [b \in 0 .. n |-> below[b]] = [b \in 0 .. n |-> f[b]]
    BY <2>5
  <2> QED
    BY <2>1, <2>6, Zenon
<1> QED
  BY <1>1, <1>4, <1>5, <1>8 DEF add, Sums

(* So it is a word.                                                        *)
LEMMA OfBitsTyped ==
  ASSUME NEW B
  PROVE  of_bits(B) \in 0 .. Word - 1
<1>1. PICK f : Sums(f, B) /\ of_bits(B) = f[WordBits]
  BY SumsExist
<1> DEFINE n == WordBits
           p(b) == 2 ^ b
           S == {i \in Nat : i \in 0 .. n /\ ~ (f[i] < p(i))}
<1>2. n \in Nat /\ p(0) = 1
  BY Widths
<1>3. \A b \in Nat : p(b) \in Nat /\ p(b + 1) = 2 * p(b)
  BY PowerTyped, PowerStep
<1>4. f \in [0 .. n -> Nat] /\ f[0] = 0
  BY <1>1 DEF Sums
<1>5. \A b \in 1 .. n : f[b] = f[b - 1] + (IF b - 1 \in B THEN p(b - 1) ELSE 0)
  BY <1>1 DEF Sums
<1>6. Word = p(n)
  BY DEF Word
<1> HIDE DEF p, n
<1>7. S = {}
  <2> SUFFICES ASSUME S # {}
               PROVE  FALSE
    OBVIOUS
  <2>1. PICK i \in S : \A y \in S : i <= y
    <3>1. S \subseteq Nat
      OBVIOUS
    <3> QED
      BY <3>1, Least
  <2>2. i \in 0 .. n /\ ~ (f[i] < p(i)) /\ i # 0
    BY <1>2, <1>4, <2>1
  <2>3. i \in 1 .. n /\ i - 1 \in 0 .. n /\ i - 1 \in Nat /\ ~ (i <= i - 1) /\ i - 1 + 1 = i
    BY <1>2, <2>2
  <2>4. f[i - 1] < p(i - 1)
    BY <2>1, <2>3
  <2>5. p(i) = 2 * p(i - 1) /\ p(i - 1) \in Nat
    BY <1>3, <2>3
  <2>6. f[i - 1] \in Nat /\ f[i] \in Nat
    BY <1>4, <2>2, <2>3
  <2>7. f[i] = f[i - 1] + p(i - 1) \/ f[i] = f[i - 1]
    <3>1. f[i] = f[i - 1] + (IF i - 1 \in B THEN p(i - 1) ELSE 0)
      BY <1>5, <2>3
    <3> QED
      BY <2>6, <3>1
  <2> QED
    BY <2>2, <2>4, <2>5, <2>6, <2>7
<1>8. n \in 0 .. n /\ n \in Nat
  BY <1>2
<1>9. f[n] \in Nat /\ f[n] < p(n) /\ p(n) \in Nat
  BY <1>3, <1>4, <1>7, <1>8
<1> QED
  BY <1>1, <1>6, <1>9 DEF n

(* What is left of a number by a power of two gains the next bit.          *)
LEMMA RemainderStep ==
  ASSUME NEW x \in Nat, NEW b \in Nat
  PROVE  x % 2 ^ (b + 1) = (x % 2 ^ b) + (IF bit(x, b) THEN 2 ^ b ELSE 0)
<1> DEFINE p == 2 ^ b
           q == x \div p
           r == x % p
           h == q \div 2
           e == q % 2
<1>1. p \in Nat /\ p >= 1 /\ 2 ^ (b + 1) = 2 * p
  BY PowerTyped, PowerStep
<1>2. x = p * q + r /\ r \in 0 .. p - 1 /\ q \in Nat
  <2> HIDE DEF p
  <2> QED
    BY <1>1, DivMod
<1>3. q = 2 * h + e /\ e \in 0 .. 1 /\ h \in Nat
  <2> HIDE DEF q
  <2> QED
    BY <1>2, DivMod
<1>4. bit(x, b) <=> e = 1
  BY DEF bit
<1> HIDE DEF p, q, r, h, e
<1>5. p * q = (2 * p) * h + p * e
  <2>1. p * q = p * (2 * h + e)
    BY <1>3
  <2>2. p * (2 * h + e) = (2 * p) * h + p * e
    BY <1>1, <1>3, SMTT(30)
  <2> QED
    BY <2>1, <2>2
<1>6. p * e + r \in 0 .. 2 * p - 1 /\ p * e = IF e = 1 THEN p ELSE 0
  <2>1. CASE e = 0
    <3>1. p * 0 = 0
      BY <1>1
    <3> QED
      BY <1>1, <1>2, <2>1, <3>1
  <2>2. CASE e = 1
    <3>1. p * 1 = p
      BY <1>1
    <3> QED
      BY <1>1, <1>2, <2>2, <3>1
  <2> QED
    BY <1>3, <2>1, <2>2
<1>7. x = (2 * p) * h + (p * e + r)
  <2>1. p * e \in Nat /\ (2 * p) * h \in Nat
    BY <1>1, <1>3, SMTT(30)
  <2> QED
    BY <1>2, <1>5, <2>1
<1>8. x % (2 * p) = p * e + r
  <2> DEFINE a == 2 * p
             s == p * e + r
  <2>1. a \in Nat /\ a > 0 /\ s \in 0 .. a - 1 /\ x = a * h + s
    BY <1>1, <1>6, <1>7
  <2> HIDE DEF a, s
  <2>2. x % a = s
    BY <1>3, <2>1, QuotientUnique
  <2> QED
    BY <2>2 DEF a, s
<1>9. x % 2 ^ (b + 1) = x % (2 * p)
  BY <1>1
<1>10. x % 2 ^ (b + 1) = r + (IF e = 1 THEN p ELSE 0)
  <2> DEFINE y == x % 2 ^ (b + 1)
             z == p * e
  <2>1. y = z + r /\ r \in Nat /\ p \in Nat /\ z = IF e = 1 THEN p ELSE 0
    BY <1>1, <1>2, <1>6, <1>8, <1>9
  <2> HIDE DEF y, z
  <2>2. y = r + (IF e = 1 THEN p ELSE 0)
    BY <2>1
  <2> QED
    BY <2>2 DEF y
<1> QED
  BY <1>4, <1>10 DEF p, r

(* A word is the sum of its bits.                                          *)
LEMMA OfBitsBack ==
  ASSUME NEW n \in 0 .. Word - 1, NEW B, \A b \in 0 .. WordBits - 1 : b \in B <=> bit(n, b)
  PROVE  of_bits(B) = n
<1>1. PICK f : Sums(f, B) /\ of_bits(B) = f[WordBits]
  BY SumsExist
<1> DEFINE w == WordBits
           r(b) == n % 2 ^ b
           S == {i \in Nat : i \in 0 .. w /\ f[i] # r(i)}
<1>2. w \in Nat /\ n \in Nat
  BY Widths, Words
<1>3. f \in [0 .. w -> Nat] /\ f[0] = 0
  BY <1>1 DEF Sums
<1>4. r(0) = 0
  <2>1. 2 ^ 0 = 1
    OBVIOUS
  <2>2. n % 1 = 0
    BY <1>2, DivMod
  <2> QED
    BY <2>1, <2>2
<1>5. \A i \in 1 .. w : f[i] = f[i - 1] + (IF bit(n, i - 1) THEN 2 ^ (i - 1) ELSE 0)
  <2> SUFFICES ASSUME NEW i \in 1 .. w
               PROVE  f[i] = f[i - 1] + (IF bit(n, i - 1) THEN 2 ^ (i - 1) ELSE 0)
    OBVIOUS
  <2>1. i - 1 \in 0 .. WordBits - 1
    BY <1>2
  <2>2. i - 1 \in B <=> bit(n, i - 1)
    BY <2>1
  <2>3. f[i] = f[i - 1] + (IF i - 1 \in B THEN 2 ^ (i - 1) ELSE 0)
    BY <1>1 DEF Sums
  <2> QED
    BY <2>2, <2>3
<1>6. \A i \in 1 .. w : r(i) = r(i - 1) + (IF bit(n, i - 1) THEN 2 ^ (i - 1) ELSE 0)
  <2> SUFFICES ASSUME NEW i \in 1 .. w
               PROVE  r(i) = r(i - 1) + (IF bit(n, i - 1) THEN 2 ^ (i - 1) ELSE 0)
    OBVIOUS
  <2>1. i - 1 \in Nat /\ i - 1 + 1 = i
    BY <1>2
  <2>2. n % 2 ^ (i - 1 + 1) = (n % 2 ^ (i - 1)) + (IF bit(n, i - 1) THEN 2 ^ (i - 1) ELSE 0)
    BY <1>2, <2>1, RemainderStep
  <2> QED
    BY <2>1, <2>2
<1> HIDE DEF w, r
<1>7. S = {}
  <2> SUFFICES ASSUME S # {}
               PROVE  FALSE
    OBVIOUS
  <2>1. PICK i \in S : \A y \in S : i <= y
    <3>1. S \subseteq Nat
      OBVIOUS
    <3> QED
      BY <3>1, Least
  <2>2. i \in 0 .. w /\ f[i] # r(i) /\ i # 0
    BY <1>2, <1>3, <1>4, <2>1
  <2>3. i \in 1 .. w /\ i - 1 \in 0 .. w /\ i - 1 \in Nat /\ ~ (i <= i - 1)
    BY <1>2, <2>2
  <2>4. f[i - 1] = r(i - 1)
    BY <2>1, <2>3
  <2> QED
    BY <1>5, <1>6, <2>2, <2>3, <2>4
<1>8. f[w] = r(w)
  BY <1>2, <1>7
<1>9. r(w) = n
  BY <1>2, Words, SmallRemainder DEF r, w, Word
<1> QED
  BY <1>1, <1>8, <1>9 DEF w

(* Bits and groups: what is above a bit does not reach it, and a bit of a  *)
(* group is a bit of the number.                                           *)
LEMMA HighUnseen ==
  ASSUME NEW r \in Nat, NEW t \in Nat, NEW g \in Nat, NEW m \in Nat, g < m
  PROVE  bit(r + 2 ^ m * t, g) <=> bit(r, g)
<1> DEFINE p == 2 ^ g
           s == 2 ^ (m - g - 1)
           q == r \div p
           e == r % p
<1>1. p \in Nat /\ p >= 1 /\ s \in Nat /\ m - g - 1 \in Nat
  BY PowerTyped
<1>2. 2 ^ m = p * (2 * s)
  <2> DEFINE k == m - g - 1
             c == 2 ^ (k + 1)
  <2>1. k \in Nat /\ k + 1 \in Nat /\ g + (k + 1) = m
    BY <1>1
  <2>2. c = 2 * s
    BY <2>1, PowerStep
  <2>3. 2 ^ (g + (k + 1)) = p * c
    BY <2>1, PowerAdd
  <2> HIDE DEF k, c
  <2> QED
    BY <2>1, <2>2, <2>3
<1>3. r = p * q + e /\ e \in 0 .. p - 1 /\ q \in Nat
  <2> HIDE DEF p
  <2> QED
    BY <1>1, DivMod
<1>4. bit(r, g) <=> q % 2 = 1
  BY DEF bit
<1> DEFINE x == r + 2 ^ m * t
           d == q + 2 * (s * t)
<1>5. bit(x, g) <=> (x \div p) % 2 = 1
  BY DEF bit
<1>6. x = p * d + e
  <2>1. x = r + (p * (2 * s)) * t
    BY <1>2
  <2> HIDE DEF p, q, e, s
  <2>2. (p * (2 * s)) * t = p * (2 * (s * t))
    BY <1>1, SMTT(30)
  <2>3. p * d = p * q + p * (2 * (s * t))
    <3> DEFINE y == 2 * (s * t)
    <3>1. y \in Nat
      BY <1>1
    <3> HIDE DEF y
    <3>2. p * (q + y) = p * q + p * y
      BY <1>1, <1>3, <3>1, SMTT(30)
    <3> QED
      BY <3>2 DEF y
  <2> DEFINE u == p * q
             v == p * (2 * (s * t))
  <2>4. u \in Nat /\ v \in Nat
    BY <1>1, <1>3
  <2>5. x = r + v /\ r = u + e /\ p * d = u + v
    BY <1>3, <2>1, <2>2, <2>3
  <2> HIDE DEF u, v, x, d
  <2> QED
    BY <1>3, <2>4, <2>5
<1>7. s * t \in Nat /\ d \in Nat
  BY <1>1, <1>3
<1> HIDE DEF x, p, e, s, q
<1>8. x \div p = d
  <2> HIDE DEF d
  <2>1. x \in Nat
    BY <1>1, <1>3, <1>6, <1>7
  <2> QED
    BY <1>1, <1>3, <1>6, <1>7, <2>1, QuotientUnique
<1>9. d % 2 = q % 2
  <2> DEFINE w == s * t
  <2>1. w \in Nat
    BY <1>7
  <2> HIDE DEF w
  <2>2. (q + 2 * w) % 2 = q % 2
    BY <1>3, <2>1
  <2> QED
    BY <2>2 DEF w
<1> QED
  BY <1>4, <1>5, <1>8, <1>9 DEF x

LEMMA QuotientOfQuotient ==
  ASSUME NEW x \in Nat, NEW a \in Nat, NEW b \in Nat, a > 0, b > 0
  PROVE  (x \div a) \div b = x \div (a * b)
<1> DEFINE q == x \div a
           r == x % a
           h == q \div b
           e == q % b
<1>1. x = a * q + r /\ r \in 0 .. a - 1 /\ q \in Nat
  BY DivMod
<1>2. q = b * h + e /\ e \in 0 .. b - 1 /\ h \in Nat
  <2> HIDE DEF q
  <2> QED
    BY <1>1, DivMod
<1> HIDE DEF q, r, h, e
<1>3. a * q = (a * b) * h + a * e
  <2>1. a * (b * h + e) = (a * b) * h + a * e
    BY <1>2, SMTT(30)
  <2> QED
    BY <1>2, <2>1
<1>4. a * (e + 1) <= a * b /\ a * (e + 1) = a * e + a /\ a * e \in Nat
  <2>1. a * (e + 1) <= a * b
    BY <1>2, ProductMonotone
  <2>2. a * (e + 1) = a * e + a /\ a * e \in Nat
    BY <1>2, SMTT(30)
  <2> QED
    BY <2>1, <2>2
<1> DEFINE c == a * b
           s == a * e + r
           u == a * e
<1>5. c \in Nat /\ c > 0
  BY SMTT(30)
<1>6. s \in 0 .. c - 1
  <2>1. u \in Nat /\ u + a <= c
    BY <1>4
  <2> HIDE DEF u, c
  <2>2. u + r \in 0 .. c - 1
    BY <1>1, <1>5, <2>1
  <2> QED
    BY <2>2 DEF u
<1>7. x = c * h + s
  <2> DEFINE v == c * h
  <2>1. v \in Nat /\ u \in Nat
    BY <1>2, <1>4, <1>5
  <2>2. x = (v + u) + r
    BY <1>1, <1>3
  <2> HIDE DEF u, v
  <2>3. x = v + (u + r)
    BY <1>1, <2>1, <2>2
  <2> QED
    BY <2>3 DEF u, v
<1> HIDE DEF c, s
<1>8. x \div c = h
  BY <1>2, <1>5, <1>6, <1>7, QuotientUnique
<1> QED
  BY <1>8 DEF c, h, q

LEMMA GroupBit ==
  ASSUME NEW n \in Nat, NEW m \in Nat, NEW g \in 0 .. GroupBits - 1, NEW flag \in {0, More},
         NEW byte, byte = ((n \div 2 ^ m) % More) + flag
  PROVE  bit(byte, g) <=> bit(n, m + g)
<1> DEFINE p == 2 ^ m
           x == n \div p
           r == x % More
           q == x \div More
<1>1. p \in Nat /\ p >= 1 /\ g \in Nat /\ GroupBits \in Nat /\ g < GroupBits
  BY PowerTyped, Widths
<1>2. x \in Nat
  <2> HIDE DEF p
  <2> QED
    BY <1>1, DivMod
<1>3. x = More * q + r /\ r \in Nat /\ q \in Nat
  <2> HIDE DEF x
  <2> QED
    BY <1>2, Words, DivMod
<1>4. More = 2 ^ GroupBits /\ More \in Nat
  BY Words DEF More
<1>5. bit(x, g) <=> bit(n, m + g)
  <2> DEFINE s == 2 ^ g
  <2>1. s \in Nat /\ s >= 1 /\ 2 ^ (m + g) = p * s
    BY <1>1, PowerTyped, PowerAdd
  <2>2. x \div s = n \div (p * s)
    <3> HIDE DEF p, s
    <3> QED
      BY <1>1, <2>1, QuotientOfQuotient
  <2> QED
    BY <2>1, <2>2 DEF bit
<1> HIDE DEF x, r, q
<1>6. bit(x, g) <=> bit(r, g)
  <2>1. x = r + 2 ^ GroupBits * q
    <3>1. More * q \in Nat
      BY <1>3, <1>4
    <3> QED
      BY <1>3, <1>4, <3>1
  <2>2. bit(r + 2 ^ GroupBits * q, g) <=> bit(r, g)
    BY <1>1, <1>3, HighUnseen
  <2> QED
    BY <2>1, <2>2
<1>7. bit(byte, g) <=> bit(r, g)
  <2>1. PICK t \in {0, 1} : flag = More * t
    <3>1. More * 0 = 0 /\ More * 1 = More
      BY <1>4
    <3> QED
      BY <3>1
  <2>2. bit(r + 2 ^ GroupBits * t, g) <=> bit(r, g)
    <3>1. t \in Nat
      BY <2>1
    <3> QED
      BY <1>1, <1>3, <3>1, HighUnseen
  <2>3. byte = r + 2 ^ GroupBits * t
    BY <1>4, <2>1 DEF r, x
  <2> QED
    BY <2>2, <2>3
<1> QED
  BY <1>5, <1>6, <1>7

(* The groups of an integer come one after the other.                      *)
LEMMA GroupPlace ==
  ASSUME NEW b \in Nat
  PROVE  /\ b \div GroupBits \in Nat /\ b % GroupBits \in 0 .. GroupBits - 1
         /\ b = GroupBits * (b \div GroupBits) + (b % GroupBits)
  BY Widths, DivMod

LEMMA GroupsGrow ==
  ASSUME NEW i \in Nat, NEW j \in Nat
  PROVE  /\ GroupBits * i \in Nat /\ GroupBits * (i + 1) = GroupBits * i + GroupBits
         /\ i <= j => GroupBits * i <= GroupBits * j
         /\ i < j => GroupBits * i + GroupBits <= GroupBits * j
<1>1. GroupBits * i \in Nat /\ GroupBits * (i + 1) = GroupBits * i + GroupBits
  BY Widths, SMTT(30)
<1>2. i <= j => GroupBits * i <= GroupBits * j
  BY Widths, ProductMonotone
<1>3. i < j => GroupBits * (i + 1) <= GroupBits * j
  <2>1. i < j => i + 1 <= j
    OBVIOUS
  <2> QED
    BY <2>1, Widths, ProductMonotone
<1> QED
  BY <1>1, <1>2, <1>3

(* The last byte of an integer that the format has written is the first    *)
(* one without the flag, and no byte is shifted out of the word.           *)
LEMMA SpeltEnds ==
  ASSUME NEW data \in Seq(Bytes), NEW a, NEW b, NEW n, Spelt(data, a, b, n)
  PROVE  /\ a \in Nat /\ b \in Nat /\ n \in Nat /\ b - a \in Nat /\ a < b /\ b <= Len(data)
         /\ \A k \in 1 .. b - a : data[a + k] < More <=> k = b - a
         /\ GroupBits * (b - a - 1) < WordBits
<1>1. /\ a \in Nat /\ b \in Nat /\ n \in Nat /\ b - a \in Nat /\ a < b /\ b <= Len(data)
      /\ b - a - 1 \in Nat
  BY Words DEF Spelt
<1>2. ASSUME NEW k \in 1 .. b - a
      PROVE  data[a + k] < More <=> k = b - a
  <2> DEFINE x == (n \div 2 ^ (GroupBits * (k - 1))) % More
  <2>1. data[a + k] = x + (IF k < b - a THEN More ELSE 0)
    BY DEF Spelt
  <2>2. x \in 0 .. More - 1
    <3>1. k - 1 \in Nat
      BY <1>1
    <3>2. GroupBits * (k - 1) \in Nat
      BY <3>1, GroupsGrow
    <3> DEFINE p == 2 ^ (GroupBits * (k - 1))
    <3>3. p \in Nat /\ p > 0
      BY <3>2, PowerTyped
    <3> HIDE DEF p
    <3>4. n \div p \in Nat
      BY <1>1, <3>3, DivMod
    <3>5. (n \div p) % More \in 0 .. More - 1
      <4> DEFINE q == n \div p
      <4> HIDE DEF q
      <4> QED
        BY <3>4, Words, DivMod DEF q
    <3> QED
      BY <3>5 DEF p
  <2> HIDE DEF x
  <2> DEFINE y == data[a + k]
  <2>3. y = x + (IF k < b - a THEN More ELSE 0)
    BY <2>1
  <2> HIDE DEF y
  <2>4. y < More <=> k = b - a
    BY <1>1, <2>2, <2>3, Words
  <2> QED
    BY <2>4 DEF y
<1>3. GroupBits * (b - a - 1) < WordBits
  <2> DEFINE k == b - a - 1
  <2>1. k \in Nat /\ GroupBits * k \in Nat
    BY <1>1, GroupsGrow
  <2>2. CASE b = a + 1
    <3>1. k = 0 /\ GroupBits * 0 = 0
      BY <1>1, <2>2, Widths
    <3> QED
      BY <3>1, Widths
  <2>3. CASE n >= 2 ^ (GroupBits * k)
    <3> SUFFICES ASSUME ~ (GroupBits * k < WordBits)
                 PROVE  FALSE
      OBVIOUS
    <3> DEFINE c == GroupBits * k
               u == 2 ^ c
    <3>1. c \in Nat /\ WordBits \in Nat /\ WordBits <= c
      BY <2>1, Widths
    <3>2. Word <= u /\ u \in Nat
      <4> HIDE DEF c
      <4> QED
        BY <3>1, PowerMonotone, PowerTyped DEF Word
    <3>3. n < Word /\ n >= u
      BY <2>3, Words DEF Spelt
    <3> HIDE DEF u, c
    <3> QED
      BY <1>1, <3>2, <3>3, Words
  <2> QED
    BY <2>2, <2>3 DEF Spelt
<1> QED
  BY <1>1, <1>2, <1>3

(* No number has a bit where all its powers are larger than itself.        *)
LEMMA NoHighBit ==
  ASSUME NEW n \in Nat, NEW m \in Nat, NEW b \in Nat, n < 2 ^ m, m <= b
  PROVE  ~ bit(n, b)
<1> DEFINE p == 2 ^ b
<1>1. p \in Nat /\ 2 ^ m <= p /\ 2 ^ m \in Nat
  BY PowerTyped, PowerMonotone
<1>2. n \in 0 .. p - 1
  BY <1>1
<1> HIDE DEF p
<1>3. n = p * 0 + n
  <2>1. p * 0 = 0
    BY <1>1
  <2> QED
    BY <2>1
<1>4. n \div p = 0
  BY <1>1, <1>2, <1>3, QuotientUnique
<1>5. (n \div p) % 2 = 0
  BY <1>4
<1> QED
  BY <1>5 DEF bit, p

(* The bits of the bytes are those of the number.                          *)
LEMMA SpeltBits ==
  ASSUME NEW data \in Seq(Bytes), NEW a, NEW b, NEW n, Spelt(data, a, b, n),
         NEW c \in 0 .. WordBits - 1
  PROVE  c \in UNION {folded(data[a + k], k) : k \in 1 .. b - a} <=> bit(n, c)
<1>0. /\ a \in Nat /\ b \in Nat /\ n \in Nat /\ b - a \in Nat /\ a < b
      /\ GroupBits * (b - a - 1) < WordBits
  BY SpeltEnds
<1>1. ASSUME NEW k \in 1 .. b - a
      PROVE  (GroupBits * (k - 1)) % WordBits = GroupBits * (k - 1)
             /\ GroupBits * (k - 1) \in Nat
  <2>1. k - 1 \in Nat /\ b - a - 1 \in Nat /\ k - 1 <= b - a - 1
    BY <1>0
  <2>2. GroupBits * (k - 1) \in Nat /\ GroupBits * (k - 1) <= GroupBits * (b - a - 1)
    BY <2>1, GroupsGrow
  <2>3. GroupBits * (b - a - 1) \in Nat
    BY <2>1, GroupsGrow
  <2>4. GroupBits * (k - 1) \in 0 .. WordBits - 1
    BY <1>0, <2>2, <2>3, Widths
  <2> QED
    BY <2>2, <2>4, Widths, SmallRemainder
<1>2. ASSUME NEW k \in 1 .. b - a, NEW g \in 0 .. GroupBits - 1
      PROVE  bit(data[a + k], g) <=> bit(n, GroupBits * (k - 1) + g)
  <2> DEFINE m == GroupBits * (k - 1)
             flag == IF k < b - a THEN More ELSE 0
             byte == data[a + k]
  <2>1. m \in Nat /\ flag \in {0, More}
    BY <1>1
  <2>2. byte = ((n \div 2 ^ m) % More) + flag
    BY DEF Spelt
  <2> HIDE DEF m, flag, byte
  <2>3. bit(byte, g) <=> bit(n, m + g)
    BY <1>0, <2>1, <2>2, GroupBit
  <2> QED
    BY <2>3 DEF m, byte
<1>3. ASSUME NEW k \in 1 .. b - a, c \in folded(data[a + k], k)
      PROVE  bit(n, c)
  <2>1. PICK g \in 0 .. GroupBits - 1 :
          bit(data[a + k], g) /\ c = ((GroupBits * (k - 1)) % WordBits) + g
    BY <1>3 DEF folded
  <2>2. c = GroupBits * (k - 1) + g
    BY <1>1, <2>1
  <2> QED
    BY <1>2, <2>1, <2>2
<1>4. ASSUME bit(n, c)
      PROVE  \E k \in 1 .. b - a : c \in folded(data[a + k], k)
  <2> DEFINE j == c \div GroupBits
             g == c % GroupBits
             m == GroupBits * (b - a)
  <2>1. c \in Nat
    BY Widths
  <2>2. j \in Nat /\ g \in 0 .. GroupBits - 1 /\ c = GroupBits * j + g
    BY <2>1, GroupPlace
  <2>3. m \in Nat
    BY <1>0, GroupsGrow
  <2>4. n < 2 ^ m
    BY DEF Spelt
  <2> HIDE DEF m, j, g
  <2>5. c < m
    BY <1>0, <1>4, <2>1, <2>3, <2>4, NoHighBit
  <2>6. j < b - a
    <3> SUFFICES ASSUME ~ (j < b - a)
                 PROVE  FALSE
      OBVIOUS
    <3>1. b - a <= j
      BY <1>0, <2>2
    <3>2. m <= GroupBits * j /\ GroupBits * j \in Nat
      BY <1>0, <2>2, <3>1, GroupsGrow DEF m
    <3> DEFINE u == GroupBits * j
    <3>3. u \in Nat /\ c = u + g /\ m <= u
      BY <2>2, <3>2
    <3> HIDE DEF u
    <3> QED
      BY <2>2, <2>3, <2>5, <3>3, Widths
  <2> DEFINE k == j + 1
  <2>7. k \in 1 .. b - a /\ k - 1 = j
    BY <1>0, <2>2, <2>6
  <2> HIDE DEF k
  <2>8. c = GroupBits * (k - 1) + g
    BY <2>2, <2>7
  <2>9. bit(data[a + k], g)
    BY <1>2, <1>4, <2>2, <2>7, <2>8
  <2>10. c = ((GroupBits * (k - 1)) % WordBits) + g
    BY <1>1, <2>7, <2>8
  <2>11. c \in folded(data[a + k], k)
    BY <2>2, <2>9, <2>10 DEF folded
  <2> QED
    BY <2>7, <2>11
<1> QED
  BY <1>3, <1>4

(* What the format has written is read as it was meant.                    *)
LEMMA ReadsBack ==
  ASSUME NEW data \in Seq(Bytes), NEW a, NEW b, NEW n, Spelt(data, a, b, n)
  PROVE  /\ Multibyte(data, a).value = n /\ Multibyte(data, a).len = b - a
         /\ Multibyte(data, a).end = "ok"
<1> DEFINE lasts == {k \in 1 .. Len(data) - a : data[a + k] < More}
           len == IF lasts = {} THEN Len(data) - a
                  ELSE CHOOSE k \in lasts : \A l \in lasts : k <= l
           B == UNION {folded(data[a + k], k) : k \in 1 .. b - a}
<1>0. /\ a \in Nat /\ b \in Nat /\ n \in Nat /\ b - a \in Nat /\ a < b /\ b <= Len(data)
      /\ \A k \in 1 .. b - a : data[a + k] < More <=> k = b - a
      /\ GroupBits * (b - a - 1) < WordBits
  BY SpeltEnds
<1>1. b - a \in lasts
  <2>1. b - a \in 1 .. b - a /\ b - a \in 1 .. Len(data) - a
    BY <1>0
  <2> QED
    BY <1>0, <2>1
<1>2. \A l \in lasts : b - a <= l
  <2> SUFFICES ASSUME NEW l \in lasts, ~ (b - a <= l)
               PROVE  FALSE
    OBVIOUS
  <2>1. l \in 1 .. b - a /\ l # b - a
    BY <1>0
  <2> QED
    BY <1>0, <2>1
<1>3. len = b - a
  <2>1. \A k \in lasts : (\A l \in lasts : k <= l) => k = b - a
    <3> SUFFICES ASSUME NEW k \in lasts, \A l \in lasts : k <= l
                 PROVE  k = b - a
      OBVIOUS
    <3>1. k <= b - a /\ b - a <= k /\ k \in Nat
      BY <1>1, <1>2
    <3> QED
      BY <1>0, <3>1
  <2> HIDE DEF lasts
  <2>2. PICK k : k = CHOOSE i \in lasts : \A l \in lasts : i <= l
    OBVIOUS
  <2>3. k \in lasts /\ \A l \in lasts : k <= l
    BY <1>1, <1>2, <2>2
  <2> QED
    BY <1>1, <2>1, <2>2, <2>3
<1>4. of_bits(B) = n
  <2>1. n \in 0 .. Word - 1
    BY DEF Spelt
  <2>2. \A c \in 0 .. WordBits - 1 : c \in B <=> bit(n, c)
    BY SpeltBits
  <2> HIDE DEF B
  <2> QED
    BY <2>1, <2>2, OfBitsBack
<1>5. Multibyte(data, a) =
        [value |-> of_bits(UNION {folded(data[a + k], k) : k \in 1 .. len}), len |-> len,
         end |-> IF checked /\ GroupBits * (len - 1) >= WordBits THEN "panic"
                 ELSE IF lasts = {} THEN "error" ELSE "ok"]
  BY DEF Multibyte
<1> HIDE DEF lasts, len
<1>6. of_bits(UNION {folded(data[a + k], k) : k \in 1 .. len}) = n
  BY <1>3, <1>4
<1>7. ~ (GroupBits * (len - 1) >= WordBits)
  <2>1. b - a - 1 \in Nat
    BY <1>0
  <2>2. GroupBits * (b - a - 1) \in Nat
    BY <2>1, GroupsGrow
  <2> QED
    BY <1>0, <1>3, <2>2, Widths
<1>8. lasts # {}
  BY <1>1
<1>9. (IF checked /\ GroupBits * (len - 1) >= WordBits THEN "panic"
       ELSE IF lasts = {} THEN "error" ELSE "ok") = "ok"
  BY <1>7, <1>8, Zenon
<1> QED
  BY <1>3, <1>5, <1>6, <1>9

(* Whatever the bytes: an integer is a word, and ends where its data end   *)
(* or before.                                                              *)
LEMMA MultibyteTyped ==
  ASSUME NEW data \in Seq(Bytes), NEW i \in 0 .. Len(data)
  PROVE  /\ Multibyte(data, i).value \in 0 .. Word - 1
         /\ Multibyte(data, i).len \in 0 .. Len(data) - i
         /\ Multibyte(data, i).end \in {"ok", "error", "panic"}
<1> DEFINE lasts == {k \in 1 .. Len(data) - i : data[i + k] < More}
           len == IF lasts = {} THEN Len(data) - i
                  ELSE CHOOSE k \in lasts : \A l \in lasts : k <= l
           B == UNION {folded(data[i + k], k) : k \in 1 .. len}
<1>1. Multibyte(data, i) =
        [value |-> of_bits(B), len |-> len,
         end |-> IF checked /\ GroupBits * (len - 1) >= WordBits THEN "panic"
                 ELSE IF lasts = {} THEN "error" ELSE "ok"]
  BY DEF Multibyte
<1>2. len \in 0 .. Len(data) - i
  <2>1. CASE lasts = {}
    BY <2>1
  <2>2. CASE lasts # {}
    <3>1. lasts \subseteq Nat /\ lasts \subseteq 0 .. Len(data) - i
      OBVIOUS
    <3> HIDE DEF lasts
    <3>2. \E k \in lasts : \A l \in lasts : k <= l
      BY <2>2, <3>1, Least
    <3>3. PICK k : k = CHOOSE j \in lasts : \A l \in lasts : j <= l
      OBVIOUS
    <3>4. k \in lasts
      BY <3>2, <3>3
    <3> QED
      BY <2>2, <3>1, <3>3, <3>4
  <2> QED
    BY <2>1, <2>2
<1> HIDE DEF B, len, lasts
<1>3. of_bits(B) \in 0 .. Word - 1
  BY OfBitsTyped
<1>4. (IF checked /\ GroupBits * (len - 1) >= WordBits THEN "panic"
       ELSE IF lasts = {} THEN "error" ELSE "ok") \in {"ok", "error", "panic"}
  BY Zenon
<1> QED
  BY <1>1, <1>2, <1>3, <1>4

(* A dictionary that is not refused has a size, and the one that is meant. *)
LEMMA DictFits ==
  ASSUME NEW d \in Bytes, ~ dict_refused(d)
  PROVE  /\ dict_size(d) \in 0 .. Half - 1
         /\ dict_size(d) = IF d = MaxDict THEN Half - 1
                           ELSE (2 + (d % 2)) * 2 ^ (d \div 2 + DictShift)
<1>1. d \in Nat /\ d <= MaxDict
  BY Widths, Words DEF dict_refused
<1>2. CASE d = MaxDict
  BY <1>2, Words DEF dict_size
<1>3. CASE d # MaxDict
  <2> DEFINE h == d \div 2
             e == d % 2
             k == h + DictShift
             p == 2 ^ k
             x == (2 + e) * p
  <2>1. h \in Nat /\ e \in 0 .. 1 /\ d = 2 * h + e
    BY <1>1
  <2>2. k \in Nat /\ k + 2 <= HalfBits /\ k + 1 + 1 \in Nat /\ k + 1 \in Nat
    <3>1. d < MaxDict
      BY <1>1, <1>3, Widths
    <3> DEFINE m == MaxDict \div 2
    <3>2. m \in Nat /\ MaxDict = 2 * m
      BY Widths
    <3>3. m + DictShift < HalfBits /\ DictShift \in Nat /\ HalfBits \in Nat
      BY Widths
    <3> HIDE DEF m, h, e
    <3> QED
      BY <2>1, <3>1, <3>2, <3>3
  <2>3. p \in Nat /\ p >= 1 /\ 4 * p <= Half
    <3>1. p \in Nat /\ p >= 1
      BY <2>2, PowerTyped
    <3> DEFINE f(j) == 2 ^ j
    <3>2. f(k + 1) = 2 * f(k) /\ f(k + 1 + 1) = 2 * f(k + 1)
      <4> HIDE DEF k
      <4> QED
        BY <2>2, PowerStep
    <3>3. f(k + 1 + 1) <= f(HalfBits)
      <4> HIDE DEF k
      <4>1. k + 1 + 1 \in Nat /\ HalfBits \in Nat /\ k + 1 + 1 <= HalfBits
        BY <2>2, Widths
      <4> QED
        BY <4>1, PowerMonotone
    <3>4. f(k) = p /\ f(HalfBits) = Half
      BY DEF Half
    <3> HIDE DEF f, k, p
    <3> QED
      BY <3>1, <3>2, <3>3, <3>4
  <2> HIDE DEF h, e, k, p
  <2>4. x \in 0 .. Half - 1
    <3>1. CASE e = 0
      <4>1. x = 2 * p
        BY <3>1
      <4> HIDE DEF x
      <4> QED
        BY <2>3, <4>1, Words
    <3>2. CASE e = 1
      <4>1. x = 3 * p
        BY <3>2
      <4> HIDE DEF x
      <4> QED
        BY <2>3, <4>1, Words
    <3> QED
      BY <2>1, <3>1, <3>2
  <2>5. dict_size(d) = x % Half
    BY <1>3 DEF dict_size, x, p, k, h, e
  <2> HIDE DEF x
  <2>6. dict_size(d) = x
    BY <2>4, <2>5, Words, SmallRemainder
  <2> QED
    BY <1>3, <2>4, <2>6 DEF x, p, k, h, e
<1> QED
  BY <1>2, <1>3

(* A size, from the header or from the index.                              *)
LEMMA StatedTyped ==
  ASSUME NEW data, rest = data, data \in Seq(Bytes), NEW at \in 0 .. Len(data),
         NEW present \in BOOLEAN, NEW otherwise \in Int
  PROVE  /\ Stated(present, at, otherwise).value \in 0 .. Word - 1
         /\ Stated(present, at, otherwise).at \in at .. Len(data)
         /\ Stated(present, at, otherwise).end \in {"ok", "error", "panic"}
<1> DEFINE n == Multibyte(rest, at)
<1>1. /\ n.value \in 0 .. Word - 1 /\ n.len \in 0 .. Len(data) - at
      /\ n.end \in {"ok", "error", "panic"}
  BY MultibyteTyped
<1> HIDE DEF n
<1>2. CASE present
  <2> DEFINE s == [value |-> (n.value + 1) % Word, at |-> at + n.len,
                   end |-> IF n.end = "ok" /\ n.value + 1 >= Word /\ checked THEN "panic"
                           ELSE n.end]
  <2>1. Stated(present, at, otherwise) = s
    BY <1>2 DEF Stated, n
  <2>2. (n.value + 1) % Word \in 0 .. Word - 1
    <3> DEFINE m == n.value + 1
    <3>1. m \in Nat
      BY <1>1
    <3> HIDE DEF m
    <3>2. m % Word \in 0 .. Word - 1
      BY <3>1, Words, DivMod
    <3> QED
      BY <3>2 DEF m
  <2>3. at + n.len \in at .. Len(data)
    BY <1>1
  <2>4. (IF n.end = "ok" /\ n.value + 1 >= Word /\ checked THEN "panic" ELSE n.end)
          \in {"ok", "error", "panic"}
    BY <1>1, Zenon
  <2> QED
    BY <2>1, <2>2, <2>3, <2>4
<1>3. CASE ~ present
  <2> DEFINE s == [value |-> otherwise % Word, at |-> at,
                   end |-> IF otherwise < 0 /\ checked THEN "panic" ELSE "ok"]
  <2>1. Stated(present, at, otherwise) = s
    BY <1>3 DEF Stated
  <2>2. otherwise % Word \in 0 .. Word - 1
    BY Words
  <2>3. (IF otherwise < 0 /\ checked THEN "panic" ELSE "ok") \in {"ok", "error", "panic"}
    BY Zenon
  <2> QED
    BY <2>1, <2>2, <2>3
<1> QED
  BY <1>2, <1>3
-----------------------------------------------------------------------------
(* Types                                                                   *)
Values == 0 .. Word - 1

Headers == [compressed_size : Values, uncompressed_size : Values,
            block_total_size : Nat, dict_size : 0 .. Half - 1]

HeaderIsThere ==
  pc \in {"filters"} => /\ block_total_size <= Len(file.header) /\ pos <= Len(rest)

TypeInv ==
  /\ file \in Files /\ checked \in BOOLEAN
  /\ pc \in {"footer", "index", "records", "header", "filters", "done", "failed",
             "panicked"}
  /\ backward_size \in 0 .. Half - 1 /\ index_offset \in 0 .. Len(Content)
  /\ index_data \in Seq(Bytes)
  /\ pos \in Nat /\ left \in Values
  /\ pc = "records" => pos <= Len(index_data)
  /\ HeaderIsThere
  /\ records \in Seq([unpadded_size : Values, uncompressed_size : Values])
  /\ block \in Headers

LEMMA FileTyped ==
  ASSUME file \in Files
  PROVE  /\ file.front \in Seq(Bytes) /\ file.index \in Seq(Bytes) /\ file.header \in Seq(Bytes)
         /\ Len(file.header) > 0 /\ file.backward \in 0 .. Half - 1
         /\ file.magic \in BOOLEAN /\ file.footer_crc \in BOOLEAN /\ file.intact \in BOOLEAN
         /\ file.index_crc \in BOOLEAN /\ file.header_crc \in BOOLEAN
         /\ Content \in Seq(Bytes) /\ Len(Content) = Len(file.front) + Len(file.index)
<1>1. IsFile(file)
  BY FilesAssumption
<1>2. /\ file.front \in Seq(Bytes) /\ file.index \in Seq(Bytes) /\ file.header \in Seq(Bytes)
      /\ Len(file.header) > 0 /\ file.backward \in 0 .. Half - 1
      /\ file.magic \in BOOLEAN /\ file.footer_crc \in BOOLEAN /\ file.intact \in BOOLEAN
      /\ file.index_crc \in BOOLEAN /\ file.header_crc \in BOOLEAN
  BY <1>1 DEF IsFile
<1>3. Content \in Seq(Bytes) /\ Len(Content) = Len(file.front) + Len(file.index)
  BY <1>2 DEF Content
<1> QED
  BY <1>2, <1>3

LEMMA RestTyped ==
  ASSUME file \in Files, block_total_size <= Len(file.header)
  PROVE  /\ block_total_size \in Nat /\ block_total_size >= 4
         /\ rest \in Seq(Bytes) /\ Len(rest) = block_total_size - 1
         /\ \A i \in 1 .. Len(rest) : rest[i] = file.header[i + 1]
<1>1. file.header \in Seq(Bytes) /\ Len(file.header) > 0
  BY FileTyped
<1>2. file.header[1] \in Nat
  <2> DEFINE f == file.header
  <2>1. f \in Seq(Bytes) /\ 1 \in 1 .. Len(f)
    BY <1>1
  <2> HIDE DEF f
  <2>2. f[1] \in Bytes
    BY <2>1
  <2> QED
    BY <2>2, Words DEF f
<1> DEFINE n == block_total_size
           h == file.header
<1>3. n \in Nat /\ n >= 4
  BY <1>2 DEF block_total_size
<1>4. h \in Seq(Bytes) /\ n <= Len(h) /\ rest = SubSeq(h, 2, n)
  BY <1>1 DEF rest
<1> HIDE DEF n, h
<1>5. rest = [i \in 1 .. n - 1 |-> h[i + 1]]
  BY <1>3, <1>4
<1>6. \A i \in 1 .. n - 1 : h[i + 1] \in Bytes
  BY <1>3, <1>4
<1>7. rest \in Seq(Bytes) /\ Len(rest) = n - 1
  BY <1>3, <1>5, <1>6
<1>8. \A i \in 1 .. Len(rest) : rest[i] = h[i + 1]
  BY <1>5, <1>7
<1> QED
  BY <1>3, <1>7, <1>8 DEF n, h

LEMMA TypeInit == Init => TypeInv
<1> SUFFICES ASSUME Init
             PROVE  TypeInv
  OBVIOUS
<1>1. Len(Content) \in Nat
  BY FileTyped DEF Init
<1> QED
  BY <1>1, Widths, Words DEF Init, TypeInv, HeaderIsThere, Headers, None, Values

LEMMA TypeFooter ==
  ASSUME TypeInv, ParseFooter
  PROVE  TypeInv'
<1>1. backward_size' \in 0 .. Half - 1
  <2> DEFINE x == ((file.backward + 1) % Half) * 4
  <2>1. backward_size' = x % Half
    BY DEF ParseFooter
  <2>2. x \in Nat
    <3> DEFINE y == file.backward + 1
    <3>1. y \in Nat
      BY FileTyped, Words DEF TypeInv
    <3> HIDE DEF y
    <3>2. y % Half \in Nat
      BY <3>1, Words
    <3> QED
      BY <3>2 DEF y
  <2> HIDE DEF x
  <2>3. x % Half \in 0 .. Half - 1
    BY <2>2, Words, DivMod
  <2> QED
    BY <2>1, <2>3
<1>2. pc' \in {"failed", "panicked", "index"}
  BY DEF ParseFooter
<1>3. UNCHANGED <<file, checked, index_offset, index_data, pos, left, records, block>>
  BY DEF ParseFooter
<1>4. Content' = Content
  BY <1>3 DEF Content
<1> QED
  BY <1>1, <1>2, <1>3, <1>4 DEF TypeInv, HeaderIsThere

LEMMA EndsBadly ==
  ASSUME NEW s, Ends(s)
  PROVE  pc' \in {"failed", "panicked"}
  BY DEF Ends

(* The end of the file, from where the footer says the index is.           *)
LEMMA TailTyped ==
  ASSUME NEW s \in Seq(Bytes), NEW n \in 0 .. Len(s)
  PROVE  /\ SubSeq(s, n + 1, Len(s)) \in Seq(Bytes)
         /\ Len(SubSeq(s, n + 1, Len(s))) = Len(s) - n
         /\ \A i \in 1 .. Len(s) - n : SubSeq(s, n + 1, Len(s))[i] = s[n + i]
<1> DEFINE t == SubSeq(s, n + 1, Len(s))
<1>1. t = [i \in 1 .. Len(s) - n |-> s[n + i]]
  OBVIOUS
<1>2. \A i \in 1 .. Len(s) - n : s[n + i] \in Bytes
  OBVIOUS
<1>3. t \in Seq(Bytes) /\ Len(t) = Len(s) - n
  BY <1>1, <1>2
<1> QED
  BY <1>1, <1>3

LEMMA TypeReadIndex ==
  ASSUME TypeInv, ReadIndex
  PROVE  TypeInv'
<1>0. /\ UNCHANGED <<file, checked, backward_size, records, block>> /\ Content' = Content
      /\ Content \in Seq(Bytes)
  BY FileTyped DEF ReadIndex, TypeInv, Content
<1>1. CASE Overflows(Len(Content), backward_size)
  <2>1. pc' \in {"panicked", "failed"} /\ UNCHANGED <<index_offset, index_data, pos, left>>
    BY <1>1 DEF ReadIndex
  <2> QED
    BY <1>0, <2>1 DEF TypeInv, HeaderIsThere
<1>2. CASE ~ Overflows(Len(Content), backward_size)
  <2> DEFINE n == Len(Content) - backward_size
             m == Multibyte(index_data', 1)
  <2>1. /\ index_offset' = n
        /\ index_data' = SubSeq(Content, n + 1, Len(Content))
        /\ IF backward_size < 2 \/ index_data'[1] # 0
           THEN pc' = "failed" /\ UNCHANGED <<pos, left>>
           ELSE IF m.end # "ok" THEN Ends(m) /\ UNCHANGED <<pos, left>>
           ELSE /\ pos' = m.len + 1
                /\ left' = m.value
                /\ pc' = IF m.value > MaxRecords THEN "panicked" ELSE "records"
    BY <1>2 DEF ReadIndex
  <2>2. n \in 0 .. Len(Content) /\ Len(Content) - n = backward_size
    BY <1>0, <1>2, Words DEF Overflows, TypeInv
  <2> HIDE DEF n
  <2>3. index_data' \in Seq(Bytes) /\ Len(index_data') = backward_size
    BY <1>0, <2>1, <2>2, TailTyped
  <2>4. CASE pc' \in {"failed", "panicked"} /\ UNCHANGED <<pos, left>>
    BY <1>0, <2>1, <2>2, <2>3, <2>4 DEF TypeInv, HeaderIsThere
  <2>5. CASE ~ (backward_size < 2) /\ m.end = "ok" /\ pos' = m.len + 1
             /\ left' = m.value /\ pc' \in {"panicked", "records"}
    <3>1. 1 \in 0 .. Len(index_data') /\ backward_size \in Nat
      BY <2>3, <2>5, Words DEF TypeInv
    <3>2. m.value \in Values /\ m.len \in 0 .. Len(index_data') - 1
      BY <2>3, <3>1, MultibyteTyped DEF Values
    <3> HIDE DEF m
    <3>3. pos' \in Nat /\ pos' <= Len(index_data') /\ left' \in Values
      BY <2>3, <2>5, <3>1, <3>2
    <3> QED
      BY <1>0, <2>1, <2>2, <2>3, <2>5, <3>3 DEF TypeInv, HeaderIsThere
  <2> HIDE DEF m
  <2> QED
    BY <2>1, <2>4, <2>5, EndsBadly
<1> QED
  BY <1>1, <1>2

LEMMA TypeParseRecord ==
  ASSUME TypeInv, ParseRecord
  PROVE  TypeInv'
<1> DEFINE first  == Multibyte(index_data, pos)
           second == Multibyte(index_data, second_at(first))
<1>0. /\ UNCHANGED <<file, checked, backward_size, index_offset, index_data, block>>
      /\ Content' = Content /\ pc = "records" /\ left > 0
  BY DEF ParseRecord, Content
<1>1. \/ pc' \in {"failed", "panicked"} /\ UNCHANGED <<pos, left, records>>
      \/ /\ pos' = second_at(first) + second.len
         /\ left' = left - 1
         /\ records' = Append(records, [unpadded_size |-> first.value,
                                        uncompressed_size |-> second.value])
         /\ UNCHANGED pc
  <2>1. /\ pc = "records" /\ left > 0
        /\ IF first.end # "ok" THEN Ends(first) /\ UNCHANGED <<pos, left, records>>
           ELSE IF second.end # "ok" THEN Ends(second) /\ UNCHANGED <<pos, left, records>>
           ELSE /\ pos' = second_at(first) + second.len
                /\ left' = left - 1
                /\ records' = Append(records, [unpadded_size |-> first.value,
                                               uncompressed_size |-> second.value])
                /\ UNCHANGED pc
    BY DEF ParseRecord
  <2> HIDE DEF first, second
  <2> QED
    BY <2>1, EndsBadly
<1>2. CASE pc' \in {"failed", "panicked"} /\ UNCHANGED <<pos, left, records>>
  BY <1>0, <1>2 DEF TypeInv, HeaderIsThere
<1>3. CASE /\ pos' = second_at(first) + second.len
           /\ left' = left - 1
           /\ records' = Append(records, [unpadded_size |-> first.value,
                                          uncompressed_size |-> second.value])
           /\ UNCHANGED pc
  <2>1. pos \in 0 .. Len(index_data) /\ index_data \in Seq(Bytes)
    BY <1>0 DEF TypeInv
  <2>2. first.value \in Values /\ first.len \in 0 .. Len(index_data) - pos
    BY <2>1, MultibyteTyped DEF Values
  <2>3. second_at(first) = pos + first.len
    BY DEF second_at
  <2>4. second_at(first) \in 0 .. Len(index_data)
    <3> HIDE DEF first
    <3> QED
      BY <2>1, <2>2, <2>3
  <2>5. second.value \in Values /\ second.len \in 0 .. Len(index_data) - second_at(first)
    BY <2>1, <2>4, MultibyteTyped DEF Values
  <2> DEFINE a == second_at(first)
             b == second.len
             r == [unpadded_size |-> first.value, uncompressed_size |-> second.value]
  <2>6. pos' \in Nat /\ pos' <= Len(index_data)
    <3>1. pos' = a + b /\ a \in 0 .. Len(index_data) /\ b \in 0 .. Len(index_data) - a
      BY <1>3, <2>4, <2>5
    <3> HIDE DEF a, b
    <3> QED
      BY <2>1, <3>1
  <2>7. left' \in Values
    BY <1>0, <1>3, Words DEF TypeInv, Values
  <2>8. r \in [unpadded_size : Values, uncompressed_size : Values]
    BY <2>2, <2>5
  <2>9. records' = Append(records, r)
    BY <1>3
  <2> HIDE DEF a, b, r, first, second
  <2>10. records' \in Seq([unpadded_size : Values, uncompressed_size : Values])
    BY <2>8, <2>9 DEF TypeInv
  <2> QED
    BY <1>0, <1>3, <2>6, <2>7, <2>10 DEF TypeInv, HeaderIsThere
<1> HIDE DEF first, second
<1> QED
  BY <1>1, <1>2, <1>3

LEMMA TypeParseHeader ==
  ASSUME TypeInv, ParseHeader
  PROVE  TypeInv'
<1> DEFINE record == records[1]
           packed == Stated(compressed_size_present, 1,
                            record.unpadded_size - block_total_size)
           plain  == Stated(uncompressed_size_present, packed.at,
                            record.uncompressed_size)
<1>0. /\ UNCHANGED <<file, checked, backward_size, index_offset, index_data, records>>
      /\ Content' = Content /\ block_total_size' = block_total_size /\ rest' = rest
      /\ pc = "header" /\ Len(records) > 0
  BY DEF ParseHeader, Content, block_total_size, rest
<1>1. \/ pc' \in {"failed", "panicked"} /\ UNCHANGED <<pos, left, block>>
      \/ /\ block_total_size <= Len(file.header) /\ pc' = "filters" /\ pos' = plain.at
         /\ left' = num_filters
         /\ block' = [compressed_size |-> packed.value, uncompressed_size |-> plain.value,
                      block_total_size |-> block_total_size, dict_size |-> DefaultDict]
  <2>1. IF Len(file.header) < block_total_size \/ ~file.header_crc
        THEN pc' = "failed" /\ UNCHANGED <<pos, left, block>>
        ELSE IF packed.end # "ok" THEN Ends(packed) /\ UNCHANGED <<pos, left, block>>
        ELSE IF plain.end # "ok" THEN Ends(plain) /\ UNCHANGED <<pos, left, block>>
        ELSE /\ pc' = "filters" /\ pos' = plain.at /\ left' = num_filters
             /\ block' = [compressed_size |-> packed.value,
                          uncompressed_size |-> plain.value,
                          block_total_size |-> block_total_size,
                          dict_size |-> DefaultDict]
    BY DEF ParseHeader
  <2>2. ~ (Len(file.header) < block_total_size) => block_total_size <= Len(file.header)
    <3> DEFINE h == file.header
    <3>1. h \in Seq(Bytes) /\ 1 \in 1 .. Len(h)
      BY FileTyped DEF TypeInv
    <3>2. block_total_size = (h[1] + 1) * 4
      BY DEF block_total_size
    <3> HIDE DEF h
    <3>3. h[1] \in Nat
      <4>1. h[1] \in Bytes
        BY <3>1
      <4> QED
        BY <4>1, Words
    <3>4. block_total_size \in Nat /\ Len(h) \in Nat
      BY <3>1, <3>2, <3>3
    <3> QED
      BY <3>4 DEF h
  <2> HIDE DEF packed, plain
  <2> QED
    BY <2>1, <2>2, EndsBadly
<1>2. CASE pc' \in {"failed", "panicked"} /\ UNCHANGED <<pos, left, block>>
  BY <1>0, <1>2 DEF TypeInv, HeaderIsThere
<1>3. CASE /\ block_total_size <= Len(file.header) /\ pc' = "filters" /\ pos' = plain.at
           /\ left' = num_filters
           /\ block' = [compressed_size |-> packed.value, uncompressed_size |-> plain.value,
                        block_total_size |-> block_total_size, dict_size |-> DefaultDict]
  <2>1. /\ block_total_size \in Nat /\ rest \in Seq(Bytes) /\ Len(rest) >= 3
        /\ Len(rest) \in Nat
    BY <1>3, RestTyped DEF TypeInv
  <2>2. record.unpadded_size \in Values /\ record.uncompressed_size \in Values
    <3> DEFINE R == [unpadded_size : Values, uncompressed_size : Values]
    <3>1. records \in Seq(R) /\ 1 \in 1 .. Len(records)
      BY <1>0 DEF TypeInv
    <3>2. record \in R
      <4> HIDE DEF R
      <4> QED
        BY <3>1
    <3> HIDE DEF record
    <3> QED
      BY <3>2
  <2>3. record.unpadded_size \in Int /\ record.uncompressed_size \in Int
        /\ record.unpadded_size - block_total_size \in Int
    BY <2>1, <2>2, Words DEF Values
  <2>4. 1 \in 0 .. Len(rest)
    BY <2>1
  <2>5. compressed_size_present \in BOOLEAN /\ uncompressed_size_present \in BOOLEAN
    BY DEF compressed_size_present, uncompressed_size_present
  <2>6. packed.value \in Values /\ packed.at \in 1 .. Len(rest)
    BY <2>1, <2>3, <2>4, <2>5, StatedTyped DEF Values
  <2> HIDE DEF packed, record
  <2>7. packed.at \in 0 .. Len(rest)
    BY <2>6
  <2>8. plain.value \in Values /\ plain.at \in packed.at .. Len(rest)
    BY <2>1, <2>3, <2>5, <2>7, StatedTyped DEF Values
  <2> HIDE DEF plain
  <2>9. num_filters \in 1 .. 4
    <3>1. rest[1] \in Bytes
      BY <2>1
    <3>2. rest[1] \in Nat
      BY <3>1, Words
    <3> QED
      BY <3>2 DEF num_filters, Flags
  <2>10. left' \in Values
    BY <1>3, <2>9, Words DEF Values
  <2>11. pos' \in Nat /\ pos' <= Len(rest')
    BY <1>0, <1>3, <2>6, <2>8
  <2>12. block' \in Headers
    BY <1>3, <2>1, <2>6, <2>8, Widths DEF Headers
  <2>13. HeaderIsThere'
    BY <1>0, <1>3, <2>11 DEF HeaderIsThere
  <2> QED
    BY <1>0, <1>3, <2>10, <2>11, <2>12, <2>13 DEF TypeInv
<1> HIDE DEF packed, plain
<1> QED
  BY <1>1, <1>2, <1>3

LEMMA TypeParseFilter ==
  ASSUME TypeInv, ParseFilter
  PROVE  TypeInv'
<1> DEFINE id    == Multibyte(rest, pos)
           size  == Multibyte(rest, pos + id.len)
           props == pos + id.len + size.len
           dict  == dict_size(rest[props + 1])
<1>0. /\ UNCHANGED <<file, checked, backward_size, index_offset, index_data, records>>
      /\ Content' = Content /\ block_total_size' = block_total_size /\ rest' = rest
      /\ pc = "filters" /\ left > 0 /\ pos < Len(rest)
  BY DEF ParseFilter, Content, block_total_size, rest
<1>1. \/ pc' \in {"failed", "panicked"} /\ UNCHANGED <<pos, left, block>>
      \/ /\ ~ (props + size.value > Len(rest))
         /\ ~ (id.value = Lzma2 /\ (size.value = 0 \/ dict_refused(rest[props + 1])))
         /\ pos' = props + size.value /\ left' = left - 1
         /\ block' = IF id.value # Lzma2 THEN block ELSE [block EXCEPT !.dict_size = dict]
         /\ UNCHANGED pc
  <2>1. IF id.end # "ok" THEN Ends(id) /\ UNCHANGED <<pos, left, block>>
        ELSE IF size.end # "ok" THEN Ends(size) /\ UNCHANGED <<pos, left, block>>
        ELSE IF props + size.value >= Word
             THEN pc' = "panicked" /\ UNCHANGED <<pos, left, block>>
        ELSE IF props + size.value > Len(rest)
             THEN pc' = "failed" /\ UNCHANGED <<pos, left, block>>
        ELSE IF id.value = Lzma2 /\ (size.value = 0 \/ dict_refused(rest[props + 1]))
             THEN pc' = "failed" /\ UNCHANGED <<pos, left, block>>
        ELSE /\ pos' = props + size.value /\ left' = left - 1
             /\ block' = IF id.value # Lzma2 THEN block
                         ELSE [block EXCEPT !.dict_size = dict_size(rest[props + 1])]
             /\ UNCHANGED pc
    BY DEF ParseFilter
  <2> HIDE DEF id, size, props
  <2> QED
    BY <2>1, EndsBadly
<1>2. CASE pc' \in {"failed", "panicked"} /\ UNCHANGED <<pos, left, block>>
  BY <1>0, <1>2 DEF TypeInv, HeaderIsThere
<1>3. CASE /\ ~ (props + size.value > Len(rest))
           /\ ~ (id.value = Lzma2 /\ (size.value = 0 \/ dict_refused(rest[props + 1])))
           /\ pos' = props + size.value /\ left' = left - 1
           /\ block' = IF id.value # Lzma2 THEN block ELSE [block EXCEPT !.dict_size = dict]
           /\ UNCHANGED pc
  <2>0. block_total_size <= Len(file.header) /\ pos \in 0 .. Len(rest)
    BY <1>0 DEF TypeInv, HeaderIsThere
  <2>1. rest \in Seq(Bytes) /\ Len(rest) \in Nat
    BY <2>0, RestTyped DEF TypeInv
  <2>2. id.len \in 0 .. Len(rest) - pos
    BY <2>0, <2>1, MultibyteTyped
  <2> HIDE DEF id
  <2>3. pos + id.len \in 0 .. Len(rest)
    BY <2>0, <2>1, <2>2
  <2>4. size.value \in Values /\ size.len \in 0 .. Len(rest) - (pos + id.len)
    BY <2>1, <2>3, MultibyteTyped DEF Values
  <2> DEFINE v == size.value
  <2>5. props \in 0 .. Len(rest) /\ v \in Nat
    <3> HIDE DEF size
    <3>1. v \in Nat
      BY <2>4, Words DEF Values
    <3> DEFINE l == Len(rest)
               a == pos + id.len
               k == size.len
    <3>2. l \in Nat /\ a \in 0 .. l /\ k \in 0 .. l - a /\ props = a + k
      BY <2>1, <2>3, <2>4
    <3> HIDE DEF l, a, k, props
    <3>3. props \in 0 .. l
      BY <3>2
    <3> QED
      BY <3>1, <3>3 DEF l
  <2> HIDE DEF size, props
  <2>6. pos' \in Nat /\ pos' <= Len(rest)
    <3> DEFINE l == Len(rest)
    <3>1. l \in Nat /\ props \in 0 .. l /\ v \in Nat /\ ~ (props + v > l) /\ pos' = props + v
      BY <1>3, <2>1, <2>5
    <3> HIDE DEF l, v
    <3> QED
      BY <3>1 DEF l
  <2>7. left' \in Values
    <3>1. left > 0 /\ left' = left - 1
      BY <1>0, <1>3
    <3>2. left \in 0 .. Word - 1 /\ Word \in Nat
      BY Words DEF TypeInv, Values
    <3>3. left' \in 0 .. Word - 1
      BY <3>1, <3>2
    <3> QED
      BY <3>3 DEF Values
  <2>8. block' \in Headers
    <3>1. CASE id.value # Lzma2
      BY <1>3, <3>1 DEF TypeInv
    <3>2. CASE id.value = Lzma2
      <4> DEFINE d == rest[props + 1]
      <4>1. v # 0 /\ ~ dict_refused(d)
        BY <1>3, <3>2
      <4>2. props + v <= Len(rest)
        BY <1>3, <2>1, <2>5
      <4>3. props + 1 \in 1 .. Len(rest)
        BY <2>1, <2>5, <4>1, <4>2
      <4>4. d \in Bytes
        BY <2>1, <4>3
      <4> HIDE DEF d
      <4>5. dict_size(d) \in 0 .. Half - 1
        BY <4>1, <4>4, DictFits
      <4>6. dict \in 0 .. Half - 1
        BY <4>5 DEF d
      <4>7. block' = [block EXCEPT !.dict_size = dict]
        BY <1>3, <3>2
      <4> HIDE DEF dict
      <4> QED
        BY <4>6, <4>7 DEF TypeInv, Headers
    <3> QED
      BY <3>1, <3>2
  <2>9. HeaderIsThere'
    BY <1>0, <2>0, <2>6 DEF HeaderIsThere
  <2> QED
    BY <1>0, <1>3, <2>6, <2>7, <2>8, <2>9 DEF TypeInv
<1> HIDE DEF id, size, props, dict
<1> QED
  BY <1>1, <1>2, <1>3

LEMMA TypeStep ==
  ASSUME TypeInv, [Next]_vars
  PROVE  TypeInv'
<1>1. CASE CheckIndex
  <2>1. pc' \in {"header", "failed"} /\ Content' = Content
    BY <1>1 DEF CheckIndex, Content
  <2> QED
    BY <1>1, <2>1 DEF CheckIndex, TypeInv, HeaderIsThere
<1>2. CASE EndHeader
  <2>1. pc' = "done" /\ Content' = Content
    BY <1>2 DEF EndHeader, Content
  <2> QED
    BY <1>2, <2>1 DEF EndHeader, TypeInv, HeaderIsThere
<1>3. CASE NoBlock
  <2>1. pc' = "done" /\ Content' = Content
    BY <1>3 DEF NoBlock, Content
  <2> QED
    BY <1>3, <2>1 DEF NoBlock, TypeInv, HeaderIsThere
<1>4. CASE UNCHANGED vars
  <2>1. Content' = Content /\ rest' = rest /\ block_total_size' = block_total_size
    BY <1>4 DEF vars, Content, rest, block_total_size
  <2> QED
    BY <1>4, <2>1 DEF vars, TypeInv, HeaderIsThere
<1> QED
  BY <1>1, <1>2, <1>3, <1>4, TypeFooter, TypeReadIndex, TypeParseRecord, TypeParseHeader,
     TypeParseFilter DEF Next

(* Whatever the file holds: each number keeps the width that the code has  *)
(* for it, and each slice of the index or of a header begins inside it, so *)
(* none panics.                                                            *)
THEOREM TypeCorrect == Spec => []TypeOK
<1>1. TypeInv => TypeOK
  <2> SUFFICES ASSUME TypeInv
               PROVE  TypeOK
    OBVIOUS
  <2>1. \A i \in 1 .. Len(records) :
          /\ records[i].unpadded_size \in 0 .. Word - 1
          /\ records[i].uncompressed_size \in 0 .. Word - 1
    <3> SUFFICES ASSUME NEW i \in 1 .. Len(records)
                 PROVE  /\ records[i].unpadded_size \in 0 .. Word - 1
                        /\ records[i].uncompressed_size \in 0 .. Word - 1
      OBVIOUS
    <3> DEFINE R == [unpadded_size : Values, uncompressed_size : Values]
    <3>1. records \in Seq(R)
      BY DEF TypeInv
    <3>2. records[i] \in R
      <4> HIDE DEF R
      <4> QED
        BY <3>1
    <3> QED
      BY <3>2 DEF Values
  <2>2. /\ block.compressed_size \in 0 .. Word - 1 /\ block.uncompressed_size \in 0 .. Word - 1
        /\ block.dict_size \in 0 .. Half - 1
    BY DEF TypeInv, Headers, Values
  <2> QED
    BY <2>1, <2>2 DEF TypeInv, HeaderIsThere, TypeOK, Values
<1> QED
  BY <1>1, TypeInit, TypeStep, PTL DEF Spec
-----------------------------------------------------------------------------
(* Files that a compressor has written.                                    *)
Entries == [unpadded_size : 0 .. Word - 1, uncompressed_size : 0 .. Word - 1]

IndexRead ==
  /\ pc \in {"footer", "index"} => records = <<>>
  /\ pc # "footer" => backward_size = Len(file.index)
  /\ pc \notin {"footer", "index"} =>
       index_offset = Len(file.front) /\ index_data = file.index
  /\ pc = "records" =>
       /\ Len(records) + left = Len(file.records)
       /\ \A i \in 1 .. Len(records) : records[i] = file.records[i]
       /\ pos = file.starts[Len(records) + 1]
  /\ pc \in {"header", "filters", "done"} => records = file.records

HeaderRead ==
  pc \in {"filters", "done"} /\ records # <<>> =>
    /\ block.block_total_size = file.block.block_total_size
    /\ block.compressed_size - file.block.compressed_size \in {1, file.check}
    /\ block.uncompressed_size - file.block.uncompressed_size \in {0, 1}

FiltersRead ==
  LET n == Len(file.filters) IN
  /\ pc = "filters" =>
       /\ records # <<>> /\ block_total_size <= Len(file.header)
       /\ left \in 0 .. n
       /\ left > 0 => pos = file.filters[n - left + 1].at
       /\ left = 0 => block.dict_size = file.block.dict_size
  /\ pc = "done" /\ records # <<>> => block.dict_size = file.block.dict_size

IntactInv ==
  file.intact => IntactParsed /\ IndexRead /\ HeaderRead /\ FiltersRead

LEMMA IntactInit == Init => IntactInv
  BY DEF Init, IntactInv, IntactParsed, IndexRead, HeaderRead, FiltersRead

LEMMA IntactIndex ==
  ASSUME file \in Files, file.intact
  PROVE  /\ file.magic /\ file.footer_crc /\ file.index_crc /\ file.header_crc
         /\ file.check \in Nat /\ file.block.compressed_size \in Nat
         /\ IndexWritten(file) /\ (file.records # <<>> => HeaderWritten(file))
<1>1. IsFile(file)
  BY FilesAssumption
<1> QED
  BY <1>1 DEF IsFile

LEMMA IntactEntries ==
  ASSUME IndexWritten(file)
  PROVE  /\ file.records \in Seq(Entries) /\ Len(file.records) \in Nat
         /\ Len(file.records) <= MaxRecords
         /\ Len(file.index) = (file.backward + 1) * 4 /\ Len(file.index) < Half
         /\ file.index[1] = 0 /\ Spelt(file.index, 1, file.starts[1], Len(file.records))
         /\ \A r \in 1 .. Len(file.records) :
              /\ Spelt(file.index, file.starts[r], file.seconds[r],
                       file.records[r].unpadded_size)
              /\ Spelt(file.index, file.seconds[r], file.starts[r + 1],
                       file.records[r].uncompressed_size)
<1>1. file.records \in Seq(Entries)
  BY DEF IndexWritten, Entries
<1>2. Len(file.records) \in Nat
  BY <1>1
<1> QED
  BY <1>1, <1>2 DEF IndexWritten

LEMMA IntactFooter ==
  ASSUME TypeInv, IntactInv, ParseFooter, file.intact
  PROVE  IntactInv'
<1> DEFINE b == file.backward + 1
           n == Len(file.index)
<1>1. /\ file.magic /\ file.footer_crc /\ n = b * 4 /\ n < Half /\ b \in Nat /\ n \in Nat
  <2>1. file.magic /\ file.footer_crc /\ n = b * 4 /\ n < Half
    BY IntactIndex, IntactEntries DEF TypeInv
  <2>2. file.index \in Seq(Bytes) /\ file.backward \in Nat
    BY FileTyped, Words DEF TypeInv
  <2>3. b \in Nat /\ n \in Nat
    BY <2>2
  <2> QED
    BY <2>1, <2>3
<1>2. /\ backward_size' = ((b % Half) * 4) % Half
      /\ pc' = IF ~file.magic \/ ~file.footer_crc THEN "failed"
               ELSE IF b >= Half /\ checked THEN "panicked" ELSE "index"
      /\ UNCHANGED <<file, checked, index_offset, index_data, pos, left, records, block>>
      /\ pc = "footer"
  BY DEF ParseFooter
<1> HIDE DEF b, n
<1>3. b \in 0 .. Half - 1 /\ n \in 0 .. Half - 1 /\ Half \in Nat
  BY <1>1, Words
<1>4. b % Half = b /\ n % Half = n
  BY <1>3, SmallRemainder
<1>5. backward_size' = n
  BY <1>1, <1>2, <1>4
<1>6. ~ (b >= Half)
  BY <1>3
<1>7. pc' = "index"
  BY <1>1, <1>2, <1>6, Zenon
<1>8. records = <<>>
  BY <1>2 DEF IntactInv, IndexRead
<1> QED
  BY <1>2, <1>5, <1>7, <1>8
     DEF IntactInv, IntactParsed, IndexRead, HeaderRead, FiltersRead, n

LEMMA BackToIndex ==
  ASSUME NEW s \in Seq(Bytes), NEW t \in Seq(Bytes)
  PROVE  SubSeq(s \o t, Len(s) + 1, Len(s \o t)) = t
  OBVIOUS

LEMMA IntactReadIndex ==
  ASSUME TypeInv, IntactInv, ReadIndex, file.intact
  PROVE  IntactInv'
<1> DEFINE n == Len(file.records)
           m == Multibyte(file.index, 1)
<1>1. /\ n \in Nat /\ n <= MaxRecords /\ file.index[1] = 0 /\ Len(file.index) < Half
      /\ Spelt(file.index, 1, file.starts[1], n)
  BY IntactIndex, IntactEntries DEF TypeInv
<1>2. /\ file.front \in Seq(Bytes) /\ file.index \in Seq(Bytes)
      /\ Len(Content) = Len(file.front) + Len(file.index)
      /\ Content = file.front \o file.index
  BY FileTyped DEF TypeInv, Content
<1>3. backward_size = Len(file.index) /\ records = <<>> /\ pc = "index"
  BY DEF IntactInv, IndexRead, ReadIndex
<1>4. /\ m.value = n /\ m.len = file.starts[1] - 1 /\ m.end = "ok"
      /\ file.starts[1] \in Nat /\ 1 < file.starts[1] /\ file.starts[1] <= Len(file.index)
  BY <1>1, <1>2, ReadsBack, SpeltEnds
<1>5. ~ Overflows(Len(Content), backward_size)
  <2> DEFINE x == Len(file.front)
             y == Len(file.index)
             z == Len(Content)
  <2>1. x \in Nat /\ y \in Nat /\ z = x + y /\ backward_size = y
    BY <1>2, <1>3
  <2> HIDE DEF x, y, z
  <2>2. ~ (backward_size > z)
    BY <2>1
  <2> QED
    BY <2>2 DEF Overflows, z
<1>6. index_offset' = Len(file.front) /\ index_data' = file.index
  <2>1. index_offset' = Len(Content) - backward_size
        /\ index_data' = SubSeq(Content, index_offset' + 1, Len(Content))
    BY <1>5 DEF ReadIndex
  <2>2. index_offset' = Len(file.front)
    BY <1>2, <1>3, <2>1
  <2> QED
    BY <1>2, <2>1, <2>2, BackToIndex
<1>7. ~ (backward_size < 2 \/ index_data'[1] # 0)
  BY <1>1, <1>2, <1>3, <1>4, <1>6
<1>8. /\ IF m.end # "ok" THEN Ends(m) /\ UNCHANGED <<pos, left>>
         ELSE /\ pos' = m.len + 1
              /\ left' = m.value
              /\ pc' = IF m.value > MaxRecords THEN "panicked" ELSE "records"
      /\ UNCHANGED <<file, checked, backward_size, records, block>>
  BY <1>5, <1>6, <1>7 DEF ReadIndex
<1> HIDE DEF m, n
<1>9. ~ (n > MaxRecords)
  BY <1>1, Widths
<1>10. pc' = "records" /\ left' = n /\ pos' = file.starts[1]
  BY <1>4, <1>8, <1>9
<1>11. /\ Len(records') = 0 /\ Len(records') + left' = Len(file.records)
       /\ file' = file
  BY <1>1, <1>3, <1>8, <1>10 DEF n
<1>12. pos' = file'.starts[Len(records') + 1]
  BY <1>10, <1>11
<1> QED
  BY <1>3, <1>6, <1>8, <1>10, <1>11, <1>12
     DEF IntactInv, IntactParsed, IndexRead, HeaderRead, FiltersRead

LEMMA IntactParseRecord ==
  ASSUME TypeInv, IntactInv, ParseRecord, file.intact
  PROVE  IntactInv'
<1> DEFINE n == Len(file.records)
           done == Len(records)
           r == done + 1
           first  == Multibyte(index_data, pos)
           second == Multibyte(index_data, second_at(first))
           e == [unpadded_size |-> first.value, uncompressed_size |-> second.value]
<1>1. /\ pc = "records" /\ left > 0 /\ left \in Nat /\ index_data = file.index
      /\ index_offset = Len(file.front) /\ backward_size = Len(file.index)
      /\ done + left = n /\ pos = file.starts[r]
      /\ \A i \in 1 .. done : records[i] = file.records[i]
  <2>1. pc = "records" /\ left > 0
    BY DEF ParseRecord
  <2>2. left \in Nat
    BY Words DEF TypeInv, Values
  <2> QED
    BY <2>1, <2>2 DEF IntactInv, IndexRead
<1>2. file.index \in Seq(Bytes) /\ file.records \in Seq(Entries) /\ n \in Nat
  BY FileTyped, IntactIndex, IntactEntries DEF TypeInv
<1>3. done \in Nat /\ records \in Seq(Entries)
  BY DEF TypeInv, Values, Entries
<1>4. r \in 1 .. n /\ r \in Nat
  BY <1>1, <1>2, <1>3
<1>5. /\ Spelt(file.index, file.starts[r], file.seconds[r], file.records[r].unpadded_size)
      /\ Spelt(file.index, file.seconds[r], file.starts[r + 1],
               file.records[r].uncompressed_size)
  BY <1>4, IntactIndex, IntactEntries DEF TypeInv
<1> HIDE DEF r, n, done
<1>6. /\ first.value = file.records[r].unpadded_size
      /\ first.len = file.seconds[r] - file.starts[r] /\ first.end = "ok"
  BY <1>1, <1>2, <1>5, ReadsBack
<1>7. file.starts[r] \in Nat /\ file.seconds[r] \in Nat /\ file.starts[r + 1] \in Nat
  BY <1>2, <1>5, SpeltEnds
<1>8. second_at(first) = file.seconds[r]
  BY <1>1, <1>6, <1>7 DEF second_at
<1>9. /\ second.value = file.records[r].uncompressed_size
      /\ second.len = file.starts[r + 1] - file.seconds[r] /\ second.end = "ok"
  BY <1>1, <1>2, <1>5, <1>8, ReadsBack
<1>10. /\ pos' = second_at(first) + second.len
       /\ left' = left - 1
       /\ records' = Append(records, e)
       /\ UNCHANGED <<file, checked, pc, backward_size, index_offset, index_data, block>>
  <2>1. /\ IF first.end # "ok" THEN Ends(first) /\ UNCHANGED <<pos, left, records>>
           ELSE IF second.end # "ok" THEN Ends(second) /\ UNCHANGED <<pos, left, records>>
           ELSE /\ pos' = second_at(first) + second.len
                /\ left' = left - 1
                /\ records' = Append(records, e)
                /\ UNCHANGED pc
        /\ UNCHANGED <<file, checked, backward_size, index_offset, index_data, block>>
    BY DEF ParseRecord
  <2> HIDE DEF first, second, e
  <2> QED
    BY <1>6, <1>9, <2>1
<1>11. e = file.records[r]
  <2> DEFINE x == file.records[r]
  <2>1. x \in Entries
    <3> DEFINE s == file.records
    <3>1. s \in Seq(Entries) /\ r \in 1 .. Len(s)
      BY <1>2, <1>4 DEF n
    <3> HIDE DEF s
    <3>2. s[r] \in Entries
      BY <3>1
    <3> QED
      BY <3>2 DEF s
  <2>2. e = [unpadded_size |-> x.unpadded_size, uncompressed_size |-> x.uncompressed_size]
    BY <1>6, <1>9
  <2> HIDE DEF x, e, first, second
  <2>3. x = [unpadded_size |-> x.unpadded_size, uncompressed_size |-> x.uncompressed_size]
    BY <2>1 DEF Entries
  <2> QED
    BY <2>2, <2>3 DEF x
<1>12. pos' = file.starts[r + 1]
  <2> HIDE DEF first, second
  <2> QED
    BY <1>7, <1>8, <1>9, <1>10
<1> HIDE DEF first, second, e
<1>13. Len(records') = r /\ \A i \in 1 .. r : records'[i] = file.records[i]
  <2>1. Len(records') = r
    BY <1>3, <1>10 DEF r, done
  <2>2. ASSUME NEW i \in 1 .. r
        PROVE  records'[i] = file.records[i]
    <3>1. CASE i = r
      <4>1. records'[r] = e
        BY <1>3, <1>10 DEF r, done
      <4> QED
        BY <1>11, <3>1, <4>1
    <3>2. CASE i # r
      <4>1. i \in 1 .. done
        BY <1>3, <3>2 DEF r
      <4>2. records'[i] = records[i]
        BY <1>3, <1>10, <4>1 DEF done
      <4> QED
        BY <1>1, <4>1, <4>2
    <3> QED
      BY <3>1, <3>2
  <2> QED
    BY <2>1, <2>2
<1>14. r + left' = n
  BY <1>1, <1>2, <1>3, <1>10 DEF r
<1>15. IndexRead'
  BY <1>1, <1>10, <1>12, <1>13, <1>14 DEF IndexRead, n
<1> QED
  BY <1>1, <1>10, <1>15 DEF IntactInv, IntactParsed, HeaderRead, FiltersRead

LEMMA IntactCheckIndex ==
  ASSUME TypeInv, IntactInv, CheckIndex, file.intact
  PROVE  IntactInv'
<1>1. /\ pc = "records" /\ left = 0 /\ index_data = file.index
      /\ index_offset = Len(file.front) /\ backward_size = Len(file.index)
      /\ Len(records) + left = Len(file.records)
      /\ \A i \in 1 .. Len(records) : records[i] = file.records[i]
  BY DEF IntactInv, IndexRead, CheckIndex
<1>2. file.index_crc
  BY IntactIndex DEF TypeInv
<1>3. /\ pc' = "header"
      /\ UNCHANGED <<file, checked, backward_size, index_offset, index_data, pos, left,
                     records, block>>
  BY <1>1, <1>2, Zenon DEF CheckIndex
<1>4. records = file.records
  <2>1. file.records \in Seq(Entries) /\ records \in Seq(Entries)
    BY IntactIndex, IntactEntries DEF TypeInv, Values, Entries
  <2>2. Len(records) = Len(file.records)
    BY <1>1, <2>1
  <2> DEFINE s == file.records
  <2>3. s \in Seq(Entries) /\ Len(records) = Len(s) /\ \A i \in 1 .. Len(records) : records[i] = s[i]
    BY <1>1, <2>1, <2>2
  <2> HIDE DEF s
  <2>4. records = s
    BY <2>1, <2>3, SeqEqual
  <2> QED
    BY <2>4 DEF s
<1> QED
  BY <1>1, <1>3, <1>4 DEF IntactInv, IntactParsed, IndexRead, HeaderRead, FiltersRead

(* What the format says of the header, for the bytes behind its first.     *)
LEMMA IntactHeader ==
  ASSUME TypeInv, file.intact, file.records # <<>>
  PROVE  LET n == Len(file.filters)
             packed == compressed_size_present
             plain  == uncompressed_size_present
         IN
         /\ block_total_size = Len(file.header)
         /\ block_total_size = file.block.block_total_size
         /\ num_filters = n /\ n \in 1 .. 4
         /\ IF packed THEN /\ Spelt(rest, 1, file.plain_at, file.block.compressed_size)
                           /\ file.block.compressed_size < Word - 1
            ELSE file.plain_at = 1
         /\ IF plain THEN /\ Spelt(rest, file.plain_at, file.filters[1].at,
                                   file.block.uncompressed_size)
                          /\ file.block.uncompressed_size < Word - 1
            ELSE /\ file.filters[1].at = file.plain_at
                 /\ file.block.uncompressed_size = file.records[1].uncompressed_size
         /\ file.records[1].unpadded_size
              = block_total_size + file.block.compressed_size + file.check
         /\ \A i \in 1 .. n :
              LET t == file.filters[i] IN
              /\ Spelt(rest, t.at, t.size_at, t.id) /\ Spelt(rest, t.size_at, t.props_at, t.size)
              /\ t.props_at + t.size <= Len(rest)
              /\ i < n => t.id # Lzma2 /\ file.filters[i + 1].at = t.props_at + t.size
         /\ LET t == file.filters[n]
                d == rest[t.props_at + 1]
            IN  /\ t.id = Lzma2 /\ t.size > 0 /\ d <= MaxDict
                /\ file.block.dict_size = IF d = MaxDict THEN Half - 1
                                          ELSE (2 + (d % 2)) * 2 ^ (d \div 2 + DictShift)
<1>1. HeaderWritten(file)
  BY IntactIndex DEF TypeInv
<1>2. block_total_size = Len(file.header)
  BY <1>1 DEF HeaderWritten, block_total_size
<1>3. rest = SubSeq(file.header, 2, Len(file.header))
  BY <1>2 DEF rest
<1>4. rest \in Seq(Bytes) /\ Len(rest) >= 3 /\ Len(rest) \in Nat
  <2> DEFINE h == file.header
  <2>1. h \in Seq(Bytes) /\ block_total_size = Len(h)
    BY <1>2, FileTyped DEF TypeInv
  <2>2. Len(h) \in Nat /\ block_total_size <= Len(h)
    <3> HIDE DEF h
    <3> QED
      BY <2>1
  <2>3. /\ block_total_size \in Nat /\ block_total_size >= 4 /\ rest \in Seq(Bytes)
        /\ Len(rest) = block_total_size - 1
    BY <2>2, RestTyped DEF TypeInv
  <2> QED
    BY <2>3
<1>5. rest[1] \in Nat
  <2>1. rest[1] \in Bytes
    BY <1>4
  <2> QED
    BY <2>1, Words
<1>6. num_filters = Len(file.filters)
  BY <1>1, <1>3 DEF HeaderWritten, num_filters, Flags
<1>7. num_filters \in 1 .. 4
  BY <1>5 DEF num_filters, Flags
<1> QED
  BY <1>1, <1>2, <1>3, <1>6, <1>7
     DEF HeaderWritten, compressed_size_present, uncompressed_size_present, Flags

(* A size that the header states is one too large.                         *)
LEMMA SizeStated ==
  ASSUME NEW data \in Seq(Bytes), NEW at, NEW to, NEW n, NEW s,
         Spelt(data, at, to, n), n < Word - 1,
         s = LET m == Multibyte(data, at) IN
             [value |-> (m.value + 1) % Word, at |-> at + m.len,
              end |-> IF m.end = "ok" /\ m.value + 1 >= Word /\ checked THEN "panic"
                      ELSE m.end]
  PROVE  s.at = to /\ s.end = "ok" /\ s.value = n + 1
<1> DEFINE m == Multibyte(data, at)
<1>1. m.value = n /\ m.len = to - at /\ m.end = "ok"
  BY ReadsBack
<1>2. at \in Nat /\ to \in Nat /\ n \in Nat /\ n < Word - 1
  BY SpeltEnds
<1>3. s = [value |-> (m.value + 1) % Word, at |-> at + m.len,
           end |-> IF m.end = "ok" /\ m.value + 1 >= Word /\ checked THEN "panic"
                   ELSE m.end]
  OBVIOUS
<1> HIDE DEF m
<1>4. n + 1 \in 0 .. Word - 1 /\ Word \in Nat
  BY <1>2, Words
<1>5. (n + 1) % Word = n + 1
  BY <1>4, SmallRemainder
<1>6. ~ (n + 1 >= Word)
  BY <1>4
<1>7. (IF m.end = "ok" /\ m.value + 1 >= Word /\ checked THEN "panic" ELSE m.end) = "ok"
  BY <1>1, <1>6, Zenon
<1>8. at + m.len = to
  BY <1>1, <1>2
<1> QED
  BY <1>1, <1>3, <1>5, <1>7, <1>8

(* Another is the index's.                                                 *)
LEMMA SizeNotStated ==
  ASSUME NEW at, NEW s, NEW otherwise \in 0 .. Word - 1,
         s = [value |-> otherwise % Word, at |-> at,
              end |-> IF otherwise < 0 /\ checked THEN "panic" ELSE "ok"]
  PROVE  s.at = at /\ s.end = "ok" /\ s.value = otherwise
<1>1. otherwise % Word = otherwise
  BY Words, SmallRemainder
<1>2. ~ (otherwise < 0)
  BY Words
<1>3. (IF otherwise < 0 /\ checked THEN "panic" ELSE "ok") = "ok"
  BY <1>2, Zenon
<1> QED
  BY <1>1, <1>3

LEMMA IntactParseHeader ==
  ASSUME TypeInv, IntactInv, ParseHeader, file.intact
  PROVE  IntactInv'
<1> DEFINE n == Len(file.filters)
           record == records[1]
           packed == Stated(compressed_size_present, 1,
                            record.unpadded_size - block_total_size)
           plain  == Stated(uncompressed_size_present, packed.at,
                            record.uncompressed_size)
           total == block_total_size
           c == file.block.compressed_size
           u == file.block.uncompressed_size
<1>1. /\ records = file.records /\ records # <<>> /\ record = file.records[1]
      /\ backward_size = Len(file.index)
      /\ index_offset = Len(file.front) /\ index_data = file.index
  BY DEF ParseHeader, IntactInv, IndexRead
<1>2. /\ total = Len(file.header) /\ total = file.block.block_total_size
      /\ num_filters = n /\ n \in 1 .. 4
      /\ IF compressed_size_present THEN Spelt(rest, 1, file.plain_at, c) /\ c < Word - 1
         ELSE file.plain_at = 1
      /\ IF uncompressed_size_present
         THEN Spelt(rest, file.plain_at, file.filters[1].at, u) /\ u < Word - 1
         ELSE file.filters[1].at = file.plain_at /\ u = record.uncompressed_size
      /\ record.unpadded_size = total + c + file.check
  BY <1>1, IntactHeader DEF TypeInv
<1>3. /\ file.header_crc /\ file.check \in Nat /\ c \in Nat
  BY IntactIndex DEF TypeInv
<1>4. total \in Nat /\ rest \in Seq(Bytes) /\ total <= Len(file.header)
  <2>1. total <= Len(file.header)
    <3> DEFINE h == file.header
    <3>1. h \in Seq(Bytes)
      BY FileTyped DEF TypeInv
    <3> HIDE DEF h
    <3>2. Len(h) \in Nat
      BY <3>1
    <3> QED
      BY <1>2, <3>2 DEF h
  <2> QED
    BY <2>1, RestTyped DEF TypeInv
<1>5. record.unpadded_size \in 0 .. Word - 1 /\ record.uncompressed_size \in 0 .. Word - 1
  <2>1. records \in Seq(Entries) /\ 1 \in 1 .. Len(records)
    BY <1>1 DEF TypeInv, Values, Entries
  <2>2. records[1] \in Entries
    BY <2>1
  <2> QED
    BY <2>2 DEF Entries
<1>6. compressed_size_present \in BOOLEAN /\ uncompressed_size_present \in BOOLEAN
  BY DEF compressed_size_present, uncompressed_size_present
<1> HIDE DEF total, c, u, record
<1>7. /\ record.unpadded_size - total \in 0 .. Word - 1
      /\ record.unpadded_size - total = c + file.check
  <2> DEFINE whole == record.unpadded_size
             check == file.check
  <2>1. /\ whole = total + c + check /\ whole \in 0 .. Word - 1 /\ Word \in Nat
        /\ total \in Nat /\ c \in Nat /\ check \in Nat
    BY <1>2, <1>3, <1>4, <1>5, Words
  <2> HIDE DEF whole, check
  <2>2. whole - total \in 0 .. Word - 1 /\ whole - total = c + check
    BY <2>1
  <2> QED
    BY <2>2 DEF whole, check
<1>8. /\ packed.at = file.plain_at /\ packed.end = "ok"
      /\ packed.value = IF compressed_size_present THEN c + 1 ELSE c + file.check
  <2> DEFINE o == record.unpadded_size - total
  <2>1. packed = Stated(compressed_size_present, 1, o)
    BY DEF total
  <2>2. o \in 0 .. Word - 1 /\ o = c + file.check
    BY <1>7
  <2> HIDE DEF o, packed
  <2>3. CASE compressed_size_present
    <3>1. packed = LET m == Multibyte(rest, 1) IN
                   [value |-> (m.value + 1) % Word, at |-> 1 + m.len,
                    end |-> IF m.end = "ok" /\ m.value + 1 >= Word /\ checked
                            THEN "panic" ELSE m.end]
      BY <2>1, <2>3 DEF Stated
    <3>2. Spelt(rest, 1, file.plain_at, c) /\ c < Word - 1
      BY <1>2, <2>3
    <3>3. packed.at = file.plain_at /\ packed.end = "ok" /\ packed.value = c + 1
      BY <1>4, <3>1, <3>2, SizeStated
    <3> QED
      BY <2>3, <3>3
  <2>4. CASE ~ compressed_size_present
    <3>1. packed = [value |-> o % Word, at |-> 1,
                    end |-> IF o < 0 /\ checked THEN "panic" ELSE "ok"]
      BY <2>1, <2>4 DEF Stated
    <3>2. packed.at = 1 /\ packed.end = "ok" /\ packed.value = o
      BY <2>2, <3>1, SizeNotStated
    <3> QED
      BY <1>2, <2>2, <2>4, <3>2
  <2> QED
    BY <2>3, <2>4
<1> HIDE DEF packed
<1>9. /\ plain.at = file.filters[1].at /\ plain.end = "ok"
      /\ plain.value = IF uncompressed_size_present THEN u + 1 ELSE u
  <2> DEFINE o == record.uncompressed_size
  <2>1. plain = Stated(uncompressed_size_present, file.plain_at, o)
    BY <1>8
  <2>2. o \in 0 .. Word - 1
    BY <1>5
  <2> HIDE DEF o, plain
  <2>3. CASE uncompressed_size_present
    <3>1. plain = LET m == Multibyte(rest, file.plain_at) IN
                   [value |-> (m.value + 1) % Word, at |-> file.plain_at + m.len,
                    end |-> IF m.end = "ok" /\ m.value + 1 >= Word /\ checked
                            THEN "panic" ELSE m.end]
      BY <2>1, <2>3 DEF Stated
    <3>2. Spelt(rest, file.plain_at, file.filters[1].at, u) /\ u < Word - 1
      BY <1>2, <2>3
    <3>3. plain.at = file.filters[1].at /\ plain.end = "ok" /\ plain.value = u + 1
      BY <1>4, <3>1, <3>2, SizeStated
    <3> QED
      BY <2>3, <3>3
  <2>4. CASE ~ uncompressed_size_present
    <3>1. plain = [value |-> o % Word, at |-> file.plain_at,
                    end |-> IF o < 0 /\ checked THEN "panic" ELSE "ok"]
      BY <2>1, <2>4 DEF Stated
    <3>2. plain.at = file.plain_at /\ plain.end = "ok" /\ plain.value = o
      BY <2>2, <3>1, SizeNotStated
    <3>3. file.filters[1].at = file.plain_at /\ u = o
      BY <1>2, <2>4 DEF o
    <3> QED
      BY <2>4, <3>2, <3>3
  <2> QED
    BY <2>3, <2>4
<1> HIDE DEF plain
<1>10. /\ pc' = "filters" /\ pos' = plain.at /\ left' = num_filters
       /\ block' = [compressed_size |-> packed.value, uncompressed_size |-> plain.value,
                    block_total_size |-> total, dict_size |-> DefaultDict]
       /\ UNCHANGED <<file, checked, backward_size, index_offset, index_data, records>>
  <2>1. /\ IF Len(file.header) < total \/ ~file.header_crc
           THEN pc' = "failed" /\ UNCHANGED <<pos, left, block>>
           ELSE IF packed.end # "ok" THEN Ends(packed) /\ UNCHANGED <<pos, left, block>>
           ELSE IF plain.end # "ok" THEN Ends(plain) /\ UNCHANGED <<pos, left, block>>
           ELSE /\ pc' = "filters" /\ pos' = plain.at /\ left' = num_filters
                /\ block' = [compressed_size |-> packed.value,
                             uncompressed_size |-> plain.value,
                             block_total_size |-> total,
                             dict_size |-> DefaultDict]
        /\ UNCHANGED <<file, checked, backward_size, index_offset, index_data, records>>
    BY DEF ParseHeader, packed, plain, record, total
  <2>2. ~ (Len(file.header) < total)
    BY <1>2, <1>4
  <2> QED
    BY <1>3, <1>8, <1>9, <2>1, <2>2
<1>11. /\ block'.block_total_size = file.block.block_total_size
       /\ block'.compressed_size = packed.value /\ block'.uncompressed_size = plain.value
  BY <1>2, <1>10
<1>12. packed.value - c \in {1, file.check}
  BY <1>3, <1>8
<1>13. plain.value - u \in {0, 1}
  <2>1. u \in Nat
    <3>1. CASE uncompressed_size_present
      BY <1>2, <1>4, <3>1, SpeltEnds
    <3>2. CASE ~ uncompressed_size_present
      BY <1>2, <1>5, <3>2, Words
    <3> QED
      BY <3>1, <3>2
  <2> QED
    BY <1>9, <2>1
<1>14. HeaderRead'
  BY <1>10, <1>11, <1>12, <1>13 DEF HeaderRead, c, u
<1>15. FiltersRead'
  <2>1. left' = n /\ pos' = file.filters[1].at /\ file' = file /\ pc' = "filters"
    BY <1>2, <1>9, <1>10
  <2>2. n \in Nat /\ n > 0 /\ n - left' + 1 = 1 /\ left' \in 0 .. n /\ left' > 0
    BY <1>2, <2>1
  <2>3. block_total_size' <= Len(file'.header)
    BY <1>4, <1>10 DEF block_total_size, total
  <2>4. records' # <<>>
    BY <1>1, <1>10
  <2> QED
    BY <2>1, <2>2, <2>3, <2>4 DEF FiltersRead
<1>16. IndexRead' /\ IntactParsed'
  BY <1>1, <1>10 DEF IndexRead, IntactParsed
<1> QED
  BY <1>14, <1>15, <1>16 DEF IntactInv

LEMMA IntactParseFilter ==
  ASSUME TypeInv, IntactInv, ParseFilter, file.intact
  PROVE  IntactInv'
<1> DEFINE n == Len(file.filters)
           i == n - left + 1
           t == file.filters[i]
           id    == Multibyte(rest, pos)
           size  == Multibyte(rest, pos + id.len)
           props == pos + id.len + size.len
           d == rest[props + 1]
<1>1. /\ records = file.records /\ records # <<>> /\ file.records # <<>>
      /\ backward_size = Len(file.index)
      /\ index_offset = Len(file.front) /\ index_data = file.index
      /\ block_total_size <= Len(file.header)
      /\ left \in 0 .. n /\ left > 0 /\ pos = t.at /\ pc = "filters"
  BY DEF ParseFilter, IntactInv, IndexRead, FiltersRead
<1>2. n \in 1 .. 4
  BY <1>1, IntactHeader DEF TypeInv
<1>3. /\ rest \in Seq(Bytes) /\ Len(rest) \in Nat /\ Len(rest) < Word
  <2> DEFINE h == file.header
  <2>1. h \in Seq(Bytes) /\ 1 \in 1 .. Len(h)
    BY FileTyped DEF TypeInv
  <2>2. block_total_size = (h[1] + 1) * 4
    BY DEF block_total_size
  <2> HIDE DEF h
  <2>3. h[1] \in Bytes
    BY <2>1
  <2>4. h[1] \in Nat /\ h[1] <= 2 * More - 1
    BY <2>3, Words
  <2>5. block_total_size <= Word
    BY <2>2, <2>4, Words
  <2>6. block_total_size \in Nat /\ rest \in Seq(Bytes) /\ Len(rest) = block_total_size - 1
        /\ block_total_size >= 4
    BY <1>1, RestTyped DEF TypeInv
  <2> QED
    BY <2>5, <2>6, Words
<1>4. i \in 1 .. n /\ i \in Nat /\ (left = 1 <=> i = n) /\ n - (left - 1) + 1 = i + 1
  BY <1>1, <1>2
<1>5. /\ Spelt(rest, t.at, t.size_at, t.id) /\ Spelt(rest, t.size_at, t.props_at, t.size)
      /\ t.props_at + t.size <= Len(rest)
      /\ i < n => t.id # Lzma2 /\ file.filters[i + 1].at = t.props_at + t.size
      /\ i = n => /\ t.id = Lzma2 /\ t.size > 0 /\ rest[t.props_at + 1] <= MaxDict
                  /\ file.block.dict_size =
                       IF rest[t.props_at + 1] = MaxDict THEN Half - 1
                       ELSE (2 + (rest[t.props_at + 1] % 2))
                              * 2 ^ (rest[t.props_at + 1] \div 2 + DictShift)
  <2> HIDE DEF i
  <2> QED
    BY <1>1, <1>4, IntactHeader DEF TypeInv
<1> HIDE DEF i, t, n
<1>6. /\ t.at \in Nat /\ t.size_at \in Nat /\ t.props_at \in Nat /\ t.size \in Nat
  BY <1>3, <1>5, SpeltEnds
<1>7. id.value = t.id /\ id.len = t.size_at - t.at /\ id.end = "ok"
  BY <1>1, <1>3, <1>5, ReadsBack
<1>8. pos + id.len = t.size_at
  <2> HIDE DEF id
  <2> QED
    BY <1>1, <1>6, <1>7
<1>9. size.value = t.size /\ size.len = t.props_at - t.size_at /\ size.end = "ok"
  BY <1>3, <1>5, <1>8, ReadsBack
<1> HIDE DEF id, size
<1>10. props = t.props_at
  BY <1>6, <1>8, <1>9
<1> HIDE DEF props
<1>11. props + size.value <= Len(rest) /\ ~ (props + size.value > Len(rest))
       /\ ~ (props + size.value >= Word) /\ props \in Nat /\ size.value \in Nat
  BY <1>3, <1>5, <1>6, <1>9, <1>10, Words
<1>12. t.id = Lzma2 => i = n /\ size.value # 0 /\ d \in Bytes /\ ~ dict_refused(d)
  <2> SUFFICES ASSUME t.id = Lzma2
               PROVE  i = n /\ size.value # 0 /\ d \in Bytes /\ ~ dict_refused(d)
    OBVIOUS
  <2>1. i = n
    BY <1>2, <1>4, <1>5
  <2>2. size.value # 0 /\ d <= MaxDict
    BY <1>5, <1>6, <1>9, <1>10, <2>1
  <2>3. props + 1 \in 1 .. Len(rest)
    BY <1>3, <1>11, <2>2
  <2>4. d \in Bytes
    BY <1>3, <2>3
  <2>5. ~ dict_refused(d)
    <3> HIDE DEF d
    <3>1. d \in Nat
      BY <2>4, Words
    <3> QED
      BY <2>2, <3>1, Widths DEF dict_refused
  <2> QED
    BY <2>1, <2>2, <2>4, <2>5
<1>13. /\ pos' = props + size.value /\ left' = left - 1
       /\ block' = IF id.value # Lzma2 THEN block
                   ELSE [block EXCEPT !.dict_size = dict_size(d)]
       /\ pc' = pc
       /\ UNCHANGED <<file, checked, backward_size, index_offset, index_data, records>>
  <2>1. /\ IF id.end # "ok" THEN Ends(id) /\ UNCHANGED <<pos, left, block>>
           ELSE IF size.end # "ok" THEN Ends(size) /\ UNCHANGED <<pos, left, block>>
           ELSE IF props + size.value >= Word
                THEN pc' = "panicked" /\ UNCHANGED <<pos, left, block>>
           ELSE IF props + size.value > Len(rest)
                THEN pc' = "failed" /\ UNCHANGED <<pos, left, block>>
           ELSE IF id.value = Lzma2 /\ (size.value = 0 \/ dict_refused(rest[props + 1]))
                THEN pc' = "failed" /\ UNCHANGED <<pos, left, block>>
           ELSE /\ pos' = props + size.value /\ left' = left - 1
                /\ block' = IF id.value # Lzma2 THEN block
                            ELSE [block EXCEPT !.dict_size = dict_size(rest[props + 1])]
                /\ UNCHANGED pc
        /\ UNCHANGED <<file, checked, backward_size, index_offset, index_data, records>>
    BY DEF ParseFilter, id, size, props
  <2>2. ~ (id.value = Lzma2 /\ (size.value = 0 \/ dict_refused(rest[props + 1])))
    BY <1>7, <1>12
  <2> QED
    BY <1>7, <1>9, <1>11, <2>1, <2>2
<1>14. block_total_size' = block_total_size
  BY <1>13 DEF block_total_size
<1>15. /\ block'.block_total_size = block.block_total_size
       /\ block'.compressed_size = block.compressed_size
       /\ block'.uncompressed_size = block.uncompressed_size
  <2>1. block \in Headers
    BY DEF TypeInv
  <2> HIDE DEF d
  <2> QED
    BY <1>13, <2>1 DEF Headers
<1>16. HeaderRead'
  BY <1>1, <1>13, <1>15 DEF HeaderRead, IntactInv
<1>17. left' > 0 => pos' = file.filters[n - left' + 1].at
  <2> SUFFICES ASSUME left' > 0
               PROVE  pos' = file.filters[n - left' + 1].at
    OBVIOUS
  <2>1. i < n
    BY <1>1, <1>2, <1>4, <1>13
  <2>2. pos' = file.filters[i + 1].at
    BY <1>5, <1>9, <1>10, <1>13, <2>1
  <2>3. n - left' + 1 = i + 1
    BY <1>4, <1>13
  <2> QED
    BY <2>2, <2>3
<1>18. left' = 0 => block'.dict_size = file.block.dict_size
  <2> SUFFICES ASSUME left' = 0
               PROVE  block'.dict_size = file.block.dict_size
    OBVIOUS
  <2>1. i = n /\ t.id = Lzma2
    BY <1>1, <1>4, <1>5, <1>13
  <2>2. d \in Bytes /\ ~ dict_refused(d)
    BY <1>12, <2>1
  <2>3. file.block.dict_size = IF d = MaxDict THEN Half - 1
                               ELSE (2 + (d % 2)) * 2 ^ (d \div 2 + DictShift)
    BY <1>5, <1>10, <2>1
  <2> HIDE DEF d
  <2>4. dict_size(d) = file.block.dict_size
    BY <2>2, <2>3, DictFits
  <2>5. block' = [block EXCEPT !.dict_size = dict_size(d)]
    BY <1>7, <1>13, <2>1
  <2>6. block \in Headers
    BY DEF TypeInv
  <2> QED
    BY <2>4, <2>5, <2>6 DEF Headers
<1>19. FiltersRead'
  <2>1. left' \in 0 .. n
    BY <1>1, <1>2, <1>13
  <2> HIDE DEF d
  <2> QED
    BY <1>1, <1>13, <1>14, <1>17, <1>18, <2>1 DEF FiltersRead, n
<1>20. IndexRead' /\ IntactParsed'
  BY <1>1, <1>13 DEF IndexRead, IntactParsed
<1> QED
  BY <1>16, <1>19, <1>20 DEF IntactInv

LEMMA IntactEndHeader ==
  ASSUME TypeInv, IntactInv, EndHeader, file.intact
  PROVE  IntactInv'
<1> DEFINE n == Len(file.filters)
           i == n - left + 1
           t == file.filters[i]
<1>1. /\ records = file.records /\ records # <<>> /\ file.records # <<>>
      /\ backward_size = Len(file.index)
      /\ index_offset = Len(file.front) /\ index_data = file.index
      /\ block_total_size <= Len(file.header) /\ pc = "filters"
      /\ left \in 0 .. n
      /\ left > 0 => pos = t.at
      /\ left = 0 => block.dict_size = file.block.dict_size
  BY DEF EndHeader, IntactInv, IndexRead, FiltersRead
<1>2. /\ pc' = "done"
      /\ UNCHANGED <<file, checked, backward_size, index_offset, index_data, pos, left,
                     records, block>>
      /\ left = 0 \/ pos >= Len(rest)
  BY DEF EndHeader
<1>3. left = 0
  <2> SUFFICES ASSUME left # 0
               PROVE  FALSE
    OBVIOUS
  <2>1. n \in 1 .. 4
    BY <1>1, IntactHeader DEF TypeInv
  <2>2. left > 0 /\ i \in 1 .. n
    BY <1>1, <2>1
  <2>3. rest \in Seq(Bytes) /\ Len(rest) \in Nat
    BY <1>1, RestTyped DEF TypeInv
  <2>4. Spelt(rest, t.at, t.size_at, t.id)
    <3> HIDE DEF i
    <3> QED
      BY <1>1, <2>2, IntactHeader DEF TypeInv
  <2> HIDE DEF t
  <2>5. t.at \in Nat /\ t.size_at \in Nat /\ t.at < t.size_at /\ t.size_at <= Len(rest)
    BY <2>3, <2>4, SpeltEnds
  <2>6. pos = t.at
    BY <1>1, <2>2
  <2> QED
    BY <1>2, <2>3, <2>5, <2>6
<1> QED
  BY <1>1, <1>2, <1>3 DEF IntactInv, IntactParsed, IndexRead, HeaderRead, FiltersRead

LEMMA IntactStep ==
  ASSUME TypeInv, IntactInv, [Next]_vars
  PROVE  IntactInv'
<1>1. CASE NoBlock
  <2>1. records = <<>>
    BY <1>1 DEF NoBlock, TypeInv
  <2> QED
    BY <1>1, <2>1
       DEF NoBlock, IntactInv, IntactParsed, IndexRead, HeaderRead, FiltersRead
<1>2. CASE UNCHANGED vars
  <2>1. block_total_size' = block_total_size
    BY <1>2 DEF vars, block_total_size
  <2> QED
    BY <1>2, <2>1 DEF vars, IntactInv, IntactParsed, IndexRead, HeaderRead, FiltersRead
<1>3. CASE file.intact /\ Next
  BY <1>1, <1>3, IntactFooter, IntactReadIndex, IntactParseRecord, IntactCheckIndex,
     IntactParseHeader, IntactParseFilter, IntactEndHeader DEF Next
<1>4. CASE ~ file.intact /\ Next
  <2>1. file' = file
    BY <1>4 DEF Next, ParseFooter, ReadIndex, ParseRecord, CheckIndex, ParseHeader,
                ParseFilter, EndHeader, NoBlock
  <2> QED
    BY <1>4, <2>1 DEF IntactInv
<1>5. file.intact \in BOOLEAN
  BY FileTyped DEF TypeInv
<1> QED
  BY <1>2, <1>3, <1>4, <1>5

(* Both say the same of the whole behaviour: types first.                  *)
THEOREM WrittenInvariance == Spec => [](TypeInv /\ IntactInv)
<1>1. Init => TypeInv /\ IntactInv
  BY TypeInit, IntactInit
<1>2. TypeInv /\ IntactInv /\ [Next]_vars => (TypeInv /\ IntactInv)'
  BY TypeStep, IntactStep
<1> QED
  BY <1>1, <1>2, PTL DEF Spec

(* No file that a compressor has written is refused, and none makes the    *)
(* program panic, in either build: no sum overflows, no number is shifted  *)
(* out of its word, no dictionary is too large.                            *)
THEOREM WrittenIsParsed == Spec => []IntactParsed
<1>1. TypeInv /\ IntactInv => IntactParsed
  <2> SUFFICES ASSUME TypeInv, IntactInv
               PROVE  IntactParsed
    OBVIOUS
  <2>1. file.intact \in BOOLEAN
    BY FileTyped DEF TypeInv
  <2> QED
    BY <2>1 DEF IntactInv, IntactParsed
<1> QED
  BY <1>1, WrittenInvariance, PTL

(* Each number of a written file is read as it was meant, for integers of  *)
(* any length and headers with any filters; a size the header states is    *)
(* one too large and one from the index has the check in it, and neither   *)
(* is too small.                                                           *)
THEOREM NumbersAreExact == Spec => []NumbersExact
<1>1. TypeInv /\ IntactInv => NumbersExact
  BY DEF IntactInv, IndexRead, HeaderRead, FiltersRead, NumbersExact, IndexExact, HeaderExact
<1> QED
  BY <1>1, WrittenInvariance, PTL
=============================================================================
