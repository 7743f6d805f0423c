-------------------------- MODULE LzmaDecoder_proofs --------------------------
(***************************************************************************)
(* Proofs about LzmaDecoder, whatever the widths, the tables and the bits: *)
(* for every row of symbols, of any length and with resets anywhere.       *)
(*                                                                         *)
(*   StateIsHistory         the coder state stands for the last symbols    *)
(*   StaysInTables          no type and no table is ever left              *)
(*   MatchByteSteers        the loop over a literal after a match          *)
(*   DecoderFollowsFormat   each symbol is the one the format writes with  *)
(*                          the bits taken: LzmaDecoder implements         *)
(*                          LzmaSymbols                                    *)
(*                                                                         *)
(* The loops over bits are functions defined by recursion; what they       *)
(* compute is shown by the least round that it would not hold for.         *)
(***************************************************************************)
EXTENDS LzmaDecoder, FiniteSetTheorems, FunctionTheorems, WellFoundedInduction, TLAPS

Kinds == {"literal", "match", "rep", "short rep"}

HistoryInv == /\ kinds \in [1 .. 4 -> Kinds]
              /\ StateNamesHistory

(* What a step does to the kinds and the state.                            *)
Moves(kind, next) ==
  /\ kinds' = <<kinds[2], kinds[3], kinds[4], kind>>
  /\ state' = next

LEMMA LiteralMoves ==
  ASSUME NEW bits, NEW prev_byte, NEW pos, NEW match_byte,
         Literal(bits, prev_byte, pos, match_byte)
  PROVE  Moves("literal", after_literal)
<1>1. PICK byte, used :
        Decoded(<<"literal", byte, match_byte>>, <<0>> \o bits, used)
  BY DEF Literal
<1>2. <<"literal", byte, match_byte>>[1] = "literal"
  OBVIOUS
<1>3. kinds' = <<kinds[2], kinds[3], kinds[4], "literal">>
  BY <1>1, <1>2 DEF Decoded
<1>4. state' = after_literal
  BY DEF Literal
<1> QED
  BY <1>3, <1>4 DEF Moves

LEMMA MatchMoves ==
  ASSUME NEW len_bits, NEW slot_bits, NEW rest, NEW pos,
         Match(len_bits, slot_bits, rest, pos)
  PROVE  Moves("match", after_match)
<1>1. PICK dist, len, bits, used : Decoded(<<"match", dist, len>>, bits, used)
  BY DEF Match
<1>2. <<"match", dist, len>>[1] = "match"
  OBVIOUS
<1>3. kinds' = <<kinds[2], kinds[3], kinds[4], "match">>
  BY <1>1, <1>2 DEF Decoded
<1>4. state' = after_match
  BY DEF Match
<1> QED
  BY <1>3, <1>4 DEF Moves

LEMMA LongRepMoves ==
  ASSUME NEW i, NEW len_bits, NEW pos, LongRep(i, len_bits, pos)
  PROVE  Moves("rep", after_long_rep)
<1>1. PICK len, bits, used : Decoded(<<"rep", i, len>>, bits, used)
  BY DEF LongRep
<1>2. <<"rep", i, len>>[1] = "rep"
  OBVIOUS
<1>3. kinds' = <<kinds[2], kinds[3], kinds[4], "rep">>
  BY <1>1, <1>2 DEF Decoded
<1>4. state' = after_long_rep
  BY DEF LongRep
<1> QED
  BY <1>3, <1>4 DEF Moves

LEMMA ShortRepMoves ==
  ASSUME NEW pos, ShortRep(pos)
  PROVE  Moves("short rep", after_short_rep)
<1>1. PICK bits, used : Decoded(<<"short rep">>, bits, used)
  BY DEF ShortRep
<1>2. <<"short rep">>[1] = "short rep"
  OBVIOUS
<1>3. kinds' = <<kinds[2], kinds[3], kinds[4], "short rep">>
  BY <1>1, <1>2 DEF Decoded
<1>4. state' = after_short_rep
  BY DEF ShortRep
<1> QED
  BY <1>3, <1>4 DEF Moves

LEMMA SymbolMoves ==
  ASSUME Symbol
  PROVE  \/ Moves("literal", after_literal)
         \/ Moves("match", after_match)
         \/ Moves("rep", after_long_rep)
         \/ Moves("short rep", after_short_rep)
<1>1. CASE \E bits, prev_byte, pos, match_byte :
             Literal(bits, prev_byte, pos, match_byte)
  BY <1>1, LiteralMoves
<1>2. CASE \E len_bits, slot_bits, rest, pos : Match(len_bits, slot_bits, rest, pos)
  BY <1>2, MatchMoves
<1>3. CASE \E i, len_bits, pos : LongRep(i, len_bits, pos)
  BY <1>3, LongRepMoves
<1>4. CASE \E pos : ShortRep(pos)
  BY <1>4, ShortRepMoves
<1> QED
  BY <1>1, <1>2, <1>3, <1>4 DEF Symbol

(* The states, one by one: what StateNamesHistory says, without CASE.      *)
lit(i) == kinds[i] = "literal"

LEMMA Names ==
  ASSUME StateNamesHistory
  PROVE  /\ lit(4) /\ lit(3) /\ lit(2)  => state = 0
         /\ lit(4) /\ lit(3) /\ ~lit(2) => state = Nonlit(Kind(2))
         /\ lit(4) /\ ~lit(3)           => state = 3 + Nonlit(Kind(3))
         /\ ~lit(4) /\ lit(3)           => state = 6 + Nonlit(kinds[4])
         /\ ~lit(4) /\ ~lit(3) /\ kinds[4] = "match" => state = 10
         /\ ~lit(4) /\ ~lit(3) /\ kinds[4] # "match" => state = 11
<1> DEFINE two   == Nonlit(Kind(2))
           three == Nonlit(Kind(3))
           four  == Nonlit(kinds[4])
<1>1. state =
        CASE lit(4) /\ lit(3) /\ lit(2)  -> 0
          [] lit(4) /\ lit(3) /\ ~lit(2) -> two
          [] lit(4) /\ ~lit(3)           -> 3 + three
          [] ~lit(4) /\ lit(3)           -> 6 + four
          [] ~lit(4) /\ ~lit(3)          -> IF kinds[4] = "match" THEN 10 ELSE 11
  BY DEF StateNamesHistory, lit
<1> HIDE DEF two, three, four
<1>2. /\ lit(4) /\ lit(3) /\ lit(2)  => state = 0
      /\ lit(4) /\ lit(3) /\ ~lit(2) => state = two
      /\ lit(4) /\ ~lit(3)           => state = 3 + three
      /\ ~lit(4) /\ lit(3)           => state = 6 + four
      /\ ~lit(4) /\ ~lit(3) /\ kinds[4] = "match" => state = 10
      /\ ~lit(4) /\ ~lit(3) /\ kinds[4] # "match" => state = 11
  BY <1>1 DEF lit
<1> QED
  BY <1>2 DEF two, three, four

LEMMA NonlitRange == \A k : Nonlit(k) \in 1 .. 3
  BY DEF Nonlit

(* Seven states after a literal, five after anything else.                 *)
LEMMA StateRange ==
  ASSUME StateNamesHistory
  PROVE  /\ lit(4)  => state \in 0 .. 6
         /\ ~lit(4) => state \in 7 .. 11
<1> DEFINE two   == Nonlit(Kind(2))
           three == Nonlit(Kind(3))
           four  == Nonlit(kinds[4])
<1>1. two \in 1 .. 3 /\ three \in 1 .. 3 /\ four \in 1 .. 3
  BY NonlitRange
<1>2. /\ lit(4) => state \in {0, two, 3 + three}
      /\ ~lit(4) => state \in {6 + four, 10, 11}
  BY Names
<1> HIDE DEF two, three, four
<1> QED
  BY <1>1, <1>2

LEMMA Shifted ==
  ASSUME kinds \in [1 .. 4 -> Kinds], NEW kind \in Kinds, NEW next, Moves(kind, next)
  PROVE  /\ kinds' \in [1 .. 4 -> Kinds]
         /\ kinds'[1] = kinds[2] /\ kinds'[2] = kinds[3] /\ kinds'[3] = kinds[4]
         /\ kinds'[4] = kind
  BY DEF Moves

LEMMA KindsOfLast ==
  /\ Kind(3) = IF kinds[3] = "short rep" /\ kinds[2] # "literal"
               THEN "rep" ELSE kinds[3]
  /\ Kind(2)' = IF kinds'[2] = "short rep" /\ kinds'[1] # "literal"
                THEN "rep" ELSE kinds'[2]
  /\ Kind(3)' = IF kinds'[3] = "short rep" /\ kinds'[2] # "literal"
                THEN "rep" ELSE kinds'[3]
<1>1. 3 > 1 /\ 3 - 1 = 2 /\ 2 > 1 /\ 2 - 1 = 1
  OBVIOUS
<1> QED
  BY <1>1, Zenon DEF Kind

(* A literal: the kinds behind it are told apart by one step less.         *)
LEMMA AfterLiteral ==
  ASSUME HistoryInv, Moves("literal", after_literal)
  PROVE  HistoryInv'
<1>1. /\ kinds' \in [1 .. 4 -> Kinds]
      /\ kinds'[1] = kinds[2] /\ kinds'[2] = kinds[3] /\ kinds'[3] = kinds[4]
      /\ kinds'[4] = "literal"
  BY Shifted DEF HistoryInv, Kinds
<1>2. state' = IF state <= 3 THEN 0 ELSE IF state <= 9 THEN state - 3 ELSE state - 6
  BY DEF Moves, after_literal
<1>3. CASE lit(4) /\ lit(3)
  <2>1. Nonlit(Kind(2)) \in 1 .. 3
    BY NonlitRange
  <2>2. state \in {0, Nonlit(Kind(2))}
    BY <1>3, Names DEF HistoryInv
  <2>3. state' = 0
    BY <1>2, <2>1, <2>2
  <2>4. StateNamesHistory'
    BY <1>1, <1>3, <2>3 DEF StateNamesHistory, lit
  <2> QED
    BY <1>1, <2>4 DEF HistoryInv
<1>4. CASE lit(4) /\ ~lit(3)
  <2>1. Nonlit(Kind(3)) \in 1 .. 3
    BY NonlitRange
  <2>2. state = 3 + Nonlit(Kind(3))
    BY <1>4, Names DEF HistoryInv
  <2>3. state' = Nonlit(Kind(3))
    BY <1>2, <2>1, <2>2
  <2>4. Kind(2)' = Kind(3)
    <3> DEFINE k == Kind(2)'
    <3>1. k = IF kinds[3] = "short rep" /\ kinds[2] # "literal"
              THEN "rep" ELSE kinds[3]
      BY <1>1, KindsOfLast, Zenon
    <3>2. Kind(3) = IF kinds[3] = "short rep" /\ kinds[2] # "literal"
                    THEN "rep" ELSE kinds[3]
      BY KindsOfLast, Zenon
    <3> HIDE DEF k
    <3>3. k = Kind(3)
      BY <3>1, <3>2
    <3> QED
      BY <3>3 DEF k
  <2>5. StateNamesHistory'
    BY <1>1, <1>4, <2>3, <2>4 DEF StateNamesHistory, lit, Nonlit
  <2> QED
    BY <1>1, <2>5 DEF HistoryInv
<1>5. CASE ~lit(4) /\ lit(3)
  <2>1. Nonlit(kinds[4]) \in 1 .. 3
    BY NonlitRange
  <2>2. state = 6 + Nonlit(kinds[4])
    BY <1>5, Names DEF HistoryInv
  <2>3. state' = 3 + Nonlit(kinds[4])
    BY <1>2, <2>1, <2>2
  <2>4. Kind(3)' = kinds[4]
    BY <1>1, <1>5 DEF Kind, lit
  <2>5. StateNamesHistory'
    BY <1>1, <1>5, <2>3, <2>4 DEF StateNamesHistory, lit, Nonlit
  <2> QED
    BY <1>1, <2>5 DEF HistoryInv
<1>6. CASE ~lit(4) /\ ~lit(3)
  <2>1. state' = IF kinds[4] = "match" THEN 4 ELSE 5
    BY <1>2, <1>6, Names DEF HistoryInv
  <2>2. Nonlit(Kind(3)') = IF kinds[4] = "match" THEN 1 ELSE 2
    <3> DEFINE k == Kind(3)'
    <3>1. k = IF kinds[4] = "short rep" /\ kinds[3] # "literal" THEN "rep" ELSE kinds[4]
      BY <1>1, KindsOfLast, Zenon
    <3>2. kinds[4] \in Kinds
      BY DEF HistoryInv
    <3> HIDE DEF k
    <3>3. Nonlit(k) = IF kinds[4] = "match" THEN 1 ELSE 2
      BY <3>1, <3>2, <1>6 DEF Nonlit, lit, Kinds
    <3> QED
      BY <3>3 DEF k
  <2>3. StateNamesHistory'
    BY <1>1, <1>6, <2>1, <2>2 DEF StateNamesHistory, lit, Nonlit
  <2> QED
    BY <1>1, <2>3 DEF HistoryInv
<1> QED
  BY <1>3, <1>4, <1>5, <1>6

(* Anything else: five states tell what it was and what was before it.     *)
LEMMA AfterNonliteral ==
  ASSUME HistoryInv, NEW kind \in Kinds \ {"literal"},
         Moves(kind, IF is_literal THEN 6 + Nonlit(kind)
                     ELSE IF kind = "match" THEN 10 ELSE 11)
  PROVE  HistoryInv'
<1>1. /\ kinds' \in [1 .. 4 -> Kinds]
      /\ kinds'[1] = kinds[2] /\ kinds'[2] = kinds[3] /\ kinds'[3] = kinds[4]
      /\ kinds'[4] = kind
  BY Shifted DEF HistoryInv
<1>2. is_literal <=> lit(4)
  BY StateRange DEF HistoryInv, is_literal, LIT_STATES
<1>3. state' = IF lit(4) THEN 6 + Nonlit(kind)
               ELSE IF kind = "match" THEN 10 ELSE 11
  BY <1>2 DEF Moves
<1>4. StateNamesHistory'
  BY <1>1, <1>3 DEF StateNamesHistory, lit, Nonlit
<1> QED
  BY <1>1, <1>4 DEF HistoryInv

LEMMA HistoryInit == Init => HistoryInv
  BY DEF Init, NoKinds, HistoryInv, Kinds, StateNamesHistory

LEMMA HistoryStep == HistoryInv /\ [Next]_vars => HistoryInv'
<1> SUFFICES ASSUME HistoryInv, [Next]_vars PROVE HistoryInv'
  OBVIOUS
<1>1. CASE Reset \/ \E props : Renew(props)
  <2>1. state' = 0 /\ kinds' = NoKinds
    BY <1>1 DEF Reset, Renew
  <2>2. kinds' \in [1 .. 4 -> Kinds] /\ \A i \in 1 .. 4 : kinds'[i] = "literal"
    BY <2>1 DEF NoKinds, Kinds
  <2> QED
    BY <2>1, <2>2 DEF HistoryInv, StateNamesHistory
<1>2. CASE Symbol
  <2>1. CASE Moves("literal", after_literal)
    BY <2>1, AfterLiteral
  <2>2. CASE Moves("match", after_match)
    <3>1. after_match = IF is_literal THEN 6 + Nonlit("match")
               ELSE IF "match" = "match" THEN 10 ELSE 11
      BY DEF after_match, Nonlit
    <3>2. "match" \in Kinds \ {"literal"}
      BY DEF Kinds
    <3> QED
      BY <2>2, <3>1, <3>2, AfterNonliteral
  <2>3. CASE Moves("rep", after_long_rep)
    <3>1. after_long_rep = IF is_literal THEN 6 + Nonlit("rep")
               ELSE IF "rep" = "match" THEN 10 ELSE 11
      BY DEF after_long_rep, Nonlit
    <3>2. "rep" \in Kinds \ {"literal"}
      BY DEF Kinds
    <3> QED
      BY <2>3, <3>1, <3>2, AfterNonliteral
  <2>4. CASE Moves("short rep", after_short_rep)
    <3>1. after_short_rep = IF is_literal THEN 6 + Nonlit("short rep")
               ELSE IF "short rep" = "match" THEN 10 ELSE 11
      BY DEF after_short_rep, Nonlit
    <3>2. "short rep" \in Kinds \ {"literal"}
      BY DEF Kinds
    <3> QED
      BY <2>4, <3>1, <3>2, AfterNonliteral
  <2> QED
    BY <1>2, <2>1, <2>2, <2>3, <2>4, SymbolMoves
<1>3. CASE UNCHANGED vars
  <2>1. state' = state /\ kinds' = kinds
    BY <1>3 DEF vars, seen
  <2> QED
    BY <2>1 DEF HistoryInv, StateNamesHistory, Kind, Nonlit
<1> QED
  BY <1>1, <1>2, <1>3 DEF Next

(* The coder state names the last symbols, after any row of symbols and    *)
(* resets, whatever probabilities and distances they were decoded with.    *)
THEOREM StateIsHistory == Spec => []StateNamesHistory
<1>1. HistoryInv => StateNamesHistory
  BY DEF HistoryInv
<1> QED
  BY <1>1, HistoryInit, HistoryStep, PTL DEF Spec

(* It is one of the STATES that the tables of probabilities have rows for. *)
THEOREM StateHasRow == Spec => [](state \in 0 .. STATES - 1)
<1>1. StateNamesHistory => state \in 0 .. STATES - 1
  BY StateRange DEF STATES
<1> QED
  BY <1>1, StateIsHistory, PTL
-----------------------------------------------------------------------------
(* Division                                                                *)
LEMMA DivMod ==
  ASSUME NEW a \in Nat, a > 0, NEW x \in Nat
  PROVE  x = a * (x \div a) + (x % a) /\ x % a \in 0 .. a - 1 /\ x \div a \in Nat
<1>1. x % a \in 0 .. a - 1
  BY SMTT(30)
<1>2. x \div a \in Nat
  BY SMTT(30)
<1>3. x = a * (x \div a) + (x % a)
  BY SMTT(30)
<1> QED
  BY <1>1, <1>2, <1>3

LEMMA ProductMonotone ==
  ASSUME NEW a \in Nat, NEW x \in Nat, NEW y \in Nat, x <= y
  PROVE  a * x <= a * y /\ x * a <= y * a /\ a * x \in Nat /\ x * a \in Nat
<1>1. a * (y - x) >= 0 /\ a * (y - x) = a * y - a * x
  BY SMTT(30)
<1>2. a * x = x * a /\ a * y = y * a /\ a * x \in Nat
  BY SMTT(30)
<1> QED
  BY <1>1, <1>2

(* A quotient is the only number between whose multiples the dividend is.  *)
LEMMA QuotientUnique ==
  ASSUME NEW a \in Nat, a > 0, NEW x \in Nat, NEW q \in Nat, NEW r \in 0 .. a - 1,
         x = a * q + r
  PROVE  x \div a = q /\ x % a = r
<1> DEFINE d == x \div a
           s == x % a
<1>1. x = a * d + s /\ s \in 0 .. a - 1 /\ d \in Nat
  BY DivMod
<1> HIDE DEF d, s
<1>2. CASE d > q
  <2>1. a * (q + 1) <= a * d /\ a * (q + 1) = a * q + a
    BY <1>1, <1>2, ProductMonotone, SMTT(30)
  <2> QED
    BY <1>1, <2>1
<1>3. CASE d < q
  <2>1. a * (d + 1) <= a * q /\ a * (d + 1) = a * d + a
    BY <1>1, <1>3, ProductMonotone, SMTT(30)
  <2> QED
    BY <1>1, <2>1
<1>4. CASE d = q
  BY <1>1, <1>4 DEF d, s
<1> QED
  BY <1>1, <1>2, <1>3, <1>4

LEMMA SmallRemainder ==
  ASSUME NEW a \in Nat, NEW x \in 0 .. a - 1
  PROVE  x % a = x
<1>1. a > 0 /\ x \in Nat
  OBVIOUS
<1>2. x = a * 0 + x
  <2>1. a * 0 = 0
    OBVIOUS
  <2> QED
    BY <2>1
<1> QED
  BY <1>1, <1>2, QuotientUnique

(* Powers of two, by counting the subsets of 1 .. n.                       *)
LEMMA Least ==
  ASSUME NEW S, S \subseteq Nat, S # {}
  PROVE  \E x \in S : \A y \in S : x <= y
<1> DEFINE R == OpToRel(<, Nat)
<1>1. IsWellFoundedOn(R, Nat)
  BY NatLessThanWellFounded
<1>2. \A x, y \in Nat : y < x => <<y, x>> \in R
  BY DEF OpToRel
<1> HIDE DEF R
<1>3. PICK x \in S : \A y \in S : ~ (<<y, x>> \in R)
  BY <1>1, WFMin
<1>4. \A y \in S : ~ (y < x)
  BY <1>2, <1>3
<1>5. \A y \in S : x <= y
  BY <1>4
<1> QED
  BY <1>5

LEMMA Subsets ==
  ASSUME NEW n \in Nat
  PROVE  /\ IsFiniteSet(SUBSET (1 .. n))
         /\ Cardinality(SUBSET (1 .. n)) = 2 ^ n /\ 2 ^ n \in Nat
<1>1. IsFiniteSet(1 .. n) /\ Cardinality(1 .. n) = n
  BY FS_Interval
<1>2. IsFiniteSet(SUBSET (1 .. n)) /\ Cardinality(SUBSET (1 .. n)) = 2 ^ n
  BY <1>1, FS_SUBSET
<1> QED
  BY <1>2, FS_CardinalityType

(* Half of them have n + 1 in them, and are the others with it.            *)
LEMMA PowerStep ==
  ASSUME NEW n \in Nat
  PROVE  2 ^ (n + 1) = 2 * 2 ^ n
<1> DEFINE A == SUBSET (1 .. n)
           B == {T \cup {n + 1} : T \in A}
           f == [T \in A |-> T \cup {n + 1}]
<1>0. ~ (n + 1 \in 1 .. n)
  OBVIOUS
<1>1. \A T \in A : ~ (n + 1 \in T)
  BY <1>0
<1>2. SUBSET (1 .. n + 1) = A \cup B
  <2>1. 1 .. n + 1 = (1 .. n) \cup {n + 1}
    OBVIOUS
  <2>2. ASSUME NEW T \in SUBSET (1 .. n + 1) PROVE T \in A \cup B
    <3>1. CASE n + 1 \in T
      <4>1. T \ {n + 1} \in A /\ T = (T \ {n + 1}) \cup {n + 1}
        BY <2>1, <3>1
      <4> QED
        BY <4>1
    <3>2. CASE ~ (n + 1 \in T)
      BY <2>1, <3>2
    <3> QED
      BY <3>1, <3>2
  <2>3. ASSUME NEW T \in A \cup B PROVE T \in SUBSET (1 .. n + 1)
    BY <2>1
  <2> QED
    BY <2>2, <2>3
<1>3. A \cap B = {}
  BY <1>1
<1>4. ExistsBijection(A, B)
  <2>1. f \in [A -> B]
    OBVIOUS
  <2>2. \A S, T \in A : f[S] = f[T] => S = T
    <3> SUFFICES ASSUME NEW S \in A, NEW T \in A, f[S] = f[T]
                 PROVE  S = T
      OBVIOUS
    <3>1. S \cup {n + 1} = T \cup {n + 1}
      OBVIOUS
    <3> QED
      BY <1>1, <3>1
  <2>3. \A b \in B : \E T \in A : f[T] = b
    OBVIOUS
  <2>4. f \in Bijection(A, B)
    BY <2>1, <2>2, <2>3, Fun_IsBij
  <2> QED
    BY <2>4, Fun_ExistsBij
<1>5. /\ IsFiniteSet(A) /\ Cardinality(A) = 2 ^ n /\ 2 ^ n \in Nat
  BY Subsets
<1>6. IsFiniteSet(B) /\ Cardinality(B) = Cardinality(A)
  BY <1>4, <1>5, FS_Bijection
<1> HIDE DEF A, B
<1>7. Cardinality(A \cup B) = Cardinality(A) + Cardinality(B) - Cardinality(A \cap B)
  BY <1>5, <1>6, FS_Union
<1>8. Cardinality(A \cap B) = 0
  BY <1>3, FS_EmptySet
<1>9. Cardinality(SUBSET (1 .. n + 1)) = 2 ^ (n + 1)
  BY Subsets
<1> DEFINE p == 2 ^ n
<1>10. p \in Nat /\ Cardinality(A) = p /\ Cardinality(B) = p
  BY <1>5, <1>6
<1> HIDE DEF p
<1>11. Cardinality(A \cup B) = 2 * p
  BY <1>7, <1>8, <1>10
<1> QED
  BY <1>2, <1>9, <1>11 DEF p

LEMMA PowerTyped ==
  ASSUME NEW n \in Nat
  PROVE  2 ^ n \in Nat /\ 2 ^ n >= 1
<1> DEFINE p(k) == 2 ^ k
           S == {k \in Nat : ~ (p(k) >= 1)}
<1>1. p(0) = 1
  OBVIOUS
<1>2. \A k \in Nat : p(k) \in Nat /\ p(k + 1) = 2 * p(k)
  BY Subsets, PowerStep
<1> HIDE DEF p
<1>3. S = {}
  <2> SUFFICES ASSUME S # {}
               PROVE  FALSE
    OBVIOUS
  <2>1. PICK k \in S : \A y \in S : k <= y
    <3>1. S \subseteq Nat
      OBVIOUS
    <3> QED
      BY <3>1, Least
  <2>2. k \in Nat /\ ~ (p(k) >= 1) /\ k # 0
    BY <1>1, <2>1
  <2>3. k - 1 \in Nat /\ k - 1 + 1 = k /\ ~ (k <= k - 1)
    BY <2>2
  <2>4. p(k - 1) >= 1
    BY <2>1, <2>3
  <2>5. p(k) = 2 * p(k - 1) /\ p(k - 1) \in Nat
    BY <1>2, <2>3
  <2> QED
    BY <2>2, <2>4, <2>5
<1>4. p(n) \in Nat /\ p(n) >= 1
  BY <1>2, <1>3
<1> QED
  BY <1>4 DEF p

LEMMA PowerAdd ==
  ASSUME NEW a \in Nat, NEW b \in Nat
  PROVE  2 ^ (a + b) = 2 ^ a * 2 ^ b
<1> DEFINE p(k) == 2 ^ k
           S == {k \in Nat : p(a + k) # p(a) * p(k)}
<1>1. p(0) = 1
  OBVIOUS
<1>2. \A k \in Nat : p(k) \in Nat /\ p(k + 1) = 2 * p(k)
  BY PowerTyped, PowerStep
<1> HIDE DEF p
<1>3. S = {}
  <2> SUFFICES ASSUME S # {}
               PROVE  FALSE
    OBVIOUS
  <2>1. PICK k \in S : \A y \in S : k <= y
    <3>1. S \subseteq Nat
      OBVIOUS
    <3> QED
      BY <3>1, Least
  <2>2. k \in Nat /\ p(a + k) # p(a) * p(k)
    BY <2>1
  <2>3. k # 0
    <3> SUFFICES ASSUME k = 0
                 PROVE  FALSE
      OBVIOUS
    <3>1. a + k = a /\ p(k) = 1 /\ p(a) \in Nat
      BY <1>1, <1>2
    <3>2. p(a) * 1 = p(a)
      BY <3>1
    <3> QED
      BY <2>2, <3>1, <3>2
  <2>4. /\ k - 1 \in Nat /\ k - 1 + 1 = k /\ ~ (k <= k - 1)
        /\ a + (k - 1) \in Nat /\ a + (k - 1) + 1 = a + k
    BY <2>2, <2>3
  <2>5. p(a + (k - 1)) = p(a) * p(k - 1)
    BY <2>1, <2>4
  <2>6. /\ p(a + k) = 2 * p(a + (k - 1)) /\ p(k) = 2 * p(k - 1)
        /\ p(a) \in Nat /\ p(k - 1) \in Nat
    BY <1>2, <2>4
  <2> DEFINE x == p(a)
             y == p(k - 1)
  <2>7. x \in Nat /\ y \in Nat
    BY <2>6
  <2>8. p(a + k) = 2 * (x * y) /\ p(k) = 2 * y
    BY <2>5, <2>6
  <2> HIDE DEF x, y
  <2>9. 2 * (x * y) = x * (2 * y)
    BY <2>7, SMTT(30)
  <2> QED
    BY <2>2, <2>8, <2>9 DEF x
<1> QED
  BY <1>3 DEF p

LEMMA PowerMonotone ==
  ASSUME NEW a \in Nat, NEW b \in Nat, a <= b
  PROVE  2 ^ a <= 2 ^ b
<1>1. b - a \in Nat /\ a + (b - a) = b
  OBVIOUS
<1> DEFINE c == b - a
           x == 2 ^ a
           y == 2 ^ c
<1>2. 2 ^ b = x * y
  BY <1>1, PowerAdd
<1>3. x \in Nat /\ y \in Nat /\ y >= 1
  BY <1>1, PowerTyped
<1> HIDE DEF c, x, y
<1>4. x * 1 <= x * y
  BY <1>3, ProductMonotone
<1>5. x * 1 = x
  BY <1>3
<1> QED
  BY <1>2, <1>4, <1>5 DEF x
-----------------------------------------------------------------------------
(* The loops over bits.  Each is a function defined by recursion over the  *)
(* number of bits taken; that there is such a function is shown once, for  *)
(* any loop, by the least number of rounds that it would not exist for.    *)
Rounds(f, G, S, b, n) ==
  /\ f \in [0 .. n -> S] /\ f[0] = b
  /\ \A j \in 1 .. n : f[j] = G[<<j, f[j - 1]>>]

LEMMA RoundsExist ==
  ASSUME NEW n \in Nat, NEW S, NEW b \in S, NEW G \in [(1 .. n) \X S -> S]
  PROVE  \E f : Rounds(f, G, S, b, n)
<1> DEFINE Bad == {m \in 0 .. n : ~ (\E f : Rounds(f, G, S, b, m))}
<1>1. Bad = {}
  <2> SUFFICES ASSUME Bad # {}
               PROVE  FALSE
    OBVIOUS
  <2>1. PICK m \in Bad : \A y \in Bad : m <= y
    <3>1. Bad \subseteq Nat
      OBVIOUS
    <3> QED
      BY <3>1, Least
  <2>2. m \in 0 .. n /\ ~ (\E f : Rounds(f, G, S, b, m))
    BY <2>1
  <2>3. m # 0
    <3>1. Rounds([i \in 0 .. 0 |-> b], G, S, b, 0)
      BY DEF Rounds
    <3> QED
      BY <2>2, <3>1
  <2>4. m - 1 \in 0 .. n /\ ~ (m <= m - 1) /\ m \in 1 .. n /\ m \in Nat
    BY <2>2, <2>3
  <2>5. PICK f : Rounds(f, G, S, b, m - 1)
    BY <2>1, <2>4
  <2>6. /\ f \in [0 .. m - 1 -> S] /\ f[0] = b
        /\ \A j \in 1 .. m - 1 : f[j] = G[<<j, f[j - 1]>>]
    BY <2>5 DEF Rounds
  <2> DEFINE last == G[<<m, f[m - 1]>>]
             g == [i \in 0 .. m |-> IF i = m THEN last ELSE f[i]]
  <2>7. last \in S
    <3>1. m - 1 \in 0 .. m - 1
      BY <2>4
    <3>2. <<m, f[m - 1]>> \in (1 .. n) \X S
      BY <2>4, <2>6, <3>1
    <3> QED
      BY <3>2
  <2>8. g \in [0 .. m -> S] /\ g[0] = b
    <3> HIDE DEF last
    <3>1. \A i \in 0 .. m : i # m => i \in 0 .. m - 1
      BY <2>4
    <3> QED
      BY <2>4, <2>6, <2>7, <3>1
  <2>9. ASSUME NEW j \in 1 .. m
        PROVE  g[j] = G[<<j, g[j - 1]>>]
    <3>1. j \in 0 .. m /\ j - 1 \in 0 .. m /\ j - 1 # m
      BY <2>4
    <3>2. g[j - 1] = f[j - 1]
      BY <3>1
    <3>3. CASE j = m
      BY <3>1, <3>2, <3>3
    <3>4. CASE j # m
      <4>1. j \in 1 .. m - 1
        BY <2>4, <3>4
      <4> QED
        BY <2>6, <3>1, <3>2, <3>4, <4>1
    <3> QED
      BY <3>3, <3>4
  <2>10. Rounds(g, G, S, b, m)
    BY <2>8, <2>9 DEF Rounds
  <2> QED
    BY <2>2, <2>10
<1>2. n \in 0 .. n /\ n \notin Bad
  BY <1>1
<1> QED
  BY <1>2

Bits == {0, 1}

LEMMA BitsTyped ==
  ASSUME NEW bits \in Seq(Bits)
  PROVE  /\ Len(bits) \in Nat
         /\ \A i \in 1 .. Len(bits) : bits[i] \in Bits /\ bits[i] \in Nat
  BY DEF Bits

(* Where a tree's loop stands.                                             *)
LEMMA PlaceSteps ==
  ASSUME NEW bits \in Seq(Bits)
  PROVE  /\ place(bits, 0) = 1
         /\ \A i \in 0 .. Len(bits) : place(bits, i) \in Nat
         /\ \A i \in 1 .. Len(bits) : place(bits, i) = 2 * place(bits, i - 1) + bits[i]
<1> DEFINE n == Len(bits)
           Rule(f) == f = [j \in 0 .. n |-> IF j = 0 THEN 1 ELSE 2 * f[j - 1] + bits[j]]
           at == CHOOSE f : Rule(f)
           G == [y \in (1 .. n) \X Nat |-> 2 * y[2] + bits[y[1]]]
<1>0. n \in Nat /\ \A i \in 1 .. n : bits[i] \in Nat
  BY BitsTyped
<1>1. \A i : place(bits, i) = at[i]
  BY DEF place
<1>2. G \in [(1 .. n) \X Nat -> Nat]
  BY <1>0
<1>3. PICK f : Rounds(f, G, Nat, 1, n)
  <2> HIDE DEF G, n
  <2> QED
    BY <1>0, <1>2, RoundsExist
<1>4. f \in [0 .. n -> Nat] /\ f[0] = 1
  BY <1>3 DEF Rounds
<1>5. \A j \in 1 .. n : f[j] = 2 * f[j - 1] + bits[j]
  <2> SUFFICES ASSUME NEW j \in 1 .. n
               PROVE  f[j] = 2 * f[j - 1] + bits[j]
    OBVIOUS
  <2>1. f[j] = G[<<j, f[j - 1]>>]
    BY <1>3 DEF Rounds
  <2>2. j - 1 \in 0 .. n
    BY <1>0
  <2>3. <<j, f[j - 1]>> \in (1 .. n) \X Nat
    BY <1>4, <2>2
  <2> QED
    BY <2>1, <2>3
<1>6. Rule(f)
  BY <1>0, <1>4, <1>5
<1>7. Rule(at)
  BY <1>6
<1> HIDE DEF at
<1>8. at[0] = 1 /\ \A j \in 1 .. n : at[j] = 2 * at[j - 1] + bits[j]
  <2>1. at[0] = 1
    BY <1>0, <1>7
  <2>2. ASSUME NEW j \in 1 .. n PROVE at[j] = 2 * at[j - 1] + bits[j]
    <3>1. j \in 0 .. n /\ j # 0
      BY <1>0
    <3> QED
      BY <1>7, <3>1
  <2> QED
    BY <2>1, <2>2
<1> DEFINE S == {i \in Nat : i \in 0 .. n /\ at[i] \notin Nat}
<1>9. S = {}
  <2> SUFFICES ASSUME S # {}
               PROVE  FALSE
    OBVIOUS
  <2>1. PICK i \in S : \A y \in S : i <= y
    <3>1. S \subseteq Nat
      OBVIOUS
    <3> QED
      BY <3>1, Least
  <2>2. i \in 0 .. n /\ at[i] \notin Nat /\ i # 0
    BY <1>8, <2>1
  <2>3. /\ i \in 1 .. n /\ i - 1 \in 0 .. n /\ i - 1 \in Nat /\ ~ (i <= i - 1)
    BY <1>0, <2>2
  <2>4. at[i - 1] \in Nat
    BY <2>1, <2>3
  <2>5. at[i] = 2 * at[i - 1] + bits[i] /\ bits[i] \in Nat
    BY <1>0, <1>8, <2>3
  <2> QED
    BY <2>2, <2>4, <2>5
<1>10. \A i \in 0 .. n : at[i] \in Nat
  BY <1>9
<1> HIDE DEF n
<1>11. \A i \in 1 .. n : place(bits, i) = 2 * place(bits, i - 1) + bits[i]
  BY <1>1, <1>8
<1> QED
  BY <1>1, <1>8, <1>10, <1>11 DEF n

(* Each bit doubles the place.                                             *)
LEMMA PlaceSplits ==
  ASSUME NEW bits \in Seq(Bits), NEW i \in 0 .. Len(bits), NEW j \in i .. Len(bits)
  PROVE  \E r \in 0 .. 2 ^ (j - i) - 1 : place(bits, j) = place(bits, i) * 2 ^ (j - i) + r
<1> DEFINE n == Len(bits)
           p(k) == 2 ^ k
           at(k) == place(bits, k)
           Split(k) == \E r \in 0 .. p(k) - 1 : at(i + k) = at(i) * p(k) + r
           S == {k \in Nat : i + k <= n /\ ~ Split(k)}
<1>0. n \in Nat /\ i \in 0 .. n /\ j \in i .. n /\ \A k \in 1 .. n : bits[k] \in Bits
  BY BitsTyped
<1>1. p(0) = 1 /\ \A k \in Nat : p(k) \in Nat /\ p(k) >= 1 /\ p(k + 1) = 2 * p(k)
  BY PowerTyped, PowerStep
<1>2. /\ \A k \in 0 .. n : at(k) \in Nat
      /\ \A k \in 1 .. n : at(k) = 2 * at(k - 1) + bits[k]
  BY PlaceSteps
<1> HIDE DEF n, p, at
<1>3. S = {}
  <2> SUFFICES ASSUME S # {}
               PROVE  FALSE
    OBVIOUS
  <2>1. PICK k \in S : \A y \in S : k <= y
    <3>1. S \subseteq Nat
      OBVIOUS
    <3> QED
      BY <3>1, Least
  <2>2. k \in Nat /\ i + k <= n /\ ~ Split(k)
    BY <2>1
  <2>3. k # 0
    <3>1. i + 0 = i /\ at(i) \in Nat /\ 0 \in 0 .. p(0) - 1
      BY <1>0, <1>1, <1>2
    <3>2. at(i + 0) = at(i) * p(0) + 0
      BY <1>1, <3>1
    <3>3. Split(0)
      BY <3>1, <3>2
    <3> QED
      BY <2>2, <3>3
  <2>4. /\ k - 1 \in Nat /\ k - 1 + 1 = k /\ ~ (k <= k - 1) /\ i + (k - 1) <= n
        /\ i + k \in 1 .. n /\ i + k - 1 = i + (k - 1) /\ i + (k - 1) \in 0 .. n
    BY <1>0, <2>2, <2>3
  <2>5. Split(k - 1)
    BY <2>1, <2>4
  <2>6. PICK r \in 0 .. p(k - 1) - 1 : at(i + (k - 1)) = at(i) * p(k - 1) + r
    BY <2>5
  <2> DEFINE x == at(i)
             y == p(k - 1)
             b == bits[i + k]
  <2>7. x \in Nat /\ y \in Nat /\ r \in 0 .. y - 1 /\ (b = 0 \/ b = 1)
    BY <1>0, <1>1, <1>2, <2>4, <2>6 DEF Bits
  <2>8. p(k) = 2 * y /\ at(i + k) = 2 * (x * y + r) + b
    <3>1. p(k) = 2 * y
      BY <1>1, <2>4
    <3>2. at(i + k) = 2 * at(i + k - 1) + bits[i + k]
      BY <1>2, <2>4
    <3> QED
      BY <2>4, <2>6, <3>1, <3>2
  <2> HIDE DEF x, y, b, Split
  <2>9. 2 * (x * y + r) + b = x * (2 * y) + (2 * r + b)
    BY <2>7, SMTT(30)
  <2>10. 2 * r + b \in 0 .. 2 * y - 1
    BY <2>7
  <2>11. 2 * r + b \in 0 .. p(k) - 1 /\ at(i + k) = x * p(k) + (2 * r + b)
    BY <2>8, <2>9, <2>10
  <2>12. Split(k)
    BY <2>11 DEF Split, x
  <2> QED
    BY <2>2, <2>12
<1>4. j - i \in Nat /\ i + (j - i) = j
  BY <1>0
<1>5. Split(j - i)
  <2>1. j - i \notin S
    BY <1>3
  <2>2. i + (j - i) <= n
    BY <1>0, <1>4
  <2> QED
    BY <1>4, <2>1, <2>2
<1>6. \E r \in 0 .. p(j - i) - 1 : at(j) = at(i) * p(j - i) + r
  BY <1>4, <1>5
<1> QED
  BY <1>6 DEF p, at

LEMMA PlaceRange ==
  ASSUME NEW bits \in Seq(Bits), NEW i \in 0 .. Len(bits)
  PROVE  place(bits, i) \in 2 ^ i .. 2 * 2 ^ i - 1
<1>1. Len(bits) \in Nat /\ 0 \in 0 .. Len(bits) /\ i - 0 = i /\ i \in Nat
  BY BitsTyped
<1>2. PICK r \in 0 .. 2 ^ i - 1 : place(bits, i) = place(bits, 0) * 2 ^ i + r
  <2>1. i \in 0 .. Len(bits)
    OBVIOUS
  <2>2. \E r \in 0 .. 2 ^ (i - 0) - 1 :
          place(bits, i) = place(bits, 0) * 2 ^ (i - 0) + r
    BY <1>1, <2>1, PlaceSplits
  <2> QED
    BY <1>1, <2>2
<1> DEFINE p == 2 ^ i
<1>3. p \in Nat /\ r \in 0 .. p - 1 /\ place(bits, 0) = 1
  BY <1>1, PowerTyped, PlaceSteps
<1>4. place(bits, i) = 1 * p + r
  BY <1>2, <1>3
<1> HIDE DEF p
<1>5. place(bits, i) \in p .. 2 * p - 1
  BY <1>3, <1>4
<1> QED
  BY <1>5 DEF p

(* decode_bit_tree brings every number of as many bits, the first bit as   *)
(* its highest one.                                                        *)
LEMMA TreeRange ==
  ASSUME NEW bits \in Seq(Bits)
  PROVE  tree(bits) \in 0 .. 2 ^ Len(bits) - 1
<1> DEFINE p == 2 ^ Len(bits)
<1>1. Len(bits) \in Nat /\ Len(bits) \in 0 .. Len(bits)
  BY BitsTyped
<1>2. place(bits, Len(bits)) \in p .. 2 * p - 1 /\ p \in Nat
  BY <1>1, PlaceRange, PowerTyped
<1>3. tree(bits) = place(bits, Len(bits)) - p
  BY DEF tree
<1> HIDE DEF p
<1>4. tree(bits) \in 0 .. p - 1
  BY <1>2, <1>3
<1> QED
  BY <1>4 DEF p

LEMMA TreeBits ==
  ASSUME NEW bits \in Seq(Bits)
  PROVE  Format!HighFirst(tree(bits), Len(bits)) = bits
<1> DEFINE n == Len(bits)
<1>0. n \in Nat /\ \A i \in 1 .. n : bits[i] \in Bits
  BY BitsTyped
<1>1. ASSUME NEW i \in 1 .. n
      PROVE  (tree(bits) \div 2 ^ (n - i)) % 2 = bits[i]
  <2>1. i \in 0 .. n /\ n \in i .. n /\ i - 1 \in 0 .. n /\ n - i \in Nat /\ i \in Nat
        /\ i - 1 \in Nat /\ i - 1 + 1 = i /\ i + (n - i) = n
    BY <1>0
  <2>2. PICK r \in 0 .. 2 ^ (n - i) - 1 :
          place(bits, n) = place(bits, i) * 2 ^ (n - i) + r
    BY <2>1, PlaceSplits
  <2> DEFINE x == place(bits, i)
             w == place(bits, i - 1)
             q == 2 ^ (n - i)
             h == 2 ^ (i - 1)
             b == bits[i]
             t == tree(bits)
  <2>3. place(bits, n) = x * q + r /\ r \in 0 .. q - 1 /\ q \in Nat /\ q >= 1
    BY <2>1, <2>2, PowerTyped
  <2>4. x = 2 * w + b /\ w \in Nat /\ (b = 0 \/ b = 1) /\ x \in Nat
    BY <1>0, <2>1, PlaceSteps DEF Bits
  <2>5. 2 ^ i = 2 * h /\ h \in Nat /\ w >= h
    <3>1. 2 ^ (i - 1 + 1) = 2 * h
      BY <2>1, PowerStep
    <3>2. w \in h .. 2 * h - 1
      BY <2>1, PlaceRange
    <3>3. h \in Nat
      BY <2>1, PowerTyped
    <3> QED
      BY <2>1, <3>1, <3>2, <3>3
  <2>6. 2 ^ n = (2 * h) * q
    <3>1. 2 ^ (i + (n - i)) = 2 ^ i * 2 ^ (n - i)
      BY <2>1, PowerAdd
    <3> QED
      BY <2>1, <2>5, <3>1
  <2>7. t = x * q + r - (2 * h) * q
    <3>1. t = place(bits, n) - 2 ^ n
      BY DEF tree
    <3>2. place(bits, n) = x * q + r
      BY <2>3
    <3>3. x \in Nat /\ q \in Nat /\ h \in Nat /\ r \in Nat
      BY <2>3, <2>4, <2>5
    <3> HIDE DEF x, q, h, t, n
    <3>4. x * q \in Nat /\ (2 * h) * q \in Nat
      BY <3>3, SMTT(30)
    <3> DEFINE a == x * q
               c == (2 * h) * q
    <3>5. t = (a + r) - c /\ a \in Nat /\ c \in Nat
      BY <2>6, <3>1, <3>2, <3>4
    <3> HIDE DEF a, c
    <3>6. t = a + r - c
      BY <3>3, <3>5
    <3> QED
      BY <3>6 DEF a, c
  <2> HIDE DEF x, w, q, h, b, t
  <2>8. t = q * (2 * (w - h) + b) + r
    <3> DEFINE c == w - h
    <3>1. x = 2 * h + (2 * c + b) /\ c \in Nat
      BY <2>4, <2>5
    <3> DEFINE d == 2 * c + b
    <3>2. d \in Nat /\ x = 2 * h + d
      BY <2>4, <3>1
    <3> HIDE DEF c, d
    <3>3. (2 * h + d) * q = (2 * h) * q + d * q
      BY <2>3, <2>5, <3>2, SMTT(30)
    <3>4. d * q = q * d /\ d * q \in Nat /\ (2 * h) * q \in Nat
      BY <2>3, <2>5, <3>2, SMTT(30)
    <3>5. t = q * d + r
      BY <2>3, <2>7, <3>2, <3>3, <3>4
    <3> QED
      BY <3>5 DEF d, c
  <2>9. t \div q = 2 * (w - h) + b
    <3> DEFINE d == 2 * (w - h) + b
    <3>1. d \in Nat
      BY <2>4, <2>5
    <3>2. t = q * d + r
      BY <2>8
    <3> HIDE DEF d
    <3>3. t \in Nat
      <4>1. q * d \in Nat
        BY <2>3, <3>1, SMTT(30)
      <4> QED
        BY <2>3, <3>2, <4>1
    <3>4. t \div q = d
      BY <2>3, <3>1, <3>2, <3>3, QuotientUnique
    <3> QED
      BY <3>4 DEF d
  <2>10. (2 * (w - h) + b) % 2 = b
    <3> DEFINE c == w - h
               d == 2 * c + b
    <3>1. c \in Nat
      BY <2>4, <2>5
    <3> HIDE DEF c
    <3>2. d \in Nat /\ b \in 0 .. 2 - 1
      BY <2>4, <3>1
    <3>3. d % 2 = b
      BY <3>1, <3>2, QuotientUnique
    <3> QED
      BY <3>3 DEF d, c
  <2>11. (t \div q) % 2 = b
    BY <2>9, <2>10
  <2> QED
    BY <2>11 DEF t, q, b
<1>2. Format!HighFirst(tree(bits), n)
        = [i \in 1 .. n |-> (tree(bits) \div 2 ^ (n - i)) % 2]
  BY DEF Format!HighFirst, Format!Bit
<1>3. bits = [i \in 1 .. n |-> bits[i]]
  OBVIOUS
<1> HIDE DEF n
<1>4. [i \in 1 .. n |-> (tree(bits) \div 2 ^ (n - i)) % 2] = [i \in 1 .. n |-> bits[i]]
  BY <1>1
<1> QED
  BY <1>2, <1>3, <1>4 DEF n

(* decode_reverse_bit_tree: the number after j bits.                       *)
Sums(f, bits) ==
  /\ f \in [0 .. Len(bits) -> Nat] /\ f[0] = 0
  /\ \A j \in 1 .. Len(bits) : f[j] = f[j - 1] + bits[j] * 2 ^ (j - 1)

LEMMA ReverseSteps ==
  ASSUME NEW bits \in Seq(Bits)
  PROVE  \E f : Sums(f, bits) /\ reverse(bits) = f[Len(bits)]
<1> DEFINE n == Len(bits)
           add(j) == bits[j] * 2 ^ (j - 1)
           Rule(f) == f = [j \in 0 .. n |-> IF j = 0 THEN 0 ELSE f[j - 1] + add(j)]
           sum == CHOOSE f : Rule(f)
           G == [y \in (1 .. n) \X Nat |-> y[2] + add(y[1])]
<1>0. n \in Nat /\ \A i \in 1 .. n : add(i) \in Nat
  <2>1. n \in Nat /\ \A i \in 1 .. n : bits[i] \in Nat
    BY BitsTyped
  <2>2. ASSUME NEW i \in 1 .. n PROVE add(i) \in Nat
    <3> DEFINE b == bits[i]
               p == 2 ^ (i - 1)
    <3>1. i - 1 \in Nat
      BY <2>1
    <3>2. b \in Nat /\ p \in Nat
      BY <2>1, <3>1, PowerTyped
    <3> HIDE DEF b, p
    <3>3. b * p \in Nat
      BY <3>2, SMTT(30)
    <3> QED
      BY <3>3 DEF b, p
  <2> QED
    BY <2>1, <2>2
<1>1. reverse(bits) = sum[n]
  BY DEF reverse
<1> HIDE DEF add
<1>2. G \in [(1 .. n) \X Nat -> Nat]
  BY <1>0
<1>3. PICK f : Rounds(f, G, Nat, 0, n)
  <2> HIDE DEF G, n
  <2> QED
    BY <1>0, <1>2, RoundsExist
<1>4. f \in [0 .. n -> Nat] /\ f[0] = 0
  BY <1>3 DEF Rounds
<1>5. \A j \in 1 .. n : f[j] = f[j - 1] + add(j)
  <2> SUFFICES ASSUME NEW j \in 1 .. n
               PROVE  f[j] = f[j - 1] + add(j)
    OBVIOUS
  <2>1. f[j] = G[<<j, f[j - 1]>>]
    BY <1>3 DEF Rounds
  <2>2. j - 1 \in 0 .. n
    BY <1>0
  <2>3. <<j, f[j - 1]>> \in (1 .. n) \X Nat
    BY <1>4, <2>2
  <2> QED
    BY <2>1, <2>3
<1>6. Rule(f)
  BY <1>0, <1>4, <1>5
<1>7. Rule(sum)
  BY <1>6
<1> HIDE DEF sum
<1>8. sum[0] = 0 /\ \A j \in 1 .. n : sum[j] = sum[j - 1] + add(j)
  <2>1. sum[0] = 0
    BY <1>0, <1>7
  <2>2. ASSUME NEW j \in 1 .. n PROVE sum[j] = sum[j - 1] + add(j)
    <3>1. j \in 0 .. n /\ j # 0
      BY <1>0
    <3> QED
      BY <1>7, <3>1
  <2> QED
    BY <2>1, <2>2
<1> DEFINE S == {i \in Nat : i \in 0 .. n /\ sum[i] \notin Nat}
<1>9. S = {}
  <2> SUFFICES ASSUME S # {}
               PROVE  FALSE
    OBVIOUS
  <2>1. PICK i \in S : \A y \in S : i <= y
    <3>1. S \subseteq Nat
      OBVIOUS
    <3> QED
      BY <3>1, Least
  <2>2. i \in 0 .. n /\ sum[i] \notin Nat /\ i # 0
    BY <1>8, <2>1
  <2>3. /\ i \in 1 .. n /\ i - 1 \in 0 .. n /\ i - 1 \in Nat /\ ~ (i <= i - 1)
    BY <1>0, <2>2
  <2>4. sum[i - 1] \in Nat
    BY <2>1, <2>3
  <2>5. sum[i] = sum[i - 1] + add(i) /\ add(i) \in Nat
    BY <1>0, <1>8, <2>3
  <2> QED
    BY <2>2, <2>4, <2>5
<1>10. sum \in [0 .. n -> Nat]
  <2>1. \A i \in 0 .. n : i \in Nat
    BY <1>0
  <2>2. \A i \in 0 .. n : sum[i] \in Nat
    BY <1>9, <2>1
  <2>3. sum = [i \in 0 .. n |-> sum[i]]
    BY ONLY <1>7
  <2> HIDE DEF n
  <2> QED
    BY ONLY <2>2, <2>3
<1>11. Sums(sum, bits)
  BY <1>8, <1>10 DEF Sums, add
<1> QED
  BY <1>1, <1>11

(* The first j bits are the lowest ones of the number.                     *)
LEMMA SumRange ==
  ASSUME NEW bits \in Seq(Bits), NEW f, Sums(f, bits), NEW j \in 0 .. Len(bits)
  PROVE  f[j] \in 0 .. 2 ^ j - 1
<1> DEFINE n == Len(bits)
           p(k) == 2 ^ k
           S == {k \in Nat : k \in 0 .. n /\ ~ (f[k] < p(k))}
<1>0. n \in Nat /\ \A k \in 1 .. n : bits[k] \in Bits
  BY BitsTyped
<1>1. p(0) = 1 /\ \A k \in Nat : p(k) \in Nat /\ p(k + 1) = 2 * p(k)
  BY PowerTyped, PowerStep
<1>2. /\ \A k \in 0 .. n : f[k] \in Nat
      /\ f[0] = 0 /\ \A k \in 1 .. n : f[k] = f[k - 1] + bits[k] * p(k - 1)
  BY DEF Sums
<1>3. j \in 0 .. n
  OBVIOUS
<1> HIDE DEF n, p
<1>4. S = {}
  <2> SUFFICES ASSUME S # {}
               PROVE  FALSE
    OBVIOUS
  <2>1. PICK k \in S : \A y \in S : k <= y
    <3>1. S \subseteq Nat
      OBVIOUS
    <3> QED
      BY <3>1, Least
  <2>2. k \in 0 .. n /\ ~ (f[k] < p(k)) /\ k # 0
    <3>1. f[0] < p(0)
      <4>1. f[0] = 0 /\ p(0) = 1
        BY <1>1, <1>2
      <4> QED
        BY <4>1
    <3>2. k \in 0 .. n /\ ~ (f[k] < p(k))
      BY <2>1
    <3> QED
      BY <3>1, <3>2
  <2>3. /\ k \in 1 .. n /\ k - 1 \in 0 .. n /\ k - 1 \in Nat /\ k - 1 + 1 = k
        /\ ~ (k <= k - 1)
    BY <1>0, <2>2
  <2> DEFINE x == f[k - 1]
             y == p(k - 1)
             b == bits[k]
  <2>4. x < y
    BY <2>1, <2>3
  <2>5. x \in Nat /\ y \in Nat /\ (b = 0 \/ b = 1)
    BY <1>0, <1>1, <1>2, <2>3 DEF Bits
  <2>6. f[k] = x + b * y /\ p(k) = 2 * y
    BY <1>1, <1>2, <2>3
  <2> HIDE DEF x, y, b
  <2>7. b * y = 0 \/ b * y = y
    BY <2>5
  <2>8. x + b * y < 2 * y
    BY <2>4, <2>5, <2>7
  <2> QED
    BY <2>2, <2>6, <2>8
<1>5. f[j] \in Nat /\ p(j) \in Nat /\ f[j] < p(j)
  <2>1. j \in Nat
    BY <1>0, <1>3
  <2>2. p(j) \in Nat
    BY <1>1, <2>1
  <2>3. f[j] \in Nat
    BY <1>2, <1>3
  <2>4. ~ (j \in S)
    BY <1>4
  <2>5. f[j] < p(j)
    BY <1>3, <2>1, <2>4
  <2> QED
    BY <2>2, <2>3, <2>5
<1>6. f[j] \in 0 .. p(j) - 1
  BY <1>5
<1> QED
  BY <1>6 DEF p

LEMMA SumSplits ==
  ASSUME NEW bits \in Seq(Bits), NEW f, Sums(f, bits),
         NEW i \in 0 .. Len(bits), NEW j \in i .. Len(bits)
  PROVE  \E k \in Nat : f[j] = 2 ^ i * k + f[i]
<1> DEFINE n == Len(bits)
           p(m) == 2 ^ m
           Split(m) == \E k \in Nat : f[m] = p(i) * k + f[i]
           S == {m \in Nat : m \in i .. n /\ ~ Split(m)}
<1>0. n \in Nat /\ \A k \in 1 .. n : bits[k] \in Bits
  BY BitsTyped
<1>1. \A k \in Nat : p(k) \in Nat
  BY PowerTyped
<1>2. \A a, b \in Nat : p(a + b) = p(a) * p(b)
  BY PowerAdd
<1>3. /\ \A k \in 0 .. n : f[k] \in Nat
      /\ \A k \in 1 .. n : f[k] = f[k - 1] + bits[k] * p(k - 1)
  BY DEF Sums
<1>4. i \in 0 .. n /\ j \in i .. n
  OBVIOUS
<1> HIDE DEF n, p
<1>5. S = {}
  <2> SUFFICES ASSUME S # {}
               PROVE  FALSE
    OBVIOUS
  <2>1. PICK m \in S : \A y \in S : m <= y
    <3>1. S \subseteq Nat
      OBVIOUS
    <3> QED
      BY <3>1, Least
  <2>2. m \in i .. n /\ m \in Nat /\ ~ Split(m)
    BY <2>1
  <2>3. m # i
    <3> DEFINE u == p(i)
               v == f[i]
    <3>0. i \in Nat
      BY <1>0, <1>4
    <3>1. u \in Nat /\ v \in Nat
      BY <1>1, <1>3, <1>4, <3>0
    <3>2. v = u * 0 + v
      <4> HIDE DEF u, v
      <4>1. u * 0 = 0
        BY <3>1
      <4> QED
        BY <3>1, <4>1
    <3>3. Split(i)
      BY <3>2
    <3> QED
      BY <2>2, <3>3
  <2>4. /\ m - 1 \in i .. n /\ m - 1 \in Nat /\ ~ (m <= m - 1) /\ m \in 1 .. n
        /\ m - 1 - i \in Nat /\ i + (m - 1 - i) = m - 1 /\ i \in Nat
    BY <1>0, <1>4, <2>2, <2>3
  <2>5. Split(m - 1)
    BY <2>1, <2>4
  <2>6. PICK k \in Nat : f[m - 1] = p(i) * k + f[i]
    BY <2>5
  <2> DEFINE x == p(i)
             y == p(m - 1 - i)
             b == bits[m]
  <2>7. x \in Nat /\ y \in Nat /\ b \in Nat /\ f[i] \in Nat
    <3>1. x \in Nat /\ y \in Nat
      BY <1>1, <2>4
    <3>2. b \in Nat
      <4>1. bits[m] \in Bits
        BY <1>0, <2>4
      <4> QED
        BY <4>1 DEF Bits
    <3>3. f[i] \in Nat
      BY <1>3, <1>4
    <3> QED
      BY <3>1, <3>2, <3>3
  <2>8. f[m] = x * k + f[i] + b * (x * y)
    <3>1. p(m - 1) = x * y
      BY <1>2, <2>4
    <3>2. f[m] = f[m - 1] + b * p(m - 1)
      BY <1>3, <2>4
    <3> QED
      BY <2>6, <3>1, <3>2
  <2> HIDE DEF x, y, b, Split
  <2>9. x * k + f[i] + b * (x * y) = x * (k + b * y) + f[i] /\ k + b * y \in Nat
    <3>1. b * (x * y) = x * (b * y) /\ b * y \in Nat /\ x * k \in Nat
      BY <2>7, SMTT(30)
    <3> DEFINE z == b * y
    <3>0. z \in Nat
      <4>1. b * y \in Nat
        BY <3>1
      <4> QED
        BY ONLY <4>1
    <3>2. x * (k + z) = x * k + x * z /\ z \in Nat /\ x * z \in Nat
      <4> HIDE DEF z
      <4> QED
        BY <2>7, <3>0, SMTT(30)
    <3>3. b * (x * y) = x * z
      BY <3>1
    <3>4. k + z \in Nat
      BY <3>2
    <3> HIDE DEF z
    <3>5. x * k + f[i] + x * z = x * (k + z) + f[i]
      BY <2>7, <3>1, <3>2
    <3> QED
      BY <3>3, <3>4, <3>5 DEF z
  <2>10. Split(m)
    BY <2>8, <2>9 DEF Split, x
  <2> QED
    BY <2>2, <2>10
<1>6. Split(j)
  BY <1>0, <1>4, <1>5
<1> QED
  BY <1>6 DEF p

LEMMA ReverseRange ==
  ASSUME NEW bits \in Seq(Bits)
  PROVE  reverse(bits) \in 0 .. 2 ^ Len(bits) - 1
<1>1. PICK f : Sums(f, bits) /\ reverse(bits) = f[Len(bits)]
  BY ReverseSteps
<1>2. Len(bits) \in 0 .. Len(bits)
  BY BitsTyped
<1> QED
  BY <1>1, <1>2, SumRange

(* decode_reverse_bit_tree brings every number too, the first bit as its   *)
(* lowest one.                                                             *)
LEMMA ReverseBits ==
  ASSUME NEW bits \in Seq(Bits)
  PROVE  Format!LowFirst(reverse(bits), Len(bits)) = bits
<1> DEFINE n == Len(bits)
<1>0. n \in Nat /\ \A i \in 1 .. n : bits[i] \in Bits
  BY BitsTyped
<1>1. ASSUME NEW i \in 1 .. n
      PROVE  (reverse(bits) \div 2 ^ (i - 1)) % 2 = bits[i]
  <2>1. i \in 0 .. n /\ n \in i .. n /\ i - 1 \in 0 .. n /\ i - 1 \in Nat /\ i - 1 + 1 = i
    BY <1>0
  <2>2. PICK f : Sums(f, bits) /\ reverse(bits) = f[n]
    BY ReverseSteps
  <2>3. PICK k \in Nat : f[n] = 2 ^ i * k + f[i]
    BY <2>1, <2>2, SumSplits
  <2> DEFINE x == f[i - 1]
             q == 2 ^ (i - 1)
             b == bits[i]
             t == reverse(bits)
  <2>4. x \in 0 .. q - 1 /\ q \in Nat /\ (b = 0 \/ b = 1) /\ q >= 1
    BY <1>0, <2>1, <2>2, SumRange, PowerTyped DEF Bits
  <2>5. t = (2 * q) * k + (x + b * q)
    <3>1. f[i] = x + b * q
      BY <2>2 DEF Sums
    <3>2. 2 ^ i = 2 * q
      <4>1. 2 ^ (i - 1 + 1) = 2 * q
        BY <2>1, PowerStep
      <4> QED
        BY <2>1, <4>1
    <3> QED
      BY <2>2, <2>3, <3>1, <3>2
  <2> HIDE DEF x, q, b, t
  <2>6. t = q * (2 * k + b) + x
    <3>1. (2 * q) * k = q * (2 * k) /\ (2 * q) * k \in Nat
      BY <2>4, SMTT(30)
    <3>2. b * q = q * b /\ q * b \in Nat
      BY <2>4
    <3>3. q * (2 * k + b) = q * (2 * k) + q * b
      BY <2>4, SMTT(30)
    <3> DEFINE u == q * (2 * k)
               v == q * b
    <3>4. t = u + (x + v) /\ q * (2 * k + b) = u + v /\ u \in Nat /\ v \in Nat
      BY <2>5, <3>1, <3>2, <3>3
    <3> HIDE DEF u, v
    <3> QED
      BY <2>4, <3>4
  <2>7. (t \div q) % 2 = b
    <3> DEFINE d == 2 * k + b
    <3>1. d \in Nat /\ t = q * d + x /\ b \in 0 .. 2 - 1
      BY <2>4, <2>6
    <3>2. d % 2 = b
      BY <3>1, QuotientUnique
    <3> HIDE DEF d
    <3>3. t \in Nat
      <4>1. q * d \in Nat
        BY <2>4, <3>1, SMTT(30)
      <4> QED
        BY <2>4, <3>1, <4>1
    <3>4. t \div q = d
      BY <2>4, <3>1, <3>3, QuotientUnique
    <3> QED
      BY <3>2, <3>4
  <2> QED
    BY <2>7 DEF t, q, b
<1>2. Format!LowFirst(reverse(bits), n)
        = [i \in 1 .. n |-> (reverse(bits) \div 2 ^ (i - 1)) % 2]
  BY DEF Format!LowFirst, Format!Bit
<1>3. bits = [i \in 1 .. n |-> bits[i]]
  OBVIOUS
<1> HIDE DEF n
<1>4. [i \in 1 .. n |-> (reverse(bits) \div 2 ^ (i - 1)) % 2] = [i \in 1 .. n |-> bits[i]]
  BY <1>1
<1> QED
  BY <1>2, <1>3, <1>4 DEF n

(* The bit that is shifted out at the top of the match byte.               *)
Guess(m, k) == (m \div 2 ^ (LitBits - k)) % 2

LEMMA GuessTyped ==
  ASSUME NEW m \in Nat, NEW i \in 1 .. LitBits, LitBits \in Nat
  PROVE  Guess(m, i) \in Bits
<1> DEFINE p == 2 ^ (LitBits - i)
           q == m \div p
<1>1. LitBits - i \in Nat
  OBVIOUS
<1>2. p \in Nat /\ p > 0
  BY <1>1, PowerTyped
<1> HIDE DEF p
<1>3. q \in Nat
  BY <1>2, DivMod
<1> HIDE DEF q
<1>4. q % 2 \in 0 .. 2 - 1
  BY <1>3, DivMod
<1> QED
  BY <1>4 DEF Guess, q, p, Bits

LEMMA ShiftedBit ==
  ASSUME NEW m \in Nat, NEW i \in 1 .. LitBits, LitBits \in Nat
  PROVE  ((2 * (m * 2 ^ (i - 1))) \div 2 ^ LitBits) % 2 = Guess(m, i)
<1> DEFINE p == 2 ^ (LitBits - i)
           h == 2 ^ (i - 1)
           t == 2 ^ LitBits
           q == m \div p
           r == m % p
<1>1. LitBits - i \in Nat /\ i - 1 \in Nat /\ i - 1 + 1 = i /\ i \in Nat
      /\ LitBits - i + i = LitBits
  OBVIOUS
<1>2. p \in Nat /\ p > 0 /\ h \in Nat /\ h > 0
  BY <1>1, PowerTyped
<1>3. t = p * (2 * h)
  <2>1. 2 ^ (LitBits - i + i) = 2 ^ (LitBits - i) * 2 ^ i
    BY <1>1, PowerAdd
  <2>2. 2 ^ (i - 1 + 1) = 2 * h
    BY <1>1, PowerStep
  <2> QED
    BY <1>1, <2>1, <2>2
<1> HIDE DEF p, h, t
<1>4. m = p * q + r /\ r \in 0 .. p - 1 /\ q \in Nat
  BY <1>2, DivMod
<1> HIDE DEF q, r
<1> DEFINE w == 2 * h
           u == p * w
           v == r * w
           x == w * m
<1>5. w \in Nat /\ w > 0
  BY <1>2
<1>6. 2 * (m * h) = x
  BY <1>2, SMTT(30)
<1> HIDE DEF w
<1>7. u \in Nat /\ u > 0 /\ x \in Nat
  BY <1>2, <1>5, SMTT(30)
<1>8. x = u * q + v
  <2>1. w * (p * q + r) = w * (p * q) + w * r
    BY <1>2, <1>4, <1>5, SMTT(30)
  <2>2. w * (p * q) = (p * w) * q /\ w * r = r * w
    BY <1>2, <1>4, <1>5, SMTT(30)
  <2> QED
    BY <1>4, <2>1, <2>2
<1>9. v \in 0 .. u - 1
  <2>1. r + 1 <= p /\ r \in Nat /\ r + 1 \in Nat
    BY <1>2, <1>4
  <2>2. (r + 1) * w <= p * w /\ (r + 1) * w = r * w + w /\ r * w \in Nat
    BY <1>2, <1>5, <2>1, ProductMonotone, SMTT(30)
  <2> QED
    BY <1>5, <1>7, <2>2
<1> HIDE DEF u, v, x
<1>10. x \div u = q
  BY <1>4, <1>7, <1>8, <1>9, QuotientUnique
<1>11. t = u
  BY <1>3 DEF u, w
<1>12. (2 * (m * h)) \div t = q
  BY <1>6, <1>10, <1>11
<1> QED
  BY <1>12 DEF Guess, q, p, h, t

(* The loop that keeps to the match byte, round by round.                  *)
Rnd == [match_byte : Nat, offset : {0, 2 ^ LitBits}, column : Nat]

MatchBit(s) == (((2 * s.match_byte) \div 2 ^ LitBits) % 2) * s.offset

Shifts(bits, i, s) ==
  [match_byte |-> 2 * s.match_byte,
   offset |-> offset_after(s.offset, MatchBit(s), bits[i]),
   column |-> s.offset + MatchBit(s) + place(bits, i - 1)]

LEMMA MatchBitTyped ==
  ASSUME NEW s \in Rnd, LitBits \in Nat
  PROVE  MatchBit(s) = 0 \/ MatchBit(s) = s.offset
<1> DEFINE p == 2 ^ LitBits
           x == 2 * s.match_byte
           d == x \div p
           b == d % 2
           o == s.offset
<1>1. s.match_byte \in Nat /\ o \in {0, p}
  BY DEF Rnd
<1>2. p \in Nat /\ p > 0
  BY PowerTyped
<1>3. x \in Nat
  BY <1>1
<1> HIDE DEF p, x
<1>4. d \in Nat
  BY <1>2, <1>3, DivMod
<1> HIDE DEF d
<1>5. b \in 0 .. 2 - 1
  BY <1>4, DivMod
<1>6. o \in Nat
  BY <1>1, <1>2
<1>7. MatchBit(s) = b * o
  BY DEF MatchBit, b, d, x, p, o
<1> HIDE DEF b, o
<1>8. b = 0 \/ b = 1
  BY <1>5
<1>9. b * o = 0 \/ b * o = o
  BY <1>6, <1>8
<1> QED
  BY <1>7, <1>9 DEF o

LEMMA ShiftsTyped ==
  ASSUME NEW bits \in Seq(Bits), NEW i \in 1 .. Len(bits), NEW s \in Rnd, LitBits \in Nat
  PROVE  Shifts(bits, i, s) \in Rnd
<1> DEFINE p == 2 ^ LitBits
           o == s.offset
           c == MatchBit(s)
           a == place(bits, i - 1)
           m == s.match_byte
<1>1. m \in Nat /\ o \in {0, p} /\ p \in Nat
  BY PowerTyped DEF Rnd
<1>2. c = 0 \/ c = o
  BY MatchBitTyped
<1>3. a \in Nat
  <2>1. i - 1 \in 0 .. Len(bits)
    BY BitsTyped
  <2> QED
    BY <2>1, PlaceSteps
<1>4. Shifts(bits, i, s)
        = [match_byte |-> 2 * m, offset |-> offset_after(o, c, bits[i]), column |-> o + c + a]
  BY DEF Shifts
<1> HIDE DEF o, c, a, m, p
<1>5. offset_after(o, c, bits[i]) \in {0, p}
  BY <1>1, <1>2 DEF offset_after
<1>6. o + c + a \in Nat /\ 2 * m \in Nat
  BY <1>1, <1>2, <1>3
<1> QED
  BY <1>4, <1>5, <1>6 DEF Rnd, p

Turns(f, bits, m) ==
  /\ f \in [0 .. Len(bits) -> Rnd]
  /\ f[0] = [match_byte |-> m, offset |-> 2 ^ LitBits, column |-> 0]
  /\ \A i \in 1 .. Len(bits) : f[i] = Shifts(bits, i, f[i - 1])

LEMMA MatchedSteps ==
  ASSUME NEW bits \in Seq(Bits), NEW m \in Nat, LitBits \in Nat
  PROVE  \E f : /\ Turns(f, bits, m)
                /\ MatchedColumns(bits, m) = [i \in 1 .. Len(bits) |-> f[i].column]
<1> DEFINE n == Len(bits)
           first == [match_byte |-> m, offset |-> 2 ^ LitBits, column |-> 0]
           Rule(f) == f = [i \in 0 .. n |-> IF i = 0 THEN first ELSE Shifts(bits, i, f[i - 1])]
           loop == CHOOSE f : Rule(f)
           G == [y \in (1 .. n) \X Rnd |-> Shifts(bits, y[1], y[2])]
<1>0. n \in Nat
  BY BitsTyped
<1>1. MatchedColumns(bits, m) = [i \in 1 .. n |-> loop[i].column]
  BY DEF MatchedColumns, Shifts, MatchBit
<1>2. first \in Rnd
  BY DEF Rnd
<1>3. \A i \in 1 .. n, s \in Rnd : Shifts(bits, i, s) \in Rnd
  BY ShiftsTyped
<1> HIDE DEF first
<1>4. G \in [(1 .. n) \X Rnd -> Rnd]
  BY <1>3
<1>5. PICK f : Rounds(f, G, Rnd, first, n)
  <2> HIDE DEF G, n
  <2> QED
    BY <1>0, <1>2, <1>4, RoundsExist
<1>6. f \in [0 .. n -> Rnd] /\ f[0] = first
  BY <1>5 DEF Rounds
<1>7. \A j \in 1 .. n : f[j] = Shifts(bits, j, f[j - 1])
  <2> SUFFICES ASSUME NEW j \in 1 .. n
               PROVE  f[j] = Shifts(bits, j, f[j - 1])
    OBVIOUS
  <2>1. f[j] = G[<<j, f[j - 1]>>]
    BY <1>5 DEF Rounds
  <2>2. j - 1 \in 0 .. n
    BY <1>0
  <2>3. <<j, f[j - 1]>> \in (1 .. n) \X Rnd
    BY <1>6, <2>2
  <2> QED
    BY <2>1, <2>3
<1>8. Rule(f)
  BY <1>0, <1>6, <1>7
<1>9. Rule(loop)
  BY <1>8
<1> HIDE DEF loop
<1>10. loop[0] = first /\ \A j \in 1 .. n : loop[j] = Shifts(bits, j, loop[j - 1])
  <2>1. loop[0] = first
    BY <1>0, <1>9
  <2>2. ASSUME NEW j \in 1 .. n PROVE loop[j] = Shifts(bits, j, loop[j - 1])
    <3>1. j \in 0 .. n /\ j # 0
      BY <1>0
    <3> QED
      BY <1>9, <3>1
  <2> QED
    BY <2>1, <2>2
<1> DEFINE S == {i \in Nat : i \in 0 .. n /\ loop[i] \notin Rnd}
<1>11. S = {}
  <2> SUFFICES ASSUME S # {}
               PROVE  FALSE
    OBVIOUS
  <2>1. PICK i \in S : \A y \in S : i <= y
    <3>1. S \subseteq Nat
      OBVIOUS
    <3> QED
      BY <3>1, Least
  <2>2. i \in 0 .. n /\ loop[i] \notin Rnd /\ i # 0
    BY <1>2, <1>10, <2>1
  <2>3. /\ i \in 1 .. n /\ i - 1 \in 0 .. n /\ i - 1 \in Nat /\ ~ (i <= i - 1)
    BY <1>0, <2>2
  <2>4. loop[i - 1] \in Rnd
    BY <2>1, <2>3
  <2>5. loop[i] = Shifts(bits, i, loop[i - 1])
    BY <1>10, <2>3
  <2> QED
    BY <1>3, <2>2, <2>3, <2>4, <2>5
<1>12. loop \in [0 .. n -> Rnd]
  <2>1. \A i \in 0 .. n : i \in Nat
    BY <1>0
  <2>2. \A i \in 0 .. n : loop[i] \in Rnd
    BY <1>11, <2>1
  <2>3. loop = [i \in 0 .. n |-> loop[i]]
    BY ONLY <1>9
  <2> HIDE DEF n
  <2> QED
    BY ONLY <2>2, <2>3
<1>13. Turns(loop, bits, m)
  BY <1>10, <1>12 DEF Turns, first
<1> QED
  BY <1>1, <1>13

(* All bits up to the i-th are the match byte's.                           *)
Agree(bits, m, i) == \A k \in 1 .. i : bits[k] = Guess(m, k)

LEMMA AgreeStep ==
  ASSUME NEW bits, NEW m, NEW i \in Nat, i > 0
  PROVE  Agree(bits, m, i) <=> Agree(bits, m, i - 1) /\ bits[i] = Guess(m, i)
<1>1. \A k : k \in 1 .. i <=> k \in 1 .. i - 1 \/ k = i
  OBVIOUS
<1> QED
  BY <1>1 DEF Agree

(* The match byte has been shifted i times; it counts until it has been    *)
(* left.                                                                   *)
LEMMA TurnsLead ==
  ASSUME NEW bits \in Seq(Bits), NEW m \in Nat, LitBits \in Nat, Len(bits) = LitBits,
         NEW f, Turns(f, bits, m), NEW j \in 0 .. LitBits
  PROVE  /\ f[j].match_byte = m * 2 ^ j
         /\ Agree(bits, m, j) => f[j].offset = 2 ^ LitBits
         /\ ~ Agree(bits, m, j) => f[j].offset = 0
<1> DEFINE n == LitBits
           w == 2 ^ LitBits
           P(i) == /\ f[i].match_byte = m * 2 ^ i
                   /\ Agree(bits, m, i) => f[i].offset = w
                   /\ ~ Agree(bits, m, i) => f[i].offset = 0
           S == {i \in Nat : i \in 0 .. n /\ ~ P(i)}
<1>0. n \in Nat /\ w \in Nat /\ w >= 1 /\ \A k \in 1 .. n : bits[k] \in Bits
  BY BitsTyped, PowerTyped
<1>1. P(0)
  <2>1. f[0].match_byte = m /\ f[0].offset = w
    BY DEF Turns
  <2>2. Agree(bits, m, 0)
    BY DEF Agree
  <2>3. m * 2 ^ 0 = m
    OBVIOUS
  <2> QED
    BY <2>1, <2>2, <2>3
<1>2. ASSUME NEW i \in 1 .. n, P(i - 1)
      PROVE  P(i)
  <2> DEFINE s == f[i - 1]
             o == s.offset
             g == Guess(m, i)
             b == bits[i]
  <2>1. i \in Nat /\ i > 0 /\ i - 1 \in 0 .. n /\ i - 1 \in Nat /\ i - 1 + 1 = i
    BY <1>0
  <2>2. s \in Rnd
    BY <2>1 DEF Turns
  <2>3. f[i] = Shifts(bits, i, s)
    BY DEF Turns
  <2>4. f[i].match_byte = 2 * s.match_byte /\ f[i].offset = offset_after(o, MatchBit(s), b)
    BY <2>3 DEF Shifts
  <2>5. s.match_byte = m * 2 ^ (i - 1)
    BY <1>2
  <2>6. MatchBit(s) = g * o
    <3>1. ((2 * (m * 2 ^ (i - 1))) \div 2 ^ LitBits) % 2 = g
      BY <1>0, ShiftedBit
    <3> QED
      BY <2>5, <3>1 DEF MatchBit
  <2>7. g = 0 \/ g = 1
    <3>1. g \in Bits
      BY <1>0, GuessTyped
    <3> QED
      BY <3>1 DEF Bits
  <2>8. b = 0 \/ b = 1
    BY <1>0 DEF Bits
  <2>9. f[i].match_byte = m * 2 ^ i
    <3> DEFINE h == 2 ^ (i - 1)
    <3>1. h \in Nat
      BY <2>1, PowerTyped
    <3>2. 2 ^ (i - 1 + 1) = 2 * h
      BY <2>1, PowerStep
    <3>3. 2 ^ i = 2 * h
      BY <2>1, <3>2
    <3>4. f[i].match_byte = 2 * (m * h)
      BY <2>4, <2>5
    <3> HIDE DEF h
    <3>5. 2 * (m * h) = m * (2 * h)
      BY <3>1, SMTT(30)
    <3> QED
      BY <3>3, <3>4, <3>5
  <2>10. Agree(bits, m, i) <=> Agree(bits, m, i - 1) /\ b = g
    BY <2>1, AgreeStep
  <2>11. Agree(bits, m, i - 1) => o = w
    BY <1>2
  <2>12. ~ Agree(bits, m, i - 1) => o = 0
    BY <1>2
  <2> DEFINE c == MatchBit(s)
             z == f[i].offset
  <2>13. z = offset_after(o, c, b) /\ c = g * o
    BY <2>4, <2>6
  <2> HIDE DEF s, o, g, b, w, c, z
  <2>14. CASE Agree(bits, m, i - 1)
    <3>0. c = g * w /\ w \in Nat
      BY <1>0, <2>11, <2>13, <2>14
    <3>1. (c = 0 /\ g = 0) \/ (c = w /\ g = 1)
      <4>1. 0 * w = 0 /\ 1 * w = w
        BY ONLY <3>0
      <4> QED
        BY ONLY <2>7, <3>0, <4>1
    <3>2. z = IF b = 1 THEN c ELSE w - c
      BY <2>11, <2>13, <2>14 DEF offset_after
    <3>3. b = g => z = w
      BY <1>0, <2>8, <3>1, <3>2
    <3>4. b # g => z = 0
      BY <1>0, <2>8, <3>1, <3>2
    <3> QED
      BY <2>9, <2>10, <2>14, <3>3, <3>4 DEF z, w
  <2>15. CASE ~ Agree(bits, m, i - 1)
    <3>1. c = 0
      BY <2>7, <2>12, <2>13, <2>15
    <3>2. z = 0
      BY <2>12, <2>13, <2>15, <3>1 DEF offset_after
    <3> QED
      BY <2>9, <2>10, <2>15, <3>2 DEF z, w
  <2> QED
    BY <2>14, <2>15
<1> HIDE DEF P
<1>3. S = {}
  <2> SUFFICES ASSUME S # {}
               PROVE  FALSE
    OBVIOUS
  <2>1. PICK i \in S : \A y \in S : i <= y
    <3>1. S \subseteq Nat
      OBVIOUS
    <3> QED
      BY <3>1, Least
  <2>2. i \in 0 .. n /\ ~ P(i) /\ i # 0
    BY <1>1, <2>1
  <2>3. /\ i \in 1 .. n /\ i - 1 \in 0 .. n /\ i - 1 \in Nat /\ ~ (i <= i - 1)
    BY <1>0, <2>2
  <2>4. P(i - 1)
    BY <2>1, <2>3
  <2> QED
    BY <1>2, <2>2, <2>3, <2>4
<1>4. j \in Nat /\ j \in 0 .. n
  BY <1>0
<1>5. P(j)
  BY <1>3, <1>4
<1> QED
  BY <1>5 DEF P, w

(* The column of a bit of a literal after a match.                         *)
LEMMA ColumnOf ==
  ASSUME NEW bits \in Seq(Bits), NEW m \in Nat, LitBits \in Nat, Len(bits) = LitBits,
         NEW i \in 1 .. LitBits
  PROVE  /\ MatchedColumns(bits, m)[i]
              = IF Agree(bits, m, i - 1)
                THEN 2 ^ LitBits * (1 + Guess(m, i)) + place(bits, i - 1)
                ELSE place(bits, i - 1)
         /\ MatchedColumns(bits, m)[i] \in 1 .. 3 * 2 ^ LitBits - 1
<1> DEFINE w == 2 ^ LitBits
           g == Guess(m, i)
           p == place(bits, i - 1)
           h == 2 ^ (i - 1)
<1>1. PICK f : /\ Turns(f, bits, m)
               /\ MatchedColumns(bits, m) = [k \in 1 .. Len(bits) |-> f[k].column]
  BY MatchedSteps
<1> DEFINE s == f[i - 1]
           o == s.offset
           z == MatchedColumns(bits, m)[i]
<1>2. i - 1 \in 0 .. LitBits /\ i - 1 \in Nat /\ i - 1 + 1 = i /\ i <= LitBits /\ i \in Nat
  OBVIOUS
<1>3. f[i] = Shifts(bits, i, s)
  BY <1>1 DEF Turns
<1>4. z = o + MatchBit(s) + p
  <2>1. z = f[i].column
    BY <1>1
  <2>2. f[i].column = o + MatchBit(s) + p
    BY <1>3 DEF Shifts
  <2> QED
    BY <2>1, <2>2
<1>5. MatchBit(s) = g * o
  <2>1. s.match_byte = m * 2 ^ (i - 1)
    BY <1>1, <1>2, TurnsLead
  <2>2. ((2 * (m * 2 ^ (i - 1))) \div 2 ^ LitBits) % 2 = g
    BY ShiftedBit
  <2> QED
    BY <2>1, <2>2 DEF MatchBit
<1>6. Agree(bits, m, i - 1) => o = w
  BY <1>1, <1>2, TurnsLead
<1>7. ~ Agree(bits, m, i - 1) => o = 0
  BY <1>1, <1>2, TurnsLead
<1>8. g = 0 \/ g = 1
  BY GuessTyped DEF Bits
<1>9. p \in h .. 2 * h - 1 /\ h \in Nat /\ h >= 1
  BY <1>2, PlaceRange, PowerTyped
<1>10. w \in Nat /\ 2 * h <= w
  <2>1. 2 ^ (i - 1 + 1) = 2 * h
    BY <1>2, PowerStep
  <2>2. 2 ^ i <= w
    BY <1>2, PowerMonotone
  <2> QED
    BY <1>2, <2>1, <2>2, PowerTyped
<1> DEFINE c == MatchBit(s)
<1>11. z = o + c + p /\ c = g * o
  BY <1>4, <1>5
<1> HIDE DEF w, g, p, h, s, o, z, c
<1>12. CASE Agree(bits, m, i - 1)
  <2>0. c = g * w /\ w \in Nat
    BY <1>6, <1>10, <1>11, <1>12
  <2>1. (c = 0 /\ g = 0) \/ (c = w /\ g = 1)
    <3>1. 0 * w = 0 /\ 1 * w = w
      BY ONLY <2>0
    <3> QED
      BY ONLY <1>8, <2>0, <3>1
  <2>2. z = w + c + p
    BY <1>6, <1>11, <1>12
  <2>3. w * (1 + g) = w + c
    BY <1>10, <2>1
  <2>4. z \in 1 .. 3 * w - 1
    BY <1>9, <1>10, <2>1, <2>2
  <2>5. z = w * (1 + g) + p
    BY <2>2, <2>3
  <2> QED
    BY <1>12, <2>4, <2>5 DEF z, w, g, p
<1>13. CASE ~ Agree(bits, m, i - 1)
  <2>1. c = 0 /\ o = 0
    BY <1>7, <1>8, <1>11, <1>13
  <2>2. z = p
    BY <1>9, <1>11, <2>1
  <2>3. z \in 1 .. 3 * w - 1
    BY <1>9, <1>10, <2>2
  <2> QED
    BY <1>13, <2>2, <2>3 DEF z, w, p
<1> QED
  BY <1>12, <1>13
-----------------------------------------------------------------------------
(* What the assumptions say, name by name.                                 *)
LEMMA Widths ==
  /\ LitBits \in Nat /\ LitBits >= 4 /\ LowBits \in Nat /\ MidBits \in Nat
  /\ HighBits \in Nat /\ WordBits \in Nat /\ WordBits >= 3
  /\ SlotBits \in Nat /\ ALIGN_BITS \in Nat
  BY WidthsAssumption

LEMMA SettingFacts ==
  ASSUME setting \in Settings
  PROVE  /\ setting.inputs \subseteq Seq(Bits) /\ setting.symbols \in Nat
         /\ setting.bytes \subseteq 0 .. 2 ^ LitBits - 1
         /\ setting.positions \subseteq Nat
         /\ setting.fills \subseteq 0 .. DictSize /\ setting.props \subseteq Nat
  BY SettingsAssumption DEF Bits

(* Half a word is a whole number of at least four.                         *)
LEMMA HalfWord ==
  /\ Word \in Nat /\ Word \div 2 \in Nat /\ Word = 2 * (Word \div 2)
  /\ Word \div 2 >= 4
<1> DEFINE h == 2 ^ (WordBits - 1)
<1>1. WordBits - 1 \in Nat /\ WordBits - 1 + 1 = WordBits /\ 2 <= WordBits - 1
  BY Widths
<1>2. h \in Nat
  BY <1>1, PowerTyped
<1>3. 2 ^ (WordBits - 1 + 1) = 2 * h
  BY <1>1, PowerStep
<1>4. Word = 2 * h
  BY <1>1, <1>3 DEF Word
<1>5. h >= 4
  <2>1. 2 ^ 2 <= h
    BY <1>1, PowerMonotone
  <2> QED
    BY <2>1
<1> HIDE DEF h
<1>6. Word \div 2 = h
  BY <1>2, <1>4
<1> QED
  BY <1>2, <1>4, <1>5, <1>6

Half == -(Word \div 2) .. Word \div 2 - 1

LEMMA SignedTyped ==
  ASSUME NEW n \in Nat
  PROVE  Signed(n) \in Half
<1> DEFINE w == Word
           h == Word \div 2
           r == n % Word
<1>1. w \in Nat /\ h \in Nat /\ w = 2 * h /\ h >= 4
  BY HalfWord
<1>2. r \in 0 .. w - 1
  BY <1>1, DivMod
<1>3. Signed(n) = IF r >= h THEN r - w ELSE r
  BY DEF Signed
<1> HIDE DEF w, h, r
<1>4. Signed(n) \in -h .. h - 1
  BY <1>1, <1>2, <1>3
<1> QED
  BY <1>4 DEF Half, h

(* The cells of a tree of its own size.                                    *)
LEMMA TreeCellsFit ==
  ASSUME NEW table, NEW row, NEW first \in Nat, NEW bits \in Seq(Bits), NEW T,
         \A c \in first + 1 .. first + 2 ^ Len(bits) - 1 : <<table, row, c>> \in T
  PROVE  TreeCells(table, row, first, bits) \in Seq(T)
<1> DEFINE n == Len(bits)
           w == 2 ^ n
<1>1. n \in Nat /\ w \in Nat
  BY BitsTyped, PowerTyped
<1>2. ASSUME NEW i \in 1 .. n
      PROVE  <<table, row, first + place(bits, i - 1)>> \in T
  <2> DEFINE h == 2 ^ (i - 1)
             p == place(bits, i - 1)
  <2>1. i - 1 \in 0 .. n /\ i - 1 \in Nat /\ i - 1 + 1 = i /\ i \in Nat /\ i <= n
    BY <1>1
  <2>2. p \in h .. 2 * h - 1 /\ h \in Nat /\ h >= 1
    BY <2>1, PlaceRange, PowerTyped
  <2>3. 2 * h <= w
    <3>1. 2 ^ (i - 1 + 1) = 2 * h
      BY <2>1, PowerStep
    <3>2. 2 ^ i <= w
      BY <1>1, <2>1, PowerMonotone
    <3> QED
      BY <2>1, <3>1, <3>2
  <2>4. \A c \in first + 1 .. first + w - 1 : <<table, row, c>> \in T
    OBVIOUS
  <2> HIDE DEF p, h, w
  <2>5. first + p \in first + 1 .. first + w - 1
    BY <1>1, <2>2, <2>3
  <2> QED
    BY <2>4, <2>5 DEF p
<1>3. TreeCells(table, row, first, bits)
        = [i \in 1 .. n |-> <<table, row, first + place(bits, i - 1)>>]
  BY DEF TreeCells
<1> HIDE DEF n
<1> QED
  BY <1>1, <1>2, <1>3

LEMMA PosStateFits ==
  ASSUME pb \in 0 .. 4, NEW pos \in Nat
  PROVE  PosState(pos) \in 0 .. POS_STATES_MAX - 1
<1> DEFINE p == 2 ^ pb
<1>1. pb \in Nat /\ pb <= 4
  OBVIOUS
<1>2. p \in Nat /\ p >= 1
  BY <1>1, PowerTyped
<1>3. 2 ^ pb <= 2 ^ 4
  BY <1>1, PowerMonotone
<1>4. p <= 16
  BY <1>3
<1> HIDE DEF p
<1>5. pos % p \in 0 .. p - 1
  BY <1>2, DivMod
<1> QED
  BY <1>2, <1>4, <1>5 DEF PosState, POS_STATES_MAX, p

LEMMA StringsTyped ==
  ASSUME setting \in Settings, NEW k \in Nat, NEW s \in Strings(k)
  PROVE  s \in Seq(Bits) /\ Len(s) = k
  BY SettingFacts DEF Strings

(* The bits of a length: which tree, and its bits.                         *)
LEMMA LengthShape ==
  ASSUME setting \in Settings, NEW bits \in LengthInputs
  PROVE  \E s \in Seq(Bits) :
           \/ bits = <<0>> \o s /\ Len(s) = LowBits
           \/ bits = <<1, 0>> \o s /\ Len(s) = MidBits
           \/ bits = <<1, 1>> \o s /\ Len(s) = HighBits
<1>1. CASE bits \in {<<0>> \o s : s \in Strings(LowBits)}
  <2>1. PICK s \in Strings(LowBits) : bits = <<0>> \o s
    BY <1>1
  <2>2. s \in Seq(Bits) /\ Len(s) = LowBits
    BY Widths, StringsTyped
  <2> QED
    BY <2>1, <2>2
<1>2. CASE bits \in {<<1, 0>> \o s : s \in Strings(MidBits)}
  <2>1. PICK s \in Strings(MidBits) : bits = <<1, 0>> \o s
    BY <1>2
  <2>2. s \in Seq(Bits) /\ Len(s) = MidBits
    BY Widths, StringsTyped
  <2> QED
    BY <2>1, <2>2
<1>3. CASE bits \in {<<1, 1>> \o s : s \in Strings(HighBits)}
  <2>1. PICK s \in Strings(HighBits) : bits = <<1, 1>> \o s
    BY <1>3
  <2>2. s \in Seq(Bits) /\ Len(s) = HighBits
    BY Widths, StringsTyped
  <2> QED
    BY <2>1, <2>2
<1> QED
  BY <1>1, <1>2, <1>3, Zenon DEF LengthInputs

LEMMA RestOfLow ==
  ASSUME NEW s \in Seq(Bits), NEW bits, bits = << 0 >> \o s
  PROVE  bits \in Seq(Bits) /\ bits[1] = 0 /\ Rest(bits) = s
<1>1. bits \in Seq(Bits) /\ Len(bits) = Len(s) + 1 /\ bits[1] = 0
  BY DEF Bits
<1>2. \A i \in 1 .. Len(s) : bits[i + 1] = s[i]
  OBVIOUS
<1>3. Tail(bits) \in Seq(Bits) /\ Len(Tail(bits)) = Len(s)
  BY <1>1
<1>4. \A i \in 1 .. Len(s) : Tail(bits)[i] = s[i]
  BY <1>1, <1>2
<1>5. Tail(bits) = s
  BY <1>3, <1>4
<1> QED
  BY <1>1, <1>5 DEF Rest

LEMMA RestOfOther ==
  ASSUME NEW s \in Seq(Bits), NEW b \in Bits, NEW bits, bits = <<1, b>> \o s
  PROVE  bits \in Seq(Bits) /\ bits[1] = 1 /\ bits[2] = b /\ Rest(bits) = s
<1>1. bits \in Seq(Bits) /\ Len(bits) = Len(s) + 2 /\ bits[1] = 1 /\ bits[2] = b
  BY DEF Bits
<1>2. \A i \in 1 .. Len(s) : bits[i + 2] = s[i]
  OBVIOUS
<1> DEFINE t == Tail(bits)
           u == Tail(t)
<1>3. t \in Seq(Bits) /\ Len(t) = Len(s) + 1 /\ \A i \in 1 .. Len(s) + 1 : t[i] = bits[i + 1]
  BY <1>1
<1> HIDE DEF t
<1>4. u \in Seq(Bits) /\ Len(u) = Len(s) /\ \A i \in 1 .. Len(s) : u[i] = t[i + 1]
  BY <1>3
<1> HIDE DEF u
<1>5. \A i \in 1 .. Len(s) : u[i] = s[i]
  <2> SUFFICES ASSUME NEW i \in 1 .. Len(s)
               PROVE  u[i] = s[i]
    OBVIOUS
  <2>1. i + 1 \in 1 .. Len(s) + 1 /\ i + 1 + 1 = i + 2
    OBVIOUS
  <2> QED
    BY <1>2, <1>3, <1>4, <2>1
<1>6. u = s
  BY <1>4, <1>5
<1>7. Rest(bits) = u
  BY <1>1 DEF Rest, u, t
<1> QED
  BY <1>1, <1>6, <1>7

(* The cells there are, as <<table, row, column>>.                         *)
Lengths == {"match_len", "rep_len"}

PosCells     == {"is_match", "is_rep0_long"} \X (0 .. STATES - 1) \X (0 .. POS_STATES_MAX - 1)
StateCells   == {"is_rep", "is_rep0", "is_rep1", "is_rep2"} \X (0 .. STATES - 1) \X {0}
ChoiceOnes   == Lengths \X {<<"choice", 0>>} \X (0 .. 1)
LowOnes      == Lengths \X ({"low"} \X (0 .. POS_STATES_MAX - 1)) \X (1 .. 2 ^ LowBits - 1)
MidOnes      == Lengths \X ({"mid"} \X (0 .. POS_STATES_MAX - 1)) \X (1 .. 2 ^ MidBits - 1)
HighOnes     == Lengths \X {<<"high", 0>>} \X (1 .. 2 ^ HighBits - 1)
LiteralOnes  == {"literal"} \X (0 .. 2 ^ (lc + lp) - 1) \X (1 .. 3 * 2 ^ LitBits - 1)
SlotOnes     == {"dist_slots"} \X (0 .. DIST_STATES - 1) \X (1 .. 2 ^ SlotBits - 1)
AlignOnes    == {"dist_align"} \X {0} \X (1 .. 2 ^ ALIGN_BITS - 1)
SpecialCells == UNION {DIST_SPECIAL_INDEX[i] + 1 .. DIST_SPECIAL_END[i] - 1 :
                         i \in 1 .. DIST_MODEL_END - DIST_MODEL_START}
SpecialOnes  == {"dist_special"} \X {0} \X SpecialCells

Placed ==
  PosCells \cup StateCells \cup ChoiceOnes \cup LowOnes \cup MidOnes \cup HighOnes
    \cup LiteralOnes \cup SlotOnes \cup AlignOnes \cup SpecialOnes

LEMMA PlacedThere ==
  ASSUME NEW c \in Placed
  PROVE  c[2] \in Rows(c) /\ c[3] \in Columns(c)
<1>1. CASE c \in PosCells
  <2>1. c[1] \in {"is_match", "is_rep0_long"} /\ c[2] \in 0 .. STATES - 1
        /\ c[3] \in 0 .. POS_STATES_MAX - 1
    BY <1>1 DEF PosCells
  <2> QED
    BY <2>1 DEF Rows, Columns
<1>2. CASE c \in StateCells
  <2>1. c[1] \in {"is_rep", "is_rep0", "is_rep1", "is_rep2"} /\ c[2] \in 0 .. STATES - 1
        /\ c[3] \in {0}
    BY <1>2 DEF StateCells
  <2> QED
    BY <2>1 DEF Rows, Columns
<1>3. CASE c \in ChoiceOnes
  <2>1. c[1] \in Lengths /\ c[2] = <<"choice", 0>> /\ c[3] \in 0 .. 1
    BY <1>3 DEF ChoiceOnes
  <2>2. c[2][1] = "choice"
    BY <2>1
  <2>3. c[2] \in Rows(c)
    BY <2>1 DEF Rows, Lengths
  <2>4. c[3] \in Columns(c)
    BY <2>1, <2>2 DEF Columns, Lengths
  <2> QED
    BY <2>3, <2>4
<1>4. CASE c \in LowOnes
  <2>1. c[1] \in Lengths /\ c[2] \in {"low"} \X (0 .. POS_STATES_MAX - 1)
        /\ c[3] \in 1 .. 2 ^ LowBits - 1
    BY <1>4 DEF LowOnes
  <2>2. c[2][1] = "low"
    BY <2>1
  <2>3. c[2] \in Rows(c)
    BY <2>1 DEF Rows, Lengths
  <2>4. c[3] \in Columns(c)
    BY <2>1, <2>2 DEF Columns, Lengths
  <2> QED
    BY <2>3, <2>4
<1>5. CASE c \in MidOnes
  <2>1. c[1] \in Lengths /\ c[2] \in {"mid"} \X (0 .. POS_STATES_MAX - 1)
        /\ c[3] \in 1 .. 2 ^ MidBits - 1
    BY <1>5 DEF MidOnes
  <2>2. c[2][1] = "mid"
    BY <2>1
  <2>3. c[2] \in Rows(c)
    BY <2>1 DEF Rows, Lengths
  <2>4. c[3] \in Columns(c)
    BY <2>1, <2>2 DEF Columns, Lengths
  <2> QED
    BY <2>3, <2>4
<1>6. CASE c \in HighOnes
  <2>1. c[1] \in Lengths /\ c[2] = <<"high", 0>> /\ c[3] \in 1 .. 2 ^ HighBits - 1
    BY <1>6 DEF HighOnes
  <2>2. c[2][1] = "high"
    BY <2>1
  <2>3. c[2] \in Rows(c)
    BY <2>1 DEF Rows, Lengths
  <2>4. c[3] \in Columns(c)
    BY <2>1, <2>2 DEF Columns, Lengths
  <2> QED
    BY <2>3, <2>4
<1>7. CASE c \in LiteralOnes
  <2>1. c[1] = "literal" /\ c[2] \in 0 .. 2 ^ (lc + lp) - 1
        /\ c[3] \in 1 .. 3 * 2 ^ LitBits - 1
    BY <1>7 DEF LiteralOnes
  <2> QED
    BY <2>1 DEF Rows, Columns
<1>8. CASE c \in SlotOnes
  <2>1. c[1] = "dist_slots" /\ c[2] \in 0 .. DIST_STATES - 1 /\ c[3] \in 1 .. 2 ^ SlotBits - 1
    BY <1>8 DEF SlotOnes
  <2> QED
    BY <2>1 DEF Rows, Columns
<1>9. CASE c \in AlignOnes
  <2>1. c[1] = "dist_align" /\ c[2] \in {0} /\ c[3] \in 1 .. 2 ^ ALIGN_BITS - 1
    BY <1>9 DEF AlignOnes
  <2> QED
    BY <2>1 DEF Rows, Columns
<1>10. CASE c \in SpecialOnes
  <2>1. c[1] = "dist_special" /\ c[2] \in {0} /\ c[3] \in SpecialCells
    BY <1>10 DEF SpecialOnes
  <2> QED
    BY <2>1 DEF Rows, Columns, SpecialCells
<1> QED
  BY <1>1, <1>2, <1>3, <1>4, <1>5, <1>6, <1>7, <1>8, <1>9, <1>10 DEF Placed

(* LengthCoder::decode stays in its three tables, and no match is shorter  *)
(* than two bytes.                                                         *)
LEMMA LengthFits ==
  ASSUME setting \in Settings, pb \in 0 .. 4, NEW bits \in LengthInputs, NEW pos \in Nat,
         NEW coder \in Lengths
  PROVE  /\ bits \in Seq(Bits) /\ length(bits) \in Nat /\ length(bits) >= 2
         /\ LengthCells(coder, bits, pos) \in Seq(Placed)
<1> DEFINE p == PosState(pos)
           zero == <<coder, <<"choice", 0>>, 0>>
           one  == <<coder, <<"choice", 0>>, 1>>
           t    == tree(Rest(bits))
           l    == 2 ^ LowBits
           m    == 2 ^ MidBits
<1>1. p \in 0 .. POS_STATES_MAX - 1
  BY PosStateFits
<1>2. zero \in Placed /\ one \in Placed
  BY DEF Placed, ChoiceOnes
<1>3. l \in Nat /\ m \in Nat
  BY Widths, PowerTyped
<1>4. length(bits) = t + MATCH_LEN_MIN + IF bits[1] = 0 THEN 0
                                         ELSE IF bits[2] = 0 THEN l ELSE l + m
  BY DEF length
<1>5. LengthCells(coder, bits, pos)
        = IF bits[1] = 0
          THEN <<zero>> \o TreeCells(coder, <<"low", p>>, 0, Rest(bits))
          ELSE <<zero, one>> \o TreeCells(coder, IF bits[2] = 0 THEN <<"mid", p>>
                                                 ELSE <<"high", 0>>, 0, Rest(bits))
  BY DEF LengthCells
<1>6. \A s \in Seq(Bits) : tree(s) \in Nat
  <2> SUFFICES ASSUME NEW s \in Seq(Bits)
               PROVE  tree(s) \in Nat
    OBVIOUS
  <2>1. tree(s) \in 0 .. 2 ^ Len(s) - 1 /\ 2 ^ Len(s) \in Nat
    BY BitsTyped, TreeRange, PowerTyped
  <2> QED
    BY <2>1
<1>7. PICK s \in Seq(Bits) :
        \/ bits = <<0>> \o s /\ Len(s) = LowBits
        \/ bits = <<1, 0>> \o s /\ Len(s) = MidBits
        \/ bits = <<1, 1>> \o s /\ Len(s) = HighBits
  BY LengthShape
<1> HIDE DEF p, zero, one, l, m
<1>8. CASE bits = <<0>> \o s /\ Len(s) = LowBits
  <2>1. bits \in Seq(Bits) /\ bits[1] = 0 /\ Rest(bits) = s
    BY <1>8, RestOfLow
  <2>2. t \in Nat
    BY <1>6, <2>1
  <2>3. length(bits) = t + 2 + 0
    BY <1>4, <2>1 DEF MATCH_LEN_MIN
  <2>4. TreeCells(coder, <<"low", p>>, 0, s) \in Seq(Placed)
    <3>1. \A c \in 0 + 1 .. 0 + 2 ^ Len(s) - 1 : <<coder, <<"low", p>>, c>> \in Placed
      BY <1>1, <1>8 DEF Placed, LowOnes
    <3> QED
      BY <3>1, TreeCellsFit
  <2>5. LengthCells(coder, bits, pos) = <<zero>> \o TreeCells(coder, <<"low", p>>, 0, s)
    BY <1>5, <2>1
  <2> QED
    BY <1>2, <2>1, <2>2, <2>3, <2>4, <2>5
<1>9. CASE bits = <<1, 0>> \o s /\ Len(s) = MidBits
  <2>1. bits \in Seq(Bits) /\ bits[1] = 1 /\ bits[2] = 0 /\ Rest(bits) = s
    BY <1>9, RestOfOther DEF Bits
  <2>2. t \in Nat
    BY <1>6, <2>1
  <2>3. length(bits) = t + 2 + l
    BY <1>4, <2>1 DEF MATCH_LEN_MIN
  <2>4. TreeCells(coder, <<"mid", p>>, 0, s) \in Seq(Placed)
    <3>1. \A c \in 0 + 1 .. 0 + 2 ^ Len(s) - 1 : <<coder, <<"mid", p>>, c>> \in Placed
      BY <1>1, <1>9 DEF Placed, MidOnes
    <3> QED
      BY <3>1, TreeCellsFit
  <2>5. LengthCells(coder, bits, pos) = <<zero, one>> \o TreeCells(coder, <<"mid", p>>, 0, s)
    BY <1>5, <2>1
  <2> QED
    BY <1>2, <1>3, <2>1, <2>2, <2>3, <2>4, <2>5
<1>10. CASE bits = <<1, 1>> \o s /\ Len(s) = HighBits
  <2>1. bits \in Seq(Bits) /\ bits[1] = 1 /\ bits[2] = 1 /\ Rest(bits) = s
    BY <1>10, RestOfOther DEF Bits
  <2>2. t \in Nat
    BY <1>6, <2>1
  <2>3. length(bits) = t + 2 + (l + m)
    BY <1>4, <2>1 DEF MATCH_LEN_MIN
  <2>4. TreeCells(coder, <<"high", 0>>, 0, s) \in Seq(Placed)
    <3>1. \A c \in 0 + 1 .. 0 + 2 ^ Len(s) - 1 : <<coder, <<"high", 0>>, c>> \in Placed
      BY <1>10 DEF Placed, HighOnes
    <3> QED
      BY <3>1, TreeCellsFit
  <2>5. LengthCells(coder, bits, pos) = <<zero, one>> \o TreeCells(coder, <<"high", 0>>, 0, s)
    BY <1>5, <2>1
  <2> QED
    BY <1>2, <1>3, <2>1, <2>2, <2>3, <2>4, <2>5
<1> QED
  BY <1>7, <1>8, <1>9, <1>10

(* LiteralSubDecoder: the row stays below 2^(lc + lp), the column below    *)
(* three trees.                                                            *)
LEMMA RowFits ==
  ASSUME lc \in Nat, lp \in Nat, lc + lp <= 4, NEW prev_byte \in 0 .. 2 ^ LitBits - 1,
         NEW pos \in Nat
  PROVE  get_sub_coder_index(prev_byte, pos) \in 0 .. 2 ^ (lc + lp) - 1
<1> DEFINE a == 2 ^ (LitBits - lc)
           c == 2 ^ lc
           e == 2 ^ lp
           w == 2 ^ LitBits
           q == prev_byte \div a
           r == pos % e
<1>1. LitBits - lc \in Nat /\ LitBits - lc + lc = LitBits /\ LitBits \in Nat
  BY Widths
<1>2. a \in Nat /\ a >= 1
  BY <1>1, PowerTyped
<1>3. c \in Nat /\ c >= 1 /\ e \in Nat /\ e >= 1
  BY PowerTyped
<1>4. w = a * c
  <2>1. 2 ^ (LitBits - lc + lc) = a * c
    BY <1>1, PowerAdd
  <2> QED
    BY <1>1, <2>1
<1>5. 2 ^ (lc + lp) = c * e
  BY PowerAdd
<1>6. prev_byte \in Nat /\ prev_byte < a * c
  <2>1. w \in Nat /\ prev_byte \in 0 .. w - 1
    BY <1>1, PowerTyped
  <2> HIDE DEF w
  <2>2. prev_byte \in Nat /\ prev_byte < w
    BY <2>1
  <2> QED
    BY <1>4, <2>2
<1>7. get_sub_coder_index(prev_byte, pos) = q + r * c
  BY DEF get_sub_coder_index
<1> HIDE DEF a, c, e, w
<1>8. q \in Nat /\ q < c
  <2> DEFINE s == prev_byte % a
  <2>1. prev_byte = a * q + s /\ s \in 0 .. a - 1 /\ q \in Nat
    BY <1>2, <1>6, DivMod
  <2> HIDE DEF q, s
  <2>2. CASE q >= c
    <3>1. a * c <= a * q /\ a * q \in Nat
      BY <1>2, <1>3, <2>1, <2>2, ProductMonotone
    <3> DEFINE x == a * c
               y == a * q
    <3>2. x <= y /\ y \in Nat /\ prev_byte < x /\ prev_byte = y + s
      BY <1>6, <2>1, <3>1
    <3>3. x \in Nat
      BY <1>2, <1>3, SMTT(30)
    <3> HIDE DEF x, y
    <3> QED
      BY <2>1, <3>2, <3>3
  <2> QED
    BY <1>3, <2>1, <2>2
<1>9. r \in 0 .. e - 1
  BY <1>3, DivMod
<1> HIDE DEF q, r
<1>10. (r + 1) * c <= e * c /\ (r + 1) * c = r * c + c /\ r * c \in Nat /\ e * c = c * e
  <2>1. r + 1 \in Nat /\ r + 1 <= e /\ r \in Nat
    BY <1>3, <1>9
  <2>2. (r + 1) * c <= e * c
    BY <1>3, <2>1, ProductMonotone
  <2> QED
    BY <1>3, <2>1, <2>2, SMTT(30)
<1> DEFINE x == r * c
           y == c * e
<1>11. x + c <= y /\ x \in Nat
  BY <1>10
<1>12. y \in Nat
  BY <1>3, SMTT(30)
<1> HIDE DEF x, y
<1>13. q + x \in 0 .. y - 1
  BY <1>3, <1>8, <1>11, <1>12
<1> QED
  BY <1>5, <1>7, <1>13 DEF x, y

(* The slot of a distance: twice the place of its highest bit, and the one *)
(* below it.                                                               *)
LEMMA SlotRange ==
  ASSUME setting \in Settings, NEW slot_bits \in Strings(SlotBits)
  PROVE  /\ slot_bits \in Seq(Bits) /\ Len(slot_bits) = SlotBits
         /\ tree(slot_bits) \in 0 .. 2 * WordBits - 1
<1>1. slot_bits \in Seq(Bits) /\ Len(slot_bits) = SlotBits
  BY Widths, StringsTyped
<1>2. tree(slot_bits) \in 0 .. 2 ^ SlotBits - 1
  BY <1>1, TreeRange
<1>3. 2 ^ SlotBits = 2 * WordBits
  BY WidthsAssumption
<1> QED
  BY <1>1, <1>2, <1>3

LEMMA SlotHalves ==
  ASSUME NEW slot \in 0 .. 2 * WordBits - 1, slot >= DIST_MODEL_START
  PROVE  /\ slot \div 2 \in 2 .. WordBits - 1 /\ slot % 2 \in 0 .. 1
         /\ slot = 2 * (slot \div 2) + (slot % 2)
         /\ Limit(slot) = slot \div 2 - 1 /\ Limit(slot) \in Nat
         /\ RestBits(slot) = Limit(slot)
  BY Widths DEF DIST_MODEL_START, Limit, RestBits

LEMMA RestBitsTyped ==
  ASSUME NEW slot \in 0 .. 2 * WordBits - 1
  PROVE  RestBits(slot) \in Nat
<1>1. CASE slot < DIST_MODEL_START
  BY <1>1 DEF RestBits
<1>2. CASE ~ (slot < DIST_MODEL_START)
  <2>1. slot >= DIST_MODEL_START
    BY <1>2 DEF DIST_MODEL_START
  <2> QED
    BY <2>1, SlotHalves
<1> QED
  BY <1>1, <1>2

LEMMA AlignFits ==
  ASSUME NEW slot \in 0 .. 2 * WordBits - 1, slot >= DIST_MODEL_END
  PROVE  slot >= DIST_MODEL_START /\ Limit(slot) - ALIGN_BITS \in Nat
<1>1. DIST_MODEL_END \in 4 .. 14 /\ DIST_MODEL_END % 2 = 0
      /\ DIST_MODEL_END \div 2 - 1 >= ALIGN_BITS
  BY WidthsAssumption
<1>2. slot \div 2 >= DIST_MODEL_END \div 2
  BY <1>1
<1>3. ALIGN_BITS \in Nat /\ slot \div 2 \in Int /\ DIST_MODEL_END \div 2 \in Int
  BY <1>1, Widths
<1> QED
  BY <1>1, <1>2, <1>3, Widths DEF Limit, DIST_MODEL_START

(* What comes after the slot, when it is more than one tree.               *)
DirectBits(slot, bits) == SubSeq(bits, 1, Limit(slot) - ALIGN_BITS)
AlignBits(slot, bits)  == SubSeq(bits, Limit(slot) - ALIGN_BITS + 1, Limit(slot))

LEMMA RestSplits ==
  ASSUME NEW slot \in 0 .. 2 * WordBits - 1, slot >= DIST_MODEL_END,
         NEW bits \in Seq(Bits), Len(bits) = RestBits(slot)
  PROVE  /\ DirectBits(slot, bits) \in Seq(Bits)
         /\ Len(DirectBits(slot, bits)) = Limit(slot) - ALIGN_BITS
         /\ AlignBits(slot, bits) \in Seq(Bits) /\ Len(AlignBits(slot, bits)) = ALIGN_BITS
         /\ bits = DirectBits(slot, bits) \o AlignBits(slot, bits)
<1> DEFINE k == Limit(slot)
           a == ALIGN_BITS
           s == DirectBits(slot, bits)
           t == AlignBits(slot, bits)
<1>1. k \in Nat /\ Len(bits) = k /\ k - a \in Nat /\ a \in Nat
  BY AlignFits, SlotHalves, Widths
<1>2. s = SubSeq(bits, 1, k - a) /\ t = SubSeq(bits, k - a + 1, k)
  BY DEF DirectBits, AlignBits
<1> HIDE DEF k, a, s, t
<1>3. s \in Seq(Bits) /\ Len(s) = k - a /\ \A i \in 1 .. k - a : s[i] = bits[i]
  BY <1>1, <1>2
<1>4. t \in Seq(Bits) /\ Len(t) = a /\ \A i \in 1 .. a : t[i] = bits[k - a + i]
  BY <1>1, <1>2
<1> DEFINE u == s \o t
<1>5. u \in Seq(Bits) /\ Len(u) = k
  BY <1>1, <1>3, <1>4
<1>6. ASSUME NEW i \in 1 .. k
      PROVE  u[i] = bits[i]
  <2>1. CASE i <= k - a
    <3>1. i \in 1 .. k - a
      BY <1>1, <2>1
    <3>2. u[i] = s[i]
      BY <1>3, <1>4, <3>1
    <3> QED
      BY <1>3, <3>1, <3>2
  <2>2. CASE ~ (i <= k - a)
    <3>1. i - (k - a) \in 1 .. a /\ k - a + (i - (k - a)) = i /\ i \in 1 .. Len(s) + Len(t)
      BY <1>1, <1>3, <1>4, <2>2
    <3>2. u[i] = t[i - (k - a)]
      BY <1>3, <1>4, <2>2, <3>1
    <3> QED
      BY <1>4, <3>1, <3>2
  <2> QED
    BY <2>1, <2>2
<1>7. bits = u
  <2> HIDE DEF u
  <2> QED
    BY <1>1, <1>5, <1>6
<1> QED
  BY <1>1, <1>3, <1>4, <1>7 DEF k, a, s, t

(* The part of a distance below its two highest bits.                      *)
Low(slot, bits) ==
  IF slot < DIST_MODEL_END THEN reverse(bits)
  ELSE tree(DirectBits(slot, bits)) * 2 ^ ALIGN_BITS + reverse(AlignBits(slot, bits))

Whole(slot, bits) == (2 + (slot % 2)) * 2 ^ Limit(slot) + Low(slot, bits)

LEMMA LowRange ==
  ASSUME NEW slot \in 0 .. 2 * WordBits - 1, slot >= DIST_MODEL_START,
         NEW bits \in Seq(Bits), Len(bits) = RestBits(slot)
  PROVE  Low(slot, bits) \in 0 .. 2 ^ Limit(slot) - 1
<1>1. Len(bits) = Limit(slot) /\ Limit(slot) \in Nat
  BY SlotHalves
<1>2. CASE slot < DIST_MODEL_END
  <2>1. reverse(bits) \in 0 .. 2 ^ Limit(slot) - 1
    BY <1>1, ReverseRange
  <2> QED
    BY <1>2, <2>1 DEF Low
<1>3. CASE ~ (slot < DIST_MODEL_END)
  <2> DEFINE k == Limit(slot) - ALIGN_BITS
             x == 2 ^ k
             y == 2 ^ ALIGN_BITS
             t == tree(DirectBits(slot, bits))
             r == reverse(AlignBits(slot, bits))
             z == 2 ^ Limit(slot)
  <2>1. slot >= DIST_MODEL_END
    BY <1>3, WidthsAssumption
  <2>2. k \in Nat /\ ALIGN_BITS \in Nat /\ k + ALIGN_BITS = Limit(slot)
    BY <1>1, <2>1, AlignFits, Widths
  <2>3. x \in Nat /\ x >= 1
    BY <2>2, PowerTyped
  <2>4. y \in Nat /\ y >= 1
    BY <2>2, PowerTyped
  <2>5. z = x * y
    <3>1. 2 ^ (k + ALIGN_BITS) = x * y
      BY <2>2, PowerAdd
    <3> QED
      BY <2>2, <3>1
  <2>6. t \in 0 .. x - 1
    <3>1. DirectBits(slot, bits) \in Seq(Bits) /\ Len(DirectBits(slot, bits)) = k
      BY <2>1, RestSplits
    <3> QED
      BY <3>1, TreeRange
  <2>7. r \in 0 .. y - 1
    <3>1. AlignBits(slot, bits) \in Seq(Bits) /\ Len(AlignBits(slot, bits)) = ALIGN_BITS
      BY <2>1, RestSplits
    <3> QED
      BY <3>1, ReverseRange
  <2>8. Low(slot, bits) = t * y + r
    BY <1>3 DEF Low
  <2> HIDE DEF k, x, y, t, r, z
  <2>9. (t + 1) * y <= x * y
    <3>1. t + 1 \in Nat /\ t + 1 <= x
      BY <2>3, <2>6
    <3> QED
      BY <2>3, <2>4, <3>1, ProductMonotone
  <2>10. (t + 1) * y = t * y + y /\ t * y \in Nat /\ x * y \in Nat
    BY <2>3, <2>4, <2>6, SMTT(30)
  <2> DEFINE u == t * y
             v == x * y
  <2>11. u + y <= v /\ u \in Nat /\ v \in Nat
    BY <2>9, <2>10
  <2> HIDE DEF u, v
  <2>12. u + r \in 0 .. v - 1
    BY <2>4, <2>7, <2>11
  <2> QED
    BY <2>5, <2>8, <2>12 DEF u, v, z
<1> QED
  BY <1>2, <1>3

(* The distance before it is cut to an i32 lies where its slot says, and   *)
(* in a word.                                                              *)
LEMMA WholeRange ==
  ASSUME NEW slot \in 0 .. 2 * WordBits - 1, slot >= DIST_MODEL_START,
         NEW bits \in Seq(Bits), Len(bits) = RestBits(slot)
  PROVE  /\ distance(slot, bits) = Signed(Whole(slot, bits))
         /\ Whole(slot, bits) \in Nat
         /\ 2 ^ (slot \div 2) <= Whole(slot, bits)
         /\ Whole(slot, bits) < 2 ^ (slot \div 2 + 1)
         /\ Whole(slot, bits) < Word
<1> DEFINE m == slot \div 2
           b == slot % 2
           k == Limit(slot)
           h == 2 ^ k
           l == Low(slot, bits)
           n == Whole(slot, bits)
<1>1. m \in 2 .. WordBits - 1 /\ b \in 0 .. 1 /\ k = m - 1 /\ k \in Nat
  BY SlotHalves
<1>2. k + 1 = m /\ m \in Nat /\ m + 1 \in Nat /\ m + 1 <= WordBits /\ WordBits \in Nat
  BY <1>1, Widths
<1>3. h \in Nat /\ h >= 1
  BY <1>1, PowerTyped
<1>4. 2 ^ m = 2 * h
  <2>1. 2 ^ (k + 1) = 2 * h
    BY <1>1, PowerStep
  <2> QED
    BY <1>2, <2>1
<1>5. 2 ^ (m + 1) = 4 * h
  <2>1. 2 ^ (m + 1) = 2 * 2 ^ m
    BY <1>2, PowerStep
  <2> QED
    BY <1>3, <1>4, <2>1
<1>6. 4 * h <= Word
  <2>1. 2 ^ (m + 1) <= 2 ^ WordBits
    BY <1>2, PowerMonotone
  <2> QED
    BY <1>5, <2>1 DEF Word
<1>7. l \in 0 .. h - 1
  BY LowRange
<1>8. n = (2 + b) * h + l
  BY DEF Whole
<1>9. distance(slot, bits) = Signed(n)
  <2>1. ~ (slot < DIST_MODEL_START)
    BY DEF DIST_MODEL_START
  <2> DEFINE u == (2 + b) * h
  <2>2. u \in Nat
    BY <1>1, <1>3, SMTT(30)
  <2>3. CASE slot < DIST_MODEL_END
    <3>1. distance(slot, bits) = Signed(u + reverse(bits))
      BY <2>1, <2>3 DEF distance
    <3>2. n = u + reverse(bits)
      BY <2>3 DEF Whole, Low
    <3> QED
      BY <3>1, <3>2
  <2>4. CASE ~ (slot < DIST_MODEL_END)
    <3> DEFINE t == tree(DirectBits(slot, bits)) * 2 ^ ALIGN_BITS
               r == reverse(AlignBits(slot, bits))
    <3>1. distance(slot, bits) = Signed(u + t + r)
      BY <2>1, <2>4 DEF distance, DirectBits, AlignBits
    <3>2. n = u + (t + r)
      BY <2>4 DEF Whole, Low
    <3>3. t \in Nat /\ r \in Nat
      <4>0. slot >= DIST_MODEL_END
        BY <2>4, WidthsAssumption
      <4>1. DirectBits(slot, bits) \in Seq(Bits) /\ AlignBits(slot, bits) \in Seq(Bits)
        BY <4>0, RestSplits
      <4> DEFINE x == tree(DirectBits(slot, bits))
                 y == 2 ^ ALIGN_BITS
      <4>2. x \in Nat
        <5>1. x \in 0 .. 2 ^ Len(DirectBits(slot, bits)) - 1
          BY <4>1, TreeRange
        <5>2. 2 ^ Len(DirectBits(slot, bits)) \in Nat
          BY <4>1, BitsTyped, PowerTyped
        <5> HIDE DEF x
        <5> QED
          BY <5>1, <5>2
      <4>3. y \in Nat
        BY Widths, PowerTyped
      <4>4. r \in Nat
        <5>1. r \in 0 .. 2 ^ Len(AlignBits(slot, bits)) - 1
          BY <4>1, ReverseRange
        <5>2. 2 ^ Len(AlignBits(slot, bits)) \in Nat
          BY <4>1, BitsTyped, PowerTyped
        <5> HIDE DEF r
        <5> QED
          BY <5>1, <5>2
      <4> HIDE DEF x, y
      <4>5. x * y \in Nat
        BY <4>2, <4>3, SMTT(30)
      <4> QED
        BY <4>4, <4>5 DEF x, y
    <3> HIDE DEF u, t, r, n
    <3>4. u + t + r = u + (t + r)
      BY <2>2, <3>3
    <3> QED
      BY <3>1, <3>2, <3>4
  <2> QED
    BY <2>3, <2>4
<1> HIDE DEF m, b, k, h, l, n
<1>10. n \in Nat /\ 2 * h <= n /\ n < 4 * h
  <2>1. b = 0 \/ b = 1
    BY <1>1
  <2>2. CASE b = 0
    <3>1. (2 + 0) * h = 2 * h
      BY <1>3
    <3> QED
      BY <1>3, <1>7, <1>8, <2>2, <3>1
  <2>3. CASE b = 1
    <3>1. (2 + 1) * h = 3 * h
      BY <1>3
    <3> QED
      BY <1>3, <1>7, <1>8, <2>3, <3>1
  <2> QED
    BY <2>1, <2>2, <2>3
<1>11. n < Word
  BY <1>3, <1>6, <1>10, HalfWord
<1> QED
  BY <1>4, <1>5, <1>9, <1>10, <1>11 DEF m, n

LEMMA DistanceTyped ==
  ASSUME NEW slot \in 0 .. 2 * WordBits - 1,
         NEW bits \in Seq(Bits), Len(bits) = RestBits(slot)
  PROVE  distance(slot, bits) \in Half
<1>1. CASE slot < DIST_MODEL_START
  <2>1. distance(slot, bits) = slot /\ slot \in 0 .. 3
    BY <1>1 DEF distance, DIST_MODEL_START
  <2> QED
    BY <2>1, HalfWord DEF Half
<1>2. CASE ~ (slot < DIST_MODEL_START)
  <2>1. slot >= DIST_MODEL_START
    BY <1>2 DEF DIST_MODEL_START
  <2>2. distance(slot, bits) = Signed(Whole(slot, bits)) /\ Whole(slot, bits) \in Nat
    BY <2>1, WholeRange
  <2> QED
    BY <2>2, SignedTyped
<1> QED
  BY <1>1, <1>2

(* The cells of the bits after the slot.  The trees of borders lie one     *)
(* behind the other, each as large as its slot needs.                      *)
LEMMA SpecialFits ==
  ASSUME NEW slot \in DIST_MODEL_START .. DIST_MODEL_END - 1
  PROVE  /\ DIST_SPECIAL_INDEX[slot - DIST_MODEL_START + 1] \in Nat
         /\ DIST_SPECIAL_INDEX[slot - DIST_MODEL_START + 1] + 2 ^ Limit(slot)
              = DIST_SPECIAL_END[slot - DIST_MODEL_START + 1]
<1> DEFINE I == DIST_SPECIAL_INDEX
           E == DIST_SPECIAL_END
           j == slot - DIST_MODEL_START + 1
<1>1. slot \in 4 .. 13
  BY WidthsAssumption DEF DIST_MODEL_START
<1>2. CASE slot = 4
  <2>1. j = 1 /\ Limit(slot) = 1
    BY <1>2 DEF Limit, DIST_MODEL_START
  <2>2. I[1] = 0 /\ E[1] = 2 /\ 0 + 2 ^ 1 = 2
    BY DEF DIST_SPECIAL_INDEX, DIST_SPECIAL_END
  <2> QED
    BY <2>1, <2>2
<1>3. CASE slot = 5
  <2>1. j = 2 /\ Limit(slot) = 1
    BY <1>3 DEF Limit, DIST_MODEL_START
  <2>2. I[2] = 2 /\ E[2] = 4 /\ 2 + 2 ^ 1 = 4
    BY DEF DIST_SPECIAL_INDEX, DIST_SPECIAL_END
  <2> QED
    BY <2>1, <2>2
<1>4. CASE slot = 6
  <2>1. j = 3 /\ Limit(slot) = 2
    BY <1>4 DEF Limit, DIST_MODEL_START
  <2>2. I[3] = 4 /\ E[3] = 8 /\ 4 + 2 ^ 2 = 8
    BY DEF DIST_SPECIAL_INDEX, DIST_SPECIAL_END
  <2> QED
    BY <2>1, <2>2
<1>5. CASE slot = 7
  <2>1. j = 4 /\ Limit(slot) = 2
    BY <1>5 DEF Limit, DIST_MODEL_START
  <2>2. I[4] = 8 /\ E[4] = 12 /\ 8 + 2 ^ 2 = 12
    BY DEF DIST_SPECIAL_INDEX, DIST_SPECIAL_END
  <2> QED
    BY <2>1, <2>2
<1>6. CASE slot = 8
  <2>1. j = 5 /\ Limit(slot) = 3
    BY <1>6 DEF Limit, DIST_MODEL_START
  <2>2. I[5] = 12 /\ E[5] = 20 /\ 12 + 2 ^ 3 = 20
    BY DEF DIST_SPECIAL_INDEX, DIST_SPECIAL_END
  <2> QED
    BY <2>1, <2>2
<1>7. CASE slot = 9
  <2>1. j = 6 /\ Limit(slot) = 3
    BY <1>7 DEF Limit, DIST_MODEL_START
  <2>2. I[6] = 20 /\ E[6] = 28 /\ 20 + 2 ^ 3 = 28
    BY DEF DIST_SPECIAL_INDEX, DIST_SPECIAL_END
  <2> QED
    BY <2>1, <2>2
<1>8. CASE slot = 10
  <2>1. j = 7 /\ Limit(slot) = 4
    BY <1>8 DEF Limit, DIST_MODEL_START
  <2>2. I[7] = 28 /\ E[7] = 44 /\ 28 + 2 ^ 4 = 44
    BY DEF DIST_SPECIAL_INDEX, DIST_SPECIAL_END
  <2> QED
    BY <2>1, <2>2
<1>9. CASE slot = 11
  <2>1. j = 8 /\ Limit(slot) = 4
    BY <1>9 DEF Limit, DIST_MODEL_START
  <2>2. I[8] = 44 /\ E[8] = 60 /\ 44 + 2 ^ 4 = 60
    BY DEF DIST_SPECIAL_INDEX, DIST_SPECIAL_END
  <2> QED
    BY <2>1, <2>2
<1>10. CASE slot = 12
  <2>1. j = 9 /\ Limit(slot) = 5
    BY <1>10 DEF Limit, DIST_MODEL_START
  <2>2. I[9] = 60 /\ E[9] = 92 /\ 60 + 2 ^ 5 = 92
    BY DEF DIST_SPECIAL_INDEX, DIST_SPECIAL_END
  <2> QED
    BY <2>1, <2>2
<1>11. CASE slot = 13
  <2>1. j = 10 /\ Limit(slot) = 5
    BY <1>11 DEF Limit, DIST_MODEL_START
  <2>2. I[10] = 92 /\ E[10] = 124 /\ 92 + 2 ^ 5 = 124
    BY DEF DIST_SPECIAL_INDEX, DIST_SPECIAL_END
  <2> QED
    BY <2>1, <2>2
<1> QED
  BY <1>1, <1>2, <1>3, <1>4, <1>5, <1>6, <1>7, <1>8, <1>9, <1>10, <1>11

LEMMA DistanceFits ==
  ASSUME NEW slot \in 0 .. 2 * WordBits - 1,
         NEW bits \in Seq(Bits), Len(bits) = RestBits(slot)
  PROVE  DistanceCells(slot, bits) \in Seq(Placed)
<1>1. CASE slot < DIST_MODEL_START
  BY <1>1 DEF DistanceCells
<1>2. CASE ~ (slot < DIST_MODEL_START) /\ slot < DIST_MODEL_END
  <2> DEFINE i == slot - DIST_MODEL_START + 1
             first == DIST_SPECIAL_INDEX[i]
  <2>0. DIST_MODEL_END \in 4 .. 14
    BY WidthsAssumption
  <2>1. slot \in DIST_MODEL_START .. DIST_MODEL_END - 1 /\ slot >= DIST_MODEL_START
    BY <1>2, <2>0 DEF DIST_MODEL_START
  <2>2. Len(bits) = Limit(slot)
    BY <2>1, SlotHalves
  <2>3. first \in Nat /\ first + 2 ^ Len(bits) = DIST_SPECIAL_END[i]
    BY <2>1, <2>2, SpecialFits
  <2>4. i \in 1 .. DIST_MODEL_END - DIST_MODEL_START
    BY <2>1, WidthsAssumption DEF DIST_MODEL_START
  <2>5. \A c \in first + 1 .. first + 2 ^ Len(bits) - 1 : <<"dist_special", 0, c>> \in Placed
    <3> SUFFICES ASSUME NEW c \in first + 1 .. first + 2 ^ Len(bits) - 1
                 PROVE  <<"dist_special", 0, c>> \in Placed
      OBVIOUS
    <3>1. c \in first + 1 .. DIST_SPECIAL_END[i] - 1
      BY <2>3
    <3>2. c \in SpecialCells
      <4> HIDE DEF i
      <4> QED
        BY <2>4, <3>1 DEF SpecialCells
    <3> QED
      BY <3>2 DEF Placed, SpecialOnes
  <2>6. TreeCells("dist_special", 0, first, bits) \in Seq(Placed)
    BY <2>3, <2>5, TreeCellsFit
  <2>7. DistanceCells(slot, bits) = TreeCells("dist_special", 0, first, bits)
    BY <1>2 DEF DistanceCells
  <2> QED
    BY <2>6, <2>7
<1>3. CASE ~ (slot < DIST_MODEL_START) /\ ~ (slot < DIST_MODEL_END)
  <2>1. slot >= DIST_MODEL_END
    BY <1>3, WidthsAssumption
  <2>2. AlignBits(slot, bits) \in Seq(Bits) /\ Len(AlignBits(slot, bits)) = ALIGN_BITS
    BY <2>1, RestSplits
  <2>3. \A c \in 0 + 1 .. 0 + 2 ^ Len(AlignBits(slot, bits)) - 1 :
          <<"dist_align", 0, c>> \in Placed
    BY <2>2 DEF Placed, AlignOnes
  <2>4. TreeCells("dist_align", 0, 0, AlignBits(slot, bits)) \in Seq(Placed)
    BY <2>2, <2>3, TreeCellsFit
  <2>5. DistanceCells(slot, bits) = TreeCells("dist_align", 0, 0, AlignBits(slot, bits))
    BY <1>3 DEF DistanceCells, AlignBits
  <2> QED
    BY <2>4, <2>5
<1> QED
  BY <1>1, <1>2, <1>3

LEMMA SlotCellsFit ==
  ASSUME NEW slot_bits \in Seq(Bits), Len(slot_bits) = SlotBits, NEW len \in Nat, len >= 2
  PROVE  TreeCells("dist_slots", dist_state(len), 0, slot_bits) \in Seq(Placed)
<1>1. dist_state(len) \in 0 .. DIST_STATES - 1
  BY DEF dist_state, DIST_STATES, MATCH_LEN_MIN
<1>2. \A c \in 0 + 1 .. 0 + 2 ^ Len(slot_bits) - 1 :
        <<"dist_slots", dist_state(len), c>> \in Placed
  BY <1>1 DEF Placed, SlotOnes
<1> QED
  BY <1>2, TreeCellsFit

LEMMA LiteralFits ==
  ASSUME lc \in Nat, lp \in Nat, lc + lp <= 4, NEW prev_byte \in 0 .. 2 ^ LitBits - 1,
         NEW pos \in Nat, NEW bits \in Seq(Bits), Len(bits) = LitBits,
         NEW match_byte \in Nat
  PROVE  LiteralCells(get_sub_coder_index(prev_byte, pos), bits, match_byte) \in Seq(Placed)
<1> DEFINE row == get_sub_coder_index(prev_byte, pos)
           w == 2 ^ LitBits
<1>1. row \in 0 .. 2 ^ (lc + lp) - 1
  BY RowFits
<1>2. w \in Nat /\ LitBits \in Nat
  BY Widths, PowerTyped
<1> HIDE DEF row
<1>3. \A c \in 1 .. 3 * w - 1 : <<"literal", row, c>> \in Placed
  BY <1>1 DEF Placed, LiteralOnes
<1>4. CASE is_literal
  <2>1. \A c \in 0 + 1 .. 0 + w - 1 : c \in 1 .. 3 * w - 1
    <3> HIDE DEF w
    <3> QED
      BY <1>2
  <2>2. \A c \in 0 + 1 .. 0 + 2 ^ Len(bits) - 1 : <<"literal", row, c>> \in Placed
    BY <1>3, <2>1
  <2>3. TreeCells("literal", row, 0, bits) \in Seq(Placed)
    BY <2>2, TreeCellsFit
  <2> QED
    BY <1>4, <2>3 DEF LiteralCells, row
<1>5. CASE ~ is_literal
  <2> DEFINE columns == MatchedColumns(bits, match_byte)
  <2>1. LiteralCells(row, bits, match_byte)
          = [i \in 1 .. LitBits |-> <<"literal", row, columns[i]>>]
    BY <1>5 DEF LiteralCells
  <2>2. \A i \in 1 .. LitBits : columns[i] \in 1 .. 3 * w - 1
    BY <1>2, ColumnOf
  <2>3. \A i \in 1 .. LitBits : <<"literal", row, columns[i]>> \in Placed
    BY <1>3, <2>2
  <2> HIDE DEF columns
  <2>4. LiteralCells(row, bits, match_byte) \in Seq(Placed)
    BY <1>2, <2>1, <2>3
  <2> QED
    BY <2>4 DEF row
<1> QED
  BY <1>4, <1>5
-----------------------------------------------------------------------------
(* Every step keeps to the types and the tables.                           *)
TablesInv ==
  /\ setting \in Settings
  /\ lc \in Nat /\ lp \in Nat /\ lc + lp <= 4 /\ pb \in 0 .. 4

RepsInv == reps \in [0 .. 3 -> Half]

CountsInv ==
  /\ full \in 0 .. DictSize /\ status \in {"ok", "refused"}
  /\ symbols \in 0 .. setting.symbols

SeenInv == taken \in Seq(Bits) /\ Len(kinds) = 4 /\ cells \in Seq(Placed)

TypeInv == TablesInv /\ RepsInv /\ CountsInv /\ SeenInv

LEMMA TypeInvTables == TypeInv /\ HistoryInv => InTables
<1> SUFFICES ASSUME TypeInv, HistoryInv
             PROVE  InTables
  OBVIOUS
<1>1. state \in 0 .. STATES - 1
  BY StateRange DEF HistoryInv, STATES
<1>2. TypeOK
  BY <1>1 DEF TypeOK, TypeInv, TablesInv, RepsInv, CountsInv, SeenInv, Half, Bits
<1>3. CellsThere
  <2>1. \A i \in 1 .. Len(cells) : cells[i] \in Placed
    BY DEF TypeInv, SeenInv
  <2> QED
    BY <2>1, PlacedThere DEF CellsThere
<1> QED
  BY <1>2, <1>3 DEF InTables

(* decode_props lets only such lc, lp and pb pass.                         *)
LEMMA PropsTyped ==
  ASSUME NEW props \in Nat, PropsFit(props)
  PROVE  /\ LcOf(props) \in Nat /\ LpOf(props) \in Nat
         /\ LcOf(props) + LpOf(props) <= 4 /\ PbOf(props) \in 0 .. 4
<1>1. props \in 0 .. 224 /\ LcOf(props) + LpOf(props) <= 4
  BY DEF PropsFit
<1>2. LcOf(props) \in Nat
  BY <1>1 DEF LcOf
<1>3. LpOf(props) \in Nat
  BY <1>1 DEF LpOf
<1>4. PbOf(props) \in 0 .. 4
  BY <1>1 DEF PbOf
<1> QED
  BY <1>1, <1>2, <1>3, <1>4

LEMMA NoRepsTyped == NoReps \in [0 .. 3 -> Half]
<1>1. 0 \in Half
  BY HalfWord DEF Half
<1> QED
  BY <1>1 DEF NoReps

LEMMA NoKindsFour == Len(NoKinds) = 4
<1>1. NoKinds \in Seq({"literal"})
  BY DEF NoKinds
<1>2. DOMAIN NoKinds = 1 .. 4
  BY DEF NoKinds
<1> QED
  BY <1>1, <1>2

LEMMA TypeInit == Init => TypeInv
<1> SUFFICES ASSUME Init
             PROVE  TypeInv
  OBVIOUS
<1>1. setting \in Settings
  BY DEF Init
<1>2. TablesInv
  <2>1. PICK props \in setting.props :
          PropsFit(props) /\ lc = LcOf(props) /\ lp = LpOf(props) /\ pb = PbOf(props)
    BY DEF Init
  <2>2. props \in Nat
    BY <1>1, <2>1, SettingFacts
  <2> QED
    BY <1>1, <2>1, <2>2, PropsTyped DEF TablesInv
<1>3. RepsInv
  BY NoRepsTyped DEF Init, RepsInv
<1>4. CountsInv
  <2>1. full \in 0 .. DictSize
    BY <1>1, SettingFacts DEF Init
  <2>2. status = "ok" /\ symbols = 0
    BY DEF Init
  <2>3. setting.symbols \in Nat
    BY <1>1, SettingFacts
  <2> QED
    BY <2>1, <2>2, <2>3 DEF CountsInv
<1>5. SeenInv
  <2>1. taken = <<>> /\ cells = <<>> /\ kinds = NoKinds
    BY DEF Init
  <2> QED
    BY <2>1, NoKindsFour DEF SeenInv
<1> QED
  BY <1>2, <1>3, <1>4, <1>5 DEF TypeInv

LEMMA TablesStay ==
  ASSUME UNCHANGED tables
  PROVE  /\ setting' = setting /\ lc' = lc /\ lp' = lp /\ pb' = pb
         /\ Placed' = Placed /\ (TablesInv => TablesInv')
<1>1. setting' = setting /\ lc' = lc /\ lp' = lp /\ pb' = pb
  BY DEF tables
<1>2. LiteralOnes' = LiteralOnes
  BY <1>1 DEF LiteralOnes
<1>3. Placed' = Placed
  BY <1>2 DEF Placed, PosCells, StateCells, ChoiceOnes, LowOnes, MidOnes, HighOnes,
              SlotOnes, AlignOnes, SpecialOnes, SpecialCells
<1>4. TablesInv => TablesInv'
  BY <1>1 DEF TablesInv
<1> QED
  BY <1>1, <1>3, <1>4

LEMMA DecodedTyped ==
  ASSUME TypeInv, symbols < setting.symbols, NEW s, NEW bits \in Seq(Bits),
         NEW used \in Seq(Placed), Decoded(s, bits, used)
  PROVE  /\ TablesInv' /\ SeenInv' /\ symbols' \in 0 .. setting'.symbols
<1>1. /\ symbols' = symbols + 1 /\ taken' = bits /\ cells' = used
      /\ kinds' = <<kinds[2], kinds[3], kinds[4], s[1]>> /\ UNCHANGED tables
  BY DEF Decoded
<1>2. TablesInv' /\ setting' = setting /\ Placed' = Placed
  BY <1>1, TablesStay DEF TypeInv
<1>3. symbols' \in 0 .. setting'.symbols
  <2>1. symbols \in 0 .. setting.symbols /\ setting.symbols \in Nat
    BY SettingFacts DEF TypeInv, TablesInv, CountsInv
  <2> QED
    BY <1>1, <1>2, <2>1
<1>4. Len(kinds') = 4
  BY <1>1
<1> QED
  BY <1>1, <1>2, <1>3, <1>4 DEF SeenInv

LEMMA FilledTyped ==
  ASSUME full \in 0 .. DictSize, NEW n \in Nat
  PROVE  Filled(n) \in 0 .. DictSize
  BY SettingsAssumption DEF Filled

LEMMA RepeatTyped ==
  ASSUME TypeInv, NEW len \in Nat, Repeat(len)
  PROVE  full' \in 0 .. DictSize /\ status' \in {"ok", "refused"}
<1>1. full \in 0 .. DictSize /\ status \in {"ok", "refused"}
  BY DEF TypeInv, CountsInv
<1>2. CASE full' = Filled(len) /\ UNCHANGED status
  BY <1>1, <1>2, FilledTyped
<1>3. CASE status' = "refused" /\ UNCHANGED full
  BY <1>1, <1>3
<1> QED
  BY <1>2, <1>3 DEF Repeat

LEMMA ResetTyped ==
  ASSUME TypeInv, Reset, TablesInv', setting' = setting
  PROVE  TypeInv'
<1>1. /\ reps' = NoReps /\ kinds' = NoKinds /\ cells' = <<>>
      /\ full' = full /\ status' = status /\ symbols' = symbols /\ taken' = taken
  BY DEF Reset
<1>2. RepsInv'
  BY <1>1, NoRepsTyped DEF RepsInv, Half
<1>3. CountsInv'
  BY <1>1 DEF TypeInv, CountsInv
<1>4. SeenInv'
  <2>1. taken' \in Seq(Bits)
    BY <1>1 DEF TypeInv, SeenInv
  <2>2. Len(kinds') = 4
    BY <1>1, NoKindsFour
  <2>3. cells' \in Seq(Placed')
    BY <1>1
  <2> QED
    BY <2>1, <2>2, <2>3 DEF SeenInv
<1> QED
  BY <1>2, <1>3, <1>4 DEF TypeInv

LEMMA IsMatchCell ==
  ASSUME TablesInv, HistoryInv, NEW pos \in Nat
  PROVE  /\ <<"is_match", state, PosState(pos)>> \in Placed
         /\ <<"is_rep0_long", state, PosState(pos)>> \in Placed
         /\ \A t \in {"is_rep", "is_rep0", "is_rep1", "is_rep2"} : <<t, state, 0>> \in Placed
<1>1. state \in 0 .. STATES - 1
  BY StateRange DEF HistoryInv, STATES
<1>2. PosState(pos) \in 0 .. POS_STATES_MAX - 1
  BY PosStateFits DEF TablesInv
<1>3. <<"is_match", state, PosState(pos)>> \in Placed
  BY <1>1, <1>2 DEF Placed, PosCells
<1>4. <<"is_rep0_long", state, PosState(pos)>> \in Placed
  BY <1>1, <1>2 DEF Placed, PosCells
<1>5. \A t \in {"is_rep", "is_rep0", "is_rep1", "is_rep2"} : <<t, state, 0>> \in Placed
  BY <1>1 DEF Placed, StateCells
<1> QED
  BY <1>3, <1>4, <1>5

LEMMA Operands ==
  ASSUME TablesInv
  PROVE  /\ \A bits \in Strings(LitBits) : bits \in Seq(Bits) /\ Len(bits) = LitBits
         /\ \A byte \in setting.bytes : byte \in 0 .. 2 ^ LitBits - 1 /\ byte \in Nat
         /\ \A pos \in setting.positions : pos \in Nat
<1>1. setting \in Settings
  BY DEF TablesInv
<1>2. \A bits \in Strings(LitBits) : bits \in Seq(Bits) /\ Len(bits) = LitBits
  BY <1>1, Widths, StringsTyped
<1>3. 2 ^ LitBits \in Nat
  BY Widths, PowerTyped
<1>4. setting.bytes \subseteq 0 .. 2 ^ LitBits - 1 /\ setting.positions \subseteq Nat
  BY <1>1, SettingFacts
<1> DEFINE w == 2 ^ LitBits
<1> HIDE DEF w
<1>5. \A byte \in 0 .. w - 1 : byte \in Nat
  BY <1>3 DEF w
<1> QED
  BY <1>2, <1>4, <1>5 DEF w

LEMMA LiteralTyped ==
  ASSUME TypeInv, HistoryInv, symbols < setting.symbols,
         NEW bits \in Strings(LitBits), NEW prev_byte \in setting.bytes,
         NEW pos \in setting.positions,
         NEW match_byte \in IF is_literal THEN {0} ELSE setting.bytes,
         Literal(bits, prev_byte, pos, match_byte)
  PROVE  TypeInv'
<1>1. bits \in Seq(Bits) /\ Len(bits) = LitBits /\ pos \in Nat
      /\ prev_byte \in 0 .. 2 ^ LitBits - 1 /\ match_byte \in Nat
  <2>1. match_byte \in {0} \/ match_byte \in setting.bytes
    OBVIOUS
  <2> QED
    BY <2>1, Operands DEF TypeInv
<1> DEFINE s == <<"literal", place(bits, LitBits) % 2 ^ LitBits, match_byte>>
           row == get_sub_coder_index(prev_byte, pos)
           first == <<"is_match", state, PosState(pos)>>
           others == LiteralCells(row, bits, match_byte)
<1>2. Decoded(s, <<0>> \o bits, <<first>> \o others)
  BY DEF Literal
<1>3. full' = Filled(1) /\ reps' = reps /\ status' = status
  BY DEF Literal
<1>4. others \in Seq(Placed)
  BY <1>1, LiteralFits DEF TypeInv, TablesInv
<1>5. first \in Placed
  BY <1>1, IsMatchCell DEF TypeInv
<1> HIDE DEF s, first, others
<1>6. <<first>> \o others \in Seq(Placed)
  BY <1>4, <1>5
<1>7. <<0>> \o bits \in Seq(Bits)
  BY <1>1 DEF Bits
<1>8. TablesInv' /\ SeenInv' /\ symbols' \in 0 .. setting'.symbols
  BY <1>2, <1>6, <1>7, DecodedTyped
<1>9. full' \in 0 .. DictSize /\ status' \in {"ok", "refused"}
  BY <1>3, FilledTyped DEF TypeInv, CountsInv
<1>10. RepsInv'
  BY <1>3 DEF TypeInv, RepsInv, Half
<1> QED
  BY <1>8, <1>9, <1>10 DEF TypeInv, CountsInv

LEMMA MatchTyped ==
  ASSUME TypeInv, HistoryInv, symbols < setting.symbols,
         NEW len_bits \in LengthInputs, NEW slot_bits \in Strings(SlotBits),
         NEW rest \in Strings(RestBits(tree(slot_bits))), NEW pos \in setting.positions,
         Match(len_bits, slot_bits, rest, pos)
  PROVE  TypeInv'
<1> DEFINE len  == length(len_bits)
           slot == tree(slot_bits)
           bits == <<1, 0>> \o len_bits \o slot_bits \o rest
           a == <<"is_match", state, PosState(pos)>>
           b == <<"is_rep", state, 0>>
           c == LengthCells("match_len", len_bits, pos)
           d == TreeCells("dist_slots", dist_state(len), 0, slot_bits)
           e == DistanceCells(slot, rest)
           s == <<"match", reps'[0] % Word, len>>
<1>1. pos \in Nat /\ setting \in Settings /\ pb \in 0 .. 4
  BY Operands DEF TypeInv, TablesInv
<1>2. slot_bits \in Seq(Bits) /\ Len(slot_bits) = SlotBits /\ slot \in 0 .. 2 * WordBits - 1
  BY <1>1, SlotRange
<1>3. rest \in Seq(Bits) /\ Len(rest) = RestBits(slot)
  BY <1>1, <1>2, RestBitsTyped, StringsTyped
<1>4. len_bits \in Seq(Bits) /\ len \in Nat /\ len >= 2 /\ c \in Seq(Placed)
  BY <1>1, LengthFits DEF Lengths
<1>5. d \in Seq(Placed)
  BY <1>2, <1>4, SlotCellsFit
<1>6. e \in Seq(Placed)
  BY <1>2, <1>3, DistanceFits
<1>7. a \in Placed /\ b \in Placed
  BY <1>1, IsMatchCell DEF TypeInv
<1>8. Decoded(s, bits, <<a, b>> \o c \o d \o e)
  BY DEF Match
<1>9. Repeat(len) /\ reps' = [i \in 0 .. 3 |-> IF i = 0 THEN distance(slot, rest) ELSE reps[i - 1]]
  BY DEF Match
<1>10. RepsInv'
  <2>1. distance(slot, rest) \in Half
    BY <1>2, <1>3, DistanceTyped
  <2>2. \A i \in 0 .. 3 : i # 0 => reps[i - 1] \in Half
    BY DEF TypeInv, RepsInv
  <2> DEFINE dist == distance(slot, rest)
  <2> HIDE DEF dist
  <2>3. reps' \in [0 .. 3 -> Half]
    BY <1>9, <2>1, <2>2 DEF dist
  <2> QED
    BY <2>3 DEF RepsInv, Half
<1>11. bits \in Seq(Bits)
  BY <1>2, <1>3, <1>4 DEF Bits
<1> HIDE DEF a, b, c, d, e, s, bits, len
<1>12. <<a, b>> \o c \o d \o e \in Seq(Placed)
  BY <1>4, <1>5, <1>6, <1>7
<1>13. TablesInv' /\ SeenInv' /\ symbols' \in 0 .. setting'.symbols
  BY <1>8, <1>11, <1>12, DecodedTyped
<1>14. full' \in 0 .. DictSize /\ status' \in {"ok", "refused"}
  BY <1>4, <1>9, RepeatTyped
<1> QED
  BY <1>10, <1>13, <1>14 DEF TypeInv, CountsInv

LEMMA RepCellsFit ==
  ASSUME TablesInv, HistoryInv, NEW pos \in Nat
  PROVE  RepCells(pos) \in Seq(Placed)
<1> DEFINE a == <<"is_match", state, PosState(pos)>>
           b == <<"is_rep", state, 0>>
           c == <<"is_rep0", state, 0>>
<1>1. a \in Placed /\ b \in Placed /\ c \in Placed
  BY IsMatchCell
<1>2. RepCells(pos) = <<a, b, c>>
  BY DEF RepCells
<1> HIDE DEF a, b, c
<1> QED
  BY <1>1, <1>2

LEMMA ShortRepTyped ==
  ASSUME TypeInv, HistoryInv, symbols < setting.symbols, NEW pos \in setting.positions,
         ShortRep(pos)
  PROVE  TypeInv'
<1> DEFINE s == <<"short rep">>
           bits == <<1, 1, 0, 0>>
           used == Append(RepCells(pos), <<"is_rep0_long", state, PosState(pos)>>)
<1>1. pos \in Nat
  BY Operands DEF TypeInv
<1>2. Decoded(s, bits, used) /\ Repeat(1) /\ reps' = reps
  BY DEF ShortRep
<1>3. used \in Seq(Placed)
  <2>1. RepCells(pos) \in Seq(Placed)
    BY <1>1, RepCellsFit DEF TypeInv
  <2>2. <<"is_rep0_long", state, PosState(pos)>> \in Placed
    BY <1>1, IsMatchCell DEF TypeInv
  <2> QED
    BY <2>1, <2>2
<1>4. bits \in Seq(Bits)
  BY DEF Bits
<1> HIDE DEF s, bits, used
<1>5. TablesInv' /\ SeenInv' /\ symbols' \in 0 .. setting'.symbols
  BY <1>2, <1>3, <1>4, DecodedTyped
<1>6. full' \in 0 .. DictSize /\ status' \in {"ok", "refused"}
  BY <1>2, RepeatTyped
<1>7. RepsInv'
  BY <1>2 DEF TypeInv, RepsInv, Half
<1> QED
  BY <1>5, <1>6, <1>7 DEF TypeInv, CountsInv

LEMMA LongRepTyped ==
  ASSUME TypeInv, HistoryInv, symbols < setting.symbols, NEW i \in 0 .. 3,
         NEW len_bits \in LengthInputs, NEW pos \in setting.positions,
         LongRep(i, len_bits, pos)
  PROVE  TypeInv'
<1> DEFINE len == length(len_bits)
           s == <<"rep", i, len>>
           bits == <<1, 1>> \o Choice[i + 1] \o len_bits
           a == RepCells(pos)
           b == ChoiceCells(i, pos)
           c == LengthCells("rep_len", len_bits, pos)
<1>1. pos \in Nat /\ setting \in Settings /\ pb \in 0 .. 4
  BY Operands DEF TypeInv, TablesInv
<1>2. len_bits \in Seq(Bits) /\ len \in Nat /\ c \in Seq(Placed)
  BY <1>1, LengthFits DEF Lengths
<1>3. a \in Seq(Placed)
  BY <1>1, RepCellsFit DEF TypeInv
<1>4. b \in Seq(Placed)
  <2>1. <<"is_rep0_long", state, PosState(pos)>> \in Placed
        /\ <<"is_rep1", state, 0>> \in Placed /\ <<"is_rep2", state, 0>> \in Placed
    BY <1>1, IsMatchCell DEF TypeInv
  <2>2. CASE i = 0
    BY <2>1, <2>2 DEF ChoiceCells
  <2>3. CASE i = 1
    BY <2>1, <2>3 DEF ChoiceCells
  <2>4. CASE i # 0 /\ i # 1
    BY <2>1, <2>4 DEF ChoiceCells
  <2> QED
    BY <2>2, <2>3, <2>4
<1>5. Choice[i + 1] \in Seq(Bits)
  <2>1. i = 0 \/ i = 1 \/ i = 2 \/ i = 3
    OBVIOUS
  <2>2. Choice[1] \in Seq(Bits) /\ Choice[2] \in Seq(Bits)
        /\ Choice[3] \in Seq(Bits) /\ Choice[4] \in Seq(Bits)
    BY DEF Choice, Bits
  <2> QED
    BY <2>1, <2>2
<1>6. bits \in Seq(Bits)
  <2> DEFINE d == Choice[i + 1]
  <2> HIDE DEF d
  <2> QED
    BY <1>2, <1>5 DEF Bits, d
<1>7. Decoded(s, bits, a \o b \o c) /\ Repeat(len) /\ reps' = reps_after(i)
  BY DEF LongRep
<1> HIDE DEF len, s, bits, a, b, c
<1>8. a \o b \o c \in Seq(Placed)
  BY <1>2, <1>3, <1>4
<1>9. TablesInv' /\ SeenInv' /\ symbols' \in 0 .. setting'.symbols
  BY <1>6, <1>7, <1>8, DecodedTyped
<1>10. full' \in 0 .. DictSize /\ status' \in {"ok", "refused"}
  BY <1>2, <1>7, RepeatTyped
<1>11. RepsInv'
  <2>1. \A k \in 0 .. 3 : /\ reps[k] \in Half
                          /\ k # 0 => reps[k - 1] \in Half
    BY DEF TypeInv, RepsInv
  <2>2. reps_after(i) \in [0 .. 3 -> Half]
    BY <2>1 DEF reps_after
  <2> QED
    BY <1>7, <2>2 DEF RepsInv, Half
<1> QED
  BY <1>9, <1>10, <1>11 DEF TypeInv, CountsInv

LEMMA TypeStep == TypeInv /\ HistoryInv /\ [Next]_vars => TypeInv'
<1> SUFFICES ASSUME TypeInv, HistoryInv, [Next]_vars
             PROVE  TypeInv'
  OBVIOUS
<1>1. CASE Reset /\ UNCHANGED tables
  <2>1. TablesInv' /\ setting' = setting
    BY <1>1, TablesStay DEF TypeInv
  <2> QED
    BY <1>1, <2>1, ResetTyped
<1>2. ASSUME NEW props \in setting.props, Renew(props)
      PROVE  TypeInv'
  <2>1. PropsFit(props) /\ Reset /\ setting' = setting
        /\ lc' = LcOf(props) /\ lp' = LpOf(props) /\ pb' = PbOf(props)
    BY <1>2 DEF Renew
  <2>2. props \in Nat /\ setting \in Settings
    BY SettingFacts DEF TypeInv, TablesInv
  <2>3. TablesInv'
    BY <2>1, <2>2, PropsTyped DEF TablesInv
  <2> QED
    BY <2>1, <2>3, ResetTyped
<1>3. CASE symbols < setting.symbols /\ Symbol
  <2>1. CASE \E bits \in Strings(LitBits), prev_byte \in setting.bytes,
                pos \in setting.positions,
                match_byte \in IF is_literal THEN {0} ELSE setting.bytes :
                Literal(bits, prev_byte, pos, match_byte)
    BY <1>3, <2>1, LiteralTyped
  <2>2. CASE \E len_bits \in LengthInputs, pos \in setting.positions, i \in 0 .. 3 :
                LongRep(i, len_bits, pos)
    BY <1>3, <2>2, LongRepTyped
  <2>3. CASE \E len_bits \in LengthInputs, pos \in setting.positions,
                slot_bits \in Strings(SlotBits) :
               \E rest \in Strings(RestBits(tree(slot_bits))) :
                 Match(len_bits, slot_bits, rest, pos)
    BY <1>3, <2>3, MatchTyped
  <2>4. CASE \E pos \in setting.positions : ShortRep(pos)
    BY <1>3, <2>4, ShortRepTyped
  <2> QED
    BY <1>3, <2>1, <2>2, <2>3, <2>4 DEF Symbol
<1>4. CASE UNCHANGED vars
  <2>1. /\ UNCHANGED tables /\ reps' = reps /\ full' = full /\ status' = status
        /\ symbols' = symbols /\ taken' = taken /\ cells' = cells /\ kinds' = kinds
    BY <1>4 DEF vars, seen
  <2>2. TablesInv' /\ setting' = setting /\ Placed' = Placed
    BY <2>1, TablesStay DEF TypeInv
  <2> QED
    BY <2>1, <2>2 DEF TypeInv, RepsInv, CountsInv, SeenInv, Half
<1> QED
  BY <1>1, <1>2, <1>3, <1>4 DEF Next

(* Whatever the bits, the property bytes and what the dictionary holds, no *)
(* probability is looked for outside its table and no number leaves its    *)
(* type: the code indexes those tables without a check of its own.         *)
THEOREM StaysInTables == Spec => []InTables
  BY TypeInit, TypeStep, HistoryInit, HistoryStep, TypeInvTables, PTL DEF Spec
-----------------------------------------------------------------------------
(* What MatchByteCounts says of a literal's bits, without their 0 in front. *)
LEMMA LiteralCounts ==
  ASSUME TypeInv, HistoryInv, NEW bits \in Strings(LitBits),
         NEW prev_byte, NEW pos, NEW match_byte \in Nat,
         Literal(bits, prev_byte, pos, match_byte), kinds[4] # "literal",
         NEW i \in 1 .. LitBits
  PROVE  /\ cells'[i + 1][3] = IF Agree(bits, match_byte, i - 1)
                               THEN 2 ^ LitBits * (1 + Guess(match_byte, i))
                                      + place(bits, i - 1)
                               ELSE place(bits, i - 1)
         /\ taken'[i + 1] = bits[i] /\ Tail(taken') = bits
<1> DEFINE row == get_sub_coder_index(prev_byte, pos)
           first == <<"is_match", state, PosState(pos)>>
           columns == MatchedColumns(bits, match_byte)
           others == [k \in 1 .. LitBits |-> <<"literal", row, columns[k]>>]
<1>1. bits \in Seq(Bits) /\ Len(bits) = LitBits /\ LitBits \in Nat
  BY Operands, Widths DEF TypeInv
<1>2. ~ is_literal
  <2>1. state \in 7 .. 11
    BY StateRange DEF HistoryInv, lit
  <2> QED
    BY <2>1 DEF is_literal, LIT_STATES
<1>3. LiteralCells(row, bits, match_byte) = others
  BY <1>1, <1>2 DEF LiteralCells
<1>4. cells' = <<first>> \o LiteralCells(row, bits, match_byte) /\ taken' = <<0>> \o bits
  BY DEF Literal, Decoded
<1>5. columns[i] = IF Agree(bits, match_byte, i - 1)
                   THEN 2 ^ LitBits * (1 + Guess(match_byte, i)) + place(bits, i - 1)
                   ELSE place(bits, i - 1)
  BY <1>1, ColumnOf
<1> HIDE DEF first, columns, row
<1>6. others \in Seq(Range(others)) /\ Len(others) = LitBits
      /\ others[i] = <<"literal", row, columns[i]>>
  <2>1. others[i] = <<"literal", row, columns[i]>>
    OBVIOUS
  <2>2. others \in [1 .. LitBits -> Range(others)]
    BY DEF Range
  <2> HIDE DEF others
  <2> QED
    BY <1>1, <2>1, <2>2
<1> HIDE DEF others
<1>7. cells' = <<first>> \o others
  BY <1>3, <1>4
<1>8. cells'[i + 1] = others[i]
  <2>1. i + 1 \in 2 .. 1 + Len(others) /\ i + 1 - 1 = i
    BY <1>1, <1>6
  <2>2. (<<first>> \o others)[i + 1] = others[i]
    BY <1>6, <2>1
  <2> QED
    BY <1>7, <2>2
<1>9. cells'[i + 1][3] = columns[i]
  BY <1>6, <1>8
<1>10. taken'[i + 1] = bits[i]
  BY <1>1, <1>4
<1>11. Tail(taken') = bits
  <2> DEFINE t == <<0>> \o bits
             u == Tail(t)
  <2>1. t \in Seq(Bits) /\ Len(t) = Len(bits) + 1 /\ \A k \in 1 .. Len(bits) : t[k + 1] = bits[k]
    BY <1>1 DEF Bits
  <2> HIDE DEF t
  <2>2. u \in Seq(Bits) /\ Len(u) = Len(bits) /\ \A k \in 1 .. Len(bits) : u[k] = t[k + 1]
    BY <2>1
  <2> HIDE DEF u
  <2>3. u = bits
    BY <1>1, <2>1, <2>2
  <2> QED
    BY <1>4, <2>3 DEF u, t
<1> QED
  BY <1>5, <1>9, <1>10, <1>11

LEMMA MatchByteStep ==
  TypeInv /\ HistoryInv /\ MatchByteCounts /\ [Next]_vars => MatchByteCounts'
<1> SUFFICES ASSUME TypeInv, HistoryInv, MatchByteCounts, [Next]_vars
             PROVE  MatchByteCounts'
  OBVIOUS
<1>1. CASE Reset \/ \E props : Renew(props)
  <2>1. kinds' = NoKinds
    BY <1>1 DEF Reset, Renew
  <2>2. kinds'[3] = "literal"
    BY <2>1 DEF NoKinds
  <2> QED
    BY <2>2 DEF MatchByteCounts
<1>2. ASSUME NEW bits \in Strings(LitBits), NEW prev_byte, NEW pos, NEW match_byte \in Nat,
             Literal(bits, prev_byte, pos, match_byte)
      PROVE  MatchByteCounts'
  <2>1. symbol'[3] = match_byte
    <3>1. PICK byte, b, used : Decoded(<<"literal", byte, match_byte>>, b, used)
      BY <1>2 DEF Literal
    <3> QED
      BY <3>1 DEF Decoded
  <2>2. kinds'[3] = kinds[4]
    <3>1. Moves("literal", after_literal)
      BY <1>2, LiteralMoves
    <3> QED
      BY <3>1 DEF Moves
  <2>3. CASE kinds[4] = "literal"
    BY <2>2, <2>3 DEF MatchByteCounts
  <2>4. CASE kinds[4] # "literal"
    <3> DEFINE guess(k) == (symbol'[3] \div 2 ^ (LitBits - k)) % 2
    <3>1. \A k : guess(k) = Guess(match_byte, k)
      BY <2>1 DEF Guess
    <3>2. ASSUME NEW i \in 1 .. LitBits
          PROVE  cells'[i + 1][3] =
                   IF \A k \in 1 .. i - 1 : taken'[k + 1] = guess(k)
                   THEN 2 ^ LitBits * (1 + guess(i)) + place(Tail(taken'), i - 1)
                   ELSE place(Tail(taken'), i - 1)
      <4>1. \A k \in 1 .. LitBits : taken'[k + 1] = bits[k]
        BY <1>2, <2>4, LiteralCounts
      <4>2. Tail(taken') = bits
        BY <1>2, <2>4, LiteralCounts
      <4>3. cells'[i + 1][3] = IF Agree(bits, match_byte, i - 1)
                               THEN 2 ^ LitBits * (1 + Guess(match_byte, i))
                                      + place(bits, i - 1)
                               ELSE place(bits, i - 1)
        BY <1>2, <2>4, LiteralCounts
      <4>4. \A k \in 1 .. i - 1 : k \in 1 .. LitBits
        BY Widths
      <4> HIDE DEF guess
      <4>5. Agree(bits, match_byte, i - 1) <=> \A k \in 1 .. i - 1 : taken'[k + 1] = guess(k)
        BY <3>1, <4>1, <4>4 DEF Agree
      <4> QED
        BY <3>1, <4>2, <4>3, <4>5
    <3> QED
      BY <3>2 DEF MatchByteCounts
  <2> QED
    BY <2>3, <2>4
<1>3. CASE Symbol
  <2>1. CASE \E bits \in Strings(LitBits), prev_byte \in setting.bytes,
                pos \in setting.positions,
                match_byte \in IF is_literal THEN {0} ELSE setting.bytes :
                Literal(bits, prev_byte, pos, match_byte)
    <3>1. PICK bits \in Strings(LitBits), prev_byte \in setting.bytes,
               pos \in setting.positions,
               match_byte \in IF is_literal THEN {0} ELSE setting.bytes :
                 Literal(bits, prev_byte, pos, match_byte)
      BY <2>1
    <3>2. match_byte \in Nat
      <4>1. match_byte \in {0} \/ match_byte \in setting.bytes
        BY <3>1
      <4> QED
        BY <4>1, Operands DEF TypeInv
    <3> QED
      BY <1>2, <3>1, <3>2
  <2>2. CASE \E len_bits, pos, i : LongRep(i, len_bits, pos)
    <3>1. symbol'[1] = "rep"
      BY <2>2 DEF LongRep, Decoded
    <3> QED
      BY <3>1 DEF MatchByteCounts
  <2>3. CASE \E len_bits, pos, slot_bits, rest : Match(len_bits, slot_bits, rest, pos)
    <3>1. symbol'[1] = "match"
      BY <2>3 DEF Match, Decoded
    <3> QED
      BY <3>1 DEF MatchByteCounts
  <2>4. CASE \E pos : ShortRep(pos)
    <3>1. symbol' = <<"short rep">>
      BY <2>4 DEF ShortRep, Decoded
    <3>2. symbol'[1] = "short rep"
      BY <3>1
    <3> QED
      BY <3>2 DEF MatchByteCounts
  <2> QED
    BY <1>3, <2>1, <2>2, <2>3, <2>4 DEF Symbol
<1>4. CASE UNCHANGED vars
  <2>1. symbol' = symbol /\ taken' = taken /\ cells' = cells /\ kinds' = kinds
    BY <1>4 DEF vars, seen
  <2> QED
    BY <2>1 DEF MatchByteCounts
<1> QED
  BY <1>1, <1>3, <1>4 DEF Next

(* The first bit of a literal that is not the match byte's leaves the two  *)
(* trees that the match byte chooses from, for good, and no bit before it  *)
(* does: the masks of LiteralSubDecoder::decode work for every byte, every *)
(* match byte and every width.                                             *)
THEOREM MatchByteSteers == Spec => []MatchByteCounts
<1>1. Init => MatchByteCounts
  BY DEF Init, MatchByteCounts
<1> QED
  BY <1>1, TypeInit, TypeStep, HistoryInit, HistoryStep, MatchByteStep, PTL DEF Spec
-----------------------------------------------------------------------------
(* Back to the numbers of the format.                                      *)
LEMMA SignedBack ==
  ASSUME NEW n \in Nat, n < Word
  PROVE  Signed(n) % Word = n
<1> DEFINE w == Word
           h == Word \div 2
<1>1. w \in Nat /\ h \in Nat /\ w = 2 * h /\ h >= 4
  BY HalfWord
<1>2. n % w = n
  <2> HIDE DEF w, h
  <2>1. n \in 0 .. w - 1
    BY <1>1 DEF w
  <2> QED
    BY <1>1, <2>1, SmallRemainder
<1>3. Signed(n) = IF n >= h THEN n - w ELSE n
  BY <1>2 DEF Signed
<1>4. (n - w) % w = n
  <2> HIDE DEF h
  <2>1. n < w /\ w \in Nat /\ w > 0
    BY <1>1
  <2> HIDE DEF w
  <2> DEFINE x == n - w
             q == x \div w
             r == x % w
  <2>2. x \in Int /\ x + w = n
    BY <2>1
  <2> HIDE DEF x
  <2>3. x = w * q + r /\ r \in 0 .. w - 1 /\ q \in Int
    BY <2>1, <2>2, SMTT(30)
  <2> HIDE DEF q, r
  <2>4. q = -1
    <3>1. CASE q >= 0
      <4>1. w * q >= 0 /\ w * q \in Int
        BY <2>1, <2>3, <3>1, SMTT(30)
      <4> QED
        BY <2>1, <2>2, <2>3, <4>1
    <3>2. CASE q <= -2
      <4>1. w * (q + 2) <= 0 /\ w * (q + 2) = w * q + 2 * w /\ w * q \in Int
        BY <2>1, <2>3, <3>2, SMTT(30)
      <4> QED
        BY <2>1, <2>2, <2>3, <4>1
    <3> QED
      BY <2>3, <3>1, <3>2
  <2>5. w * q = -w
    BY <2>1, <2>4
  <2>6. r = n
    BY <2>1, <2>2, <2>3, <2>5
  <2> QED
    BY <2>6 DEF r, x
<1> QED
  BY <1>2, <1>3, <1>4

(* What stands above a bit does not change it.                             *)
LEMMA BitBelow ==
  ASSUME NEW h \in Nat, NEW k \in Nat, NEW x \in Nat, NEW i \in 0 .. k - 1
  PROVE  Format!Bit(h * 2 ^ k + x, i) = Format!Bit(x, i)
<1> DEFINE p == 2 ^ i
           e == 2 ^ (k - i - 1)
           q == x \div p
           r == x % p
           y == h * 2 ^ k + x
<1>1. i \in Nat /\ k - i - 1 \in Nat /\ i + 1 \in Nat /\ i + 1 + (k - i - 1) = k
  OBVIOUS
<1>2. p \in Nat /\ p > 0 /\ e \in Nat
  BY <1>1, PowerTyped
<1>3. 2 ^ k = (2 * p) * e
  <2>1. 2 ^ (i + 1 + (k - i - 1)) = 2 ^ (i + 1) * e
    BY <1>1, PowerAdd
  <2>2. 2 ^ (i + 1) = 2 * p
    BY <1>1, PowerStep
  <2> QED
    BY <1>1, <2>1, <2>2
<1>4. y = h * ((2 * p) * e) + x
  BY <1>3
<1> HIDE DEF p, e, y
<1>5. x = p * q + r /\ r \in 0 .. p - 1 /\ q \in Nat
  BY <1>2, DivMod
<1> HIDE DEF q, r
<1> DEFINE g == h * e
           d == 2 * g + q
<1>6. g \in Nat
  BY <1>2, SMTT(30)
<1>7. h * ((2 * p) * e) = p * (2 * g)
  BY <1>2, SMTT(30)
<1> HIDE DEF g
<1>8. d \in Nat
  BY <1>5, <1>6
<1>9. y = p * d + r
  <2>1. p * (2 * g + q) = p * (2 * g) + p * q
    BY <1>2, <1>5, <1>6, SMTT(30)
  <2>2. p * (2 * g) \in Nat /\ p * q \in Nat
    BY <1>2, <1>5, <1>6, SMTT(30)
  <2> DEFINE u == p * (2 * g)
             v == p * q
  <2>3. y = u + (v + r) /\ p * d = u + v /\ u \in Nat /\ v \in Nat
    BY <1>4, <1>5, <1>7, <2>1, <2>2
  <2> HIDE DEF u, v, d
  <2>4. r \in Nat
    BY <1>2, <1>5
  <2> QED
    BY <2>3, <2>4
<1> HIDE DEF d
<1>10. y \div p = d
  <2>1. p * d \in Nat
    BY <1>2, <1>8, SMTT(30)
  <2>2. y \in Nat
    BY <1>2, <1>5, <1>9, <2>1
  <2> QED
    BY <1>2, <1>5, <1>8, <1>9, <2>2, QuotientUnique
<1>11. d % 2 = q % 2
  <2> DEFINE s == q \div 2
             t == q % 2
  <2>1. q = 2 * s + t /\ t \in 0 .. 2 - 1 /\ s \in Nat
    BY <1>5, DivMod
  <2> HIDE DEF s, t
  <2>2. d = 2 * (g + s) + t /\ g + s \in Nat
    BY <1>6, <2>1 DEF d
  <2>3. d % 2 = t
    BY <1>8, <2>1, <2>2, QuotientUnique
  <2> QED
    BY <2>3 DEF t
<1> QED
  BY <1>10, <1>11 DEF Format!Bit, y, p, q

LEMMA LowFirstBelow ==
  ASSUME NEW h \in Nat, NEW k \in Nat, NEW x \in Nat
  PROVE  Format!LowFirst(h * 2 ^ k + x, k) = Format!LowFirst(x, k)
<1> DEFINE y == h * 2 ^ k + x
<1>1. \A i \in 1 .. k : Format!Bit(y, i - 1) = Format!Bit(x, i - 1)
  <2> SUFFICES ASSUME NEW i \in 1 .. k
               PROVE  Format!Bit(y, i - 1) = Format!Bit(x, i - 1)
    OBVIOUS
  <2>1. i - 1 \in 0 .. k - 1
    OBVIOUS
  <2> QED
    BY <2>1, BitBelow
<1> HIDE DEF y
<1>2. Format!LowFirst(y, k) = Format!LowFirst(x, k)
  BY <1>1 DEF Format!LowFirst
<1> QED
  BY <1>2 DEF y

LEMMA HighFirstBelow ==
  ASSUME NEW h \in Nat, NEW k \in Nat, NEW x \in Nat
  PROVE  Format!HighFirst(h * 2 ^ k + x, k) = Format!HighFirst(x, k)
<1> DEFINE y == h * 2 ^ k + x
<1>1. \A i \in 1 .. k : Format!Bit(y, k - i) = Format!Bit(x, k - i)
  <2> SUFFICES ASSUME NEW i \in 1 .. k
               PROVE  Format!Bit(y, k - i) = Format!Bit(x, k - i)
    OBVIOUS
  <2>1. k - i \in 0 .. k - 1
    OBVIOUS
  <2> QED
    BY <2>1, BitBelow
<1> HIDE DEF y
<1>2. Format!HighFirst(y, k) = Format!HighFirst(x, k)
  BY <1>1 DEF Format!HighFirst
<1> QED
  BY <1>2 DEF y

LEMMA MagnitudeIs ==
  ASSUME NEW n \in Nat, NEW m \in 0 .. WordBits - 1, 2 ^ m <= n, n < 2 ^ (m + 1)
  PROVE  Format!Magnitude(n) = m
<1> DEFINE p(i) == 2 ^ i
           M(i) == i \in 0 .. WordBits - 1 /\ p(i) <= n /\ n < p(i + 1)
<1>1. WordBits \in Nat
  BY Widths
<1>2. \A i \in Nat : p(i) \in Nat
  BY PowerTyped
<1>3. \A i, j \in Nat : i <= j => p(i) <= p(j)
  BY PowerMonotone
<1>4. M(m)
  OBVIOUS
<1>5. Format!Magnitude(n) = CHOOSE i \in 0 .. WordBits - 1 : p(i) <= n /\ n < p(i + 1)
  BY DEF Format!Magnitude
<1> HIDE DEF p
<1> DEFINE c == CHOOSE i \in 0 .. WordBits - 1 : p(i) <= n /\ n < p(i + 1)
<1>6. M(c)
  BY <1>4
<1> HIDE DEF c
<1>7. c \in Nat /\ m \in Nat /\ c + 1 \in Nat /\ m + 1 \in Nat
  BY <1>1, <1>6
<1>8. p(c) \in Nat /\ p(m) \in Nat /\ p(c + 1) \in Nat /\ p(m + 1) \in Nat
  BY <1>2, <1>7
<1>9. ~ (c + 1 <= m)
  <2> SUFFICES ASSUME c + 1 <= m
               PROVE  FALSE
    OBVIOUS
  <2>1. p(c + 1) <= p(m)
    BY <1>3, <1>7
  <2> QED
    BY <1>4, <1>6, <1>8, <2>1
<1>10. ~ (m + 1 <= c)
  <2> SUFFICES ASSUME m + 1 <= c
               PROVE  FALSE
    OBVIOUS
  <2>1. p(m + 1) <= p(c)
    BY <1>3, <1>7
  <2> QED
    BY <1>4, <1>6, <1>8, <2>1
<1>11. c = m
  BY <1>7, <1>9, <1>10
<1> QED
  BY <1>5, <1>11 DEF c

(* The bits of a length are the format's for that length.                  *)
LEMMA LengthCodes ==
  ASSUME setting \in Settings, NEW bits \in LengthInputs
  PROVE  Format!LengthCode(length(bits)) = bits
<1> DEFINE n == length(bits)
           t == tree(Rest(bits))
           l == 2 ^ LowBits
           m == 2 ^ MidBits
<1>1. l \in Nat /\ m \in Nat
  BY Widths, PowerTyped
<1>2. n = t + 2 + IF bits[1] = 0 THEN 0 ELSE IF bits[2] = 0 THEN l ELSE l + m
  BY DEF length, MATCH_LEN_MIN
<1>3. Format!LengthCode(n)
        = IF n - 2 - l < 0 THEN <<0>> \o Format!HighFirst(n - 2, LowBits)
          ELSE IF n - 2 - l - m < 0 THEN <<1, 0>> \o Format!HighFirst(n - 2 - l, MidBits)
          ELSE <<1, 1>> \o Format!HighFirst(n - 2 - l - m, HighBits)
  BY DEF Format!LengthCode
<1>4. PICK s \in Seq(Bits) :
        \/ bits = <<0>> \o s /\ Len(s) = LowBits
        \/ bits = <<1, 0>> \o s /\ Len(s) = MidBits
        \/ bits = <<1, 1>> \o s /\ Len(s) = HighBits
  BY LengthShape
<1>5. Format!HighFirst(tree(s), Len(s)) = s
  BY TreeBits
<1>6. tree(s) \in 0 .. 2 ^ Len(s) - 1
  BY TreeRange
<1>7. CASE bits = <<0>> \o s /\ Len(s) = LowBits
  <2>1. bits[1] = 0 /\ t = tree(s)
    BY <1>7, RestOfLow
  <2>2. t \in 0 .. l - 1
    BY <1>6, <1>7, <2>1
  <2>3. n = t + 2 + 0
    BY <1>2, <2>1
  <2> HIDE DEF n, t, l, m
  <2>4. n - 2 = t /\ n - 2 - l < 0
    BY <1>1, <2>2, <2>3
  <2> QED
    BY <1>3, <1>5, <1>7, <2>1, <2>4 DEF n
<1>8. CASE bits = <<1, 0>> \o s /\ Len(s) = MidBits
  <2>1. bits[1] = 1 /\ bits[2] = 0 /\ t = tree(s)
    BY <1>8, RestOfOther DEF Bits
  <2>2. t \in 0 .. m - 1
    BY <1>6, <1>8, <2>1
  <2>3. n = t + 2 + l
    BY <1>2, <2>1
  <2> HIDE DEF n, t, l, m
  <2>4. n - 2 - l = t /\ ~ (n - 2 - l < 0) /\ n - 2 - l - m < 0
    BY <1>1, <2>2, <2>3
  <2> QED
    BY <1>3, <1>5, <1>8, <2>1, <2>4 DEF n
<1>9. CASE bits = <<1, 1>> \o s /\ Len(s) = HighBits
  <2>1. bits[1] = 1 /\ bits[2] = 1 /\ t = tree(s)
    BY <1>9, RestOfOther DEF Bits
  <2>2. t \in Nat
    <3>1. 2 ^ HighBits \in Nat
      BY Widths, PowerTyped
    <3> QED
      BY <1>6, <1>9, <2>1, <3>1
  <2>3. n = t + 2 + (l + m)
    BY <1>2, <2>1
  <2> HIDE DEF n, t, l, m
  <2>4. n - 2 - l - m = t /\ ~ (n - 2 - l < 0) /\ ~ (n - 2 - l - m < 0)
    BY <1>1, <2>2, <2>3
  <2> QED
    BY <1>3, <1>5, <1>9, <2>1, <2>4 DEF n
<1> QED
  BY <1>4, <1>7, <1>8, <1>9

(* The slot's last bit is the distance's second.                           *)
LEMMA SecondBit ==
  ASSUME NEW b \in 0 .. 1, NEW k \in Nat, NEW low \in 0 .. 2 ^ k - 1
  PROVE  Format!Bit((2 + b) * 2 ^ k + low, k) = b
<1> DEFINE h == 2 ^ k
           n == (2 + b) * h + low
           c == 2 + b
<1>1. h \in Nat /\ h > 0
  BY PowerTyped
<1>2. c \in Nat /\ low \in 0 .. h - 1
  OBVIOUS
<1> HIDE DEF h
<1>3. n = h * c + low /\ h * c \in Nat
  <2> HIDE DEF c
  <2>1. c * h = h * c /\ h * c \in Nat
    BY <1>1, <1>2, SMTT(30)
  <2> QED
    BY <2>1 DEF c
<1> HIDE DEF n
<1>4. n \in Nat
  <2> DEFINE u == h * c
  <2>1. u \in Nat /\ n = u + low
    BY <1>3
  <2> HIDE DEF u
  <2> QED
    BY <1>1, <1>2, <2>1
<1>5. n \div h = c
  BY <1>1, <1>2, <1>3, <1>4, QuotientUnique
<1>6. c % 2 = b
  <2>1. c = 2 * 1 + b /\ b \in 0 .. 2 - 1
    OBVIOUS
  <2> HIDE DEF c
  <2> QED
    BY <1>2, <2>1, QuotientUnique
<1> QED
  BY <1>5, <1>6 DEF Format!Bit, n, h

(* What comes after the slot.                                              *)
LEMMA RestCodes ==
  ASSUME NEW slot \in 0 .. 2 * WordBits - 1, slot >= DIST_MODEL_START,
         NEW bits \in Seq(Bits), Len(bits) = RestBits(slot)
  PROVE  bits = IF slot < DIST_MODEL_END
                THEN Format!LowFirst(Whole(slot, bits), Limit(slot))
                ELSE Format!HighFirst(Whole(slot, bits) \div 2 ^ ALIGN_BITS,
                                      Limit(slot) - ALIGN_BITS)
                       \o Format!LowFirst(Whole(slot, bits), ALIGN_BITS)
<1> DEFINE k == Limit(slot)
           b == slot % 2
           c == 2 + b
           n == Whole(slot, bits)
<1>1. Len(bits) = k /\ k \in Nat /\ b \in 0 .. 1
  BY SlotHalves
<1>2. c \in Nat
  BY <1>1
<1>3. n = c * 2 ^ k + Low(slot, bits)
  BY DEF Whole
<1>4. CASE slot < DIST_MODEL_END
  <2> DEFINE r == reverse(bits)
  <2>1. n = c * 2 ^ k + r
    BY <1>3, <1>4 DEF Low
  <2>2. r \in Nat
    <3>1. r \in 0 .. 2 ^ k - 1 /\ 2 ^ k \in Nat
      BY <1>1, ReverseRange, PowerTyped
    <3> HIDE DEF r, k
    <3> QED
      BY <3>1
  <2>3. Format!LowFirst(r, k) = bits
    BY <1>1, ReverseBits
  <2> HIDE DEF k, c, n, r
  <2>4. Format!LowFirst(n, k) = bits
    BY <1>1, <1>2, <2>1, <2>2, <2>3, LowFirstBelow
  <2> QED
    BY <1>4, <2>4 DEF n, k
<1>5. CASE ~ (slot < DIST_MODEL_END)
  <2> DEFINE a == ALIGN_BITS
             j == k - a
             s == DirectBits(slot, bits)
             u == AlignBits(slot, bits)
             t == tree(s)
             r == reverse(u)
             x == 2 ^ j
             y == 2 ^ a
             q == c * x + t
  <2>0. slot >= DIST_MODEL_END
    BY <1>5, WidthsAssumption
  <2>1. j \in Nat /\ a \in Nat /\ j + a = k
    BY <1>1, <2>0, AlignFits, Widths
  <2>2. /\ s \in Seq(Bits) /\ Len(s) = j /\ u \in Seq(Bits) /\ Len(u) = a /\ bits = s \o u
    BY <2>0, RestSplits
  <2>3. x \in Nat
    BY <2>1, PowerTyped
  <2>4. y \in Nat /\ y >= 1
    BY <2>1, PowerTyped
  <2>5. 2 ^ k = x * y
    <3>1. 2 ^ (j + a) = x * y
      BY <2>1, PowerAdd
    <3> QED
      BY <2>1, <3>1
  <2>6. t \in Nat
    <3>1. t \in 0 .. 2 ^ Len(s) - 1
      BY <2>2, TreeRange
    <3>2. t \in 0 .. x - 1
      BY <2>2, <3>1
    <3> HIDE DEF t, x
    <3> QED
      BY <2>3, <3>2
  <2>7. r \in 0 .. y - 1
    <3>1. r \in 0 .. 2 ^ Len(u) - 1
      BY <2>2, ReverseRange
    <3> QED
      BY <2>2, <3>1
  <2>8. Format!HighFirst(t, j) = s
    BY <2>2, TreeBits
  <2>9. Format!LowFirst(r, a) = u
    BY <2>2, ReverseBits
  <2>10. n = c * (x * y) + (t * y + r)
    BY <1>3, <1>5, <2>5 DEF Low
  <2>11. q \in Nat
    <3> HIDE DEF c, x, t
    <3>1. c * x \in Nat
      BY <1>2, <2>3, SMTT(30)
    <3> QED
      BY <2>6, <3>1
  <2>12. r \in Nat
    <3> HIDE DEF r, y
    <3> QED
      BY <2>4, <2>7
  <2>13. n = q * y + r /\ q * y = y * q /\ q * y \in Nat
    <3> HIDE DEF c, x, y, t, r, n
    <3>1. (c * x + t) * y = c * (x * y) + t * y
      BY <1>2, <2>3, <2>4, <2>6, SMTT(30)
    <3>2. c * (x * y) \in Nat /\ t * y \in Nat
      BY <1>2, <2>3, <2>4, <2>6, SMTT(30)
    <3> DEFINE v == c * (x * y)
               w == t * y
    <3>3. n = v + (w + r) /\ q * y = v + w /\ v \in Nat /\ w \in Nat
      BY <2>10, <3>1, <3>2
    <3>4. n = q * y + r /\ q * y \in Nat
      <4> HIDE DEF v, w, q
      <4> QED
        BY <2>12, <3>3
    <3>5. q * y = y * q
      <4> HIDE DEF q
      <4> QED
        BY <2>4, <2>11, SMTT(30)
    <3> QED
      BY <3>4, <3>5
  <2>14. n \in Nat
    <3> DEFINE v == q * y
    <3>1. v \in Nat /\ n = v + r
      BY <2>13
    <3> HIDE DEF v, n, r
    <3> QED
      BY <2>12, <3>1
  <2> HIDE DEF n, r, y, t, q
  <2>15. n \div y = q
    <3>1. n = y * q + r
      BY <2>13
    <3> QED
      BY <2>4, <2>7, <2>11, <2>14, <3>1, QuotientUnique
  <2>16. Format!HighFirst(q, j) = s
    <3>1. Format!HighFirst(c * 2 ^ j + t, j) = Format!HighFirst(t, j)
      BY <1>2, <2>1, <2>6, HighFirstBelow
    <3> QED
      BY <2>8, <3>1 DEF q
  <2>17. Format!LowFirst(n, a) = u
    <3>1. Format!LowFirst(q * 2 ^ a + r, a) = Format!LowFirst(r, a)
      BY <2>1, <2>11, <2>12, LowFirstBelow
    <3> QED
      BY <2>9, <2>13, <3>1 DEF y
  <2> HIDE DEF s, u
  <2> QED
    BY <1>5, <2>2, <2>15, <2>16, <2>17 DEF n, y
<1> QED
  BY <1>4, <1>5

(* The bits of a distance, slot and rest, are the format's for it.         *)
LEMMA DistanceCodes ==
  ASSUME NEW slot_bits \in Seq(Bits), Len(slot_bits) = SlotBits,
         NEW slot, slot = tree(slot_bits), slot \in 0 .. 2 * WordBits - 1,
         NEW rest \in Seq(Bits), Len(rest) = RestBits(slot)
  PROVE  Format!DistanceCode(distance(slot, rest) % Word) = slot_bits \o rest
<1> DEFINE d == distance(slot, rest) % Word
<1>1. Format!HighFirst(slot, SlotBits) = slot_bits
  BY TreeBits
<1>2. CASE slot < DIST_MODEL_START
  <2>1. distance(slot, rest) = slot /\ slot \in 0 .. 3
    BY <1>2 DEF distance, DIST_MODEL_START
  <2>2. d = slot
    <3> DEFINE w == Word
    <3>1. w \in Nat /\ w >= 8
      BY HalfWord
    <3> HIDE DEF w
    <3>2. slot \in 0 .. w - 1
      BY <2>1, <3>1
    <3>3. slot % w = slot
      BY <3>1, <3>2, SmallRemainder
    <3> QED
      BY <2>1, <3>3 DEF w
  <2>3. rest = <<>>
    BY <1>2 DEF RestBits
  <2>4. Format!DistanceCode(slot) = Format!HighFirst(slot, SlotBits)
    <3>1. slot < 4
      BY <2>1
    <3> QED
      BY ONLY <3>1, Zenon DEF Format!DistanceCode
  <2> HIDE DEF d
  <2>5. slot_bits \o rest = slot_bits
    BY <2>3
  <2> QED
    BY <1>1, <2>2, <2>4, <2>5 DEF d
<1>3. CASE ~ (slot < DIST_MODEL_START)
  <2> DEFINE m == slot \div 2
             b == slot % 2
             k == Limit(slot)
             n == Whole(slot, rest)
  <2>0. slot >= DIST_MODEL_START
    BY <1>3 DEF DIST_MODEL_START
  <2>1. m \in 2 .. WordBits - 1 /\ b \in 0 .. 1 /\ slot = 2 * m + b /\ k = m - 1 /\ k \in Nat
    BY <2>0, SlotHalves
  <2>2. /\ distance(slot, rest) = Signed(n) /\ n \in Nat
        /\ 2 ^ m <= n /\ n < 2 ^ (m + 1) /\ n < Word
    BY <2>0, WholeRange
  <2>3. d = n
    BY <2>2, SignedBack
  <2>4. n >= 4
    <3> DEFINE p == 2 ^ m
    <3>0. m \in Nat /\ 2 <= m
      BY <2>1, Widths
    <3>1. 2 ^ 2 <= p /\ p \in Nat
      <4> HIDE DEF m
      <4> QED
        BY <3>0, PowerMonotone, PowerTyped
    <3>2. 4 <= p /\ p \in Nat /\ p <= n
      BY <2>2, <3>1
    <3> HIDE DEF p, n
    <3> QED
      BY <2>2, <3>2
  <2>5. Format!Magnitude(n) = m
    <3>1. m \in 0 .. WordBits - 1
      BY <2>1
    <3> HIDE DEF m, n
    <3> QED
      BY <2>2, <3>1, MagnitudeIs
  <2>6. Format!Bit(n, k) = b
    <3>1. Low(slot, rest) \in 0 .. 2 ^ k - 1
      BY <2>0, LowRange
    <3>2. Format!Bit((2 + b) * 2 ^ k + Low(slot, rest), k) = b
      BY <2>1, <3>1, SecondBit
    <3> QED
      BY <3>2 DEF Whole
  <2>7. rest = IF slot < DIST_MODEL_END THEN Format!LowFirst(n, k)
               ELSE Format!HighFirst(n \div 2 ^ ALIGN_BITS, k - ALIGN_BITS)
                      \o Format!LowFirst(n, ALIGN_BITS)
    BY <2>0, RestCodes
  <2>8. Format!DistanceCode(n)
          = Format!HighFirst(2 * m + Format!Bit(n, m - 1), SlotBits)
              \o (IF 2 * m + Format!Bit(n, m - 1) < DIST_MODEL_END
                  THEN Format!LowFirst(n, m - 1)
                  ELSE Format!HighFirst(n \div 2 ^ ALIGN_BITS, m - 1 - ALIGN_BITS)
                         \o Format!LowFirst(n, ALIGN_BITS))
    <3>1. ~ (n < 4)
      BY <2>2, <2>4
    <3> HIDE DEF m, n
    <3> QED
      BY <2>5, <3>1 DEF Format!DistanceCode
  <2> HIDE DEF d, m, b, k, n
  <2>9. Format!DistanceCode(n) = slot_bits \o rest
    <3>1. m - 1 = k /\ Format!Bit(n, m - 1) = b /\ 2 * m + b = slot
      BY <2>1, <2>6
    <3> QED
      BY <1>1, <2>7, <2>8, <3>1
  <2> QED
    BY <2>3, <2>9 DEF d
<1> QED
  BY <1>2, <1>3
-----------------------------------------------------------------------------
(* Every symbol is one of the format's.                                    *)
LastBar == IF is_literal THEN "literal" ELSE "match"
RepsBar == [i \in 0 .. 3 |-> reps[i] % Word]

LEMMA Appended ==
  ASSUME NEW x \in Seq(Bits), NEW y \in Seq(Bits), NEW z \in Seq(Bits)
  PROVE  (x \o y) \o z = x \o (y \o z)
<1> DEFINE u == (x \o y) \o z
           v == x \o (y \o z)
<1>1. u \in Seq(Bits) /\ v \in Seq(Bits) /\ Len(u) = Len(v)
  OBVIOUS
<1>2. \A i \in 1 .. Len(u) : u[i] = v[i]
  OBVIOUS
<1> HIDE DEF u, v
<1>3. u = v
  <2>1. u = [i \in 1 .. Len(u) |-> u[i]]
    BY ONLY <1>1
  <2>2. v = [i \in 1 .. Len(u) |-> v[i]]
    BY ONLY <1>1
  <2> QED
    BY ONLY <1>2, <2>1, <2>2
<1> QED
  BY <1>3 DEF u, v

LEMMA FormatLiteral ==
  ASSUME TypeInv, HistoryInv, NEW bits \in Strings(LitBits),
         NEW prev_byte, NEW pos, NEW match_byte,
         Literal(bits, prev_byte, pos, match_byte)
  PROVE  Format!Literal
<1> DEFINE byte == place(bits, LitBits) % 2 ^ LitBits
<1>1. bits \in Seq(Bits) /\ Len(bits) = LitBits /\ LitBits \in Nat
  BY Operands, Widths DEF TypeInv
<1>2. symbol' = <<"literal", byte, match_byte>> /\ taken' = <<0>> \o bits /\ reps' = reps
  BY DEF Literal, Decoded
<1>3. byte = tree(bits)
  <2> DEFINE w == 2 ^ LitBits
             p == place(bits, LitBits)
  <2>1. w \in Nat /\ w > 0
    BY <1>1, PowerTyped
  <2>2. tree(bits) = p - w /\ tree(bits) \in 0 .. w - 1
    BY <1>1, TreeRange DEF tree
  <2>3. p \in Nat
    BY <1>1, PlaceSteps
  <2> HIDE DEF w, p
  <2>4. p = w * 1 + tree(bits)
    BY <2>1, <2>2, <2>3
  <2>5. p % w = tree(bits)
    BY <2>1, <2>2, <2>3, <2>4, QuotientUnique
  <2> QED
    BY <2>5 DEF w, p
<1>4. Format!HighFirst(byte, LitBits) = bits
  BY <1>1, <1>3, TreeBits
<1>5. Moves("literal", after_literal)
  BY LiteralMoves
<1>6. LastBar' = "literal"
  <2>1. state \in 0 .. 11
    BY StateRange DEF HistoryInv
  <2>2. state' = after_literal
    BY <1>5 DEF Moves
  <2>3. state' \in 0 .. 6
    BY <2>1, <2>2 DEF after_literal
  <2> QED
    BY <2>3 DEF LastBar, is_literal, LIT_STATES
<1>7. RepsBar' = RepsBar
  BY <1>2 DEF RepsBar, Word
<1>8. symbol'[1] = "literal" /\ symbol'[2] = byte
  BY <1>2
<1> HIDE DEF byte
<1>9. taken' = <<0>> \o Format!HighFirst(symbol'[2], LitBits)
  BY <1>2, <1>4, <1>8
<1> QED
  BY <1>6, <1>7, <1>8, <1>9 DEF Format!Literal, LastBar, RepsBar

LEMMA FormatMatch ==
  ASSUME TypeInv, NEW len_bits \in LengthInputs, NEW slot_bits \in Strings(SlotBits),
         NEW rest \in Strings(RestBits(tree(slot_bits))), NEW pos,
         Match(len_bits, slot_bits, rest, pos)
  PROVE  Format!Match
<1> DEFINE len  == length(len_bits)
           slot == tree(slot_bits)
           dist == distance(slot, rest)
<1>1. setting \in Settings /\ pb \in 0 .. 4
  BY DEF TypeInv, TablesInv
<1>2. slot_bits \in Seq(Bits) /\ Len(slot_bits) = SlotBits /\ slot \in 0 .. 2 * WordBits - 1
  BY <1>1, SlotRange
<1>3. rest \in Seq(Bits) /\ Len(rest) = RestBits(slot)
  BY <1>1, <1>2, RestBitsTyped, StringsTyped
<1>4. len_bits \in Seq(Bits)
  BY <1>1, LengthFits DEF Lengths
<1>5. Format!LengthCode(len) = len_bits
  BY <1>1, LengthCodes
<1>6. Format!DistanceCode(dist % Word) = slot_bits \o rest
  BY <1>2, <1>3, DistanceCodes
<1>7. /\ reps' = [i \in 0 .. 3 |-> IF i = 0 THEN dist ELSE reps[i - 1]]
      /\ symbol' = <<"match", reps'[0] % Word, len>>
      /\ taken' = <<1, 0>> \o len_bits \o slot_bits \o rest
      /\ state' = after_match
  BY DEF Match, Decoded
<1> HIDE DEF len, slot, dist
<1>8. reps'[0] = dist
  BY <1>7
<1>9. symbol'[1] = "match" /\ symbol'[2] = dist % Word /\ symbol'[3] = len
  BY <1>7, <1>8
<1>10. taken' = (<<1, 0>> \o len_bits) \o (slot_bits \o rest)
  <2> DEFINE a == <<1, 0>> \o len_bits
  <2>1. a \in Seq(Bits)
    BY <1>4 DEF Bits
  <2>2. taken' = (a \o slot_bits) \o rest
    BY <1>7
  <2> HIDE DEF a
  <2>3. (a \o slot_bits) \o rest = a \o (slot_bits \o rest)
    BY <1>2, <1>3, <2>1, Appended
  <2> QED
    BY <2>2, <2>3 DEF a
<1>11. taken' = <<1, 0>> \o Format!LengthCode(symbol'[3]) \o Format!DistanceCode(symbol'[2])
  BY <1>5, <1>6, <1>9, <1>10
<1>12. RepsBar' = [i \in 0 .. 3 |-> IF i = 0 THEN symbol'[2] ELSE RepsBar[i - 1]]
  <2>1. RepsBar' = [i \in 0 .. 3 |-> reps'[i] % Word]
    BY DEF RepsBar, Word
  <2>2. ASSUME NEW i \in 0 .. 3
        PROVE  reps'[i] % Word = IF i = 0 THEN symbol'[2] ELSE RepsBar[i - 1]
    <3>1. CASE i = 0
      BY <1>8, <1>9, <3>1
    <3>2. CASE i # 0
      <4>1. reps'[i] = reps[i - 1] /\ i - 1 \in 0 .. 3
        BY <1>7, <3>2
      <4>2. RepsBar[i - 1] = reps[i - 1] % Word
        BY <4>1 DEF RepsBar
      <4> QED
        BY <3>2, <4>1, <4>2
    <3> QED
      BY <3>1, <3>2
  <2> QED
    BY <2>1, <2>2
<1>13. LastBar' = "match"
  BY <1>7 DEF LastBar, is_literal, LIT_STATES, after_match
<1> QED
  BY <1>9, <1>11, <1>12, <1>13 DEF Format!Match, LastBar, RepsBar

LEMMA FormatRep ==
  ASSUME TypeInv, NEW i \in 0 .. 3, NEW len_bits \in LengthInputs, NEW pos,
         LongRep(i, len_bits, pos)
  PROVE  Format!Rep
<1> DEFINE len == length(len_bits)
<1>1. Format!LengthCode(len) = len_bits
  BY LengthCodes DEF TypeInv, TablesInv
<1>2. /\ symbol' = <<"rep", i, len>> /\ reps' = reps_after(i)
      /\ taken' = <<1, 1>> \o Choice[i + 1] \o len_bits
      /\ state' = after_long_rep
  BY DEF LongRep, Decoded
<1> HIDE DEF len
<1>3. symbol'[1] = "rep" /\ symbol'[2] = i /\ symbol'[3] = len
  BY <1>2
<1>4. taken' = <<1, 1>> \o Format!RepCode[i + 1] \o Format!LengthCode(len)
  <2>1. Format!RepCode = Choice
    BY DEF Format!RepCode, Choice
  <2> QED
    BY <1>1, <1>2, <2>1
<1>5. RepsBar' = [k \in 0 .. 3 |-> IF k = 0 THEN RepsBar[i]
                                   ELSE IF k <= i THEN RepsBar[k - 1] ELSE RepsBar[k]]
  <2>1. RepsBar' = [k \in 0 .. 3 |-> reps'[k] % Word]
    BY DEF RepsBar, Word
  <2>2. \A k \in 0 .. 3 : RepsBar[k] = reps[k] % Word
    BY DEF RepsBar
  <2>3. ASSUME NEW k \in 0 .. 3
        PROVE  reps'[k] % Word = IF k = 0 THEN RepsBar[i]
                                 ELSE IF k <= i THEN RepsBar[k - 1] ELSE RepsBar[k]
    <3>1. CASE k = 0
      <4>1. reps'[k] = reps[i]
        BY <1>2, <3>1 DEF reps_after
      <4> QED
        BY <2>2, <3>1, <4>1
    <3>2. CASE k # 0 /\ k <= i
      <4>1. reps'[k] = reps[k - 1] /\ k - 1 \in 0 .. 3
        BY <1>2, <3>2 DEF reps_after
      <4> QED
        BY <2>2, <3>2, <4>1
    <3>3. CASE k # 0 /\ ~ (k <= i)
      <4>1. reps'[k] = reps[k]
        BY <1>2, <3>3 DEF reps_after
      <4> QED
        BY <2>2, <3>3, <4>1
    <3> QED
      BY <3>1, <3>2, <3>3
  <2> QED
    BY <2>1, <2>3
<1>6. LastBar' = "match"
  BY <1>2 DEF LastBar, is_literal, LIT_STATES, after_long_rep
<1> QED
  BY <1>3, <1>4, <1>5, <1>6 DEF Format!Rep, LastBar, RepsBar

LEMMA FormatShortRep ==
  ASSUME NEW pos, ShortRep(pos)
  PROVE  Format!ShortRep
<1>1. /\ symbol' = <<"short rep">> /\ taken' = <<1, 1, 0, 0>> /\ reps' = reps
      /\ state' = after_short_rep
  BY DEF ShortRep, Decoded
<1>2. symbol'[1] = "short rep"
  BY <1>1
<1>3. RepsBar' = RepsBar
  BY <1>1 DEF RepsBar, Word
<1>4. LastBar' = "match"
  <2>1. state' \in {9, 11}
    BY <1>1 DEF after_short_rep
  <2> QED
    BY <2>1 DEF LastBar, is_literal, LIT_STATES
<1> QED
  BY <1>1, <1>2, <1>3, <1>4 DEF Format!ShortRep, LastBar, RepsBar

LEMMA RepsBarNone == reps = NoReps => RepsBar = Format!NoReps
<1> SUFFICES ASSUME reps = NoReps
             PROVE  RepsBar = Format!NoReps
  OBVIOUS
<1>1. 0 % Word = 0
  <2> DEFINE w == Word
  <2>1. w \in Nat /\ w > 0
    BY HalfWord
  <2> HIDE DEF w
  <2>2. 0 \in 0 .. w - 1
    BY <2>1
  <2>3. 0 % w = 0
    BY <2>1, <2>2, SmallRemainder
  <2> QED
    BY <2>3 DEF w
<1>2. \A i \in 0 .. 3 : reps[i] % Word = 0
  BY <1>1 DEF NoReps
<1> QED
  BY <1>2 DEF RepsBar, Format!NoReps

LEMMA FormatReset ==
  ASSUME Reset
  PROVE  Format!Reset
<1>1. state' = 0 /\ reps' = NoReps /\ symbol' = symbol /\ taken' = taken
  BY DEF Reset
<1>2. (reps = NoReps => RepsBar = Format!NoReps)'
  BY RepsBarNone, PTL
<1>3. RepsBar' = Format!NoReps
  BY <1>1, <1>2 DEF NoReps, Format!NoReps
<1>4. LastBar' = "literal"
  BY <1>1 DEF LastBar, is_literal, LIT_STATES
<1> QED
  BY <1>1, <1>3, <1>4 DEF Format!Reset, LastBar, RepsBar

LEMMA FormatStep == TypeInv /\ HistoryInv /\ [Next]_vars => [Format!Next]_(Format!vars)
<1> SUFFICES ASSUME TypeInv, HistoryInv, [Next]_vars
             PROVE  [Format!Next]_(Format!vars)
  OBVIOUS
<1>1. CASE Reset \/ \E props : Renew(props)
  <2>1. Reset
    BY <1>1 DEF Renew
  <2> QED
    BY <2>1, FormatReset DEF Format!Next
<1>2. CASE Symbol
  <2>1. CASE \E bits \in Strings(LitBits) : \E prev_byte, pos, match_byte :
               Literal(bits, prev_byte, pos, match_byte)
    BY <2>1, FormatLiteral DEF Format!Next
  <2>2. CASE \E len_bits \in LengthInputs, i \in 0 .. 3 : \E pos : LongRep(i, len_bits, pos)
    BY <2>2, FormatRep DEF Format!Next
  <2>3. CASE \E len_bits \in LengthInputs, slot_bits \in Strings(SlotBits) :
               \E rest \in Strings(RestBits(tree(slot_bits))) : \E pos :
                 Match(len_bits, slot_bits, rest, pos)
    BY <2>3, FormatMatch DEF Format!Next
  <2>4. CASE \E pos : ShortRep(pos)
    BY <2>4, FormatShortRep DEF Format!Next
  <2> QED
    BY <1>2, <2>1, <2>2, <2>3, <2>4 DEF Symbol
<1>3. CASE UNCHANGED vars
  <2>1. state' = state /\ reps' = reps /\ symbol' = symbol /\ taken' = taken
    BY <1>3 DEF vars, seen
  <2>2. LastBar' = LastBar /\ RepsBar' = RepsBar
    BY <2>1 DEF LastBar, RepsBar, Word, is_literal
  <2> QED
    BY <2>1, <2>2 DEF Format!vars, LastBar, RepsBar
<1> QED
  BY <1>1, <1>2, <1>3 DEF Next

LEMMA FormatInit == Init => Format!Init
<1> SUFFICES ASSUME Init
             PROVE  Format!Init
  OBVIOUS
<1>1. state = 0 /\ reps = NoReps /\ symbol = <<"none">> /\ taken = <<>>
  BY DEF Init
<1>2. RepsBar = Format!NoReps
  BY <1>1, RepsBarNone
<1>3. LastBar = "literal"
  BY <1>1 DEF LastBar, is_literal, LIT_STATES
<1> QED
  BY <1>1, <1>2, <1>3 DEF Format!Init, LastBar, RepsBar

(* Whatever the decoder makes of a row of bits, the LZMA format writes     *)
(* those bits for it, symbol by symbol, and remembers the same distances.  *)
THEOREM DecoderFollowsFormat == Spec => ImplementsFormat
<1>1. Spec => Format!Spec
  BY TypeInit, TypeStep, HistoryInit, HistoryStep, FormatInit, FormatStep, PTL
     DEF Spec, Format!Spec
<1> QED
  BY <1>1 DEF ImplementsFormat
=============================================================================
