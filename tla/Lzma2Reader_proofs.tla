------------------------- MODULE Lzma2Reader_proofs -------------------------
(***************************************************************************)
(* Proofs about LzDecoder and about Lzma2Reader, which extends it.         *)
(*                                                                         *)
(* The first part is of LzSpec, a window alone, for dictionaries,          *)
(* distances, lengths and limits of every size: the cyclic window is the   *)
(* tail of the whole history, and implements the unbounded dictionary of   *)
(* Lz77.  The second is of Spec, for every sequence of chunks, matches and *)
(* reads: the reader uses the window as LzDecoder asks for it to be used,  *)
(* so that what is proved of the window holds in it, and it keeps chunks   *)
(* apart.                                                                  *)
(***************************************************************************)
EXTENDS Lzma2Reader, SequenceTheorems, TLAPS

(* Where pos stands in each part of a round.                               *)
BoundsInv ==
  /\ start <= pos
  /\ pc = "idle" => pos = start /\ pos < buf_size
  /\ pc = "resume" => pos = start
  /\ pc \in {"resume", "decode", "repeat"} =>
        start < limit /\ limit <= start + asked /\ pos <= limit
  /\ pc = "flush" => start < pos /\ pos <= start + asked

(* full follows pos, but for the time of a copy, until it is buf_size.     *)
FullInv ==
  /\ full # buf_size => full <= pos
  /\ full # buf_size /\ pc # "repeat" => full = pos
  /\ full = 0 => buf[buf_size - 1] = Zero
  /\ ReachExact

(* The bytes below pos are the last ones decoded, those from pos on are    *)
(* the ones before them, from the last time round.                         *)
RingInv ==
  /\ \A i \in 0 .. pos - 1 : buf[i] = history[Len(history) - pos + 1 + i]
  /\ full = buf_size =>
        \A i \in pos .. buf_size - 1 :
           buf[i] = history[Len(history) - pos - buf_size + 1 + i]

(* What has been handed out is the history up to start.                    *)
OutInv ==
  /\ Len(delivered) + (pos - start) = Len(history)
  /\ \A i \in 1 .. Len(delivered) : delivered[i] = history[i]

(* A match is cut only by the limit, and can be gone on with.              *)
OwedInv ==
  /\ pending_len > 0 => pending_dist < full
  /\ pc = "decode" /\ pending_len > 0 => pos = limit
  /\ pc = "repeat" /\ pending_len > 0 => pos + left = limit

(* The loop of repeat copies from `back`, more than pending_dist bytes     *)
(* before pos, and not from pending_dist + 1 bytes before pos: that is the *)
(* same, since what lies between repeats itself and begins as it ends.     *)
RepeatInv ==
  pc = "repeat" =>
    /\ pending_dist < full
    /\ left > 0 /\ pos + left <= limit
    /\ back + pending_dist + 1 <= pos
    /\ \A x \in Len(history) - (pos - back) + 1 .. Len(history) - pending_dist - 1 :
          history[x] = history[x + pending_dist + 1]
    /\ \A i \in 1 .. pending_dist + 1 :
          history[Len(history) - (pos - back) + i]
            = history[Len(history) - pending_dist - 1 + i]

LzInv ==
  /\ LzTypeOK /\ BoundsInv /\ FullInv /\ RingInv /\ OutInv /\ OwedInv /\ RepeatInv
-----------------------------------------------------------------------------
(* Rounding up leaves a multiple of Align, and no less than was asked for. *)
LEMMA RoundedUp ==
  LET q == (DictSize + Align - 1) \div Align
  IN  q \in Nat /\ q * Align \in Nat /\ q * Align >= 1
<1>1. Align \in Nat /\ Align > 0 /\ DictSize \in Nat /\ DictSize > 0
  BY SizesAssumption
<1> DEFINE n == DictSize + Align - 1
           q == n \div Align
<1>2. n \in Nat /\ n >= Align
  BY <1>1
<1>3. q \in Nat /\ q >= 1
  BY <1>1, <1>2, SMTT(30)
<1>4. q * Align \in Nat /\ q * Align >= 1
  <2> HIDE DEF q
  <2> QED
    BY <1>1, <1>3, SMTT(30)
<1> QED
  BY <1>3, <1>4

(* Rounded up or not, there is a buffer.                                   *)
LEMMA SizeFacts == buf_size \in Nat /\ buf_size >= 1
<1>1. MaxU32 \in Nat /\ MaxU32 >= 1
  BY SizesAssumption
<1>2. CASE RoundsUp(DictSize)
  BY <1>2, RoundedUp DEF buf_size, get_dict_size
<1>3. CASE ~RoundsUp(DictSize)
  BY <1>1, <1>3 DEF buf_size, get_dict_size
<1> QED
  BY <1>2, <1>3

(* The variables that are numbers.                                         *)
Numbers ==
  /\ buf_size \in Nat /\ buf_size >= 1
  /\ start \in Nat /\ pos \in Nat /\ full \in Nat /\ limit \in Nat
  /\ pos <= buf_size /\ full <= buf_size /\ limit <= buf_size
  /\ pending_len \in Nat /\ pending_dist \in Nat /\ asked \in Nat
  /\ back \in Nat /\ left \in Nat /\ fresh \in Nat
  /\ Len(history) \in Nat /\ Len(delivered) \in Nat /\ fresh <= Len(history)

LEMMA TypeNumbers == LzTypeOK => Numbers
<1> SUFFICES ASSUME LzTypeOK PROVE Numbers
  OBVIOUS
<1>1. Len(history) \in Nat /\ Len(delivered) \in Nat
  BY LenProperties DEF LzTypeOK
<1> QED
  BY <1>1, SizeFacts DEF LzTypeOK, Numbers

(* A stretch of the buffer is a sequence of bytes.                         *)
LEMMA StretchFacts ==
  ASSUME LzTypeOK, NEW i \in Nat, NEW n \in Nat, i + n <= buf_size
  PROVE  /\ Stretch(i, n) \in Seq(Bytes)
         /\ Len(Stretch(i, n)) = n
         /\ \A k \in 1 .. n : Stretch(i, n)[k] = buf[i + k - 1]
<1>1. buf_size \in Nat
  BY SizeFacts
<1>2. \A k \in 1 .. n : i + k - 1 \in 0 .. buf_size - 1
  BY <1>1
<1>3. \A k \in 1 .. n : buf[i + k - 1] \in Bytes
  BY <1>2 DEF LzTypeOK
<1>4. Stretch(i, n) \in [1 .. n -> Bytes]
  BY <1>3 DEF Stretch
<1>5. Stretch(i, n) \in Seq(Bytes)
  BY <1>4, SeqDef
<1>6. Len(Stretch(i, n)) = n
  BY <1>4, <1>5, LenProperties
<1> QED
  BY <1>5, <1>6 DEF Stretch

(* Bytes put at pos: the window stays the tail of the history.             *)
LEMMA PutFacts ==
  ASSUME LzTypeOK, NEW s \in Seq(Bytes), pos + Len(s) <= buf_size, Put(s)
  PROVE  /\ Len(s) \in Nat
         /\ pos' = pos + Len(s)
         /\ history' \in Seq(Bytes) /\ Len(history') = Len(history) + Len(s)
         /\ \A i \in 1 .. Len(history) : history'[i] = history[i]
         /\ \A i \in 1 .. Len(s) : history'[Len(history) + i] = s[i]
         /\ buf' \in [0 .. buf_size - 1 -> Bytes]
         /\ \A i \in 0 .. buf_size - 1 :
               buf'[i] = IF pos <= i /\ i < pos + Len(s) THEN s[i - pos + 1] ELSE buf[i]
<1>1. Numbers
  BY TypeNumbers
<1>2. history \in Seq(Bytes) /\ buf \in [0 .. buf_size - 1 -> Bytes]
  BY DEF LzTypeOK
<1>3. Len(s) \in Nat /\ \A i \in 1 .. Len(s) : s[i] \in Bytes
  BY LenProperties, ElementOfSeq
<1>4. history' = history \o s /\ pos' = pos + Len(s) /\ buf' = Written(pos, s)
  BY DEF Put
<1>5. /\ history' \in Seq(Bytes) /\ Len(history') = Len(history) + Len(s)
      /\ \A i \in 1 .. Len(history) + Len(s) : history'[i] =
              IF i <= Len(history) THEN history[i] ELSE s[i - Len(history)]
  BY <1>2, <1>4, ConcatProperties
<1>6. \A i \in 1 .. Len(history) : history'[i] = history[i]
  BY <1>1, <1>3, <1>5 DEF Numbers
<1>7. ASSUME NEW i \in 1 .. Len(s)
      PROVE  history'[Len(history) + i] = s[i]
  <2>1. Len(history) + i \in 1 .. Len(history) + Len(s) /\ ~(Len(history) + i <= Len(history))
    BY <1>1, <1>3 DEF Numbers
  <2>2. Len(history) + i - Len(history) = i
    BY <1>1, <1>3 DEF Numbers
  <2> QED
    BY <1>5, <2>1, <2>2
<1>8. \A i \in 0 .. buf_size - 1 :
         buf'[i] = IF pos <= i /\ i < pos + Len(s) THEN s[i - pos + 1] ELSE buf[i]
  BY <1>4 DEF Written
<1>9. \A i \in 0 .. buf_size - 1 : pos <= i /\ i < pos + Len(s) => i - pos + 1 \in 1 .. Len(s)
  BY <1>1, <1>3 DEF Numbers
<1>10. buf' = [i \in 0 .. buf_size - 1 |->
                 IF pos <= i /\ i < pos + Len(s) THEN s[i - pos + 1] ELSE buf[i]]
  BY <1>4 DEF Written
<1>11. buf' \in [0 .. buf_size - 1 -> Bytes]
  BY <1>2, <1>3, <1>9, <1>10
<1> QED
  BY <1>3, <1>4, <1>5, <1>6, <1>7, <1>8, <1>11

(* The reach of matches, told by full and pos.                             *)
LEMMA ReachFacts ==
  ASSUME LzTypeOK, FullInv
  PROVE  /\ pos <= Len(history) - fresh
         /\ full <= Len(history) - fresh
         /\ full # buf_size => pos = Smaller(Len(history) - fresh, buf_size)
  BY TypeNumbers DEF FullInv, ReachExact, reach, Larger, Smaller, Numbers

LEMMA PutKeeps ==
  ASSUME LzTypeOK, FullInv, RingInv, OutInv, start <= pos,
         NEW s \in Seq(Bytes), pos + Len(s) <= buf_size, Put(s),
         full' = full \/ full' = Larger(full, pos'),
         UNCHANGED <<start, fresh, delivered>>
  PROVE  ReachExact' /\ RingInv' /\ OutInv'
<1> DEFINE L == Len(history)
           n == Len(s)
<1>1. Numbers
  BY TypeNumbers
<1>2. /\ n \in Nat /\ pos' = pos + n /\ Len(history') = L + n
      /\ \A i \in 1 .. L : history'[i] = history[i]
      /\ \A i \in 1 .. n : history'[L + i] = s[i]
      /\ \A i \in 0 .. buf_size - 1 :
            buf'[i] = IF pos <= i /\ i < pos + n THEN s[i - pos + 1] ELSE buf[i]
  BY PutFacts
<1>3. pos <= L - fresh /\ full <= L - fresh
  BY ReachFacts
<1>4. pos + n <= buf_size
  OBVIOUS
<1>5. full # buf_size => full <= pos /\ pos = Smaller(L - fresh, buf_size)
  BY ReachFacts DEF FullInv
<1>6. fresh' = fresh /\ start' = start /\ delivered' = delivered
  OBVIOUS
<1>7. buf_size' = buf_size
  BY DEF buf_size
<1> HIDE DEF L, n
<1>8. full' # buf_size => full' <= pos' /\ full # buf_size
  BY <1>1, <1>2, <1>4, <1>5 DEF Numbers, Larger
<1>9. full' = buf_size => full = buf_size \/ pos' = buf_size
  BY <1>1, <1>2, <1>4, <1>5 DEF Numbers, Larger
<1>10. full' \in Nat /\ full' <= buf_size
  BY <1>1, <1>2, <1>4 DEF Numbers, Larger
<1>11. ReachExact'
  <2>1. L \in Nat
    BY <1>1 DEF Numbers, L
  <2>2. CASE full = buf_size
    <3>1. full' = buf_size
      BY <1>8, <2>2
    <3> QED
      BY <1>1, <1>2, <1>3, <1>4, <1>6, <1>7, <2>1, <2>2, <3>1
      DEF Numbers, ReachExact, reach, Larger, Smaller
  <2>3. CASE full # buf_size
    <3>1. pos = L - fresh \/ pos = buf_size
      BY <1>1, <1>5, <2>1, <2>3 DEF Numbers, Smaller
    <3>2. Larger(full', pos') = pos'
      BY <1>1, <1>2, <1>4, <1>8, <1>9, <1>10, <2>3 DEF Numbers, Larger
    <3>3. pos' = Smaller(L + n - fresh, buf_size)
      BY <1>1, <1>2, <1>3, <1>4, <2>1, <3>1 DEF Numbers, Smaller
    <3>4. reach' = pos'
      BY <3>2 DEF reach
    <3>5. Len(history') - fresh' = L + n - fresh
      BY <1>1, <1>2, <1>6, <2>1 DEF Numbers
    <3> QED
      BY <1>7, <3>3, <3>4, <3>5 DEF ReachExact
  <2> QED
    BY <2>2, <2>3
<1>12. RingInv'
  <2>1. L \in Nat
    BY <1>1 DEF Numbers, L
  <2>2. \A i \in 0 .. pos - 1 : buf[i] = history[L - pos + 1 + i]
    BY DEF RingInv, L
  <2>3. ASSUME NEW i \in 0 .. pos' - 1
        PROVE  buf'[i] = history'[(L + n) - pos' + 1 + i]
    <3>1. i \in 0 .. buf_size - 1 /\ (L + n) - pos' + 1 + i = L - pos + 1 + i
      BY <1>1, <1>2, <1>4, <2>1 DEF Numbers
    <3>2. CASE i < pos
      <4>1. i \in 0 .. pos - 1 /\ L - pos + 1 + i \in 1 .. L
        BY <1>1, <1>3, <2>1, <3>2 DEF Numbers
      <4>2. ~(pos <= i)
        BY <1>1, <3>1, <3>2 DEF Numbers
      <4>3. buf'[i] = buf[i]
        BY <1>2, <3>1, <4>2
      <4> QED
        BY <1>2, <2>2, <3>1, <4>1, <4>3
    <3>3. CASE ~(i < pos)
      <4>1. pos <= i /\ i < pos + n
        BY <1>1, <1>2, <3>3 DEF Numbers
      <4>2. i - pos + 1 \in 1 .. n /\ L - pos + 1 + i = L + (i - pos + 1)
        BY <1>1, <1>2, <2>1, <4>1 DEF Numbers
      <4>3. buf'[i] = s[i - pos + 1]
        BY <1>2, <3>1, <4>1
      <4> QED
        BY <1>2, <3>1, <4>2, <4>3
    <3> QED
      BY <3>2, <3>3
  <2>4. ASSUME full' = buf_size, NEW i \in pos' .. buf_size - 1
        PROVE  buf'[i] = history'[(L + n) - pos' - buf_size + 1 + i]
    <3>1. full = buf_size
      BY <1>1, <1>2, <1>9, <2>4 DEF Numbers
    <3>2. /\ i \in pos .. buf_size - 1 /\ i \in 0 .. buf_size - 1
          /\ ~(i < pos + n)
          /\ (L + n) - pos' - buf_size + 1 + i = L - pos - buf_size + 1 + i
          /\ L - pos - buf_size + 1 + i \in 1 .. L
      BY <1>1, <1>2, <1>3, <2>1, <3>1 DEF Numbers
    <3>3. buf'[i] = buf[i]
      BY <1>2, <3>2
    <3>4. buf[i] = history[L - pos - buf_size + 1 + i]
      BY <3>1, <3>2 DEF RingInv, L
    <3> QED
      BY <1>2, <3>2, <3>3, <3>4
  <2> QED
    BY <1>2, <1>7, <2>3, <2>4 DEF RingInv
<1>13. OutInv'
  <2>1. /\ Len(delivered) + (pos - start) = L
        /\ \A i \in 1 .. Len(delivered) : delivered[i] = history[i]
    BY DEF OutInv, L
  <2>2. Len(delivered') + (pos' - start') = Len(history')
    BY <1>1, <1>2, <1>6, <2>1 DEF Numbers
  <2>3. \A i \in 1 .. Len(delivered) : i \in 1 .. L
    BY <1>1, <2>1 DEF Numbers
  <2> QED
    BY <1>2, <1>6, <2>1, <2>2, <2>3 DEF OutInv
<1> QED
  BY <1>11, <1>12, <1>13
-----------------------------------------------------------------------------
LEMMA InitLzInv == LzInit => LzInv
<1> SUFFICES ASSUME LzInit PROVE LzInv
  OBVIOUS
<1>1. buf_size \in Nat /\ buf_size >= 1 /\ buf_size - 1 \in 0 .. buf_size - 1
  BY SizeFacts
<1>2. history = <<>> /\ delivered = <<>> /\ <<>> \in Seq(Bytes) /\ Len(history) = 0
  BY EmptySeq DEF LzInit
<1>3. LzTypeOK
  <2>1. buf \in [0 .. buf_size - 1 -> Bytes]
    BY BytesAssumption DEF LzInit
  <2> QED
    BY <1>1, <1>2, <2>1 DEF LzInit, LzTypeOK
<1>4. BoundsInv /\ OwedInv /\ RepeatInv
  BY <1>1 DEF LzInit, BoundsInv, OwedInv, RepeatInv
<1>5. FullInv
  BY <1>1, <1>2 DEF LzInit, FullInv, ReachExact, reach, Larger, Smaller
<1>6. RingInv /\ OutInv
  BY <1>1, <1>2 DEF LzInit, RingInv, OutInv
<1> QED
  BY <1>3, <1>4, <1>5, <1>6 DEF LzInv

(* A reset forgets the window, and clears the byte before its beginning.   *)
LEMMA ResetLzInv == LzInv /\ Reset => LzInv'
<1> SUFFICES ASSUME LzInv, Reset PROVE LzInv'
  OBVIOUS
<1>1. Numbers /\ LzTypeOK
  BY TypeNumbers DEF LzInv
<1>2. /\ pc = "idle" /\ pending_len = 0 /\ pc' = "idle" /\ pending_len' = 0
      /\ start' = 0 /\ pos' = 0 /\ full' = 0 /\ limit' = 0
      /\ buf' = [buf EXCEPT ![buf_size - 1] = Zero]
      /\ fresh' = Len(history) /\ history' = history /\ delivered' = delivered
      /\ UNCHANGED <<pending_dist, asked, back, left>>
  BY DEF Reset
<1>3. buf_size' = buf_size /\ buf_size - 1 \in 0 .. buf_size - 1
  BY <1>1 DEF Numbers, buf_size
<1>4. LzTypeOK'
  <2>1. buf' \in [0 .. buf_size - 1 -> Bytes]
    BY <1>1, <1>2, BytesAssumption DEF LzTypeOK
  <2>2. fresh' \in 0 .. Len(history')
    BY <1>1, <1>2 DEF Numbers
  <2> QED
    BY <1>1, <1>2, <1>3, <2>1, <2>2 DEF LzTypeOK, Numbers
<1>5. BoundsInv' /\ OwedInv' /\ RepeatInv'
  BY <1>1, <1>2, <1>3 DEF BoundsInv, OwedInv, RepeatInv, Numbers
<1>6. FullInv'
  <2>1. buf'[buf_size - 1] = Zero
    BY <1>1, <1>2, <1>3 DEF LzTypeOK
  <2>2. ReachExact'
    BY <1>1, <1>2, <1>3 DEF ReachExact, reach, Larger, Smaller, Numbers
  <2> QED
    BY <1>1, <1>2, <1>3, <2>1, <2>2 DEF FullInv, Numbers
<1>7. RingInv'
  BY <1>1, <1>2, <1>3 DEF RingInv, Numbers
<1>8. OutInv'
  BY <1>1, <1>2 DEF LzInv, BoundsInv, OutInv, Numbers
<1> QED
  BY <1>4, <1>5, <1>6, <1>7, <1>8 DEF LzInv

(* The steps that move no byte.                                            *)
LEMMA ControlLzInv ==
  ASSUME LzInv,
         \/ \E n \in 1 .. MaxOutput : SetLimit(n)
         \/ RepeatPending /\ pending_len = 0
         \/ EndDecode
         \/ UNCHANGED lzvars
  PROVE  LzInv'
<1>1. Numbers /\ LzTypeOK
  BY TypeNumbers DEF LzInv
<1>2. buf_size' = buf_size
  BY DEF buf_size
<1>3. UNCHANGED <<buf, start, pos, full, pending_len, pending_dist, back, left,
                  history, fresh, delivered>>
  BY DEF SetLimit, RepeatPending, EndDecode, lzvars, window, ghosts
<1>4. /\ pc' # "repeat" \/ pc = "repeat"
      /\ limit' \in 0 .. buf_size /\ asked' \in Nat
      /\ pc' \in {"idle", "resume", "decode", "repeat", "flush", "refused"}
      /\ pc = "repeat" => pc' = "repeat" /\ limit' = limit
      /\ BoundsInv'
      /\ pc' = "decode" /\ pending_len > 0 => pos = limit'
  <2>1. CASE \E n \in 1 .. MaxOutput : SetLimit(n)
    <3>1. PICK n \in 1 .. MaxOutput : SetLimit(n)
      BY <2>1
    <3>2. n \in Nat /\ n > 0
      BY OutputAssumption
    <3>3. /\ pc = "idle" /\ pc' = "resume" /\ asked' = n /\ limit' = limit_for(n)
      BY <3>1 DEF SetLimit
    <3>4. limit_for(n) <= buf_size /\ limit_for(n) <= n + pos
          /\ (pos < buf_size => limit_for(n) > pos) /\ limit_for(n) \in Nat
      BY <1>1, <3>2 DEF limit_for, Smaller, Numbers
    <3> QED
      BY <1>1, <1>2, <1>3, <3>2, <3>3, <3>4 DEF LzInv, BoundsInv, Numbers
  <2>2. CASE RepeatPending /\ pending_len = 0
    <3>1. pc = "resume" /\ pc' = "decode" /\ limit' = limit /\ asked' = asked
      BY <1>1, <2>2 DEF RepeatPending, window, Numbers
    <3> QED
      BY <1>1, <1>2, <1>3, <2>2, <3>1 DEF LzInv, LzTypeOK, BoundsInv, Numbers
  <2>3. CASE EndDecode
    <3>1. /\ pc = "decode" /\ pc' = "flush" /\ limit' = limit /\ asked' = asked
          /\ ~(pos < limit)
      BY <2>3 DEF EndDecode, window, has_space
    <3> QED
      BY <1>1, <1>2, <1>3, <3>1 DEF LzInv, LzTypeOK, BoundsInv, Numbers
  <2>4. CASE UNCHANGED lzvars
    <3>1. pc' = pc /\ limit' = limit /\ asked' = asked
      BY <2>4 DEF lzvars, window
    <3> QED
      BY <1>1, <1>2, <1>3, <3>1 DEF LzInv, LzTypeOK, BoundsInv, OwedInv, Numbers
  <2> QED
    BY <2>1, <2>2, <2>3, <2>4
<1>5. LzTypeOK'
  BY <1>1, <1>2, <1>3, <1>4 DEF LzTypeOK
<1>6. FullInv'
  BY <1>1, <1>2, <1>3, <1>4 DEF LzInv, FullInv, ReachExact, reach
<1>7. RingInv' /\ OutInv'
  BY <1>2, <1>3 DEF LzInv, RingInv, OutInv
<1>8. OwedInv' /\ RepeatInv'
  BY <1>2, <1>3, <1>4 DEF LzInv, OwedInv, RepeatInv
<1> QED
  BY <1>4, <1>5, <1>6, <1>7, <1>8 DEF LzInv

(* Everything from start on, handed out, makes the history complete.       *)
LEMMA OutComplete ==
  ASSUME LzInv
  PROVE  /\ DeliveredInOrder
         /\ Stretch(start, pos - start) \in Seq(Bytes)
<1>1. Numbers /\ LzTypeOK /\ start <= pos
  BY TypeNumbers DEF LzInv, BoundsInv
<1> DEFINE n == pos - start
           s == Stretch(start, n)
<1>2. n \in Nat /\ start + n <= buf_size
  BY <1>1 DEF Numbers
<1>3. s \in Seq(Bytes) /\ Len(s) = n /\ \A k \in 1 .. n : s[k] = buf[start + k - 1]
  BY <1>1, <1>2, StretchFacts DEF Numbers
<1>4. delivered \in Seq(Bytes) /\ history \in Seq(Bytes)
  BY <1>1 DEF LzTypeOK
<1>5. /\ Len(delivered) + n = Len(history)
      /\ \A i \in 1 .. Len(delivered) : delivered[i] = history[i]
  BY DEF LzInv, OutInv
<1> HIDE DEF s
<1>6. /\ delivered \o s \in Seq(Bytes) /\ Len(delivered \o s) = Len(history)
      /\ \A i \in 1 .. Len(history) :
            (delivered \o s)[i] = IF i <= Len(delivered) THEN delivered[i]
                                  ELSE s[i - Len(delivered)]
  <2>1. /\ delivered \o s \in Seq(Bytes)
        /\ Len(delivered \o s) = Len(delivered) + Len(s)
        /\ \A i \in 1 .. Len(delivered) + Len(s) :
             (delivered \o s)[i] = IF i <= Len(delivered) THEN delivered[i]
                                   ELSE s[i - Len(delivered)]
    BY <1>3, <1>4, ConcatProperties
  <2> QED
    BY <1>3, <1>5, <2>1
<1>7. ASSUME NEW i \in 1 .. Len(history)
      PROVE  (delivered \o s)[i] = history[i]
  <2>1. CASE i <= Len(delivered)
    <3>1. i \in 1 .. Len(delivered)
      BY <1>1, <2>1 DEF Numbers
    <3> QED
      BY <1>5, <1>6, <2>1, <3>1
  <2>2. CASE ~(i <= Len(delivered))
    <3> DEFINE k == i - Len(delivered)
    <3>1. /\ k \in 1 .. n /\ start + k - 1 \in 0 .. pos - 1
          /\ Len(history) - pos + 1 + (start + k - 1) = i
      BY <1>1, <1>5, <2>2 DEF Numbers
    <3>2. (delivered \o s)[i] = s[k]
      BY <1>6, <2>2
    <3> HIDE DEF k
    <3>3. s[k] = buf[start + k - 1]
      BY <1>3, <3>1
    <3>4. buf[start + k - 1] = history[Len(history) - pos + 1 + (start + k - 1)]
      BY <3>1 DEF LzInv, RingInv
    <3> QED
      BY <3>1, <3>2, <3>3, <3>4
  <2> QED
    BY <2>1, <2>2
<1>8. delivered \o s = history
  BY <1>4, <1>6, <1>7, SeqEqual
<1> QED
  BY <1>3, <1>8 DEF DeliveredInOrder, s

LEMMA FlushLzInv == LzInv /\ Flush => LzInv' /\ delivered' = history
<1> SUFFICES ASSUME LzInv, Flush PROVE LzInv' /\ delivered' = history
  OBVIOUS
<1>1. Numbers /\ LzTypeOK
  BY TypeNumbers DEF LzInv
<1>2. buf_size' = buf_size
  BY DEF buf_size
<1>3. /\ pc = "flush" /\ pc' = "idle"
      /\ pos' = IF pos = buf_size THEN 0 ELSE pos
      /\ start' = pos'
      /\ UNCHANGED <<buf, full, limit, pending_len, pending_dist, asked, back, left,
                     history, fresh>>
  BY DEF Flush
<1>4. delivered' = history
  BY OutComplete DEF Flush, DeliveredInOrder
<1>5. pos' \in Nat /\ pos' < buf_size
  BY <1>1, <1>3 DEF Numbers
<1>6. pos = buf_size => full = buf_size
  BY <1>1, <1>3 DEF LzInv, FullInv
<1>7. LzTypeOK'
  BY <1>1, <1>2, <1>3, <1>4, <1>5 DEF LzTypeOK, Numbers
<1>8. BoundsInv' /\ RepeatInv'
  BY <1>2, <1>3, <1>5 DEF BoundsInv, RepeatInv
<1>9. OwedInv'
  BY <1>3 DEF LzInv, OwedInv
<1>10. FullInv'
  <2>1. full # buf_size => full = pos /\ pos' = pos
    BY <1>3, <1>6 DEF LzInv, FullInv
  <2>2. reach' = reach
    <3>1. CASE full = buf_size
      BY <1>1, <1>3, <1>5, <3>1 DEF reach, Larger, Numbers
    <3>2. CASE full # buf_size
      BY <1>3, <2>1, <3>2 DEF reach
    <3> QED
      BY <3>1, <3>2
  <2>3. ReachExact'
    BY <1>2, <1>3, <2>2 DEF LzInv, FullInv, ReachExact
  <2>4. full = 0 => buf[buf_size - 1] = Zero
    BY DEF LzInv, FullInv
  <2> QED
    BY <1>1, <1>2, <1>3, <2>1, <2>3, <2>4 DEF FullInv, Numbers
<1>11. RingInv'
  <2>1. CASE pos = buf_size
    <3>1. ASSUME NEW i \in 0 .. buf_size - 1
          PROVE  buf[i] = history[Len(history) - 0 - buf_size + 1 + i]
      <4>1. i \in 0 .. pos - 1
        BY <2>1
      <4>2. Len(history) - 0 - buf_size + 1 + i = Len(history) - pos + 1 + i
        BY <1>1, <2>1 DEF Numbers
      <4> QED
        BY <4>1, <4>2 DEF LzInv, RingInv
    <3> QED
      BY <1>2, <1>3, <2>1, <3>1 DEF RingInv
  <2>2. CASE pos # buf_size
    <3>1. pos' = pos
      BY <1>3, <2>2
    <3> QED
      BY <1>2, <1>3, <3>1 DEF LzInv, RingInv
  <2> QED
    BY <2>1, <2>2
<1>12. OutInv'
  BY <1>1, <1>3, <1>4, <1>5 DEF OutInv, Numbers
<1> QED
  BY <1>4, <1>7, <1>8, <1>9, <1>10, <1>11, <1>12 DEF LzInv

(* Bytes that are no match: those of a stored chunk, or a literal.         *)
LEMMA LiteralsLzInv ==
  ASSUME LzInv, NEW s \in Seq(Bytes), Put(s), Len(s) > 0,
         pos + Len(s) <= buf_size, full' = full_after, pending_len = 0,
         UNCHANGED <<start, limit, pending_len, pending_dist, back, left, fresh,
                     delivered>>,
         \/ /\ pc = "idle" /\ pc' = "flush"
            /\ asked' \in Nat /\ pos + Len(s) <= start + asked'
         \/ /\ pc = "decode" /\ pc' = "decode" /\ asked' = asked
            /\ pos + Len(s) <= limit
  PROVE  LzInv'
<1> DEFINE n == Len(s)
<1>1. Numbers /\ LzTypeOK
  BY TypeNumbers DEF LzInv
<1>2. buf_size' = buf_size
  BY DEF buf_size
<1>3. BoundsInv /\ FullInv /\ RingInv /\ OutInv /\ start <= pos
  BY DEF LzInv, BoundsInv
<1>4. /\ n \in Nat /\ pos' = pos + n
      /\ history' \in Seq(Bytes) /\ Len(history') = Len(history) + n
      /\ buf' \in [0 .. buf_size - 1 -> Bytes]
  BY <1>1, PutFacts
<1>5. full' = Larger(full, pos')
  BY DEF full_after
<1>6. ReachExact' /\ RingInv' /\ OutInv'
  BY <1>1, <1>3, <1>5, PutKeeps
<1> HIDE DEF n
<1>7. n > 0 /\ pos + n <= buf_size
  BY DEF n
<1>8. full' \in Nat /\ full' <= buf_size /\ full' > 0 /\ full <= full'
      /\ (full' # buf_size => full' = pos')
  <2>1. full # buf_size => full = pos
    BY <1>3 DEF FullInv, BoundsInv
  <2> QED
    BY <1>1, <1>4, <1>5, <1>7, <2>1 DEF Numbers, Larger
<1>9. LzTypeOK'
  BY <1>1, <1>2, <1>4, <1>7, <1>8 DEF LzTypeOK, Numbers
<1>10. BoundsInv'
  <2>1. CASE pc = "idle" /\ pc' = "flush" /\ asked' \in Nat /\ pos + n <= start + asked'
    <3>1. start' = start
      OBVIOUS
    <3>2. start < pos'
      BY <1>1, <1>3, <1>4, <1>7 DEF Numbers
    <3>3. pos' <= start + asked'
      BY <1>4, <2>1
    <3>4. start <= pos'
      BY <1>1, <1>4, <3>2 DEF Numbers
    <3> QED
      BY <2>1, <3>1, <3>2, <3>3, <3>4 DEF BoundsInv
  <2>2. CASE pc = "decode" /\ pc' = "decode" /\ asked' = asked /\ pos + n <= limit
    BY <1>1, <1>3, <1>4, <1>7, <2>2 DEF BoundsInv, Numbers
  <2> QED
    BY <2>1, <2>2 DEF n
<1>11. FullInv'
  BY <1>2, <1>4, <1>6, <1>8 DEF FullInv
<1>12. OwedInv' /\ RepeatInv'
  BY <1>1 DEF OwedInv, RepeatInv, Numbers
<1> QED
  BY <1>6, <1>9, <1>10, <1>11, <1>12 DEF LzInv

LEMMA StoredLzInv == ASSUME LzInv, NEW count \in Nat \ {0}, CopyUncompressed(count)
                     PROVE  LzInv'
<1>1. Numbers /\ LzTypeOK
  BY TypeNumbers DEF LzInv
<1> DEFINE n == Smaller(buf_size - pos, count)
<1>2. /\ pc = "idle" /\ pending_len = 0 /\ asked' = count /\ pc' = "flush"
      /\ full' = full_after
      /\ UNCHANGED <<start, limit, pending_len, pending_dist, back, left, fresh, delivered>>
      /\ \E s \in [1 .. n -> Bytes] : Put(s)
  BY DEF CopyUncompressed
<1>3. n \in Nat /\ n > 0 /\ n <= count /\ pos + n <= buf_size
  BY <1>1, <1>2 DEF LzInv, BoundsInv, Numbers, Smaller
<1> HIDE DEF n
<1>4. PICK s \in [1 .. n -> Bytes] : Put(s)
  BY <1>2
<1>5. s \in Seq(Bytes)
  BY <1>3, SeqDef
<1>6. Len(s) = n
  BY <1>3, <1>5, LenProperties
<1>7. count \in Nat /\ pos + Len(s) <= start + count
  BY <1>1, <1>2, <1>3, <1>6 DEF LzInv, BoundsInv, Numbers
<1> QED
  BY <1>2, <1>3, <1>4, <1>5, <1>6, <1>7, LiteralsLzInv

LEMMA LiteralLzInv == ASSUME LzInv, NEW b \in Bytes, PutByte(b)
                      PROVE  LzInv'
<1>1. Numbers /\ LzTypeOK
  BY TypeNumbers DEF LzInv
<1>2. /\ pc = "decode" /\ pc' = "decode" /\ pos < limit /\ Put(<<b>>)
      /\ full' = full_after /\ asked' = asked
      /\ UNCHANGED <<start, limit, pending_len, pending_dist, back, left, fresh, delivered>>
  BY DEF PutByte, has_space
<1>3. <<b>> \in Seq(Bytes) /\ Len(<<b>>) = 1
  OBVIOUS
<1>4. pending_len = 0
  BY <1>1, <1>2 DEF LzInv, OwedInv, Numbers
<1>5. /\ Len(<<b>>) > 0 /\ pos + Len(<<b>>) <= limit
      /\ pos + Len(<<b>>) <= buf_size
  BY <1>1, <1>2, <1>3 DEF Numbers
<1> QED
  BY <1>2, <1>3, <1>4, <1>5, LiteralsLzInv
-----------------------------------------------------------------------------
(* What a step adds to the history repeats what stands dist + 1 before it; *)
(* pos moves on by as much.                                                *)
Repeated(dist) ==
  /\ Len(history') \in Nat /\ Len(history) <= Len(history')
  /\ pos' = pos + (Len(history') - Len(history))
  /\ \A i \in 1 .. Len(history) : history'[i] = history[i]
  /\ \A i \in Len(history) + 1 .. Len(history') :
        history'[i] = history'[i - dist - 1]

(* What is left of a match.                                                *)
Owed == pending_len + IF pc = "repeat" THEN left ELSE 0

(* repeat's check and the first part of its copy.                          *)
LEMMA BeginRepeatLzInv ==
  ASSUME LzInv, pc \in {"resume", "decode"}, pos < limit,
         NEW dist \in Nat, NEW count \in Nat \ {0}, dist < full,
         BeginRepeat(dist, count),
         UNCHANGED <<start, full, limit, asked, fresh, delivered>>
  PROVE  /\ LzInv' /\ pc' \in {"decode", "repeat"} /\ pending_dist' = dist
         /\ history' \in Seq(Bytes) /\ Repeated(dist)
         /\ Owed' \in Nat /\ Owed' = count - (Len(history') - Len(history))
<1> DEFINE L == Len(history)
           r == room(count)
           bw == back_wrapped(dist)
           n == Smaller(buf_size - bw, r)
<1>1. Numbers /\ LzTypeOK /\ L \in Nat
  BY TypeNumbers DEF LzInv, Numbers
<1>2. buf_size' = buf_size
  BY DEF buf_size
<1>3. BoundsInv /\ FullInv /\ RingInv /\ OutInv /\ start <= pos
  BY DEF LzInv, BoundsInv
<1>4. start < limit /\ limit <= start + asked
  BY <1>3 DEF BoundsInv
<1>5. full # buf_size => full = pos
  BY <1>3 DEF FullInv
<1>6. r \in Nat /\ r > 0 /\ r <= count /\ pos + r <= limit
      /\ (count - r > 0 => pos + r = limit)
  BY <1>1 DEF room, Smaller, Numbers
<1>7. UNCHANGED <<start, full, limit, asked, fresh, delivered>>
  OBVIOUS
<1>8. pos <= L - fresh /\ full <= L - fresh
  BY <1>1, <1>3, ReachFacts
<1>9. pending_len' = count - r /\ pending_dist' = dist
  BY <1>1 DEF BeginRepeat, Numbers
<1>10. full = 0 => buf[buf_size - 1] = Zero
  BY <1>3 DEF FullInv
<1>11. CASE pos < dist + 1
  <2>1. full = buf_size
    BY <1>1, <1>5, <1>11 DEF Numbers
  <2>2. bw \in Nat /\ bw >= pos /\ bw < buf_size /\ bw = buf_size + pos - dist - 1
    BY <1>1, <1>11, <2>1 DEF back_wrapped, Numbers
  <2> HIDE DEF r, bw
  <2>3. n \in Nat /\ n > 0 /\ n <= r /\ bw + n <= buf_size
        /\ (n < r => bw + n = buf_size)
    BY <1>1, <1>6, <2>2 DEF Smaller, Numbers
  <2>4. /\ Put(Stretch(bw, n)) /\ back' = 0 /\ left' = r - n
        /\ pc' = IF left' = 0 THEN "decode" ELSE "repeat"
    BY <1>1, <1>11 DEF BeginRepeat, Numbers, r, bw
  <2> HIDE DEF n
  <2> DEFINE s == Stretch(bw, n)
  <2>5. s \in Seq(Bytes) /\ Len(s) = n /\ \A k \in 1 .. n : s[k] = buf[bw + k - 1]
    BY <1>1, <2>2, <2>3, StretchFacts
  <2>6. pos + n <= limit /\ pos + n <= buf_size
    BY <1>1, <1>6, <2>3 DEF Numbers
  <2>7. Put(s) /\ pos + Len(s) <= buf_size
    BY <2>4, <2>5, <2>6
  <2> HIDE DEF s
  <2>8. ReachExact' /\ RingInv' /\ OutInv'
    BY <1>1, <1>3, <1>7, <2>5, <2>7, PutKeeps
  <2>9. /\ pos' = pos + n
        /\ history' \in Seq(Bytes) /\ Len(history') = L + n
        /\ \A i \in 1 .. L : history'[i] = history[i]
        /\ \A i \in 1 .. n : history'[L + i] = s[i]
        /\ buf' \in [0 .. buf_size - 1 -> Bytes]
    BY <1>1, <2>5, <2>7, PutFacts
  <2> HIDE DEF L
  <2>10. left' \in Nat /\ left' = r - n /\ (left' > 0 => pos' = dist + 1)
    BY <1>1, <1>6, <2>2, <2>3, <2>4, <2>9 DEF Numbers
  <2>11. \/ pc' = "decode" /\ left' = 0
         \/ pc' = "repeat" /\ left' > 0
    <3>1. CASE left' = 0
      BY <2>4, <3>1
    <3>2. CASE left' # 0
      BY <2>4, <2>10, <3>2
    <3> QED
      BY <3>1, <3>2
  <2>12. pos' + left' <= limit /\ (count - r > 0 => pos' + left' = limit)
         /\ pos' \in Nat /\ pos' > pos
    <3>1. pos' + left' = pos + r
      <4>1. pos \in Nat /\ n \in Nat /\ r \in Nat
        BY <1>1, <1>6, <2>3 DEF Numbers
      <4>2. pos' = pos + n
        BY <2>9
      <4>3. left' = r - n
        BY <2>10
      <4> QED
        BY <4>1, <4>2, <4>3
    <3>2. pos' \in Nat /\ pos' > pos
      BY <1>1, <2>3, <2>9 DEF Numbers
    <3> QED
      BY <1>6, <3>1, <3>2
  <2>13. LzTypeOK'
    <3>1. pos' <= buf_size
      BY <2>6, <2>9
    <3>2. pending_len' \in Nat
      BY <1>6, <1>9
    <3>3. Len(history') \in Nat /\ L <= Len(history')
      BY <1>1, <2>3, <2>9
    <3>4. fresh' <= Len(history')
      BY <1>1, <1>7, <3>3 DEF Numbers, L
    <3> QED
      BY <1>1, <1>2, <1>7, <1>9, <2>4, <2>9, <2>10, <2>11, <2>12, <3>1, <3>2,
         <3>3, <3>4
      DEF LzTypeOK, Numbers
  <2>14. BoundsInv'
    <3>1. pos' <= limit /\ start <= pos'
      BY <1>1, <1>3, <2>10, <2>12 DEF Numbers
    <3> QED
      BY <1>4, <1>7, <2>11, <3>1 DEF BoundsInv
  <2>15. FullInv'
    BY <1>1, <1>2, <1>7, <2>1, <2>8 DEF FullInv, Numbers
  <2>16. OwedInv'
    <3>1. pending_len' > 0 => pos' + left' = limit
      BY <1>9, <2>12
    <3>2. pc' = "decode" /\ pending_len' > 0 => pos' = limit
      BY <2>11, <2>12, <3>1
    <3> QED
      BY <1>7, <1>9, <3>1, <3>2 DEF OwedInv
  <2>17. RepeatInv'
    <3> SUFFICES ASSUME pc' = "repeat" PROVE RepeatInv'
      BY DEF RepeatInv
    <3>1. left' > 0 /\ pos' = dist + 1 /\ back' = 0
      BY <2>4, <2>10, <2>11
    <3>2. back' + pending_dist' + 1 <= pos' /\ pos' - back' = pending_dist' + 1
      BY <1>9, <3>1
    <3>3. ASSUME NEW x \in Len(history') - (pos' - back') + 1 .. Len(history') - pending_dist' - 1
          PROVE  FALSE
      BY <1>1, <1>9, <2>3, <2>9, <3>2
    <3>4. ASSUME NEW i \in 1 .. pending_dist' + 1
          PROVE  Len(history') - (pos' - back') + i = Len(history') - pending_dist' - 1 + i
      BY <1>1, <1>9, <2>3, <2>9, <3>2
    <3> QED
      BY <1>7, <1>9, <2>12, <3>1, <3>2, <3>3, <3>4 DEF RepeatInv
  <2>18. Repeated(dist)
    <3>1. Len(history') \in Nat /\ L <= Len(history')
      BY <1>1, <2>3, <2>9
    <3>2. ASSUME NEW i \in L + 1 .. Len(history')
          PROVE  history'[i] = history'[i - dist - 1]
      <4> DEFINE k == i - L
      <4>1. k \in 1 .. n /\ i = L + k
        BY <1>1, <2>3, <2>9
      <4>2. i - dist - 1 \in 1 .. L /\ bw + k - 1 \in pos .. buf_size - 1
            /\ L - pos - buf_size + 1 + (bw + k - 1) = i - dist - 1
        BY <1>1, <1>8, <2>1, <2>2, <2>3, <4>1 DEF Numbers
      <4> HIDE DEF k
      <4>3. history'[i] = buf[bw + k - 1]
        BY <2>5, <2>9, <4>1
      <4>4. buf[bw + k - 1] = history[L - pos - buf_size + 1 + (bw + k - 1)]
        BY <1>3, <2>1, <4>2 DEF RingInv, L
      <4> QED
        BY <2>9, <4>2, <4>3, <4>4
    <3>3. pos' = pos + (Len(history') - L)
      BY <1>1, <2>3, <2>9 DEF Numbers
    <3> QED
      BY <2>9, <3>1, <3>2, <3>3 DEF Repeated, L
  <2>19. Owed' \in Nat /\ Owed' = count - (Len(history') - L)
    <3>1. (IF pc' = "repeat" THEN left' ELSE 0) = r - n
      BY <2>10, <2>11
    <3>2. Owed' = (count - r) + (r - n)
      BY <1>9, <3>1 DEF Owed
    <3>3. L \in Nat /\ r \in Nat /\ n \in Nat /\ n <= r /\ r <= count
      BY <1>1, <1>6, <2>3
    <3>4. (count - r) + (r - n) \in Nat /\ (count - r) + (r - n) = count - ((L + n) - L)
      BY <3>3
    <3> QED
      BY <2>9, <3>2, <3>4
  <2> QED
    BY <1>9, <2>8, <2>9, <2>11, <2>13, <2>14, <2>15, <2>16, <2>17, <2>18, <2>19
    DEF LzInv, L
<1>12. CASE ~(pos < dist + 1)
  <2>1. /\ back' = pos - dist - 1 /\ left' = r /\ pc' = "repeat"
        /\ UNCHANGED <<buf, pos, history>>
    BY <1>1, <1>12 DEF BeginRepeat, Numbers
  <2> HIDE DEF r, n, bw
  <2>2. back' \in Nat /\ back' <= pos /\ pos' - back' = dist + 1
        /\ back' + dist + 1 <= pos
    BY <1>1, <1>12, <2>1 DEF Numbers
  <2>3. LzTypeOK'
    BY <1>1, <1>2, <1>6, <1>7, <1>9, <2>1, <2>2 DEF LzTypeOK, Numbers
  <2>4. BoundsInv'
    BY <1>1, <1>3, <1>4, <1>7, <2>1 DEF BoundsInv, Numbers
  <2>5. FullInv'
    BY <1>1, <1>2, <1>3, <1>5, <1>7, <2>1 DEF FullInv, ReachExact, reach, Numbers
  <2>6. RingInv' /\ OutInv'
    BY <1>2, <1>3, <1>7, <2>1 DEF RingInv, OutInv
  <2>7. OwedInv'
    BY <1>1, <1>6, <1>7, <1>9, <2>1 DEF OwedInv, Numbers
  <2>8. RepeatInv'
    <3>1. ASSUME NEW x \in Len(history') - (pos' - back') + 1 .. Len(history') - pending_dist' - 1
          PROVE  FALSE
      BY <1>1, <1>9, <2>1, <2>2
    <3>2. ASSUME NEW i \in 1 .. pending_dist' + 1
          PROVE  Len(history') - (pos' - back') + i = Len(history') - pending_dist' - 1 + i
      BY <1>1, <1>9, <2>1, <2>2
    <3>3. left' > 0 /\ pos' + left' <= limit' /\ pending_dist' < full'
          /\ back' + pending_dist' + 1 <= pos'
      BY <1>6, <1>7, <1>9, <2>1, <2>2
    <3> QED
      BY <3>1, <3>2, <3>3 DEF RepeatInv
  <2>9. Repeated(dist)
    BY <1>1, <2>1 DEF Repeated, Numbers
  <2>10. Owed' \in Nat /\ Owed' = count - (Len(history') - L)
    BY <1>1, <1>6, <1>9, <2>1 DEF Owed
  <2> QED
    BY <1>1, <1>9, <2>1, <2>3, <2>4, <2>5, <2>6, <2>7, <2>8, <2>9, <2>10 DEF LzInv, LzTypeOK, L
<1> QED
  BY <1>11, <1>12

(* One round of repeat's loop.                                             *)
LEMMA CopyRunLzInv ==
  ASSUME LzInv, CopyRun
  PROVE  /\ LzInv' /\ pc' \in {"decode", "repeat"} /\ pending_dist' = pending_dist
         /\ history' \in Seq(Bytes) /\ Repeated(pending_dist)
         /\ Owed' \in Nat /\ Owed' = Owed - (Len(history') - Len(history))
<1> DEFINE L == Len(history)
           m == pos - back
           p == pending_dist + 1
           n == run
<1>1. Numbers /\ LzTypeOK /\ L \in Nat
  BY TypeNumbers DEF LzInv, Numbers
<1>2. buf_size' = buf_size
  BY DEF buf_size
<1>3. BoundsInv /\ FullInv /\ RingInv /\ OutInv /\ start <= pos /\ OwedInv
  BY DEF LzInv, BoundsInv
<1>4. /\ pc = "repeat" /\ Put(Stretch(back, n)) /\ left' = left - n
      /\ UNCHANGED <<start, limit, pending_len, pending_dist, asked, back, fresh, delivered>>
  BY DEF CopyRun
<1>5. \/ left' = 0 /\ pc' = "decode" /\ full' = Larger(full, pos')
      \/ left' # 0 /\ pc' = "repeat" /\ full' = full
  BY DEF CopyRun
<1>6. /\ pending_dist < full /\ left > 0 /\ pos + left <= limit
      /\ back + pending_dist + 1 <= pos
      /\ \A x \in L - m + 1 .. L - pending_dist - 1 :
            history[x] = history[x + pending_dist + 1]
      /\ \A i \in 1 .. pending_dist + 1 :
            history[L - m + i] = history[L - pending_dist - 1 + i]
  BY <1>4 DEF LzInv, RepeatInv
<1>7. pos <= L - fresh /\ full <= L - fresh
  BY <1>1, <1>3, ReachFacts
<1>8. m \in Nat /\ m >= p /\ p \in Nat /\ p > 0 /\ back = pos - m /\ m <= L
  BY <1>1, <1>6, <1>7 DEF Numbers
<1>9. n \in Nat /\ n > 0 /\ n <= left /\ n <= m /\ (n # left => n = m)
  <2>1. CASE pending_dist >= left
    BY <1>1, <1>6, <1>8, <2>1 DEF run, Numbers
  <2>2. CASE ~(pending_dist >= left)
    BY <1>1, <1>6, <1>8, <2>2 DEF run, Smaller, Numbers
  <2> QED
    BY <2>1, <2>2
<1> HIDE DEF n
<1> DEFINE s == Stretch(back, n)
<1>10. /\ s \in Seq(Bytes) /\ Len(s) = n
       /\ \A k \in 1 .. n : s[k] = buf[back + k - 1]
  <2>1. back \in Nat /\ back + n <= buf_size
    BY <1>1, <1>8, <1>9 DEF Numbers
  <2> QED
    BY <1>1, <1>9, <2>1, StretchFacts
<1>11. pos + n <= limit /\ pos + n <= buf_size
  BY <1>1, <1>6, <1>9 DEF Numbers
<1>12. Put(s) /\ pos + Len(s) <= buf_size
  BY <1>4, <1>10, <1>11
<1> HIDE DEF s
<1>13. ReachExact' /\ RingInv' /\ OutInv'
  BY <1>1, <1>3, <1>4, <1>5, <1>10, <1>12, PutKeeps
<1>14. /\ pos' = pos + n
       /\ history' \in Seq(Bytes) /\ Len(history') = L + n
       /\ \A i \in 1 .. L : history'[i] = history[i]
       /\ \A i \in 1 .. n : history'[L + i] = s[i]
       /\ buf' \in [0 .. buf_size - 1 -> Bytes]
  BY <1>1, <1>10, <1>12, PutFacts
<1> HIDE DEF L
<1>15. \A i \in 1 .. n : history'[L + i] = history[L - m + i]
  <2> SUFFICES ASSUME NEW i \in 1 .. n PROVE history'[L + i] = history[L - m + i]
    OBVIOUS
  <2>1. back + i - 1 \in 0 .. pos - 1 /\ L - pos + 1 + (back + i - 1) = L - m + i
    BY <1>1, <1>8, <1>9 DEF Numbers
  <2>2. buf[back + i - 1] = history[L - pos + 1 + (back + i - 1)]
    BY <1>3, <2>1 DEF RingInv, L
  <2> QED
    BY <1>10, <1>14, <2>1, <2>2
<1> HIDE DEF m, p
<1>16. /\ \A x \in L - m + 1 .. L - p : history[x] = history[x + p]
       /\ \A i \in 1 .. p : history[L - m + i] = history[L - p + i]
  <2>1. \A i \in 1 .. p : L - p + i = L - pending_dist - 1 + i
    BY <1>1 DEF Numbers, p
  <2>2. L - p = L - pending_dist - 1 /\ \A x \in Int : x + p = x + pending_dist + 1
    BY <1>1 DEF Numbers, p
  <2> QED
    BY <1>1, <1>6, <1>8, <2>1, <2>2 DEF p
<1>17. ASSUME NEW i \in 1 .. n
       PROVE  history'[L + i] = history'[L + i - p]
  <2>1. CASE i <= p
    <3>1. i \in 1 .. p /\ L + i - p = L - p + i /\ L - p + i \in 1 .. L
      BY <1>1, <1>8, <1>9, <2>1
    <3> QED
      BY <1>14, <1>15, <1>16, <3>1
  <2>2. CASE ~(i <= p)
    <3> DEFINE k == i - p
               x == L - m + k
    <3>1. k \in 1 .. n /\ x \in L - m + 1 .. L - p /\ x + p = L - m + i
          /\ L + i - p = L + k
      BY <1>1, <1>8, <1>9, <2>2
    <3> HIDE DEF k
    <3>2. history'[L + k] = history[x]
      BY <1>15, <3>1
    <3>3. history[x] = history[x + p]
      BY <1>16, <3>1
    <3> QED
      BY <1>15, <3>1, <3>2, <3>3
  <2> QED
    BY <2>1, <2>2
<1>18. Repeated(pending_dist)
  <2>1. Len(history') \in Nat /\ L <= Len(history')
    BY <1>1, <1>9, <1>14
  <2>2. ASSUME NEW i \in L + 1 .. Len(history')
        PROVE  history'[i] = history'[i - pending_dist - 1]
    <3> DEFINE k == i - L
    <3>1. k \in 1 .. n /\ i = L + k /\ i - pending_dist - 1 = L + k - p
      BY <1>1, <1>9, <1>14 DEF p, Numbers
    <3> HIDE DEF k
    <3> QED
      BY <1>17, <3>1
  <2>3. pos' = pos + (Len(history') - L)
    BY <1>1, <1>9, <1>14 DEF Numbers
  <2> QED
    BY <1>14, <2>1, <2>2, <2>3 DEF Repeated, L
<1>19. left' \in Nat /\ left' = left - n /\ pos' + left' = pos + left
       /\ pos' \in Nat /\ pos' > pos /\ pos' <= buf_size
  BY <1>1, <1>4, <1>9, <1>11, <1>14 DEF Numbers
<1>20. full' \in Nat /\ full' <= buf_size /\ full <= full'
       /\ (full' # buf_size => full' <= pos')
       /\ (full' # buf_size /\ left' = 0 => full' = pos')
  <2>1. full # buf_size => full <= pos
    BY <1>3 DEF FullInv
  <2>2. CASE left' = 0 /\ pc' = "decode" /\ full' = Larger(full, pos')
    BY <1>1, <1>19, <2>1, <2>2 DEF Larger, Numbers
  <2>3. CASE left' # 0 /\ pc' = "repeat" /\ full' = full
    BY <1>1, <1>19, <2>1, <2>3 DEF Numbers
  <2> QED
    BY <1>5, <2>2, <2>3
<1>21. pc' \in {"decode", "repeat"} /\ (pc' = "decode" <=> left' = 0)
  BY <1>5
<1>22. LzTypeOK'
  <2>1. fresh' \in 0 .. Len(history')
    BY <1>1, <1>4, <1>9, <1>14, SMTT(20) DEF Numbers, L
  <2> QED
    <3>1. pos' \in 0 .. buf_size /\ full' \in 0 .. buf_size
      BY <1>1, <1>19, <1>20 DEF Numbers
    <3>2. /\ start' \in 0 .. buf_size /\ limit' \in 0 .. buf_size
          /\ back' \in 0 .. buf_size /\ asked' \in Nat
          /\ pending_len' \in Nat /\ pending_dist' \in Nat
          /\ delivered' \in Seq(Bytes)
      BY <1>1, <1>4 DEF LzTypeOK
    <3> QED
      BY <1>2, <1>14, <1>19, <1>21, <2>1, <3>1, <3>2 DEF LzTypeOK
<1>23. BoundsInv'
  <2>1. start < limit /\ limit <= start + asked
    BY <1>3, <1>4 DEF BoundsInv
  <2>2. start <= pos' /\ pos' <= limit
    BY <1>1, <1>3, <1>11, <1>14, <1>19 DEF Numbers
  <2> QED
    BY <1>4, <1>21, <2>1, <2>2 DEF BoundsInv
<1>24. FullInv'
  <2>1. full' # 0
    BY <1>1, <1>6, <1>20 DEF Numbers
  <2> QED
    BY <1>2, <1>13, <1>20, <1>21, <2>1 DEF FullInv
<1>25. OwedInv'
  <2>1. pending_len > 0 => pending_dist < full' /\ pos' + left' = limit
    BY <1>1, <1>3, <1>4, <1>19, <1>20 DEF OwedInv, Numbers
  <2> QED
    BY <1>4, <1>19, <1>21, <2>1 DEF OwedInv
<1>26. RepeatInv'
  <2> SUFFICES ASSUME pc' = "repeat" PROVE RepeatInv'
    BY DEF RepeatInv
  <2>1. left' # 0 /\ n = m
    BY <1>1, <1>9, <1>19, <1>21 DEF Numbers
  <2>2. /\ left' > 0 /\ pos' + left' <= limit' /\ pending_dist' < full'
        /\ back' + pending_dist' + 1 <= pos'
    BY <1>1, <1>4, <1>6, <1>19, <1>20, <2>1 DEF Numbers
  <2>3. /\ Len(history') - (pos' - back') = L - m
        /\ Len(history') - pending_dist' - 1 = L + m - p
    <3>1. pos' - back' = m + m /\ Len(history') = L + m
      BY <1>1, <1>4, <1>8, <1>14, <2>1 DEF Numbers
    <3>2. pending_dist' = p - 1
      BY <1>1, <1>4 DEF p, Numbers
    <3> QED
      BY <1>1, <1>8, <3>1, <3>2
  <2>4. ASSUME NEW x \in L - m + 1 .. L + m - p
        PROVE  history'[x] = history'[x + pending_dist' + 1]
    <3>1. x + pending_dist' + 1 = x + p
      BY <1>1, <1>4, <1>8 DEF Numbers, p
    <3>2. CASE x <= L - p
      <4>1. x \in L - m + 1 .. L - p /\ x \in 1 .. L /\ x + p \in 1 .. L
        BY <1>1, <1>8, <3>2
      <4> QED
        BY <1>14, <1>16, <3>1, <4>1
    <3>3. CASE ~(x <= L - p)
      <4> DEFINE i == x + p - L
      <4>1. i \in 1 .. n /\ x + p = L + i /\ L + i - p = x
        BY <1>1, <1>8, <2>1, <3>3
      <4> HIDE DEF i
      <4> QED
        BY <1>17, <3>1, <4>1
    <3> QED
      BY <3>2, <3>3
  <2>5. ASSUME NEW i \in 1 .. pending_dist' + 1
        PROVE  history'[L - m + i] = history'[L + m - p + i]
    <3> DEFINE k == m - p + i
    <3>1. i \in 1 .. p
      BY <1>4 DEF p
    <3>2. k \in 1 .. n /\ L + m - p + i = L + k /\ L - m + k = L - p + i
          /\ L - m + i \in 1 .. L
      BY <1>1, <1>8, <2>1, <3>1
    <3> HIDE DEF k
    <3>3. history'[L + k] = history[L - p + i]
      BY <1>15, <3>2
    <3>4. history'[L - m + i] = history[L - m + i]
      BY <1>14, <3>2
    <3> QED
      BY <1>16, <3>1, <3>2, <3>3, <3>4
  <2> QED
    BY <2>2, <2>3, <2>4, <2>5 DEF RepeatInv
<1>27. Owed' \in Nat /\ Owed' = Owed - (Len(history') - L)
  <2>1. Owed = pending_len + left
    BY <1>4 DEF Owed
  <2>2. Owed' = pending_len + left'
    BY <1>1, <1>4, <1>21, <1>19 DEF Owed, Numbers
  <2> QED
    BY <1>1, <1>9, <1>14, <1>19, <2>1, <2>2 DEF Numbers
<1> QED
  BY <1>4, <1>13, <1>14, <1>18, <1>21, <1>22, <1>23, <1>24, <1>25, <1>26, <1>27
  DEF LzInv, L

(* A new match: refused, or begun.                                         *)
LEMMA RepeatLzInv ==
  ASSUME LzInv, NEW dist \in Distances, NEW count \in Lengths, Repeat(dist, count)
  PROVE  /\ LzInv' /\ pc = "decode" /\ pending_len = 0
         /\ UNCHANGED <<fresh, delivered>>
         /\ \/ pc' = "refused" /\ UNCHANGED <<pos, pending_len, pending_dist, history>>
            \/ /\ pc' \in {"decode", "repeat"} /\ pending_dist' = dist /\ dist < full
               /\ history' \in Seq(Bytes) /\ Repeated(dist) /\ Owed' \in Nat
<1>1. Numbers /\ LzTypeOK
  BY TypeNumbers DEF LzInv
<1>2. dist \in Nat /\ count \in Nat \ {0}
  BY MatchAssumption
<1>3. /\ pc = "decode" /\ pos < limit /\ BeginRepeat(dist, count)
      /\ UNCHANGED <<start, full, limit, asked, fresh, delivered>>
  BY DEF Repeat, has_space
<1>4. pending_len = 0
  BY <1>1, <1>3 DEF LzInv, OwedInv, Numbers
<1>5. CASE dist >= full
  <2>1. /\ pc' = "refused"
        /\ UNCHANGED <<buf, pos, pending_len, pending_dist, back, left, history>>
    BY <1>3, <1>5 DEF BeginRepeat
  <2>2. buf_size' = buf_size
    BY DEF buf_size
  <2>3. LzTypeOK' /\ BoundsInv' /\ OwedInv' /\ RepeatInv'
    BY <1>1, <1>3, <1>4, <2>1, <2>2
    DEF LzInv, LzTypeOK, BoundsInv, OwedInv, RepeatInv, Numbers
  <2>4. FullInv' /\ RingInv' /\ OutInv'
    BY <1>3, <2>1, <2>2 DEF LzInv, FullInv, ReachExact, reach, RingInv, OutInv
  <2> QED
    BY <1>3, <1>4, <2>1, <2>3, <2>4 DEF LzInv
<1>6. CASE ~(dist >= full)
  <2>1. dist < full
    BY <1>1, <1>2, <1>6 DEF Numbers
  <2>2. pc \in {"resume", "decode"}
    BY <1>3
  <2>3. /\ LzInv' /\ pc' \in {"decode", "repeat"} /\ pending_dist' = dist
        /\ history' \in Seq(Bytes) /\ Repeated(dist) /\ Owed' \in Nat
    BY <1>2, <1>3, <2>1, <2>2, BeginRepeatLzInv
  <2> QED
    BY <1>3, <1>4, <2>1, <2>3
<1> QED
  BY <1>5, <1>6

(* The rest of a match that the last limit has cut, never refused.         *)
LEMMA RepeatPendingLzInv ==
  ASSUME LzInv, RepeatPending, pending_len # 0
  PROVE  /\ LzInv' /\ pc = "resume" /\ pc' \in {"decode", "repeat"}
         /\ UNCHANGED <<fresh, delivered, pending_dist>>
         /\ history' \in Seq(Bytes) /\ Repeated(pending_dist)
         /\ Owed' \in Nat /\ Owed' = Owed - (Len(history') - Len(history))
<1>1. Numbers /\ LzTypeOK
  BY TypeNumbers DEF LzInv
<1>2. pending_len \in Nat \ {0} /\ pending_dist \in Nat /\ pending_len > 0
  BY <1>1 DEF Numbers
<1>3. /\ pc = "resume" /\ BeginRepeat(pending_dist, pending_len)
      /\ UNCHANGED <<start, full, limit, asked, fresh, delivered>>
  BY <1>2 DEF RepeatPending
<1>4. pos < limit /\ pc \in {"resume", "decode"}
  BY <1>3 DEF LzInv, BoundsInv
<1>5. pending_dist < full
  BY <1>2 DEF LzInv, OwedInv
<1>6. /\ LzInv' /\ pc' \in {"decode", "repeat"} /\ pending_dist' = pending_dist
      /\ history' \in Seq(Bytes) /\ Repeated(pending_dist)
      /\ Owed' \in Nat /\ Owed' = pending_len - (Len(history') - Len(history))
  BY <1>2, <1>3, <1>4, <1>5, BeginRepeatLzInv
<1>7. Owed = pending_len
  BY <1>1, <1>3 DEF Owed, Numbers
<1> QED
  BY <1>3, <1>6, <1>7

LEMMA NextLzInv == LzInv /\ [LzNext]_lzvars => LzInv'
<1> SUFFICES ASSUME LzInv, [LzNext]_lzvars PROVE LzInv'
  OBVIOUS
<1>1. CASE Reset
  BY <1>1, ResetLzInv
<1>2. CASE RepeatPending
  <2>1. CASE pending_len = 0
    BY <1>2, <2>1, ControlLzInv
  <2>2. CASE pending_len # 0
    BY <1>2, <2>2, RepeatPendingLzInv
  <2> QED
    BY <2>1, <2>2
<1>3. CASE CopyRun
  BY <1>3, CopyRunLzInv
<1>4. CASE EndDecode \/ UNCHANGED lzvars
  BY <1>4, ControlLzInv
<1>5. CASE Flush
  BY <1>5, FlushLzInv
<1>6. CASE \E n \in 1 .. MaxOutput : SetLimit(n) \/ CopyUncompressed(n)
  <2>1. PICK n \in 1 .. MaxOutput : SetLimit(n) \/ CopyUncompressed(n)
    BY <1>6
  <2>2. n \in Nat \ {0}
    BY OutputAssumption
  <2>3. CASE SetLimit(n)
    BY <2>3, ControlLzInv
  <2>4. CASE CopyUncompressed(n)
    BY <2>2, <2>4, StoredLzInv
  <2> QED
    BY <2>1, <2>3, <2>4
<1>7. CASE \E dist \in Distances, count \in Lengths : Repeat(dist, count)
  BY <1>7, RepeatLzInv
<1>8. CASE \E b \in Bytes : PutByte(b)
  BY <1>8, LiteralLzInv
<1> QED
  BY <1>1, <1>2, <1>3, <1>4, <1>5, <1>6, <1>7, <1>8 DEF LzNext

(* The strengthened invariant of the window.                               *)
THEOREM Invariance == LzSpec => []LzInv
  BY InitLzInv, NextLzInv, PTL DEF LzSpec
-----------------------------------------------------------------------------
(* The indices of the window keep within the buffer, in every call.        *)
THEOREM TypeCorrect == LzSpec => []LzTypeOK
<1>1. LzInv => LzTypeOK
  BY DEF LzInv
<1> QED
  BY <1>1, Invariance, PTL

LEMMA HoldsInWindow == LzInv => WindowHolds
<1> SUFFICES ASSUME LzInv, NEW dist \in 0 .. reach - 1
             PROVE  get_byte(dist) = history[Len(history) - dist]
  BY DEF WindowHolds
<1>1. Numbers
  BY TypeNumbers DEF LzInv
<1>2. FullInv /\ RingInv /\ (full # buf_size => full <= pos)
  BY DEF LzInv, FullInv
<1>3. dist \in Nat /\ dist < buf_size /\ (dist < pos \/ full = buf_size)
  BY <1>1, <1>2 DEF reach, Larger, Numbers
<1>4. CASE dist >= pos
  <2>1. full = buf_size
    BY <1>1, <1>3, <1>4 DEF Numbers
  <2>2. /\ offset(dist) = buf_size + pos - dist - 1
        /\ buf_size + pos - dist - 1 \in pos .. buf_size - 1
        /\ Len(history) - pos - buf_size + 1 + (buf_size + pos - dist - 1)
             = Len(history) - dist
    BY <1>1, <1>3, <1>4 DEF offset, Numbers
  <2> QED
    BY <1>2, <2>1, <2>2 DEF RingInv, get_byte
<1>5. CASE ~(dist >= pos)
  <2>1. /\ offset(dist) = pos - dist - 1
        /\ pos - dist - 1 \in 0 .. pos - 1
        /\ Len(history) - pos + 1 + (pos - dist - 1) = Len(history) - dist
    BY <1>1, <1>3, <1>5 DEF offset, Numbers
  <2> QED
    BY <1>2, <2>1 DEF RingInv, get_byte
<1> QED
  BY <1>4, <1>5

(* get_byte gives, at every distance within reach, the byte decoded that   *)
(* long ago.                                                               *)
THEOREM WindowIsHistory == LzSpec => []WindowHolds
  BY Invariance, HoldsInWindow, PTL

(* repeat refuses a distance exactly if it reaches past the last reset, or *)
(* farther than the buffer is long.                                        *)
THEOREM RefusalIsExact == LzSpec => []ReachExact
<1>1. LzInv => ReachExact
  BY DEF LzInv, FullInv
<1> QED
  BY <1>1, Invariance, PTL

(* flush hands out every byte once, in the order it was decoded.           *)
THEOREM OutputInOrder == LzSpec => []DeliveredInOrder
<1>1. LzInv => DeliveredInOrder
  BY OutComplete
<1> QED
  BY <1>1, Invariance, PTL

LEMMA BoundsOfCopy == LzInv => CopyInBounds
  BY TypeNumbers, SMTT(20) DEF LzInv, RepeatInv, CopyInBounds, Numbers

(* The debug assertions of repeat hold, and none of its slices is out of   *)
(* the range of the buffer.                                                *)
THEOREM CopiesInBounds == LzSpec => []CopyInBounds
  BY Invariance, BoundsOfCopy, PTL

LEMMA FitOfFlush == LzInv => FlushFits
  BY TypeNumbers DEF LzInv, BoundsInv, FlushFits, Numbers

(* flush hands out at least one byte and no more than were asked for.      *)
THEOREM FlushesFit == LzSpec => []FlushFits
  BY Invariance, FitOfFlush, PTL

LEMMA NothingOwed == LzInv => OwedFirst
  BY TypeNumbers DEF LzInv, OwedInv, OwedFirst, has_space, Numbers

(* decode comes to a new symbol only when no part of a match is left.      *)
THEOREM OwedComesFirst == LzSpec => []OwedFirst
  BY Invariance, NothingOwed, PTL

LEMMA ContextOfFirst == LzInv => FreshContext
<1> SUFFICES ASSUME LzInv, full = 0 PROVE get_byte(0) = Zero
  BY DEF FreshContext
<1>1. Numbers
  BY TypeNumbers DEF LzInv
<1>2. pos = 0
  BY <1>1 DEF LzInv, FullInv, RepeatInv, Numbers
<1>3. offset(0) = buf_size - 1
  BY <1>1, <1>2 DEF offset, Numbers
<1> QED
  BY <1>3 DEF LzInv, FullInv, get_byte

(* The first literal after a reset finds the byte 0 before it.             *)
THEOREM ContextIsFresh == LzSpec => []FreshContext
  BY Invariance, ContextOfFirst, PTL
-----------------------------------------------------------------------------
(* What a step adds to the history, as Lz77 sees it.                       *)
LEMMA Growth ==
  ASSUME LzInv, history' \in Seq(Bytes), Len(history) <= Len(history'),
         \A i \in 1 .. Len(history) : history'[i] = history[i]
  PROVE  /\ Dictionary!Grows
         /\ Len(Dictionary!New) = Len(history') - Len(history)
         /\ \A i \in 1 .. Len(Dictionary!New) :
               Dictionary!New[i] = history'[Len(history) + i]
<1> DEFINE L == Len(history)
           M == Len(history')
           s == SubSeq(history', L + 1, M)
<1>1. history \in Seq(Bytes) /\ L \in Nat /\ M \in Nat
  BY LenProperties DEF LzInv, LzTypeOK
<1>2. \A i \in L + 1 .. M : history'[i] \in Bytes
  <2> SUFFICES ASSUME NEW i \in L + 1 .. M PROVE history'[i] \in Bytes
    OBVIOUS
  <2>1. i \in 1 .. M
    BY <1>1
  <2> QED
    BY <2>1, ElementOfSeq
<1>3. /\ s \in Seq(Bytes) /\ Len(s) = IF L + 1 <= M THEN M - (L + 1) + 1 ELSE 0
      /\ \A i \in 1 .. M - (L + 1) + 1 : s[i] = history'[L + 1 + i - 1]
  <2>1. L + 1 \in Int /\ M \in Int
    BY <1>1
  <2> QED
    BY <1>2, <2>1, SubSeqProperties
<1> HIDE DEF s
<1>4. Len(s) = M - L /\ M - L \in Nat
  BY <1>1, <1>3
<1>5. \A i \in 1 .. Len(s) : s[i] = history'[L + i]
  BY <1>1, <1>3, <1>4
<1>6. history' = history \o s
  <2>1. /\ history \o s \in Seq(Bytes) /\ Len(history \o s) = L + Len(s)
        /\ \A i \in 1 .. L + Len(s) : (history \o s)[i] =
              IF i <= L THEN history[i] ELSE s[i - L]
    BY <1>1, <1>3, ConcatProperties
  <2>2. L + Len(s) = M
    BY <1>1, <1>4
  <2>3. ASSUME NEW i \in 1 .. M
        PROVE  history'[i] = (history \o s)[i]
    <3>1. CASE i <= L
      BY <1>1, <2>1, <2>2, <3>1
    <3>2. CASE ~(i <= L)
      <4> DEFINE k == i - L
      <4>1. k \in 1 .. Len(s) /\ L + k = i
        BY <1>1, <1>4, <3>2
      <4>2. (history \o s)[i] = s[k]
        BY <2>1, <2>2, <3>2
      <4> HIDE DEF k
      <4> QED
        BY <1>5, <4>1, <4>2
    <3> QED
      BY <3>1, <3>2
  <2> QED
    BY <2>1, <2>2, <2>3, SeqEqual
<1>7. Dictionary!New = s
  BY DEF Dictionary!New, s
<1> QED
  BY <1>3, <1>4, <1>5, <1>6, <1>7 DEF Dictionary!Grows

(* What repeat has added is a repetition to Lz77, too.                     *)
LEMMA Repetition ==
  ASSUME LzInv, history' \in Seq(Bytes), NEW dist \in Nat, Repeated(dist)
  PROVE  /\ Dictionary!Grows /\ Dictionary!Repeats(dist)
         /\ Len(Dictionary!New) = Len(history') - Len(history)
<1>1. /\ Len(history') \in Nat /\ Len(history) <= Len(history')
      /\ \A i \in 1 .. Len(history) : history'[i] = history[i]
      /\ \A i \in Len(history) + 1 .. Len(history') :
            history'[i] = history'[i - dist - 1]
  BY DEF Repeated
<1>2. Len(history) \in Nat
  BY LenProperties DEF LzInv, LzTypeOK
<1>3. /\ Dictionary!Grows
      /\ Len(Dictionary!New) = Len(history') - Len(history)
      /\ \A i \in 1 .. Len(Dictionary!New) :
            Dictionary!New[i] = history'[Len(history) + i]
  BY <1>1, Growth
<1>4. ASSUME NEW i \in 1 .. Len(Dictionary!New)
      PROVE  Dictionary!New[i] = history'[Len(history) + i - dist - 1]
  <2>1. /\ Len(history) + i \in Len(history) + 1 .. Len(history')
        /\ (Len(history) + i) - dist - 1 = Len(history) + i - dist - 1
    BY <1>1, <1>2, <1>3
  <2> QED
    BY <1>1, <1>3, <2>1
<1> QED
  BY <1>3, <1>4 DEF Dictionary!Repeats

(* Bytes put by a literal or a stored chunk.                               *)
LEMMA Literals ==
  ASSUME LzInv, NEW s \in Seq(Bytes), pos + Len(s) <= buf_size, Put(s)
  PROVE  Dictionary!Grows
<1>1. LzTypeOK /\ Len(history) \in Nat
  BY LenProperties DEF LzInv, LzTypeOK
<1>2. /\ Len(s) \in Nat /\ history' \in Seq(Bytes)
      /\ Len(history') = Len(history) + Len(s)
      /\ \A i \in 1 .. Len(history) : history'[i] = history[i]
  BY <1>1, PutFacts
<1>3. Len(history) <= Len(history')
  BY <1>1, <1>2
<1> QED
  BY <1>2, <1>3, Growth

LEMMA InitDictionary == LzInit => Dictionary!Init
  BY DEF LzInit, Dictionary!Init

(* Every step of the window is one of the dictionary, or none.             *)
LEMMA StepDictionary ==
  LzInv /\ [LzNext]_lzvars => [Dictionary!Next]_(Dictionary!vars)
<1> SUFFICES ASSUME LzInv, [LzNext]_lzvars
             PROVE  Dictionary!Next \/ UNCHANGED Dictionary!vars
  OBVIOUS
<1>0. Numbers /\ LzTypeOK
  BY TypeNumbers DEF LzInv
<1>1. CASE Reset
  <2>1. /\ pc = "idle" /\ pc' = "idle" /\ pending_len = 0 /\ fresh' = Len(history)
        /\ UNCHANGED <<pending_len, pending_dist, history, delivered>>
    BY <1>1 DEF Reset
  <2>2. Dictionary!Forget
    BY <2>1 DEF Dictionary!Forget
  <2> QED
    BY <2>2 DEF Dictionary!Next
<1>2. CASE RepeatPending
  <2>1. CASE pending_len = 0
    <3>1. /\ pc = "resume" /\ pc' = "decode"
          /\ UNCHANGED <<pending_len, pending_dist, history, fresh, delivered>>
      BY <1>0, <1>2, <2>1 DEF RepeatPending, window, Numbers
    <3> QED
      BY <3>1 DEF Dictionary!vars
  <2>2. CASE pending_len # 0
    <3>1. /\ pc = "resume" /\ pc' \in {"decode", "repeat"}
          /\ UNCHANGED <<fresh, delivered, pending_dist>>
          /\ history' \in Seq(Bytes) /\ Repeated(pending_dist)
          /\ Owed' \in Nat /\ Owed' = Owed - (Len(history') - Len(history))
      BY <1>2, <2>2, RepeatPendingLzInv
    <3>2. /\ Dictionary!Grows /\ Dictionary!Repeats(pending_dist)
          /\ Len(Dictionary!New) = Len(history') - Len(history)
      BY <1>0, <3>1, Repetition DEF Numbers
    <3>3. Dictionary!Pay
      BY <3>1, <3>2 DEF Dictionary!Pay, Owed
    <3> QED
      BY <3>3 DEF Dictionary!Next
  <2> QED
    BY <2>1, <2>2
<1>3. CASE CopyRun
  <2>1. /\ pc' \in {"decode", "repeat"} /\ pending_dist' = pending_dist
        /\ history' \in Seq(Bytes) /\ Repeated(pending_dist)
        /\ Owed' \in Nat /\ Owed' = Owed - (Len(history') - Len(history))
    BY <1>3, CopyRunLzInv
  <2>2. pc = "repeat" /\ UNCHANGED <<fresh, delivered>>
    BY <1>3 DEF CopyRun
  <2>3. /\ Dictionary!Grows /\ Dictionary!Repeats(pending_dist)
        /\ Len(Dictionary!New) = Len(history') - Len(history)
    BY <1>0, <2>1, Repetition DEF Numbers
  <2>4. Dictionary!Pay
    BY <2>1, <2>2, <2>3 DEF Dictionary!Pay, Owed
  <2> QED
    BY <2>4 DEF Dictionary!Next
<1>4. CASE EndDecode
  <2>1. /\ pc = "decode" /\ pc' = "flush"
        /\ UNCHANGED <<pending_len, pending_dist, history, fresh, delivered>>
    BY <1>4 DEF EndDecode, window, ghosts
  <2> QED
    BY <2>1 DEF Dictionary!vars
<1>5. CASE Flush
  <2>1. /\ pc = "flush" /\ pc' = "idle"
        /\ UNCHANGED <<pending_len, pending_dist, history, fresh>>
    BY <1>5 DEF Flush
  <2>2. delivered' = history
    BY <1>5, FlushLzInv
  <2>3. Dictionary!Deliver
    BY <2>1, <2>2 DEF Dictionary!Deliver
  <2> QED
    BY <2>3 DEF Dictionary!Next
<1>6. CASE \E n \in 1 .. MaxOutput : SetLimit(n)
  <2>1. /\ pc = "idle" /\ pc' = "resume"
        /\ UNCHANGED <<pending_len, pending_dist, history, fresh, delivered>>
    BY <1>6 DEF SetLimit, ghosts
  <2> QED
    BY <2>1 DEF Dictionary!vars
<1>7. CASE \E n \in 1 .. MaxOutput : CopyUncompressed(n)
  <2>1. PICK count \in 1 .. MaxOutput : CopyUncompressed(count)
    BY <1>7
  <2> DEFINE n == Smaller(buf_size - pos, count)
  <2>2. /\ pc = "idle" /\ pending_len = 0 /\ pc' = "flush"
        /\ UNCHANGED <<pending_len, pending_dist, fresh, delivered>>
        /\ \E s \in [1 .. n -> Bytes] : Put(s)
    BY <2>1 DEF CopyUncompressed
  <2>3. n \in Nat /\ pos + n <= buf_size
    BY <1>0, OutputAssumption DEF Numbers, Smaller
  <2> HIDE DEF n
  <2>4. PICK s \in [1 .. n -> Bytes] : Put(s)
    BY <2>2
  <2>5. s \in Seq(Bytes)
    BY <2>3, SeqDef
  <2>6. Len(s) = n
    BY <2>3, <2>5, LenProperties
  <2>7. Dictionary!Grows
    BY <2>3, <2>4, <2>5, <2>6, Literals
  <2>8. Dictionary!Literals
    BY <2>2, <2>7 DEF Dictionary!Literals
  <2> QED
    BY <2>8 DEF Dictionary!Next
<1>8. CASE \E dist \in Distances, count \in Lengths : Repeat(dist, count)
  <2>1. PICK dist \in Distances, count \in Lengths : Repeat(dist, count)
    BY <1>8
  <2>2. /\ pc = "decode" /\ pending_len = 0
        /\ UNCHANGED <<fresh, delivered>>
        /\ \/ pc' = "refused" /\ UNCHANGED <<pos, pending_len, pending_dist, history>>
           \/ /\ pc' \in {"decode", "repeat"} /\ pending_dist' = dist /\ dist < full
              /\ history' \in Seq(Bytes) /\ Repeated(dist) /\ Owed' \in Nat
    BY <2>1, RepeatLzInv
  <2>3. CASE pc' = "refused" /\ UNCHANGED <<pos, pending_len, pending_dist, history>>
    <3>1. Dictionary!Refuse
      BY <2>2, <2>3 DEF Dictionary!Refuse
    <3> QED
      BY <3>1 DEF Dictionary!Next
  <2>4. CASE /\ pc' \in {"decode", "repeat"} /\ pending_dist' = dist /\ dist < full
             /\ history' \in Seq(Bytes) /\ Repeated(dist) /\ Owed' \in Nat
    <3>1. dist \in Nat
      BY MatchAssumption
    <3>2. Dictionary!Grows /\ Dictionary!Repeats(dist)
      BY <2>4, <3>1, Repetition
    <3>3. dist \in 0 .. Dictionary!Reach - 1
      <4>1. full <= Len(history) - fresh /\ full <= buf_size
        BY <1>0, ReachFacts DEF LzInv, Numbers
      <4> QED
        BY <1>0, <2>4, <3>1, <4>1 DEF Dictionary!Reach, Numbers
    <3>4. Dictionary!Match
      BY <2>2, <2>4, <3>2, <3>3 DEF Dictionary!Match, Owed
    <3> QED
      BY <3>4 DEF Dictionary!Next
  <2> QED
    BY <2>2, <2>3, <2>4
<1>9. CASE \E b \in Bytes : PutByte(b)
  <2>1. PICK b \in Bytes : PutByte(b)
    BY <1>9
  <2>2. /\ pc = "decode" /\ pc' = "decode" /\ pos < limit /\ Put(<<b>>)
        /\ UNCHANGED <<pending_len, pending_dist, fresh, delivered>>
    BY <2>1 DEF PutByte, has_space
  <2>3. pending_len = 0
    BY <1>0, <2>2 DEF LzInv, OwedInv, Numbers
  <2>4. <<b>> \in Seq(Bytes) /\ Len(<<b>>) = 1
    OBVIOUS
  <2>5. pos + Len(<<b>>) <= buf_size
    BY <1>0, <2>2, <2>4 DEF Numbers
  <2>6. Dictionary!Grows
    BY <2>2, <2>4, <2>5, Literals
  <2>7. Dictionary!Literals
    BY <2>2, <2>3, <2>6 DEF Dictionary!Literals
  <2> QED
    BY <2>7 DEF Dictionary!Next
<1>10. CASE UNCHANGED lzvars
  BY <1>10 DEF lzvars, window, ghosts, Dictionary!vars
<1> QED
  BY <1>1, <1>2, <1>3, <1>4, <1>5, <1>6, <1>7, <1>8, <1>9, <1>10 DEF LzNext

(* The cyclic window implements the unbounded dictionary of Lz77.          *)
THEOREM WindowImplements == LzSpec => ImplementsDictionary
  BY InitDictionary, StepDictionary, Invariance, PTL
  DEF LzSpec, ImplementsDictionary, Dictionary!Spec
-----------------------------------------------------------------------------
(* Division with remainder by any positive number.                         *)
LEMMA DivMod ==
  ASSUME NEW a \in Nat, a > 0, NEW x \in Nat
  PROVE  x = a * (x \div a) + (x % a) /\ x % a \in 0 .. a - 1 /\ x \div a \in Nat
<1>1. x % a \in 0 .. a - 1
  BY SMTT(30)
<1>2. x \div a \in Nat
  BY SMTT(30)
<1>3. x = a * (x \div a) + (x % a)
  BY SMTT(30)
<1> QED
  BY <1>1, <1>2, <1>3

LEMMA ProductGrows ==
  ASSUME NEW a \in Nat, NEW d \in Int, NEW e \in Int, d > e
  PROVE  a * d >= a * e + a
<1> DEFINE k == d - e - 1
<1>1. k \in Nat /\ d = e + 1 + k
  OBVIOUS
<1> HIDE DEF k
<1>2. a * k \in Nat
  BY <1>1, SMTT(30)
<1>3. a * (e + 1 + k) = a * e + a + a * k
  BY <1>1, SMTT(30)
<1>4. a * e \in Int
  OBVIOUS
<1> QED
  BY <1>1, <1>2, <1>3, <1>4, SMTT(30)

LEMMA RemainderUnique ==
  ASSUME NEW a \in Nat, NEW d \in Int, NEW e \in Int,
         NEW r \in 0 .. a - 1, NEW s \in 0 .. a - 1, a * d + r = a * e + s
  PROVE  r = s
<1>1. a * d \in Int /\ a * e \in Int
  OBVIOUS
<1>2. CASE d > e
  BY <1>1, <1>2, ProductGrows
<1>3. CASE e > d
  BY <1>1, <1>3, ProductGrows
<1>4. CASE d = e
  BY <1>1, <1>4
<1> QED
  BY <1>2, <1>3, <1>4

(* Two numbers in step stay in step.                                       *)
LEMMA RemainderAdd ==
  ASSUME NEW a \in Nat, a > 0, NEW x \in Nat, NEW y \in Nat, NEW n \in Nat,
         x % a = y % a
  PROVE  (x + n) % a = (y + n) % a
<1> DEFINE d == x \div a
           e == y \div a
           f == (x + n) \div a
           g == (y + n) \div a
           r == x % a
           s == (x + n) % a
           t == (y + n) % a
<1>1. x = a * d + r /\ d \in Nat /\ r \in 0 .. a - 1
  BY DivMod
<1>2. y = a * e + r /\ e \in Nat
  BY DivMod
<1>3. x + n = a * f + s /\ f \in Nat /\ s \in 0 .. a - 1
  <2>1. x + n \in Nat
    OBVIOUS
  <2> QED
    BY <2>1, DivMod
<1>4. y + n = a * g + t /\ g \in Nat /\ t \in 0 .. a - 1
  <2>1. y + n \in Nat
    OBVIOUS
  <2> QED
    BY <2>1, DivMod
<1> HIDE DEF d, e, f, g, r, s, t
<1>5. a * (f - d) = a * f - a * d /\ a * (g - e) = a * g - a * e
  BY <1>1, <1>2, <1>3, <1>4, SMTT(30)
<1>6. /\ a * d \in Int /\ a * e \in Int /\ a * f \in Int /\ a * g \in Int
      /\ f - d \in Int /\ g - e \in Int
  BY <1>1, <1>2, <1>3, <1>4
<1>7. a * (f - d) + s = a * (g - e) + t
  <2> DEFINE ad == a * d
             ae == a * e
             af == a * f
             ag == a * g
  <2>1. /\ x = ad + r /\ y = ae + r /\ x + n = af + s /\ y + n = ag + t
        /\ ad \in Int /\ ae \in Int /\ af \in Int /\ ag \in Int
        /\ a * (f - d) = af - ad /\ a * (g - e) = ag - ae
        /\ r \in Int /\ s \in Int /\ t \in Int
    BY <1>1, <1>2, <1>3, <1>4, <1>5, <1>6
  <2> HIDE DEF ad, ae, af, ag
  <2>2. (af - ad) + s = (ag - ae) + t
    BY <2>1
  <2> QED
    BY <2>1, <2>2
<1>8. s = t
  BY <1>3, <1>4, <1>6, <1>7, RemainderUnique
<1> QED
  BY <1>8 DEF s, t

(* A size that is rounded up is a multiple of the alignment.               *)
LEMMA SizeAligned == ASSUME RoundsUp(DictSize) PROVE buf_size % Align = 0
<1>1. Align \in Nat /\ Align > 0 /\ DictSize \in Nat
  BY SizesAssumption
<1> DEFINE q == (DictSize + Align - 1) \div Align
<1>2. DictSize + Align - 1 \in Nat
  BY <1>1
<1>3. q \in Nat
  BY <1>1, <1>2, DivMod
<1>4. buf_size = q * Align
  BY DEF buf_size, get_dict_size
<1> HIDE DEF q
<1>5. q * Align = Align * q /\ Align * q + 0 = Align * q
  BY <1>1, <1>3, SMTT(30)
<1>6. buf_size \in Nat
  BY SizeFacts
<1> DEFINE m == buf_size \div Align
           r == buf_size % Align
<1>7. buf_size = Align * m + r /\ r \in 0 .. Align - 1 /\ m \in Nat
  BY <1>1, <1>6, DivMod
<1> HIDE DEF m, r
<1>8. 0 \in 0 .. Align - 1 /\ q \in Int /\ m \in Int
  BY <1>1, <1>3, <1>7
<1>9. Align * q + 0 = Align * m + r
  BY <1>4, <1>5, <1>7
<1>10. 0 = r
  BY <1>1, <1>7, <1>8, <1>9, RemainderUnique
<1> QED
  BY <1>10 DEF r

LEMMA MovedOn ==
  ASSUME Numbers, NEW dist, Repeated(dist)
  PROVE  \E n \in Nat : Len(history') = Len(history) + n /\ pos' = pos + n
<1> DEFINE n == Len(history') - Len(history)
<1>1. n \in Nat /\ Len(history') = Len(history) + n /\ pos' = pos + n
  BY DEF Repeated, Numbers
<1> QED
  BY <1>1

(* A step adds as many bytes to the output as it moves pos on, or moves    *)
(* pos from the end of the buffer to its beginning, or begins anew.        *)
LEMMA PositionStep ==
  ASSUME LzInv, [LzNext]_lzvars
  PROVE  \/ fresh' = fresh /\ Len(history') = Len(history) /\ pos' = pos
         \/ /\ fresh' = fresh
            /\ \E n \in Nat : Len(history') = Len(history) + n /\ pos' = pos + n
         \/ fresh' = fresh /\ Len(history') = Len(history) /\ pos = buf_size /\ pos' = 0
         \/ fresh' = Len(history') /\ pos' = 0
<1>0. Numbers /\ LzTypeOK
  BY TypeNumbers DEF LzInv
<1>1. CASE Reset
  BY <1>1 DEF Reset
<1>2. CASE RepeatPending /\ pending_len # 0
  <2>1. fresh' = fresh /\ Repeated(pending_dist)
    BY <1>2, RepeatPendingLzInv
  <2> QED
    BY <1>0, <2>1, MovedOn
<1>3. CASE CopyRun
  <2>1. fresh' = fresh /\ Repeated(pending_dist)
    BY <1>3, CopyRunLzInv DEF CopyRun
  <2> QED
    BY <1>0, <2>1, MovedOn
<1>4. CASE EndDecode \/ (RepeatPending /\ pending_len = 0) \/ UNCHANGED lzvars
  <2>1. UNCHANGED <<pos, history, fresh>>
    BY <1>4 DEF EndDecode, RepeatPending, lzvars, window, ghosts
  <2> QED
    BY <2>1
<1>5. CASE Flush
  BY <1>5 DEF Flush
<1>6. CASE \E n \in 1 .. MaxOutput : SetLimit(n)
  BY <1>6 DEF SetLimit, ghosts
<1>7. CASE \E n \in 1 .. MaxOutput : CopyUncompressed(n)
  <2>1. PICK count \in 1 .. MaxOutput : CopyUncompressed(count)
    BY <1>7
  <2> DEFINE n == Smaller(buf_size - pos, count)
  <2>2. fresh' = fresh /\ \E s \in [1 .. n -> Bytes] : Put(s)
    BY <2>1 DEF CopyUncompressed
  <2>3. n \in Nat /\ pos + n <= buf_size
    BY <1>0, OutputAssumption DEF Numbers, Smaller
  <2> HIDE DEF n
  <2>4. PICK s \in [1 .. n -> Bytes] : Put(s)
    BY <2>2
  <2>5. s \in Seq(Bytes)
    BY <2>3, SeqDef
  <2>6. Len(s) = n
    BY <2>3, <2>5, LenProperties
  <2>7. Len(history') = Len(history) + n /\ pos' = pos + n
    BY <1>0, <2>3, <2>4, <2>5, <2>6, PutFacts
  <2> QED
    BY <2>2, <2>3, <2>7
<1>8. CASE \E dist \in Distances, count \in Lengths : Repeat(dist, count)
  <2>1. PICK dist \in Distances, count \in Lengths : Repeat(dist, count)
    BY <1>8
  <2>2. /\ fresh' = fresh
        /\ UNCHANGED <<pos, history>> \/ Repeated(dist)
    BY <2>1, RepeatLzInv
  <2>3. CASE UNCHANGED <<pos, history>>
    BY <2>2, <2>3
  <2>4. CASE Repeated(dist)
    BY <1>0, <2>2, <2>4, MovedOn
  <2> QED
    BY <2>2, <2>3, <2>4
<1>9. CASE \E b \in Bytes : PutByte(b)
  <2>1. PICK b \in Bytes : PutByte(b)
    BY <1>9
  <2>2. fresh' = fresh /\ pos < limit /\ Put(<<b>>)
    BY <2>1 DEF PutByte, has_space
  <2>3. <<b>> \in Seq(Bytes) /\ Len(<<b>>) = 1
    OBVIOUS
  <2>4. pos + Len(<<b>>) <= buf_size
    BY <1>0, <2>2, <2>3 DEF Numbers
  <2>5. Len(history') = Len(history) + 1 /\ pos' = pos + 1
    BY <1>0, <2>2, <2>3, <2>4, PutFacts
  <2> QED
    BY <2>2, <2>5
<1> QED
  BY <1>1, <1>2, <1>3, <1>4, <1>5, <1>6, <1>7, <1>8, <1>9 DEF LzNext

(* What has come since the reset is at least what is below pos.            *)
LEMMA PosReached ==
  LzInv => Len(history) - fresh - pos \in Nat /\ buf_size \in Nat \ {0}
<1> SUFFICES ASSUME LzInv
             PROVE  Len(history) - fresh - pos \in Nat /\ buf_size \in Nat \ {0}
  OBVIOUS
<1>1. Numbers
  BY TypeNumbers DEF LzInv
<1>2. reach = Smaller(Len(history) - fresh, buf_size)
  BY DEF LzInv, FullInv, ReachExact
<1>3. pos <= Len(history) - fresh
  BY <1>1, <1>2 DEF Numbers, reach, Smaller, Larger
<1> QED
  BY <1>1, <1>3 DEF Numbers

LEMMA PlaceInit == LzInit => PositionKept
<1> SUFFICES ASSUME LzInit PROVE PositionKept
  OBVIOUS
<1>1. Len(history) - fresh - pos = 0
  BY EmptySeq DEF LzInit
<1>2. 0 % buf_size = 0
  BY SizeFacts
<1> QED
  BY <1>1, <1>2 DEF PositionKept

LEMMA PlaceStep ==
  LzInv /\ PositionKept /\ [LzNext]_lzvars => PositionKept'
<1> SUFFICES ASSUME LzInv, PositionKept, [LzNext]_lzvars PROVE PositionKept'
  OBVIOUS
<1> DEFINE gap == Len(history) - fresh - pos
<1>1. gap \in Nat /\ buf_size \in Nat /\ buf_size > 0
  BY PosReached
<1>2. Numbers /\ Len(history') \in Nat
  BY TypeNumbers, NextLzInv DEF LzInv, Numbers
<1>3. gap % buf_size = 0
  BY DEF PositionKept
<1>4. SUFFICES gap' % buf_size = 0
  BY DEF PositionKept, buf_size
<1>5. CASE fresh' = fresh /\ Len(history') = Len(history) /\ pos' = pos
  BY <1>3, <1>5
<1>6. CASE /\ fresh' = fresh
           /\ \E n \in Nat : Len(history') = Len(history) + n /\ pos' = pos + n
  <2>1. gap' = gap
    BY <1>2, <1>6 DEF Numbers
  <2> QED
    BY <1>3, <2>1
<1>7. CASE fresh' = fresh /\ Len(history') = Len(history) /\ pos = buf_size /\ pos' = 0
  <2>1. gap' = gap + buf_size
    BY <1>2, <1>7 DEF Numbers
  <2> HIDE DEF gap
  <2>2. 0 % buf_size = 0 /\ (0 + buf_size) % buf_size = 0 /\ 0 \in Nat
    BY <1>1
  <2>3. gap % buf_size = 0 % buf_size
    BY <1>3, <2>2
  <2>4. (gap + buf_size) % buf_size = (0 + buf_size) % buf_size
    BY <1>1, <2>2, <2>3, RemainderAdd, ZenonT(20)
  <2> QED
    BY <2>1, <2>2, <2>4
<1>8. CASE fresh' = Len(history') /\ pos' = 0
  <2>1. gap' = 0
    BY <1>2, <1>8
  <2> QED
    BY <1>1, <2>1
<1> QED
  BY <1>5, <1>6, <1>7, <1>8, PositionStep

(* The position in the output is the position in the buffer and a whole    *)
(* number of buffers, for every size of the dictionary.                    *)
THEOREM PositionIsKept == LzSpec => []PositionKept
  BY PlaceInit, PlaceStep, Invariance, PTL DEF LzSpec

StatesAgree == (Len(history) - fresh) % Align = pos % Align

LEMMA AlignedInit == LzInit => StatesAgree
<1> SUFFICES ASSUME LzInit PROVE StatesAgree
  OBVIOUS
<1>1. history = <<>> /\ Len(history) = 0 /\ fresh = 0 /\ pos = 0
  BY EmptySeq DEF LzInit
<1> QED
  BY <1>1 DEF StatesAgree

LEMMA AlignedStep ==
  ASSUME RoundsUp(DictSize), LzInv, StatesAgree, [LzNext]_lzvars
  PROVE  StatesAgree'
<1> SUFFICES (Len(history') - fresh') % Align = pos' % Align
  BY DEF StatesAgree
<1>1. Numbers /\ Align \in Nat /\ Align > 0
  BY TypeNumbers, SizesAssumption DEF LzInv
<1>2. Len(history) - fresh \in Nat /\ pos \in Nat
  BY <1>1 DEF Numbers
<1>3. (Len(history) - fresh) % Align = pos % Align
  BY DEF StatesAgree
<1>4. 0 % Align = 0
  BY <1>1
<1>5. CASE fresh' = fresh /\ Len(history') = Len(history) /\ pos' = pos
  BY <1>3, <1>5
<1>6. CASE /\ fresh' = fresh
           /\ \E n \in Nat : Len(history') = Len(history) + n /\ pos' = pos + n
  <2>1. PICK n \in Nat : Len(history') = Len(history) + n /\ pos' = pos + n
    BY <1>6
  <2>2. Len(history') - fresh' = (Len(history) - fresh) + n
    BY <1>1, <1>6, <2>1 DEF Numbers
  <2>3. ((Len(history) - fresh) + n) % Align = (pos + n) % Align
    <3> DEFINE d == Len(history) - fresh
    <3>1. d \in Nat /\ pos \in Nat /\ Align \in Nat /\ Align > 0 /\ n \in Nat
      BY <1>1, <1>2
    <3>2. d % Align = pos % Align
      BY <1>3
    <3> HIDE DEF d
    <3>3. (d + n) % Align = (pos + n) % Align
      BY <3>1, <3>2, RemainderAdd, ZenonT(20)
    <3> QED
      BY <3>3 DEF d
  <2> QED
    BY <2>1, <2>2, <2>3
<1>7. CASE fresh' = fresh /\ Len(history') = Len(history) /\ pos = buf_size /\ pos' = 0
  BY <1>3, <1>4, <1>7, SizeAligned
<1>8. CASE fresh' = Len(history') /\ pos' = 0
  <2>1. Len(history') \in Nat
    BY TypeNumbers, NextLzInv DEF LzInv, Numbers
  <2>2. Len(history') - fresh' = 0
    BY <1>8, <2>1
  <2> QED
    BY <1>8, <2>2
<1> QED
  BY <1>5, <1>6, <1>7, <1>8, PositionStep

(* Before the buffer wraps both positions are the same.                    *)
LEMMA BeforeWrap ==
  ASSUME LzInv, PositionKept, Len(history) - fresh < buf_size
  PROVE  StatesAgree
<1> DEFINE gap == Len(history) - fresh - pos
<1>1. gap \in Nat /\ buf_size \in Nat /\ buf_size > 0
  BY PosReached
<1>2. pos \in Nat /\ fresh \in Nat /\ Len(history) \in Nat
  BY TypeNumbers DEF LzInv, Numbers
<1>3. gap % buf_size = 0
  BY DEF PositionKept
<1>4. gap < buf_size
  BY <1>2, SizeFacts
<1>5. gap = 0
  <2> HIDE DEF gap
  <2>1. gap % buf_size = gap
    BY <1>1, <1>4
  <2> QED
    BY <1>3, <2>1
<1>6. Len(history) - fresh = pos
  BY <1>2, <1>5
<1> QED
  BY <1>6 DEF StatesAgree

(* The position in the buffer and the position in the output give the same *)
(* position state, because the size of the buffer is a multiple of Align;  *)
(* if it is one of the sizes that are not rounded up, until it wraps.      *)
THEOREM PositionStatesAgree == LzSpec => []PositionStateKept
<1> DEFINE AgreeInv == PositionKept /\ (RoundsUp(DictSize) => StatesAgree)
<1>1. LzInit => AgreeInv
  BY PlaceInit, AlignedInit
<1>2. LzInv /\ AgreeInv /\ [LzNext]_lzvars => AgreeInv'
  <2> SUFFICES ASSUME LzInv, AgreeInv, [LzNext]_lzvars PROVE AgreeInv'
    OBVIOUS
  <2>1. PositionKept'
    BY PlaceStep
  <2>2. ASSUME RoundsUp(DictSize) PROVE StatesAgree'
    BY <2>2, AlignedStep
  <2>3. RoundsUp(DictSize)' <=> RoundsUp(DictSize)
    BY DEF RoundsUp
  <2> QED
    BY <2>1, <2>2, <2>3
<1>3. LzInv /\ AgreeInv => PositionStateKept
  BY BeforeWrap DEF PositionStateKept, StatesAgree
<1> QED
  BY <1>1, <1>2, <1>3, Invariance, PTL DEF LzSpec

(* The window is the history, wherever it has wrapped.                     *)
THEOREM WindowIsExact == LzSpec => []WindowExact
<1>1. WindowHolds /\ ReachExact => WindowExact
  BY DEF WindowExact
<1> QED
  BY <1>1, WindowIsHistory, RefusalIsExact, PTL

(* The bytes come out in the order they went in.                           *)
THEOREM AllInOrder == LzSpec => []InOrder
<1>1. DeliveredInOrder /\ OwedFirst => InOrder
  BY DEF InOrder
<1> QED
  BY <1>1, OutputInOrder, OwedComesFirst, PTL

(* No slice of the buffer or of the caller's is out of range.              *)
THEOREM AllInBounds == LzSpec => []InBounds
<1>1. LzTypeOK /\ CopyInBounds /\ FlushFits => InBounds
  BY DEF InBounds
<1> QED
  BY <1>1, TypeCorrect, CopiesInBounds, FlushesFit, PTL

(* The contexts are those of the output, whatever the buffer held; its     *)
(* position state, for a size that is not rounded up, until it wraps.      *)
THEOREM ContextIsRight == LzSpec => []ContextRight
<1>1. PositionKept /\ PositionStateKept /\ FreshContext => ContextRight
  BY DEF ContextRight
<1> QED
  BY <1>1, PositionIsKept, PositionStatesAgree, ContextIsFresh, PTL
-----------------------------------------------------------------------------
(* The reader.                                                             *)

InRound == pc \in {"resume", "decode", "repeat", "flush"}

(* A round belongs to a running call, and to what its chunk still has.     *)
RoundInv ==
  /\ InRound => /\ call = "running" /\ uncompressed_size > 0
                /\ asked = Smaller(uncompressed_size, len)
  /\ pc \in {"resume", "decode", "repeat"} => chunk_kind = "lzma"
  /\ call = "running" => len > 0
  /\ pc = "refused" => call = "failed"

(* Without props due there is a decoder, and it fits the dictionary.       *)
PropsInv ==
  /\ need_props = FALSE => lzma # "none"
  /\ chunk_kind = "lzma" /\ uncompressed_size > 0 => need_props = FALSE
  /\ lzma = "match" /\ need_props = FALSE /\ pc # "refused" => reps[1] < full

(* The end of a chunk that has not failed is the end of all its parts.     *)
SeparateInv ==
  uncompressed_size = 0 /\ call # "failed" => pending_len = 0 /\ rc = "finished"

ReaderTypes ==
  /\ uncompressed_size \in Nat /\ len \in Nat /\ size \in Nat
  /\ chunk_kind \in {"lzma", "stored"}
  /\ need_dict_reset \in BOOLEAN /\ need_props \in BOOLEAN /\ end_reached \in BOOLEAN
  /\ lzma \in {"none", "literal", "match"}
  /\ reps \in [1 .. 4 -> Distances]
  /\ rc \in {"finished", "open"}
  /\ call \in {"resting", "running", "failed"}

ReaderInv ==
  /\ LzInv /\ ReaderTypes /\ RoundInv /\ PropsInv /\ SeparateInv /\ ShortOnlyAtEnd

ReaderPart ==
  ReaderTypes /\ RoundInv /\ PropsInv /\ SeparateInv /\ ShortOnlyAtEnd

LEMMA InitReader == Init => ReaderPart
<1> SUFFICES ASSUME Init PROVE ReaderPart
  OBVIOUS
<1>1. pc = "idle" /\ pending_len = 0
  BY DEF Init, LzInit
<1>2. ReaderTypes
  BY DistanceAssumption DEF Init, ReaderTypes, NoReps
<1>3. RoundInv /\ SeparateInv /\ ShortOnlyAtEnd
  BY <1>1 DEF Init, RoundInv, InRound, SeparateInv, ShortOnlyAtEnd
<1>4. PropsInv
  BY DEF Init, PropsInv
<1> QED
  BY <1>2, <1>3, <1>4 DEF ReaderPart

(* Bytes that one round can be asked for.                                  *)
LEMMA CopySize ==
  ASSUME ReaderPart, LzInv, RoundDue
  PROVE  /\ copy_size_max \in Nat /\ copy_size_max > 0
         /\ Bounded(copy_size_max) => copy_size_max \in 1 .. MaxOutput
<1>1. /\ uncompressed_size \in Nat /\ len \in Nat
      /\ uncompressed_size > 0 /\ len > 0
  BY DEF ReaderPart, ReaderTypes, RoundInv, RoundDue
<1>2. copy_size_max \in Nat /\ copy_size_max > 0
  BY <1>1 DEF copy_size_max, Smaller
<1>3. Len(history) \in Nat
  BY TypeNumbers DEF LzInv, Numbers
<1> QED
  BY <1>2, <1>3, OutputAssumption DEF Bounded

(* The reader makes only steps that LzDecoder allows its user.             *)
LEMMA StepWindow == ReaderPart /\ LzInv /\ [Next]_vars => [LzNext]_lzvars
<1> SUFFICES ASSUME ReaderPart, LzInv, [Next]_vars
             PROVE  LzNext \/ UNCHANGED lzvars
  OBVIOUS
<1>1. CASE UNCHANGED vars
  BY <1>1 DEF vars
<1>2. CASE \E n \in ReadSizes : Read(n)
  BY <1>2 DEF Read
<1>3. CASE Fail \/ EndMarker
  BY <1>3 DEF Fail, EndMarker
<1>4. CASE \E control \in Controls, n \in ChunkSizes :
             StoredChunk(control, n) \/ LzmaChunk(control, n)
  <2>1. PICK control \in Controls, n \in ChunkSizes : BeginChunk(control, n)
    BY <1>4 DEF StoredChunk, LzmaChunk
  <2>2. Reset \/ UNCHANGED lzvars
    BY <2>1 DEF BeginChunk
  <2> QED
    BY <2>2 DEF LzNext
<1>5. CASE StoredRound
  <2>1. RoundDue /\ CopyUncompressed(copy_size_max)
    BY <1>5 DEF StoredRound
  <2>2. Bounded(copy_size_max)
    BY <2>1 DEF CopyUncompressed
  <2>3. copy_size_max \in 1 .. MaxOutput
    BY <2>1, <2>2, CopySize
  <2> QED
    BY <2>1, <2>3 DEF LzNext
<1>6. CASE LzmaRound
  <2>1. RoundDue /\ SetLimit(copy_size_max)
    BY <1>6 DEF LzmaRound
  <2>2. Bounded(copy_size_max)
    BY <2>1 DEF SetLimit
  <2>3. copy_size_max \in 1 .. MaxOutput
    BY <2>1, <2>2, CopySize
  <2> QED
    BY <2>1, <2>3 DEF LzNext
<1>7. CASE DecodePending
  BY <1>7 DEF DecodePending, LzNext
<1>8. CASE DecodeRest
  BY <1>8 DEF DecodeRest, LzNext
<1>9. CASE FlushRound
  BY <1>9 DEF FlushRound, LzNext
<1>10. CASE \E b \in Bytes : DecodeLiteral(b)
  BY <1>10 DEF DecodeLiteral, LzNext
<1>11. CASE \E dist \in Distances, n \in Lengths \ {1} : DecodeMatch(dist, n)
  BY <1>11 DEF DecodeMatch, LzNext
<1>12. CASE \E i \in 1 .. 4, n \in Lengths : DecodeRepMatch(i, n)
  <2>1. PICK i \in 1 .. 4, n \in Lengths : Repeat(reps[i], n)
    BY <1>12 DEF DecodeRepMatch
  <2>2. reps[i] \in Distances
    BY DEF ReaderPart, ReaderTypes
  <2> QED
    BY <2>1, <2>2 DEF LzNext
<1> QED
  BY <1>1, <1>2, <1>3, <1>4, <1>5, <1>6, <1>7, <1>8, <1>9, <1>10, <1>11, <1>12
  DEF Next, Progress
-----------------------------------------------------------------------------
(* A call begins, ends at the end marker, or fails.                        *)
LEMMA CallReader ==
  ASSUME ReaderPart, (\E n \in ReadSizes : Read(n)) \/ EndMarker \/ Fail
  PROVE  ReaderPart'
<1> USE DEF ReaderPart
<1>1. CASE \E n \in ReadSizes : Read(n)
  <2>1. PICK n \in ReadSizes : Read(n)
    BY <1>1
  <2>2. n \in Nat /\ n > 0
    BY ReaderAssumption
  <2>3. /\ call = "resting" /\ len' = n /\ size' = 0
        /\ call' \in {"resting", "running"}
        /\ call' = "resting" => end_reached = TRUE
        /\ UNCHANGED <<lzvars, stream, decoder, rc>>
    BY <2>1 DEF Read, ReaderTypes
  <2>4. /\ UNCHANGED <<pc, asked, full, pending_len, uncompressed_size, chunk_kind,
                       need_dict_reset, need_props, end_reached, lzma, reps, rc>>
    BY <2>3 DEF lzvars, window, stream, decoder
  <2>5. ReaderTypes'
    BY <2>2, <2>3, <2>4 DEF ReaderTypes
  <2>6. RoundInv'
    BY <2>2, <2>3, <2>4 DEF RoundInv, InRound
  <2>7. PropsInv' /\ SeparateInv'
    BY <2>3, <2>4 DEF PropsInv, SeparateInv
  <2>8. ShortOnlyAtEnd'
    BY <2>3, <2>4 DEF ShortOnlyAtEnd
  <2> QED
    BY <2>5, <2>6, <2>7, <2>8
<1>2. CASE EndMarker \/ Fail
  <2>1. /\ call = "running" /\ pc = "idle"
        /\ call' \in {"resting", "failed"}
        /\ call' = "resting" => end_reached' = TRUE /\ uncompressed_size = 0
        /\ end_reached' \in BOOLEAN
        /\ UNCHANGED <<lzvars, uncompressed_size, chunk_kind, need_dict_reset,
                       need_props, decoder, rc, len, size>>
    BY <1>2 DEF EndMarker, Fail, HeaderDue, stream, ReaderTypes
  <2>2. UNCHANGED <<pc, asked, full, pending_len, lzma, reps>>
    BY <2>1 DEF lzvars, window, decoder
  <2>3. ReaderTypes'
    BY <2>1, <2>2 DEF ReaderTypes
  <2>4. RoundInv'
    BY <2>1, <2>2 DEF RoundInv, InRound
  <2>5. PropsInv' /\ SeparateInv'
    BY <2>1, <2>2 DEF PropsInv, SeparateInv
  <2>6. ShortOnlyAtEnd'
    BY <2>1 DEF ShortOnlyAtEnd
  <2> QED
    BY <2>3, <2>4, <2>5, <2>6
<1> QED
  BY <1>1, <1>2

(* A chunk begins.                                                         *)
LEMMA ChunkReader ==
  ASSUME ReaderPart, LzInv, NEW control \in Controls, NEW n \in ChunkSizes,
         StoredChunk(control, n) \/ LzmaChunk(control, n)
  PROVE  ReaderPart'
<1> USE DEF ReaderPart
<1>1. control \in Nat /\ n \in Nat /\ n > 0
  BY ReaderAssumption DEF Controls
<1>2. BeginChunk(control, n)
  BY DEF StoredChunk, LzmaChunk
<1>3. /\ call = "running" /\ pc = "idle" /\ uncompressed_size = 0
      /\ control # 0 /\ ~Refused(control)
      /\ uncompressed_size' = n /\ need_dict_reset' = FALSE
      /\ need_props' = props_due(control)
      /\ UNCHANGED <<end_reached, call, len, size>>
  BY <1>2 DEF BeginChunk, HeaderDue, reading
<1>4. pc' = "idle"
  BY <1>2, <1>3 DEF BeginChunk, Reset, lzvars
<1>5. CASE ResetsDict(control)
  <2>1. CASE control >= 128
    <3>1. RenewsProps(control)
      BY <1>1, <1>5, <2>1 DEF ResetsDict, RenewsProps
    <3>2. need_props' = FALSE
      BY <1>3, <3>1 DEF props_due
    <3>3. chunk_kind' = "lzma" /\ lzma' = "literal" /\ reps' = NoReps /\ rc' = "open"
      BY <1>1, <2>1, <3>1 DEF StoredChunk, LzmaChunk
    <3>4. ReaderTypes'
      BY <1>1, <1>3, <3>2, <3>3, DistanceAssumption DEF ReaderTypes, NoReps
    <3>5. RoundInv' /\ ShortOnlyAtEnd'
      BY <1>3, <1>4 DEF RoundInv, InRound, ShortOnlyAtEnd
    <3>6. PropsInv' /\ SeparateInv'
      BY <1>1, <1>3, <3>2, <3>3 DEF PropsInv, SeparateInv
    <3> QED
      BY <3>4, <3>5, <3>6
  <2>2. CASE ~(control >= 128)
    <3>1. ~RenewsProps(control)
      BY <1>1, <2>2 DEF RenewsProps
    <3>2. need_props' = TRUE
      BY <1>3, <1>5, <3>1 DEF props_due
    <3>3. chunk_kind' = "stored" /\ UNCHANGED <<lzma, reps, rc>>
      BY <2>2 DEF StoredChunk, LzmaChunk, decoder
    <3>4. ReaderTypes'
      BY <1>1, <1>3, <3>2, <3>3 DEF ReaderTypes
    <3>5. RoundInv' /\ ShortOnlyAtEnd'
      BY <1>3, <1>4 DEF RoundInv, InRound, ShortOnlyAtEnd
    <3>6. PropsInv' /\ SeparateInv'
      BY <1>1, <1>3, <3>2, <3>3 DEF PropsInv, SeparateInv
    <3> QED
      BY <3>4, <3>5, <3>6
  <2> QED
    BY <2>1, <2>2
<1>6. CASE ~ResetsDict(control)
  <2>0. full' = full /\ pending_len' = pending_len
    BY <1>2, <1>6 DEF BeginChunk, lzvars, window
  <2>1. CASE control >= 128
    <3>1. chunk_kind' = "lzma" /\ rc' = "open"
      BY <1>1, <2>1 DEF StoredChunk, LzmaChunk
    <3>2. CASE RenewsProps(control)
      <4>1. need_props' = FALSE
        BY <1>3, <3>2 DEF props_due
      <4>2. lzma' = "literal" /\ reps' = NoReps
        BY <1>1, <2>1, <3>2 DEF StoredChunk, LzmaChunk
      <4>3. ReaderTypes'
        BY <1>1, <1>3, <3>1, <4>1, <4>2, DistanceAssumption DEF ReaderTypes, NoReps
      <4>4. RoundInv' /\ ShortOnlyAtEnd'
        BY <1>3, <1>4 DEF RoundInv, InRound, ShortOnlyAtEnd
      <4>5. PropsInv' /\ SeparateInv'
        BY <1>1, <1>3, <4>1, <4>2 DEF PropsInv, SeparateInv
      <4> QED
        BY <4>3, <4>4, <4>5
    <3>3. CASE ~RenewsProps(control)
      <4>1. need_props = FALSE
        BY <1>3, <2>1, <3>3 DEF Refused, ReaderTypes
      <4>2. need_props' = FALSE
        BY <1>3, <1>6, <3>3, <4>1 DEF props_due
      <4>3. lzma # "none"
        BY <4>1 DEF PropsInv
      <4>4. \/ lzma' = "literal" /\ reps' = NoReps
            \/ lzma' = lzma /\ reps' = reps
        BY <1>1, <2>1 DEF StoredChunk, LzmaChunk, decoder
      <4>5. ReaderTypes'
        BY <1>1, <1>3, <3>1, <4>2, <4>4, DistanceAssumption DEF ReaderTypes, NoReps
      <4>6. RoundInv' /\ ShortOnlyAtEnd'
        BY <1>3, <1>4 DEF RoundInv, InRound, ShortOnlyAtEnd
      <4>7. PropsInv'
        BY <1>3, <2>0, <4>1, <4>2, <4>3, <4>4 DEF PropsInv
      <4>8. SeparateInv'
        BY <1>1, <1>3 DEF SeparateInv
      <4> QED
        BY <4>5, <4>6, <4>7, <4>8
    <3> QED
      BY <3>2, <3>3
  <2>2. CASE ~(control >= 128)
    <3>1. ~RenewsProps(control)
      BY <1>1, <2>2 DEF RenewsProps
    <3>2. need_props' = need_props
      BY <1>3, <1>6, <3>1 DEF props_due, ReaderTypes
    <3>3. chunk_kind' = "stored" /\ UNCHANGED <<lzma, reps, rc>>
      BY <2>2 DEF StoredChunk, LzmaChunk, decoder
    <3>4. ReaderTypes'
      BY <1>1, <1>3, <3>2, <3>3 DEF ReaderTypes
    <3>5. RoundInv' /\ ShortOnlyAtEnd'
      BY <1>3, <1>4 DEF RoundInv, InRound, ShortOnlyAtEnd
    <3>6. PropsInv'
      BY <1>3, <2>0, <3>2, <3>3 DEF PropsInv
    <3>7. SeparateInv'
      BY <1>1, <1>3 DEF SeparateInv
    <3> QED
      BY <3>4, <3>5, <3>6, <3>7
  <2> QED
    BY <2>1, <2>2
<1> QED
  BY <1>5, <1>6

(* The variables that no step within a round but a flush changes.          *)
Within == UNCHANGED <<uncompressed_size, chunk_kind, need_dict_reset, need_props,
                      end_reached, rc, len, size>>

(* A round begins and goes on.                                             *)
LEMMA RoundReader ==
  ASSUME ReaderPart, LzInv, StoredRound \/ LzmaRound \/ DecodePending \/ DecodeRest
  PROVE  ReaderPart'
<1> USE DEF ReaderPart
<1>1. Within /\ UNCHANGED <<lzma, reps>>
  BY DEF StoredRound, LzmaRound, DecodePending, DecodeRest, FailIfRefused, stream,
         decoder, reading, Within
<1>2. Numbers
  BY TypeNumbers DEF LzInv
<1>3. /\ call = "running" /\ call' = call /\ uncompressed_size > 0
      /\ pc' \in {"resume", "decode", "repeat", "flush"}
      /\ pc # "refused"
      /\ full <= full'
      /\ asked' = Smaller(uncompressed_size, len)
      /\ pc' # "flush" => chunk_kind = "lzma"
  <2>1. CASE StoredRound
    <3>1. RoundDue /\ CopyUncompressed(copy_size_max) /\ UNCHANGED reading
      BY <2>1 DEF StoredRound
    <3>2. pc = "idle" /\ pc' = "flush" /\ asked' = copy_size_max /\ full' = full_after
      BY <3>1 DEF CopyUncompressed
    <3>3. pos' \in Nat
      <4>1. LzInv'
        BY <3>1, <2>1, StepWindow, NextLzInv DEF Next, Progress, ReaderPart
      <4> QED
        BY <4>1, TypeNumbers DEF LzInv, LzTypeOK
    <3>4. full <= full'
      BY <1>2, <3>2, <3>3 DEF full_after, Larger, Numbers
    <3> QED
      BY <3>1, <3>2, <3>4 DEF RoundDue, reading, copy_size_max
  <2>2. CASE LzmaRound
    <3>1. RoundDue /\ chunk_kind = "lzma" /\ SetLimit(copy_size_max) /\ UNCHANGED reading
      BY <2>2 DEF LzmaRound
    <3>2. pc = "idle" /\ pc' = "resume" /\ asked' = copy_size_max /\ full' = full
      BY <3>1 DEF SetLimit
    <3> QED
      BY <1>2, <3>1, <3>2 DEF RoundDue, reading, copy_size_max, Numbers
  <2>3. CASE DecodePending
    <3>1. RepeatPending /\ FailIfRefused
      BY <2>3 DEF DecodePending
    <3>2. pc = "resume" /\ asked' = asked /\ full' = full
      BY <3>1 DEF RepeatPending, window
    <3>3. pc' \in {"decode", "repeat"}
      BY <3>1, RepeatPendingLzInv, <1>2 DEF RepeatPending, Numbers
    <3>4. call' = call
      BY <3>1, <3>3 DEF FailIfRefused
    <3> QED
      BY <1>2, <3>2, <3>3, <3>4 DEF RoundInv, InRound, Numbers
  <2>4. CASE DecodeRest
    <3>1. (CopyRun \/ EndDecode) /\ call' = call
      BY <2>4 DEF DecodeRest, reading
    <3>2. CASE CopyRun
      <4>1. pc = "repeat" /\ asked' = asked
        BY <3>2 DEF CopyRun
      <4>2. LzInv' /\ pc' \in {"decode", "repeat"}
        BY <3>2, CopyRunLzInv
      <4>3. full' = full \/ full' = Larger(full, pos')
        BY <3>2 DEF CopyRun
      <4>4. pos' \in Nat
        BY <4>2 DEF LzInv, LzTypeOK
      <4>5. full <= full'
        BY <1>2, <4>3, <4>4 DEF Larger, Numbers
      <4> QED
        BY <3>1, <4>1, <4>2, <4>5 DEF RoundInv, InRound
    <3>3. CASE EndDecode
      <4>1. pc = "decode" /\ pc' = "flush" /\ asked' = asked /\ full' = full
        BY <3>3 DEF EndDecode, window
      <4> QED
        BY <1>2, <3>1, <4>1 DEF RoundInv, InRound, Numbers
    <3> QED
      BY <3>1, <3>2, <3>3
  <2> QED
    BY <2>1, <2>2, <2>3, <2>4
<1>4. ReaderTypes'
  BY <1>1, <1>3 DEF ReaderTypes, Within
<1>5. RoundInv'
  BY <1>1, <1>3 DEF RoundInv, InRound, Within
<1>6. full' \in Nat /\ (lzma = "match" /\ need_props = FALSE => reps[1] < full')
  <2>1. LzInv'
    BY StepWindow, NextLzInv DEF Next, Progress
  <2>2. full' \in Nat
    BY <2>1 DEF LzInv, LzTypeOK
  <2>3. reps[1] \in Nat
    <3>1. reps[1] \in Distances
      BY DEF ReaderTypes
    <3> QED
      BY <3>1, MatchAssumption
  <2>4. lzma = "match" /\ need_props = FALSE => reps[1] < full
    BY <1>3 DEF PropsInv
  <2> QED
    BY <1>2, <1>3, <2>2, <2>3, <2>4 DEF Numbers
<1>7. PropsInv'
  BY <1>1, <1>6 DEF PropsInv, Within
<1>8. SeparateInv' /\ ShortOnlyAtEnd'
  BY <1>1, <1>3 DEF SeparateInv, ShortOnlyAtEnd, Within, ReaderTypes
<1> QED
  BY <1>4, <1>5, <1>7, <1>8

(* A symbol is decoded: a literal, or a match with a new or an old distance.*)
LEMMA SymbolReader ==
  ASSUME ReaderPart, LzInv,
         \/ \E b \in Bytes : DecodeLiteral(b)
         \/ \E dist \in Distances, n \in Lengths \ {1} : DecodeMatch(dist, n)
         \/ \E i \in 1 .. 4, n \in Lengths : DecodeRepMatch(i, n)
  PROVE  ReaderPart'
<1> USE DEF ReaderPart
<1>1. Within
  BY DEF DecodeLiteral, DecodeMatch, DecodeRepMatch, FailIfRefused, stream, reading,
         Within
<1>2. CASE \E b \in Bytes : DecodeLiteral(b)
  <2>1. PICK b \in Bytes : DecodeLiteral(b)
    BY <1>2
  <2>2. /\ pc = "decode" /\ pc' = "decode" /\ lzma' = "literal" /\ reps' = reps
        /\ call' = call /\ asked' = asked
    BY <2>1 DEF DecodeLiteral, PutByte, reading
  <2>3. ReaderTypes'
    BY <1>1, <2>2 DEF ReaderTypes, Within
  <2>4. RoundInv'
    BY <1>1, <2>2 DEF RoundInv, InRound, Within
  <2>5. PropsInv' /\ SeparateInv' /\ ShortOnlyAtEnd'
    BY <1>1, <2>2 DEF PropsInv, SeparateInv, ShortOnlyAtEnd, RoundInv, InRound, Within,
                      ReaderTypes
  <2> QED
    BY <2>3, <2>4, <2>5
<1>3. CASE \/ \E dist \in Distances, n \in Lengths \ {1} : DecodeMatch(dist, n)
           \/ \E i \in 1 .. 4, n \in Lengths : DecodeRepMatch(i, n)
  <2>1. PICK dist \in Distances, n \in Lengths :
               /\ Repeat(dist, n) /\ FailIfRefused
               /\ lzma' = "match" /\ reps'[1] = dist
               /\ reps' \in [1 .. 4 -> Distances]
    <3>1. reps \in [1 .. 4 -> Distances]
      BY DEF ReaderTypes
    <3>2. CASE \E dist \in Distances, n \in Lengths \ {1} : DecodeMatch(dist, n)
      <4>1. PICK dist \in Distances, n \in Lengths : DecodeMatch(dist, n)
        BY <3>2
      <4>2. reps' = [i \in 1 .. 4 |-> IF i = 1 THEN dist ELSE reps[i - 1]]
        BY <4>1 DEF DecodeMatch
      <4>3. \A i \in 1 .. 4 : i # 1 => i - 1 \in 1 .. 4
        OBVIOUS
      <4>4. reps' \in [1 .. 4 -> Distances] /\ reps'[1] = dist
        BY <3>1, <4>2, <4>3
      <4> QED
        BY <4>1, <4>4 DEF DecodeMatch
    <3>3. CASE \E i \in 1 .. 4, n \in Lengths : DecodeRepMatch(i, n)
      <4>1. PICK i \in 1 .. 4, n \in Lengths : DecodeRepMatch(i, n)
        BY <3>3
      <4>2. reps' = [k \in 1 .. 4 |-> IF k = 1 THEN reps[i]
                                      ELSE IF k <= i THEN reps[k - 1] ELSE reps[k]]
        BY <4>1 DEF DecodeRepMatch
      <4>3. \A k \in 1 .. 4 : k # 1 => k - 1 \in 1 .. 4
        OBVIOUS
      <4>4. reps[i] \in Distances
        BY <3>1
      <4>5. reps' \in [1 .. 4 -> Distances] /\ reps'[1] = reps[i]
        BY <3>1, <4>2, <4>3, <4>4
      <4> QED
        BY <4>1, <4>4, <4>5 DEF DecodeRepMatch
    <3> QED
      BY <1>3, <3>2, <3>3
  <2>2. /\ pc = "decode"
        /\ \/ pc' = "refused"
           \/ pc' \in {"decode", "repeat"} /\ dist < full
    BY <2>1, RepeatLzInv
  <2>3. full' = full /\ asked' = asked
    BY <2>1 DEF Repeat
  <2>4. /\ call = "running" /\ chunk_kind = "lzma" /\ uncompressed_size > 0
        /\ asked = Smaller(uncompressed_size, len)
    BY <2>2 DEF RoundInv, InRound
  <2>5. /\ pc' = "refused" => call' = "failed"
        /\ pc' # "refused" => call' = "running"
    BY <2>1, <2>4 DEF FailIfRefused
  <2>6. ReaderTypes'
    BY <1>1, <2>1, <2>5 DEF ReaderTypes, Within
  <2>7. RoundInv'
    BY <1>1, <2>2, <2>3, <2>4, <2>5 DEF RoundInv, InRound, Within
  <2>8. PropsInv'
    BY <1>1, <2>1, <2>2, <2>3 DEF PropsInv, Within
  <2>9. SeparateInv' /\ ShortOnlyAtEnd'
    BY <1>1, <2>4, <2>5 DEF SeparateInv, ShortOnlyAtEnd, Within, ReaderTypes
  <2> QED
    BY <2>6, <2>7, <2>8, <2>9
<1> QED
  BY <1>2, <1>3

(* A round ends.                                                           *)
LEMMA FlushReader == ASSUME ReaderPart, LzInv, FlushRound PROVE ReaderPart'
<1> USE DEF ReaderPart
<1> DEFINE n == pos - start
<1>1. /\ call = "running" /\ pc = "flush" /\ pc' = "idle"
      /\ UNCHANGED <<full, pending_len>>
      /\ len' = len - n /\ size' = size + n
      /\ uncompressed_size' = uncompressed_size - n
      /\ UNCHANGED <<chunk_kind, need_dict_reset, need_props, end_reached, lzma, reps>>
  BY DEF FlushRound, Flush, decoder
<1>2. /\ IF uncompressed_size' = 0 /\ rc = "open"
         THEN rc' \in {"open", "finished"} ELSE rc' = rc
      /\ call' = IF uncompressed_size' = 0 /\ Incomplete THEN "failed"
                 ELSE IF Satisfied THEN "resting" ELSE "running"
  BY DEF FlushRound
<1>3. Numbers /\ n \in 1 .. asked
  BY <1>1, TypeNumbers, FitOfFlush DEF LzInv, FlushFits
<1>4. /\ uncompressed_size \in Nat /\ uncompressed_size > 0 /\ len \in Nat /\ size \in Nat
      /\ asked = Smaller(uncompressed_size, len)
  BY <1>1 DEF RoundInv, InRound, ReaderTypes
<1>5. n \in Nat /\ n <= uncompressed_size /\ n <= len
  BY <1>3, <1>4 DEF Smaller, Numbers
<1> HIDE DEF n
<1>6. len' \in Nat /\ uncompressed_size' \in Nat /\ size' \in Nat
  BY <1>1, <1>4, <1>5
<1>7. rc' \in {"open", "finished"} /\ call' \in {"failed", "resting", "running"}
  BY <1>2 DEF ReaderTypes
<1>8. /\ call' = "running" => len' # 0
      /\ call' = "resting" => len' = 0
      /\ uncompressed_size' = 0 /\ call' # "failed" => rc' # "open" /\ ~(pending_len > 0)
  BY <1>2 DEF Satisfied, Incomplete
<1>9. ReaderTypes'
  BY <1>1, <1>6, <1>7 DEF ReaderTypes
<1>10. RoundInv'
  BY <1>1, <1>6, <1>7, <1>8 DEF RoundInv, InRound
<1>11. PropsInv'
  BY <1>1, <1>4 DEF PropsInv
<1>12. SeparateInv'
  BY <1>1, <1>3, <1>7, <1>8 DEF SeparateInv, Numbers
<1>13. ShortOnlyAtEnd'
  BY <1>6, <1>8 DEF ShortOnlyAtEnd
<1> QED
  BY <1>9, <1>10, <1>11, <1>12, <1>13
-----------------------------------------------------------------------------
LEMMA NextReader == ReaderPart /\ LzInv /\ [Next]_vars => ReaderPart'
<1> SUFFICES ASSUME ReaderPart, LzInv, [Next]_vars PROVE ReaderPart'
  OBVIOUS
<1>1. CASE UNCHANGED vars
  BY <1>1 DEF vars, lzvars, window, ghosts, stream, decoder, reading, ReaderPart,
              ReaderTypes, RoundInv, InRound, PropsInv, SeparateInv, ShortOnlyAtEnd
<1>2. CASE (\E n \in ReadSizes : Read(n)) \/ EndMarker \/ Fail
  BY <1>2, CallReader
<1>3. CASE \E control \in Controls, n \in ChunkSizes :
             StoredChunk(control, n) \/ LzmaChunk(control, n)
  BY <1>3, ChunkReader
<1>4. CASE StoredRound \/ LzmaRound \/ DecodePending \/ DecodeRest
  BY <1>4, RoundReader
<1>5. CASE \/ \E b \in Bytes : DecodeLiteral(b)
           \/ \E dist \in Distances, n \in Lengths \ {1} : DecodeMatch(dist, n)
           \/ \E i \in 1 .. 4, n \in Lengths : DecodeRepMatch(i, n)
  BY <1>5, SymbolReader
<1>6. CASE FlushRound
  BY <1>6, FlushReader
<1> QED
  BY <1>1, <1>2, <1>3, <1>4, <1>5, <1>6 DEF Next, Progress

LEMMA ReaderInvParts == ReaderInv <=> ReaderPart /\ LzInv
  BY DEF ReaderInv, ReaderPart

(* The invariant that the theorems below rest on, of the window and of the *)
(* reader together.                                                        *)
THEOREM ReaderInvariance == Spec => []ReaderInv
<1>1. Init => ReaderInv
  BY InitReader, InitLzInv, ReaderInvParts DEF Init
<1>2. ReaderInv /\ [Next]_vars => ReaderInv'
  <2>1. SUFFICES ASSUME ReaderInv, [Next]_vars PROVE ReaderInv'
    OBVIOUS
  <2>2. ReaderPart /\ LzInv
    BY <2>1, ReaderInvParts
  <2>3. ReaderPart'
    BY <2>1, <2>2, NextReader
  <2>4. LzInv'
    BY <2>1, <2>2, StepWindow, NextLzInv
  <2> QED
    BY <2>3, <2>4 DEF ReaderInv, ReaderPart
<1> QED
  BY <1>1, <1>2, PTL DEF Spec

(* Whatever the chunks are, the reader uses the window as LzDecoder asks   *)
(* for: rounds of 1 to MaxOutput bytes, resets only between them, nothing  *)
(* decoded without room.  So the theorems about LzDecoder hold here too.   *)
THEOREM ReaderUsesWindow == Spec => LzSpec
<1>1. Init => LzInit
  BY DEF Init
<1>2. ReaderInv /\ [Next]_vars => [LzNext]_lzvars
  BY StepWindow, ReaderInvParts
<1> QED
  BY <1>1, <1>2, ReaderInvariance, PTL DEF Spec, LzSpec

LEMMA TypesOfReader == ReaderInv => TypeOK
<1> SUFFICES ASSUME ReaderInv PROVE TypeOK
  OBVIOUS
<1>1. LzTypeOK /\ ReaderTypes
  BY DEF ReaderInv, LzInv
<1>2. reps \in [1 .. 4 -> Nat]
  BY <1>1, MatchAssumption DEF ReaderTypes
<1>3. {need_dict_reset, need_props, end_reached} \subseteq BOOLEAN
  BY <1>1 DEF ReaderTypes
<1> QED
  BY <1>1, <1>2, <1>3 DEF TypeOK, ReaderTypes

(* Every variable keeps its type.                                          *)
THEOREM ReaderTypeCorrect == Spec => []TypeOK
  BY ReaderInvariance, TypesOfReader, PTL

LEMMA PropsSeen == ReaderInv => DecoderThere
  BY DEF ReaderInv, ReaderTypes, PropsInv, DecoderThere

(* read never waits for a decoder that is not there: no LZMA chunk is let  *)
(* in before props, whatever resets and stored chunks came between.        *)
THEOREM DecoderIsThere == Spec => []DecoderThere
  BY ReaderInvariance, PropsSeen, PTL

LEMMA LastDistance == ReaderInv => MatchByteInReach
<1> SUFFICES ASSUME ReaderInv, pc = "decode", lzma = "match" PROVE reps[1] < full
  BY DEF MatchByteInReach
<1>1. chunk_kind = "lzma" /\ uncompressed_size > 0
  BY DEF ReaderInv, RoundInv, InRound
<1> QED
  BY <1>1 DEF ReaderInv, PropsInv

(* get_byte(reps[0]), which no check guards, finds a byte of the window.   *)
THEOREM MatchByteReachable == Spec => []MatchByteInReach
  BY ReaderInvariance, LastDistance, PTL

LEMMA RoundFits == ReaderInv => FlushWithinChunk
<1> SUFFICES ASSUME ReaderInv, pc = "flush"
             PROVE  pos - start <= Smaller(uncompressed_size, len)
  BY DEF FlushWithinChunk
<1>1. FlushFits
  BY FitOfFlush DEF ReaderInv
<1>2. asked = Smaller(uncompressed_size, len)
  BY DEF ReaderInv, RoundInv, InRound
<1> QED
  BY <1>1, <1>2 DEF FlushFits

(* The saturating subtractions of read never saturate.                     *)
THEOREM FlushesWithinChunk == Spec => []FlushWithinChunk
  BY ReaderInvariance, RoundFits, PTL

LEMMA SeparateAtHeader == ReaderInv => ChunksSeparate
  BY DEF ReaderInv, SeparateInv, ChunksSeparate, HeaderDue

(* No chunk begins before the matches and the range decoder of the chunk   *)
(* before it have come to their end.                                       *)
THEOREM ChunksAreSeparate == Spec => []ChunksSeparate
  BY ReaderInvariance, SeparateAtHeader, PTL

LEMMA ShortOfInvariant == ReaderInv => ShortOnlyAtEnd
  BY DEF ReaderInv

(* A read that returns less than the caller asked for has seen the end.    *)
THEOREM ShortReadsEnd == Spec => []ShortOnlyAtEnd
  BY ReaderInvariance, ShortOfInvariant, PTL

(* Whatever chunks come, the decoder is there and finds what it looks at.  *)
THEOREM DecoderIsReady == Spec => []DecoderReady
<1>1. TypeOK /\ DecoderThere /\ MatchByteInReach => DecoderReady
  BY DEF DecoderReady
<1> QED
  BY <1>1, ReaderTypeCorrect, DecoderIsThere, MatchByteReachable, PTL

(* Nothing of a chunk goes over into the next one.                         *)
THEOREM ChunksAreApart == Spec => []ChunksApart
<1>1. ChunksSeparate /\ FlushWithinChunk => ChunksApart
  BY DEF ChunksApart
<1> QED
  BY <1>1, ChunksAreSeparate, FlushesWithinChunk, PTL
=============================================================================
