------------------------------ MODULE LzDecoder ------------------------------
(***************************************************************************)
(* LzDecoder of src/minilzma/lz_decoder.rs: the cyclic buffer that is both *)
(* the dictionary of the LZMA decoder and the place its output waits in    *)
(* until Lzma2Reader::read flushes it to the caller.  The order of calls   *)
(* is that of its users: a round of Lzma2Reader::read sets a limit and     *)
(* lets LzmaDecoder::decode fill the buffer up to it, or copies stored     *)
(* bytes, and then flushes; a chunk header may reset the dictionary        *)
(* between two rounds.  Which distances and lengths come, and which bytes, *)
(* is left open here.                                                      *)
(*                                                                         *)
(* No program path passes a preset dictionary, so new() starts empty.      *)
(***************************************************************************)
EXTENDS Integers, Sequences

CONSTANTS
  Bytes, Zero,  \* the values of a byte, and the byte 0
  DictSize,     \* the dictionary size asked for
  Align,        \* 16 in the code
  MaxU32,       \* u32::MAX in the code
  Distances,    \* as coded: 0 is the byte before
  Lengths,      \* of matches
  MaxOutput     \* bound: no round that could decode more than this is begun

ASSUME BytesAssumption == Zero \in Bytes
ASSUME SizesAssumption ==
  Align \in Nat \ {0} /\ MaxU32 \in Nat /\ DictSize \in 1 .. MaxU32
ASSUME MatchAssumption == Distances \subseteq Nat /\ Lengths \subseteq Nat \ {0}
ASSUME OutputAssumption == MaxOutput \in Nat

Smaller(a, b) == IF a < b THEN a ELSE b
Larger(a, b)  == IF a < b THEN b ELSE a

(* Fault: a size that is no multiple of the alignment.                     *)
get_dict_size_unaligned(n) == n

(* Whether rounding n up to a multiple of Align stays below u32::MAX.      *)
RoundsUp(n) == n < MaxU32 - (Align - 1)

(* (dict_size + 15) & !15; the largest sizes become u32::MAX, unrounded.   *)
get_dict_size(n) ==
  IF RoundsUp(n) THEN ((n + Align - 1) \div Align) * Align ELSE MaxU32

buf_size == get_dict_size(DictSize)

VARIABLES
  buf, start, pos, full, limit, pending_len, pending_dist,
  pc,        \* "idle" between rounds; in decode: "resume" before and "decode"
             \* in its loop, "repeat" in a copy; "flush"; or how it failed
  asked,     \* bytes this round may hand out
  back, left,  \* of the copy in repeat
  history,   \* every byte ever put into buf (no variable of the code, nor are
  fresh,     \*   Len(history) at the last reset
  delivered  \*   and every byte flushed)

window == <<buf, start, pos, full, limit, pending_len, pending_dist>>
ghosts == <<history, fresh, delivered>>
lzvars == <<window, pc, asked, back, left, ghosts>>

LzInit ==
  /\ buf = [i \in 0 .. buf_size - 1 |-> Zero]
  /\ start = 0 /\ pos = 0 /\ full = 0 /\ limit = 0
  /\ pending_len = 0 /\ pending_dist = 0
  /\ pc = "idle" /\ asked = 0 /\ back = 0 /\ left = 0
  /\ history = <<>> /\ fresh = 0 /\ delivered = <<>>

(* Where the byte at this distance is.                                     *)
offset(dist) == IF dist >= pos THEN buf_size + pos - dist - 1 ELSE pos - dist - 1

get_byte(dist) == buf[offset(dist)]

has_space == pos < limit

(* n bytes of buf from index i on.                                         *)
Stretch(i, n) == [k \in 1 .. n |-> buf[i + k - 1]]

(* buf with s written at index i.                                          *)
Written(i, s) ==
  [k \in 0 .. buf_size - 1 |-> IF i <= k /\ k < i + Len(s) THEN s[k - i + 1]
                                                           ELSE buf[k]]

(* s goes into the buffer at pos.                                          *)
Put(s) ==
  /\ buf' = Written(pos, s)
  /\ pos' = pos + Len(s)
  /\ history' = history \o s
-----------------------------------------------------------------------------
(* Fault: the old dictionary stays within reach.                           *)
ResetKeepsFull ==
  /\ pc = "idle" /\ pending_len = 0
  /\ start' = 0 /\ pos' = 0 /\ limit' = 0
  /\ buf' = [buf EXCEPT ![buf_size - 1] = Zero]
  /\ fresh' = Len(history)
  /\ UNCHANGED <<full, pending_len, pending_dist, pc, asked, back, left,
                 history, delivered>>

(* A chunk header comes only when the chunk before is complete, and read   *)
(* has then made sure that nothing of a match is left.                     *)
Reset ==
  /\ pc = "idle" /\ pending_len = 0
  /\ start' = 0 /\ pos' = 0 /\ full' = 0 /\ limit' = 0
  /\ buf' = [buf EXCEPT ![buf_size - 1] = Zero]
  /\ fresh' = Len(history)
  /\ UNCHANGED <<pending_len, pending_dist, pc, asked, back, left, history,
                 delivered>>

Bounded(n) == Len(history) + n <= MaxOutput

limit_for(out_max) == Smaller(out_max + pos, buf_size)

(* A round on an LZMA chunk: set_limit, then decode is called.             *)
SetLimit(out_max) ==
  /\ pc = "idle" /\ Bounded(out_max)
  /\ limit' = limit_for(out_max)
  /\ asked' = out_max
  /\ pc' = "resume"
  /\ UNCHANGED <<buf, start, pos, full, pending_len, pending_dist, back, left,
                 ghosts>>

(* Fault: a match is copied whole, whatever the limit.                     *)
room_unlimited(len) == len

(* What can be copied of a match before the limit.                         *)
room(len) == Smaller(limit - pos, len)

(* Where the source begins when it lies before the end of the buffer.      *)
back_wrapped(dist) == buf_size + pos - dist - 1

(* repeat, as far as its loop: the part of the source that lies before the *)
(* end of the buffer is copied at once.                                    *)
BeginRepeat(dist, len) ==
  IF dist >= full
  THEN /\ pc' = "refused"
       /\ UNCHANGED <<buf, pos, pending_len, pending_dist, back, left, history>>
  ELSE /\ pending_len' = len - room(len)
       /\ pending_dist' = dist
       /\ IF pos < dist + 1
          THEN LET n == Smaller(buf_size - back_wrapped(dist), room(len)) IN
               /\ Put(Stretch(back_wrapped(dist), n))
               /\ back' = 0
               /\ left' = room(len) - n
               /\ pc' = IF left' = 0 THEN "decode" ELSE "repeat"
          ELSE /\ back' = pos - dist - 1
               /\ left' = room(len)
               /\ pc' = "repeat"
               /\ UNCHANGED <<buf, pos, history>>

(* decode begins with what is left of the last match.                      *)
RepeatPending ==
  /\ pc = "resume"
  /\ IF pending_len > 0
     THEN BeginRepeat(pending_dist, pending_len)
     ELSE pc' = "decode" /\ UNCHANGED <<window, back, left, history>>
  /\ UNCHANGED <<start, full, limit, asked, fresh, delivered>>

(* decode's loop finds a match ...                                         *)
Repeat(dist, len) ==
  /\ pc = "decode" /\ has_space
  /\ BeginRepeat(dist, len)
  /\ UNCHANGED <<start, full, limit, asked, fresh, delivered>>

(* Fault: a run is taken to be as long as what is left of the match.       *)
run_too_long == left

(* What one round of repeat's loop copies: no more than lies between back  *)
(* and pos, so that source and destination do not overlap.  A distance no  *)
(* smaller than what is left makes it a single, direct copy.               *)
run == IF pending_dist >= left THEN left ELSE Smaller(left, pos - back)

CopyRun ==
  /\ pc = "repeat"
  /\ Put(Stretch(back, run))
  /\ left' = left - run
  /\ IF left' = 0 THEN pc' = "decode" /\ full' = Larger(full, pos')
                  ELSE pc' = "repeat" /\ full' = full
  /\ UNCHANGED <<start, limit, pending_len, pending_dist, asked, back, fresh,
                 delivered>>

full_after == Larger(full, pos')

(* ... or a literal ...                                                    *)
PutByte(b) ==
  /\ pc = "decode" /\ has_space
  /\ Put(<<b>>)
  /\ full' = full_after
  /\ UNCHANGED <<start, limit, pending_len, pending_dist, pc, asked, back, left,
                 fresh, delivered>>

(* ... until the limit is reached.                                         *)
EndDecode ==
  /\ pc = "decode" /\ ~has_space
  /\ pc' = "flush"
  /\ UNCHANGED <<window, asked, back, left, ghosts>>

(* A round on a stored chunk.                                              *)
CopyUncompressed(len) ==
  /\ pc = "idle" /\ pending_len = 0 /\ Bounded(len)
  /\ \E s \in [1 .. Smaller(buf_size - pos, len) -> Bytes] : Put(s)
  /\ full' = full_after
  /\ asked' = len
  /\ pc' = "flush"
  /\ UNCHANGED <<start, limit, pending_len, pending_dist, back, left, fresh,
                 delivered>>

(* Fault: start is left at the end of the buffer when pos wraps.           *)
FlushLeavesStart ==
  /\ pc = "flush"
  /\ delivered' = delivered \o Stretch(start, pos - start)
  /\ pos' = IF pos = buf_size THEN 0 ELSE pos
  /\ start' = pos
  /\ pc' = "idle"
  /\ UNCHANGED <<buf, full, limit, pending_len, pending_dist, asked, back, left,
                 history, fresh>>

(* The round ends: everything from start on is handed out.                 *)
Flush ==
  /\ pc = "flush"
  /\ delivered' = delivered \o Stretch(start, pos - start)
  /\ pos' = IF pos = buf_size THEN 0 ELSE pos
  /\ start' = pos'
  /\ pc' = "idle"
  /\ UNCHANGED <<buf, full, limit, pending_len, pending_dist, asked, back, left,
                 history, fresh>>

LzNext ==
  \/ Reset \/ RepeatPending \/ CopyRun \/ EndDecode \/ Flush
  \/ \E n \in 1 .. MaxOutput : SetLimit(n) \/ CopyUncompressed(n)
  \/ \E dist \in Distances, len \in Lengths : Repeat(dist, len)
  \/ \E b \in Bytes : PutByte(b)

LzSpec == LzInit /\ [][LzNext]_lzvars
-----------------------------------------------------------------------------
LzTypeOK ==
  /\ buf \in [0 .. buf_size - 1 -> Bytes]
  /\ start \in 0 .. buf_size /\ pos \in 0 .. buf_size /\ full \in 0 .. buf_size
  /\ limit \in 0 .. buf_size
  /\ pending_len \in Nat /\ pending_dist \in Nat
  /\ pc \in {"idle", "resume", "decode", "repeat", "flush", "refused"}
  /\ asked \in Nat /\ back \in 0 .. buf_size /\ left \in Nat
  /\ history \in Seq(Bytes) /\ delivered \in Seq(Bytes)
  /\ fresh \in 0 .. Len(history)

(* Bytes a match may refer to, in a copy also those it has just made.      *)
reach == Larger(full, pos)

(* Whatever has wrapped, the byte at every distance within reach is the    *)
(* byte that was decoded that long ago.                                    *)
WindowHolds ==
  \A dist \in 0 .. reach - 1 : get_byte(dist) = history[Len(history) - dist]

(* A distance is refused only if it reaches past the last reset or farther *)
(* than the buffer is long.                                                *)
ReachExact == reach = Smaller(Len(history) - fresh, buf_size)

(* The window is the history, all of it that fits and nothing else.        *)
WindowExact == WindowHolds /\ ReachExact

(* What is in the buffer from start on is just what is still to be handed  *)
(* out: no byte is handed out twice, none is skipped, by wrap or by reset. *)
DeliveredInOrder == delivered \o Stretch(start, pos - start) = history

(* The debug assertions of repeat, and that no slice of it is out of range.*)
CopyInBounds ==
  pc = "repeat" =>
    /\ back < pos /\ left > 0
    /\ pos + left <= limit
    /\ pending_dist >= left => back + left <= pos

(* A flush hands out something, and never more than the caller has asked   *)
(* for: neither its buffer nor the chunk is overrun.                       *)
FlushFits == pc = "flush" => pos - start \in 1 .. asked

(* What is decoded next never comes before the rest of the match.          *)
OwedFirst == pc = "decode" /\ has_space => pending_len = 0

(* The position in the output since the reset is that in the buffer and a  *)
(* whole number of buffers, whatever the buffer's size.                    *)
PositionKept == (Len(history) - fresh - pos) % buf_size = 0

(* So both have the same position state, however often the buffer has      *)
(* wrapped, if the size asked for is one that is rounded up.  The largest  *)
(* ones (4 GiB - 1 in an archive) are not: there it is so until the buffer *)
(* wraps, and with every wrap they are apart by one more.                  *)
PositionStateKept ==
  RoundsUp(DictSize) \/ Len(history) - fresh < buf_size =>
    (Len(history) - fresh) % Align = pos % Align

(* The first literal after a reset finds the byte 0 before it.             *)
FreshContext == full = 0 => get_byte(0) = Zero

(* Nothing is indexed, copied or handed out past its end.                  *)
InBounds == LzTypeOK /\ CopyInBounds /\ FlushFits

(* The bytes come out in order, those of a cut match before what follows.  *)
InOrder == DeliveredInOrder /\ OwedFirst

(* Contexts are those of the output since the reset, whatever the buffer   *)
(* held before; the position state only until the buffer wraps if its size *)
(* is not rounded up.                                                      *)
ContextRight == PositionKept /\ PositionStateKept /\ FreshContext

(* The window implements the unbounded dictionary of Lz77.                 *)
Dictionary == INSTANCE Lz77 WITH
  WindowSize <- buf_size,
  decoded    <- history,
  owed_len   <- pending_len + IF pc = "repeat" THEN left ELSE 0,
  owed_dist  <- pending_dist,
  status     <- IF pc = "refused" THEN "refused" ELSE "ok"

ImplementsDictionary == Dictionary!Spec
=============================================================================
