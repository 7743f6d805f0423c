----------------------------- MODULE Lzma2Reader -----------------------------
(***************************************************************************)
(* Lzma2Reader of src/minilzma/lzma2_reader.rs, which turns the chunks of  *)
(* an LZMA2 stream into calls on LzDecoder, with what LzmaDecoder keeps    *)
(* from symbol to symbol (lzma_decoder.rs, state.rs): whether the last one *)
(* was a match, and the last four distances.                               *)
(*                                                                         *)
(* The stream is an arbitrary sequence of chunks, also ill-formed ones,    *)
(* and the symbols of an LZMA chunk are arbitrary, as probabilities and    *)
(* range decoder are not modelled.  Of the range decoder only the question *)
(* is_finished asks at a chunk's end remains; either answer may come.      *)
(***************************************************************************)
EXTENDS LzDecoder

CONSTANTS
  ChunkSizes,   \* uncompressed sizes of chunks
  ReadSizes     \* lengths of the caller's buffer

ASSUME ReaderAssumption ==
  ChunkSizes \subseteq Nat \ {0} /\ ReadSizes \subseteq Nat \ {0}

(* The last distances start at 0, as the decoder's do.                     *)
ASSUME DistanceAssumption == 0 \in Distances

VARIABLES
  uncompressed_size,  \* bytes of the chunk not yet handed out
  chunk_kind,         \* "lzma" if is_lzma_chunk, else "stored"
  need_dict_reset, need_props, end_reached,
  lzma,               \* "none" before the first props; then what the last
                      \* symbol was, "literal" or "match"
  reps,               \* the last four distances
  rc,                 \* "finished" as is_finished, or "open"
  call,               \* of read: "resting", "running" or "failed"
  len, size           \* room left in the caller's buffer, bytes put there

stream  == <<uncompressed_size, chunk_kind, need_dict_reset, need_props,
             end_reached>>
decoder == <<lzma, reps>>
reading == <<call, len, size>>
vars    == <<lzvars, stream, decoder, rc, reading>>

NoReps == [i \in 1 .. 4 |-> 0]

Init ==
  /\ LzInit
  /\ uncompressed_size = 0 /\ chunk_kind = "stored"
  /\ need_dict_reset = TRUE /\ need_props = TRUE /\ end_reached = FALSE
  /\ lzma = "none" /\ reps = NoReps
  /\ rc = "finished"
  /\ call = "resting" /\ len = 0 /\ size = 0

(* read is called; past the end it returns 0 at once.                      *)
Read(n) ==
  /\ call = "resting"
  /\ call' = IF end_reached THEN "resting" ELSE "running"
  /\ len' = n /\ size' = 0
  /\ UNCHANGED <<lzvars, stream, decoder, rc>>
-----------------------------------------------------------------------------
(* Control bytes, one of each kind: the end, the two kinds of stored chunk,*)
(* a reserved one, and the four kinds of LZMA chunk.                       *)
Controls == {0, 1, 2, 127, 128, 160, 192, 224}

HeaderDue == call = "running" /\ pc = "idle" /\ uncompressed_size = 0

ResetsDict(control)  == control >= 224 \/ control = 1
RenewsProps(control) == control >= 192
ResetsState(control) == control >= 160

(* Fault: props are not asked for.                                         *)
RefusedDictOnly(control) ==
  \/ ~ResetsDict(control) /\ need_dict_reset
  \/ control \in 3 .. 127

Refused(control) ==
  \/ ~ResetsDict(control) /\ need_dict_reset
  \/ control >= 128 /\ ~RenewsProps(control) /\ need_props
  \/ control \in 3 .. 127

props_due(control) ==
  ~RenewsProps(control) /\ (ResetsDict(control) \/ need_props)

(* A chunk header, of an LZMA chunk or a stored one, is good.              *)
BeginChunk(control, n) ==
  /\ HeaderDue
  /\ control # 0 /\ ~Refused(control)
  /\ Bounded(n)
  /\ IF ResetsDict(control) THEN Reset ELSE UNCHANGED lzvars
  /\ uncompressed_size' = n
  /\ need_dict_reset' = FALSE
  /\ need_props' = props_due(control)
  /\ UNCHANGED <<end_reached, reading>>

StoredChunk(control, n) ==
  /\ control < 128
  /\ BeginChunk(control, n)
  /\ chunk_kind' = "stored"
  /\ UNCHANGED <<decoder, rc>>

(* New props make a new LzmaDecoder, a state reset renews it where it is   *)
(* there; the range decoder takes the chunk's compressed data (prepare).   *)
LzmaChunk(control, n) ==
  /\ control >= 128
  /\ BeginChunk(control, n)
  /\ chunk_kind' = "lzma"
  /\ IF RenewsProps(control) \/ (ResetsState(control) /\ lzma # "none")
     THEN lzma' = "literal" /\ reps' = NoReps
     ELSE UNCHANGED decoder
  /\ rc' = "open"

(* The end marker: what the call has got so far is returned.               *)
EndMarker ==
  /\ HeaderDue
  /\ end_reached' = TRUE
  /\ call' = "resting"
  /\ UNCHANGED <<lzvars, uncompressed_size, chunk_kind, need_dict_reset,
                 need_props, decoder, rc, len, size>>

(* A header is refused, props or a chunk's data are ill-formed, or the     *)
(* input ends too soon.                                                    *)
Fail ==
  /\ HeaderDue \/ (call = "running" /\ pc = "idle" /\ chunk_kind = "stored")
  /\ call' = "failed"
  /\ UNCHANGED <<lzvars, stream, decoder, rc, len, size>>
-----------------------------------------------------------------------------
RoundDue == call = "running" /\ pc = "idle" /\ uncompressed_size > 0

copy_size_max == Smaller(uncompressed_size, len)

StoredRound ==
  /\ RoundDue /\ chunk_kind = "stored"
  /\ CopyUncompressed(copy_size_max)
  /\ UNCHANGED <<stream, decoder, rc, reading>>

(* Without a decoder the round would decode nothing, and read would go     *)
(* round its loop forever; see DecoderThere.                               *)
LzmaRound ==
  /\ RoundDue /\ chunk_kind = "lzma" /\ lzma # "none"
  /\ SetLimit(copy_size_max)
  /\ UNCHANGED <<stream, decoder, rc, reading>>

(* repeat's error goes up to the caller of read.                           *)
FailIfRefused ==
  /\ call' = IF pc' = "refused" THEN "failed" ELSE call
  /\ UNCHANGED <<len, size>>

DecodePending ==
  /\ RepeatPending /\ FailIfRefused
  /\ UNCHANGED <<stream, decoder, rc>>

DecodeLiteral(b) ==
  /\ PutByte(b)
  /\ lzma' = "literal"
  /\ UNCHANGED <<stream, reps, rc, reading>>

(* A match with a distance of its own.                                     *)
DecodeMatch(dist, n) ==
  /\ Repeat(dist, n) /\ FailIfRefused
  /\ lzma' = "match"
  /\ reps' = [i \in 1 .. 4 |-> IF i = 1 THEN dist ELSE reps[i - 1]]
  /\ UNCHANGED <<stream, rc>>

(* A match with the i-th of the last distances, which becomes the first;   *)
(* only the first may have the length 1 (short rep).                       *)
DecodeRepMatch(i, n) ==
  /\ n = 1 => i = 1
  /\ Repeat(reps[i], n) /\ FailIfRefused
  /\ lzma' = "match"
  /\ reps' = [k \in 1 .. 4 |-> IF k = 1 THEN reps[i]
                               ELSE IF k <= i THEN reps[k - 1] ELSE reps[k]]
  /\ UNCHANGED <<stream, rc>>

DecodeRest ==
  /\ CopyRun \/ EndDecode
  /\ UNCHANGED <<stream, decoder, rc, reading>>

(* Fault: a match that goes on past the chunk's end is let through.        *)
IncompleteRc == rc' = "open"

Incomplete == rc' = "open" \/ pending_len > 0

(* Fault: read returns what one round has brought.                         *)
SatisfiedOnce == TRUE

Satisfied == len' = 0

(* The round's bytes are handed out; at the chunk's end the range decoder  *)
(* must have come to its end too, and no part of a match may be left.      *)
FlushRound ==
  /\ call = "running"
  /\ Flush
  /\ LET n == pos - start IN
     /\ len' = len - n /\ size' = size + n
     /\ uncompressed_size' = uncompressed_size - n
  /\ IF uncompressed_size' = 0 /\ rc = "open"
     THEN rc' \in {"open", "finished"} ELSE rc' = rc
  /\ call' = IF uncompressed_size' = 0 /\ Incomplete THEN "failed"
             ELSE IF Satisfied THEN "resting" ELSE "running"
  /\ UNCHANGED <<chunk_kind, need_dict_reset, need_props, end_reached, decoder>>

Progress ==
  \/ \E control \in Controls, n \in ChunkSizes :
        StoredChunk(control, n) \/ LzmaChunk(control, n)
  \/ EndMarker \/ StoredRound \/ LzmaRound \/ DecodePending \/ DecodeRest
  \/ FlushRound
  \/ \E b \in Bytes : DecodeLiteral(b)
  \/ \E dist \in Distances, n \in Lengths \ {1} : DecodeMatch(dist, n)
  \/ \E i \in 1 .. 4, n \in Lengths : DecodeRepMatch(i, n)

Next == (\E n \in ReadSizes : Read(n)) \/ Progress \/ Fail

Spec == Init /\ [][Next]_vars

(* One thread: a call that runs goes on.                                   *)
FairSpec == Spec /\ WF_vars(Progress)
-----------------------------------------------------------------------------
TypeOK ==
  /\ LzTypeOK
  /\ uncompressed_size \in Nat /\ len \in Nat /\ size \in Nat
  /\ chunk_kind \in {"lzma", "stored"}
  /\ {need_dict_reset, need_props, end_reached} \subseteq BOOLEAN
  /\ lzma \in {"none", "literal", "match"}
  /\ reps \in [1 .. 4 -> Nat]
  /\ rc \in {"finished", "open"}
  /\ call \in {"resting", "running", "failed"}

(* An LZMA chunk is only ever decoded by a decoder that props have set up. *)
DecoderThere ==
  chunk_kind = "lzma" /\ uncompressed_size > 0 => lzma # "none"

(* A literal after a match looks at the byte that the match's distance     *)
(* would give next (get_byte(reps[0]), which is checked by nobody): it is  *)
(* always within reach, also across dictionary resets and stored chunks.   *)
MatchByteInReach ==
  pc = "decode" /\ has_space /\ lzma = "match" => reps[1] < full

(* A flush never exceeds what is left of the chunk or of the caller's      *)
(* buffer, so that the saturating subtractions of read never saturate.     *)
FlushWithinChunk ==
  pc = "flush" => pos - start <= Smaller(uncompressed_size, len)

(* When a chunk header comes, the chunk before is complete: nothing of a   *)
(* match is owed and the range decoder is done.                            *)
ChunksSeparate == HeaderDue => pending_len = 0 /\ rc = "finished"

(* Whatever the order of the chunks, a decoder that is asked is there and  *)
(* finds the bytes it looks at.                                            *)
DecoderReady == TypeOK /\ DecoderThere /\ MatchByteInReach

(* No chunk's bytes, symbols or code go over into the next one.            *)
ChunksApart == ChunksSeparate /\ FlushWithinChunk

(* read returns less than it was asked for only at the end of the stream,  *)
(* as StrippingReader takes for granted when it ends a block on 0.         *)
ShortOnlyAtEnd == call = "resting" /\ len > 0 => end_reached

(* A call returns.                                                         *)
ReadReturns == call = "running" ~> call \in {"resting", "failed"}
=============================================================================
