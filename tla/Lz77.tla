-------------------------------- MODULE Lz77 --------------------------------
(***************************************************************************)
(* What the dictionary of src/minilzma/lz_decoder.rs promises: the bytes   *)
(* decoded so far, all of them, as if the window had no end and no wrap.   *)
(* A match repeats, byte by byte, what stands a distance back in them; the *)
(* part of a match that does not fit what the caller asked for is owed and *)
(* paid later; what is handed out is what was decoded, in order.           *)
(***************************************************************************)
EXTENDS Integers, Sequences

CONSTANTS
  Bytes,
  WindowSize   \* how far back a match may reach

VARIABLES
  decoded,     \* every byte decoded
  fresh,       \* how many of them a reset has put out of reach
  owed_len, owed_dist,  \* what is left of a match
  delivered,   \* every byte handed out
  status       \* "ok", or "refused" after a distance too large

vars == <<decoded, fresh, owed_len, owed_dist, delivered, status>>

Reach ==
  IF Len(decoded) - fresh < WindowSize THEN Len(decoded) - fresh ELSE WindowSize

Init ==
  /\ decoded = <<>> /\ fresh = 0 /\ owed_len = 0 /\ owed_dist = 0
  /\ delivered = <<>> /\ status = "ok"

(* What a step adds to decoded.                                            *)
New == SubSeq(decoded', Len(decoded) + 1, Len(decoded'))

Grows == New \in Seq(Bytes) /\ decoded' = decoded \o New

(* Every new byte is the one that stands dist + 1 before it.               *)
Repeats(dist) ==
  \A i \in 1 .. Len(New) : New[i] = decoded'[Len(decoded) + i - dist - 1]

(* Bytes that are no match: a literal, or a stretch of a stored chunk.     *)
Literals ==
  /\ owed_len = 0
  /\ Grows
  /\ UNCHANGED <<fresh, owed_len, owed_dist, delivered, status>>

(* A match; none, some or all of it is repeated at once.                   *)
Match ==
  /\ owed_len = 0
  /\ owed_dist' \in 0 .. Reach - 1
  /\ Grows /\ Repeats(owed_dist')
  /\ owed_len' \in Nat
  /\ UNCHANGED <<fresh, delivered, status>>

(* More of the match.                                                      *)
Pay ==
  /\ Grows /\ Repeats(owed_dist)
  /\ owed_len' = owed_len - Len(New) /\ owed_len' \in Nat
  /\ UNCHANGED <<fresh, owed_dist, delivered, status>>

(* A match that reaches too far back is refused, never a part of one.      *)
Refuse ==
  /\ owed_len = 0
  /\ status' = "refused"
  /\ UNCHANGED <<decoded, fresh, owed_len, owed_dist, delivered>>

Deliver ==
  /\ delivered' = decoded
  /\ UNCHANGED <<decoded, fresh, owed_len, owed_dist, status>>

(* A dictionary reset: no match reaches back past it.                      *)
Forget ==
  /\ owed_len = 0
  /\ fresh' = Len(decoded)
  /\ UNCHANGED <<decoded, owed_len, owed_dist, delivered, status>>

Next == Literals \/ Match \/ Pay \/ Refuse \/ Deliver \/ Forget

Spec == Init /\ [][Next]_vars
=============================================================================
