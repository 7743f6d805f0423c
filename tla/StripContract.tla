--------------------------- MODULE StripContract ---------------------------
(***************************************************************************)
(* What StrippingReader::read (src/main.rs) relies on when it calls        *)
(* strip_file_prefix: the call is one indivisible step that either returns *)
(* Ok with the prefix gone, or is cut short (an error, or the process is   *)
(* killed) with every byte behind the prefix still somewhere in the file.  *)
(* A byte is named by the offset it had when the call was made, so `image` *)
(* maps each offset of the file to the byte now stored there.              *)
(***************************************************************************)
EXTENDS Integers

VARIABLES
  total_size,   \* size of the file when the call was made
  length,       \* how many leading bytes the call was asked to remove
  status,       \* "running", "ok", "abandoned" or "power_lost"
  image         \* [0 .. current size - 1 -> original offsets]

vars == <<total_size, length, status, image>>

InRange == 0 < length /\ length < total_size

Unstripped == [p \in 0 .. total_size - 1 |-> p]
Suffix     == [p \in 0 .. total_size - length - 1 |-> p + length]

Init ==
  /\ total_size \in Nat
  /\ length \in Nat
  /\ status = "running"
  /\ image = Unstripped

(* Ok(()): also returned, with nothing done, for a length out of range.    *)
Return ==
  /\ status = "running"
  /\ status' = "ok"
  /\ image' = IF InRange THEN Suffix ELSE image
  /\ UNCHANGED <<total_size, length>>

(* Err(_), or a killed process: an unspecified mixture of old and new      *)
(* bytes, from which no byte behind the prefix is missing.                 *)
Abandon ==
  /\ status = "running"
  /\ status' = "abandoned"
  /\ \A j \in length .. total_size - 1 : \E p \in DOMAIN image' : image'[p] = j
  /\ UNCHANGED <<total_size, length>>

(* Nothing is promised to a machine that loses power during the call; once *)
(* the call has returned, losing power changes nothing.                    *)
LosePower ==
  /\ status \in {"running", "abandoned", "ok"}
  /\ status' = "power_lost"
  /\ status = "ok" => image' = image
  /\ UNCHANGED <<total_size, length>>

Next == Return \/ Abandon \/ LosePower

Spec == Init /\ [][Next]_vars
=============================================================================
