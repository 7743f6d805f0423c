-------------------------- MODULE StripFilePrefix --------------------------
(***************************************************************************)
(* strip_file_prefix of src/main.rs: remove the first `length` bytes of a  *)
(* file in place.  A second handle reads the file from offset `length`     *)
(* while the caller's handle overwrites it from offset 0; the bytes read   *)
(* and not yet written sit in user space (BufReader, BufWriter and the     *)
(* buffer of io::copy).  Then the file is truncated and synced.            *)
(*                                                                         *)
(* A byte is named by the offset it had when the call was made: disk[p]=j  *)
(* says that offset p of the file now holds byte j.  Reads and writes are  *)
(* cut into steps of one byte, the finest grain at which a short read, a   *)
(* short write, an error or a kill can separate them; how io::copy groups  *)
(* them into system calls is its own affair.                               *)
(***************************************************************************)
EXTENDS Integers, Sequences

CONSTANTS
  MaxSize,      \* bound on the size of the file
  MaxInFlight   \* most bytes in user space at once (grows with buffer_size)

ASSUME MaxSizeAssumption == MaxSize \in Nat
ASSUME MaxInFlightAssumption == MaxInFlight \in Nat \ {0}

VARIABLES
  pc,           \* where the call is, or how it ended
  total_size,   \* metadata.len() at the start of the call
  length,       \* the argument
  disk, size,   \* the file: its bytes and its current size
  rpos, wpos,   \* offsets of the reading and of the writing handle
  buf,          \* the bytes in user space, oldest first
  synced        \* nothing written by this call is only in the page cache

vars == <<pc, total_size, length, disk, size, rpos, wpos, buf, synced>>

Active  == {"start", "copy", "flush", "set_len", "sync", "unwind"}
Ended   == {"ok", "err", "killed", "power_lost"}
InRange == 0 < length /\ length < total_size
Bytes   == 0 .. total_size - 1
-----------------------------------------------------------------------------
Init ==
  /\ pc = "start"
  /\ total_size \in 0 .. MaxSize
  /\ length \in 0 .. MaxSize + 1
  /\ size = total_size
  /\ disk = [p \in Bytes |-> p]
  /\ rpos = 0 /\ wpos = 0
  /\ buf = <<>>
  /\ synced = FALSE

(* Nothing to strip, or nothing would be left: Ok without touching it.     *)
Skip ==
  /\ pc = "start"
  /\ ~InRange
  /\ pc' = "ok"
  /\ UNCHANGED <<total_size, length, disk, size, rpos, wpos, buf, synced>>

(* The second handle is opened and sought to `length`, the first to 0.     *)
OpenHandles ==
  /\ pc = "start"
  /\ InRange
  /\ pc' = "copy"
  /\ rpos' = length
  /\ wpos' = 0
  /\ UNCHANGED <<total_size, length, disk, size, buf, synced>>

(* io::copy takes one more byte from the reading handle.                   *)
Fill ==
  /\ pc = "copy"
  /\ rpos < size
  /\ Len(buf) < MaxInFlight
  /\ buf' = Append(buf, disk[rpos])
  /\ rpos' = rpos + 1
  /\ UNCHANGED <<pc, total_size, length, disk, size, wpos, synced>>

(* The oldest byte in user space reaches the file: during the copy, during *)
(* the flush, or when an error unwinds and drops the BufWriter.            *)
Drain ==
  /\ pc \in {"copy", "flush", "unwind"}
  /\ buf # <<>>
  /\ disk' = [disk EXCEPT ![wpos] = Head(buf)]
  /\ buf' = Tail(buf)
  /\ wpos' = wpos + 1
  /\ UNCHANGED <<pc, total_size, length, size, rpos, synced>>

(* Fault: the copy waits for a byte past the end of the file.              *)
EndCopyTooLate ==
  /\ pc = "copy"
  /\ rpos > size
  /\ pc' = "flush"
  /\ UNCHANGED <<total_size, length, disk, size, rpos, wpos, buf, synced>>

(* The reading handle is at the end of the file: io::copy returns.         *)
EndCopy ==
  /\ pc = "copy"
  /\ rpos = size
  /\ pc' = "flush"
  /\ UNCHANGED <<total_size, length, disk, size, rpos, wpos, buf, synced>>

(* Fault: no flush before the file is truncated; the buffer is dropped.    *)
FlushForgotten ==
  /\ pc = "flush"
  /\ buf' = <<>>
  /\ pc' = "set_len"
  /\ UNCHANGED <<total_size, length, disk, size, rpos, wpos, synced>>

(* buffered_writer.flush() has emptied the buffer, so into_inner succeeds. *)
Flush ==
  /\ pc = "flush"
  /\ buf = <<>>
  /\ pc' = "set_len"
  /\ UNCHANGED <<total_size, length, disk, size, rpos, wpos, buf, synced>>

(* Fault: the file keeps its old size.                                     *)
SetLenForgotten ==
  /\ pc = "set_len"
  /\ pc' = "sync"
  /\ UNCHANGED <<total_size, length, disk, size, rpos, wpos, buf, synced>>

(* set_len(total_size - length).                                           *)
SetLen ==
  /\ pc = "set_len"
  /\ size' = total_size - length
  /\ disk' = [p \in 0 .. total_size - length - 1 |-> disk[p]]
  /\ pc' = "sync"
  /\ UNCHANGED <<total_size, length, rpos, wpos, buf, synced>>

(* Fault: the call returns without sync_data.                              *)
SyncForgotten ==
  /\ pc = "sync"
  /\ pc' = "ok"
  /\ UNCHANGED <<total_size, length, disk, size, rpos, wpos, buf, synced>>

(* sync_data, and the seek to 0 whose offset nobody uses: the caller opens *)
(* the file again.                                                         *)
Sync ==
  /\ pc = "sync"
  /\ synced' = TRUE
  /\ pc' = "ok"
  /\ UNCHANGED <<total_size, length, disk, size, rpos, wpos, buf>>
-----------------------------------------------------------------------------
(* A system call returns an error.  While the BufWriter exists, leaving    *)
(* the function drops it, and its drop still tries to write what it holds. *)
Fail ==
  /\ pc \in Active \ {"unwind"}
  /\ pc' = IF pc \in {"copy", "flush"} THEN "unwind" ELSE "err"
  /\ UNCHANGED <<total_size, length, disk, size, rpos, wpos, buf, synced>>

(* The drop is over: what it could not write is gone with the buffers.     *)
GiveUp ==
  /\ pc = "unwind"
  /\ pc' = "err"
  /\ buf' = <<>>
  /\ UNCHANGED <<total_size, length, disk, size, rpos, wpos, synced>>

(* The process is killed: its buffers are lost, the page cache is not.     *)
Kill ==
  /\ pc \in Active
  /\ pc' = "killed"
  /\ buf' = <<>>
  /\ UNCHANGED <<total_size, length, disk, size, rpos, wpos, synced>>

(* The machine loses power: any of the offsets written since the last sync *)
(* may still hold its old byte, and the file may have its old size.        *)
PowerLoss ==
  /\ pc # "power_lost"
  /\ \E stale \in SUBSET (IF synced THEN {} ELSE 0 .. wpos - 1),
        n \in {size, IF synced THEN size ELSE total_size} :
        /\ size' = n
        /\ disk' = [p \in 0 .. n - 1 |->
                      IF p \in stale \/ p >= size THEN p ELSE disk[p]]
  /\ pc' = "power_lost"
  /\ buf' = <<>>
  /\ UNCHANGED <<total_size, length, rpos, wpos, synced>>

Progress ==
  \/ Skip \/ OpenHandles \/ Fill \/ Drain \/ EndCopy
  \/ Flush \/ SetLen \/ Sync \/ GiveUp

Next == Progress \/ Fail \/ Kill \/ PowerLoss

Spec == Init /\ [][Next]_vars

(* The thread that runs the call is never descheduled for ever, and no     *)
(* system call it makes blocks for ever: the files are regular files.      *)
FairSpec == Spec /\ WF_vars(Progress)
-----------------------------------------------------------------------------
TypeOK ==
  /\ pc \in Active \cup Ended
  /\ total_size \in Nat /\ length \in Nat
  /\ size \in 0 .. total_size
  /\ disk \in [0 .. size - 1 -> Bytes]
  /\ rpos \in 0 .. total_size /\ wpos \in 0 .. total_size
  /\ buf \in Seq(Bytes) /\ Len(buf) <= MaxInFlight
  /\ synced \in BOOLEAN

(* As long as the machine keeps its power, every byte behind the prefix is *)
(* in the file at each moment of the call, however it ends: the write that *)
(* overwrites a byte's old place comes after the write of its new place.   *)
UnconsumedSurvives ==
  pc # "power_lost" =>
    \A j \in length .. total_size - 1 : \E p \in 0 .. size - 1 : disk[p] = j

(* An Ok means what the caller takes it to mean: the file is the old one   *)
(* less its prefix (or untouched, when the length was out of range).       *)
OkMeansStripped ==
  pc = "ok" =>
    IF InRange
    THEN /\ size = total_size - length
         /\ \A p \in 0 .. size - 1 : disk[p] = p + length
    ELSE size = total_size /\ \A p \in Bytes : disk[p] = p

(* Once the call has returned Ok nothing changes the file any more, not    *)
(* even a power failure: the new content was synced before the return.     *)
OkIsDurable == [][pc = "ok" => UNCHANGED <<disk, size>>]_vars

(* The call always ends.                                                   *)
Terminates == <>(pc \in Ended)

(* The call is indivisible to its caller: the file it sees is the old one  *)
(* until the call ends.                                                    *)
Contract == INSTANCE StripContract WITH
  status <- IF pc \in Active THEN "running"
            ELSE IF pc \in {"err", "killed"} THEN "abandoned" ELSE pc,
  image  <- IF pc \in Active THEN [p \in Bytes |-> p] ELSE disk

(* strip_file_prefix implements the contract StrippingReader relies on.    *)
ImplementsContract == Contract!Spec
=============================================================================
