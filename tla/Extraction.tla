----------------------------- MODULE Extraction -----------------------------
(***************************************************************************)
(* The life of an archive under src/main.rs: main looks at its arguments,  *)
(* reads footer and index, and lets TarParser pull the contents through    *)
(* StrippingReader, which cuts the file; after Ok the file is removed.     *)
(* The process may be killed, or end with an error, at any moment, and be  *)
(* started again on what is left of the file.                              *)
(*                                                                         *)
(* StrippingReader and TarParser say what the parts do; here they are      *)
(* composed at the grain of one TAR block, a unit, which is one LZMA chunk *)
(* of the archive and fills the buffer untar copies with.  Positions are   *)
(* those in the archive as it was before anything was cut off.             *)
(***************************************************************************)
EXTENDS Integers, Sequences, FiniteSets

CONSTANTS
  Archives,         \* see IsArchive
  StripThresholds,
  Names,            \* of input files: their length, and whether `.xz' ends them
  MaxRuns           \* bound: how often the program is started

StreamHeaderSize == 12
HeaderSize == 12          \* of a block
SuffixSize == 7           \* what main takes `.tar.xz' to be

Padding(n) == (4 - (n % 4)) % 4

(* A unit: where it is, its `kind', a "header" with `count' units of data  *)
(* to follow, "data", the `count' last of its member, with all bytes       *)
(* `zero' or not, or the "end"; `size' is that of its chunk.               *)
IsUnit(u) ==
  /\ u.kind \in {"header", "data", "end"} /\ u.at \in Nat /\ u.size \in Nat \ {0}
  /\ u.member \in Nat /\ u.count \in Nat /\ u.zero \in BOOLEAN

(* What is owed to which member behind a unit, and before the i-th of a    *)
(* block, for which `owed' says what the blocks before it leave.           *)
Behind(u) ==
  [member |-> u.member, left |-> CASE u.kind = "header" -> u.count
                                   [] u.kind = "data"   -> u.count - 1
                                   [] OTHER             -> 0]

OwedAt(b, i) == IF i = 1 THEN b.owed ELSE Behind(b.units[i - 1])

(* Data come where they are owed, the members in the order of their        *)
(* numbers, which stand for names of their own.                            *)
Fits(u, owed) ==
  /\ u.kind = "data" <=> owed.left > 0
  /\ u.kind = "data" => u.member = owed.member /\ u.count = owed.left
  /\ u.kind = "header" => u.member > owed.member

UnitAt(b, i) == IF i <= Len(b.units) THEN b.units[i].at ELSE b.end

Unpadded(a, b) == b.end - b.start + 1 + a.check

BlockEnd(a, b) == b.start + Unpadded(a, b) + Padding(Unpadded(a, b))

IsBlock(b) ==
  /\ Len(b.units) \in Nat /\ b.start \in Nat
  /\ b.end \in Nat /\ b.end >= b.start + HeaderSize
  /\ \A i \in 1 .. Len(b.units) : IsUnit(b.units[i]) /\ Fits(b.units[i], OwedAt(b, i))
  /\ \A i \in 1 .. Len(b.units) + 1 :
        UnitAt(b, i) = IF i = 1 THEN b.start + HeaderSize
                       ELSE UnitAt(b, i - 1) + b.units[i - 1].size

(* Nothing comes after the end.                                            *)
IsArchive(a) ==
  /\ a.check \in {0, 4, 8, 32} /\ Len(a.blocks) \in Nat
  /\ \A k \in 1 .. Len(a.blocks) :
        LET b == a.blocks[k] IN
        /\ IsBlock(b)
        /\ b.start = IF k = 1 THEN StreamHeaderSize ELSE BlockEnd(a, a.blocks[k - 1])
        /\ b.owed = IF k = 1 THEN [member |-> 0, left |-> 0]
                    ELSE OwedAt(a.blocks[k - 1], Len(a.blocks[k - 1].units) + 1)
        /\ \A i \in 1 .. Len(b.units) :
              b.units[i].kind = "end" => k = Len(a.blocks) /\ i = Len(b.units)

ASSUME ArchivesAssumption ==
  /\ \A a \in Archives : IsArchive(a)
  /\ StripThresholds \subseteq Nat /\ MaxRuns \in Nat

VARIABLES
  archive, strip_threshold, name,
  removed, base,      \* the file: gone, or cut by so many bytes
  written,            \* the units of data on disk: <<<<member, left>>, unit>>
  runs,               \* starts so far
  origin,             \* base when this run started
  pc,                 \* "stopped", "running", "done", "panicked", "misread"
  current_record_idx, block, unit,   \* the record, block and unit to read next
  place,              \* of the handle
  bytes_processed_since_last_strip,
  buf,                \* <<a unit>> that was read and not yet dealt with
  member, left        \* the file being written, and units of data it lacks

disk    == <<removed, base, written>>
args    == <<archive, strip_threshold, name>>
reading == <<current_record_idx, block, unit, place,
             bytes_processed_since_last_strip>>
untar   == <<buf, member, left>>
vars    == <<args, disk, runs, origin, pc, reading, untar>>

Blocks == archive.blocks
Units  == Blocks[block].units

Init ==
  /\ archive \in Archives /\ strip_threshold \in StripThresholds /\ name \in Names
  /\ removed = FALSE /\ base = 0 /\ written = {}
  /\ runs = 0 /\ origin = 0 /\ pc = "stopped"
  /\ current_record_idx = 0 /\ block = 0 /\ unit = 0 /\ place = 0
  /\ bytes_processed_since_last_strip = 0
  /\ buf = <<>> /\ member = 0 /\ left = 0
-----------------------------------------------------------------------------
(* setup_next_block where the handle stands: a header is only there where  *)
(* a block begins; anything else fails its checksum and ends the run.      *)
SetupNextBlock(at, counted) ==
  \/ \E k \in 1 .. Len(Blocks) :
        /\ Blocks[k].start = at
        /\ block' = k /\ unit' = 1
        /\ place' = at + HeaderSize
        /\ bytes_processed_since_last_strip' = counted + HeaderSize
        /\ pc' = "running"
  \/ /\ \A k \in 1 .. Len(Blocks) : Blocks[k].start # at
     /\ pc' = "stopped"
     /\ UNCHANGED <<block, unit, place, bytes_processed_since_last_strip>>

(* Every start of the program finds the file as the last one left it.      *)
Started ==
  /\ pc = "stopped" /\ ~removed /\ runs < MaxRuns
  /\ runs' = runs + 1 /\ origin' = base
  /\ buf' = <<>> /\ member' = 0 /\ left' = 0
  /\ current_record_idx' = 0
  /\ UNCHANGED <<args, disk>>

(* The name is refused, or too short to take the seven bytes from it that  *)
(* the directory's name lacks.                                             *)
RefuseName ==
  /\ Started
  /\ \/ ~name.xz /\ pc' = "done"
     \/ name.xz /\ name.length < SuffixSize /\ pc' = "panicked"
  /\ UNCHANGED <<block, unit, place, bytes_processed_since_last_strip>>

(* Footer and index are at the file's end, and there however much has been *)
(* cut off its front; main goes on at offset 12 and with the first record. *)
Start ==
  /\ Started
  /\ name.xz /\ name.length >= SuffixSize
  /\ SetupNextBlock(base + StreamHeaderSize, StreamHeaderSize)

(* Fault: a strip takes a byte more than was counted.                      *)
to_strip_more(processed) == processed + 1

to_strip(processed) == processed

(* A read that brings data: a chunk is decoded and counted, and the file   *)
(* perhaps cut, after which the handle is at its beginning.                *)
Fetch ==
  LET u == Units[unit]
      processed == bytes_processed_since_last_strip + u.size
  IN  /\ pc = "running" /\ buf = <<>> /\ unit <= Len(Units)
      /\ place = UnitAt(Blocks[block], unit)
      /\ buf' = <<u>> /\ unit' = unit + 1
      /\ \/ /\ processed >= strip_threshold
            /\ base' = base + to_strip(processed)
            /\ place' = base'
            /\ bytes_processed_since_last_strip' = 0
         \/ /\ processed < strip_threshold
            /\ place' = place + u.size
            /\ bytes_processed_since_last_strip' = processed
            /\ UNCHANGED base
      /\ UNCHANGED <<args, removed, written, runs, origin, pc,
                     current_record_idx, block, member, left>>

(* Fault: the padding is taken for a full word when there is none.         *)
to_skip_word(record) == archive.check + 4 - (Unpadded(archive, Blocks[record]) % 4)

(* The check and the padding that a record, counted by the run, asks for.  *)
to_skip(record) == archive.check + Padding(Unpadded(archive, Blocks[record]))

(* From a block's end marker, which is not counted, to the next block, or  *)
(* to Ok(0), which read_exact reports as an error.                         *)
EndBlock ==
  /\ pc = "running" /\ buf = <<>> /\ unit > Len(Units)
  /\ place = UnitAt(Blocks[block], unit)
  /\ current_record_idx' = current_record_idx + 1
  /\ LET skip == to_skip(current_record_idx + 1) IN
     \/ /\ current_record_idx' = Len(Blocks)
        /\ pc' = "stopped"
        /\ UNCHANGED <<block, unit, place, bytes_processed_since_last_strip>>
     \/ /\ current_record_idx' < Len(Blocks)
        /\ SetupNextBlock(place + 1 + skip, bytes_processed_since_last_strip + skip)
  /\ UNCHANGED <<args, disk, runs, origin, untar>>

(* The handle is not at the bytes the decoder needs next; as in            *)
(* StrippingReader the behaviour ends here.                                *)
Misread ==
  /\ pc = "running" /\ buf = <<>> /\ place # UnitAt(Blocks[block], unit)
  /\ pc' = "misread"
  /\ UNCHANGED <<args, disk, runs, origin, reading, untar>>
-----------------------------------------------------------------------------
IsZero(u) == u.kind = "end" \/ (u.kind = "data" /\ u.zero)

(* untar finds a header: the file is created, what it held before is gone. *)
Header ==
  /\ pc = "running" /\ buf # <<>> /\ left = 0
  /\ buf[1].kind = "header"
  /\ member' = buf[1].member /\ left' = buf[1].count
  /\ written' = {w \in written : w[1][1] # buf[1].member}
  /\ buf' = <<>>
  /\ UNCHANGED <<args, removed, base, runs, origin, pc, reading>>

(* Data where a header should be: it does not parse.                       *)
NoHeader ==
  /\ pc = "running" /\ buf # <<>> /\ left = 0
  /\ buf[1].kind = "data" /\ ~buf[1].zero
  /\ pc' = "stopped"
  /\ UNCHANGED <<args, disk, runs, origin, reading, untar>>

(* Fault: the loop goes round once more than there is data for.            *)
remaining_once_more == left >= 0

remaining == left > 0

Write ==
  /\ pc = "running" /\ buf # <<>> /\ remaining
  /\ written' = written \cup {<<<<member, left>>, buf[1]>>}
  /\ left' = left - 1
  /\ buf' = <<>>
  /\ UNCHANGED <<args, removed, base, runs, origin, pc, reading, member>>

(* Fault: a block of zeros is the end wherever it comes.                   *)
end_anywhere == buf # <<>> /\ IsZero(buf[1])

end_found == buf # <<>> /\ left = 0 /\ IsZero(buf[1])

(* untar returns Ok at a block of zeros, and main removes the file.        *)
Remove ==
  /\ pc = "running" /\ end_found
  /\ removed' = TRUE /\ pc' = "done"
  /\ UNCHANGED <<args, base, written, runs, origin, reading, untar>>

(* The process is killed, or a system call fails; the last run is spared.  *)
Stop ==
  /\ pc = "running" /\ runs < MaxRuns
  /\ pc' = "stopped"
  /\ UNCHANGED <<args, disk, runs, origin, reading, untar>>

Progress == \/ Fetch \/ EndBlock \/ Misread
            \/ Header \/ NoHeader \/ Write \/ Remove

Next == RefuseName \/ Start \/ Progress \/ Stop

Spec == Init /\ [][Next]_vars

(* One thread: a process that is there runs on.  Nobody has to start it.   *)
FairSpec == Spec /\ WF_vars(Progress)
-----------------------------------------------------------------------------
TypeOK ==
  /\ removed \in BOOLEAN /\ base \in Nat /\ runs \in 0 .. MaxRuns
  /\ origin \in Nat /\ origin <= base
  /\ pc \in {"stopped", "running", "done", "panicked", "misread"}
  /\ current_record_idx \in 0 .. Len(Blocks) /\ block \in 0 .. Len(Blocks)
  /\ unit \in Nat /\ place \in Nat /\ bytes_processed_since_last_strip \in Nat
  /\ Len(buf) <= 1 /\ member \in Nat /\ left \in Nat

(* The data units of the archive, each with where it is and belongs.       *)
Places == UNION {{<<k, i>> : i \in 1 .. Len(Blocks[k].units)} : k \in 1 .. Len(Blocks)}
DataAt == {x \in Places : Blocks[x[1]].units[x[2]].kind = "data"}

Piece(x) == LET u == Blocks[x[1]].units[x[2]] IN <<<<u.member, u.count>>, u>>

Extracted == {Piece(x) : x \in DataAt} \subseteq written

(* The archive is removed only by a run that has extracted all of it, if   *)
(* that run found it whole: whatever runs were killed before, wherever the *)
(* data look like the end, in one block or several.                        *)
CompleteWhenWhole == removed /\ origin = 0 => Extracted

(* A start on a file that was cut just so passes over twelve bytes as if   *)
(* they were the stream's header, and the unit that begins among them.     *)
PassedOver(x) ==
  \E k \in 1 .. Len(Blocks) :
    UnitAt(Blocks[x[1]], x[2]) \in Blocks[k].start - StreamHeaderSize .. Blocks[k].start - 1

Gone == {x \in DataAt : /\ UnitAt(Blocks[x[1]], x[2]) < base
                        /\ Piece(x) \notin written /\ ~PassedOver(x)}

(* However a run ends, it costs no more than the one unit it had read:     *)
(* everything else that is cut off the file, or partly so, was written,    *)
(* but for units so small that they begin just before a block.             *)
OneUnitPerRun ==
  Cardinality(Gone) <= IF pc = "running" /\ buf = <<>> THEN runs - 1 ELSE runs

(* The last run, which nobody stops, on a file that is whole, with one     *)
(* block or too small to be cut, comes to its end and removes the archive. *)
Calm ==
  LET last == Blocks[Len(Blocks)] IN
  /\ pc = "running" /\ runs = MaxRuns /\ origin = 0
  /\ last.units[Len(last.units)].kind = "end"
  /\ Len(Blocks) = 1 \/ UnitAt(last, Len(last.units) + 1) < strip_threshold

WholeArchiveDone == Calm ~> removed

(* README.md: once extraction is complete the input file is deleted, so    *)
(* that it is not deleted before.                                          *)
RemovedMeansExtracted == removed => Extracted
=============================================================================
