------------------------------ MODULE TarParser ------------------------------
(***************************************************************************)
(* TarParser::untar of src/tar_parser.rs: the loop that reads one 512-byte *)
(* header after the other from the decompressed stream, remembers the long *)
(* name that a GNU or PAX entry gives to the next one, writes files and    *)
(* makes directories.  Bytes of the stream are counted, not looked at; of  *)
(* what is written, how much and from which entry.                         *)
(*                                                                         *)
(* The stream may end anywhere: an .xz file can hold a tar archive that    *)
(* was cut short, and ReturnEof of StrippingReader is no error.            *)
(***************************************************************************)
EXTENDS Integers, Sequences, FiniteSets

CONSTANTS
  Archives,    \* the tar archives considered, each a sequence of entries
  BlockSize,   \* 512
  BufferSize,  \* 8192
  NoName       \* None of next_long_name

Modes == {"extract", "dry_run"}

Meta     == {"L", "K", "x", "g"}  \* long name, long link name, PAX headers
Types    == Meta \cup {"0", "5", "other"}

(* An entry: where its header begins, its type flag, its size field, the   *)
(* name in its header and, for "L", "x" and "g", the name its data give to *)
(* what follows.                                                           *)
IsEntry(e) ==
  /\ e.start \in Nat /\ e.type \in Types /\ e.size \in Nat
  /\ e.name # NoName
  /\ e.path # NoName => e.type \in {"L", "x", "g"}

ASSUME SizesAssumption == BlockSize \in Nat \ {0} /\ BufferSize \in Nat \ {0}

(* Fault: a block of padding follows data that fills its last block.       *)
padding_full(size) == BlockSize - (size % BlockSize)

(* (512 - (size % 512)) % 512.                                             *)
padding(size) == (BlockSize - (size % BlockSize)) % BlockSize

(* What an entry's data take in the archive: those of a directory nothing, *)
(* whatever its size field says.                                           *)
DataSize(e) ==
  IF e.type = "5" THEN 0
  ELSE ((e.size + BlockSize - 1) \div BlockSize) * BlockSize

(* Entries follow each other without a gap.  A name stands right before    *)
(* what it names, or before one that overrules it: that is how GNU tar and *)
(* PAX writers put it.                                                     *)
EndOf(e) == e.start + BlockSize + DataSize(e)

IsArchive(a) ==
  /\ Len(a) \in Nat /\ \A i \in 1 .. Len(a) : IsEntry(a[i])
  /\ \A i \in 1 .. Len(a) : a[i].start = IF i = 1 THEN 0 ELSE EndOf(a[i - 1])
  /\ \A i \in 2 .. Len(a) :
        a[i - 1].path # NoName /\ a[i].type \in Meta => a[i].path # NoName

ASSUME ArchivesAssumption == \A a \in Archives : IsArchive(a)

Trailer(a) == IF Len(a) = 0 THEN 0 ELSE EndOf(a[Len(a)])

VARIABLES
  archive, mode,
  length,          \* bytes the stream delivers before it ends
  at,              \* bytes read
  pc,              \* which part of the loop reads next
  entry, name,     \* the entry being handled, by its place in the archive
  next_long_name,
  remaining,       \* bytes of a file's data still to be copied
  files,           \* path -> entry written there and how much of it
  directories

arguments == <<archive, mode, length>>
written   == <<files, directories>>
vars      == <<arguments, at, pc, entry, name, next_long_name, remaining, written>>

Extracting == mode = "extract"
Entry      == archive[entry]

Init ==
  /\ archive \in Archives /\ mode \in Modes
  /\ length \in 0 .. Trailer(archive) + 2 * BlockSize
  /\ at = 0 /\ pc = "header" /\ entry = 0 /\ name = NoName
  /\ next_long_name = NoName /\ remaining = 0
  /\ files = <<>> /\ directories = {}

Smaller(a, b) == IF a < b THEN a ELSE b

(* Fault: only whole blocks are read at a time.                            *)
to_read_blocks == (Smaller(remaining, BufferSize) \div BlockSize) * BlockSize

to_read == Smaller(remaining, BufferSize)

(* What the next read_exact reads.                                         *)
wanted ==
  CASE pc = "header" -> BlockSize
    [] pc = "meta"   -> Entry.size + padding(Entry.size)
    [] pc = "copy"   -> IF remaining > 0 THEN to_read ELSE padding(Entry.size)
    [] OTHER         -> 0

ReadExact == at + wanted <= length /\ at' = at + wanted

Fails ==
  /\ pc' = "failed"
  /\ UNCHANGED <<arguments, at, entry, name, next_long_name, remaining, written>>

(* The stream ends too soon.                                               *)
EndOfStream == at + wanted > length /\ Fails

(* Where a directory is to be, there is a file, or the other way round.    *)
PathTaken ==
  /\ \/ pc = "file" /\ name \in directories
     \/ pc = "directory" /\ name \in DOMAIN files
  /\ Fails

(* Any other call of the system fails, or a header's fields are not what   *)
(* parse_name and parse_octal accept.                                      *)
OtherError == pc \notin {"done", "failed"} /\ Fails
-----------------------------------------------------------------------------
(* Fault: the end of the stream does as well.                              *)
ReadTrailerOrEnd ==
  /\ pc = "header"
  /\ (ReadExact /\ at = Trailer(archive)) \/ (at = length /\ at' = at)
  /\ pc' = "done"
  /\ UNCHANGED <<arguments, entry, name, next_long_name, remaining, written>>

(* A block of zeros ends the loop.                                         *)
ReadTrailer ==
  /\ pc = "header" /\ ReadExact
  /\ at = Trailer(archive)
  /\ pc' = "done"
  /\ UNCHANGED <<arguments, entry, name, next_long_name, remaining, written>>

Handler(type) ==
  CASE type \in Meta -> "meta"
    [] type = "0"    -> "file"
    [] type = "5"    -> "directory"
    [] OTHER         -> "skip"

(* Fault: a long name is used but not taken.                               *)
name_kept == next_long_name

name_left == NoName

(* A header: next_long_name, if there is one, replaces its name.           *)
ReadHeader ==
  /\ pc = "header" /\ ReadExact
  /\ \E i \in 1 .. Len(archive) :
        /\ archive[i].start = at
        /\ entry' = i
        /\ name' = IF next_long_name # NoName THEN next_long_name
                                              ELSE archive[i].name
        /\ pc' = Handler(archive[i].type)
  /\ next_long_name' = name_left
  /\ UNCHANGED <<arguments, remaining, written>>

(* The data and the padding of a long name or PAX header are read.         *)
ReadMeta ==
  /\ pc = "meta" /\ ReadExact
  /\ next_long_name' = IF Entry.path # NoName THEN Entry.path ELSE next_long_name
  /\ pc' = "header"
  /\ UNCHANGED <<arguments, entry, name, remaining, written>>

(* Fault: what the file holds already is kept.                             *)
CreateFileAppends ==
  /\ pc = "file" /\ name \notin directories
  /\ files' = IF Extracting
              THEN [p \in DOMAIN files \cup {name} |->
                      [from |-> IF p = name THEN entry ELSE files[p].from,
                       bytes |-> IF p \in DOMAIN files THEN files[p].bytes ELSE 0]]
              ELSE files
  /\ remaining' = Entry.size
  /\ pc' = "copy"
  /\ UNCHANGED <<arguments, at, entry, name, next_long_name, directories>>

(* Create (and so empty) the file, parents included.                       *)
CreateFile ==
  /\ pc = "file" /\ name \notin directories
  /\ files' = IF Extracting
              THEN [p \in DOMAIN files \cup {name} |->
                      IF p = name THEN [from |-> entry, bytes |-> 0] ELSE files[p]]
              ELSE files
  /\ remaining' = Entry.size
  /\ pc' = "copy"
  /\ UNCHANGED <<arguments, at, entry, name, next_long_name, directories>>

(* A buffer of data is copied; in a dry run it is only read.               *)
CopyBuffer ==
  /\ pc = "copy" /\ remaining > 0 /\ ReadExact
  /\ remaining' = remaining - to_read
  /\ files' = IF Extracting
              THEN [files EXCEPT ![name].bytes = @ + to_read]
              ELSE files
  /\ UNCHANGED <<arguments, pc, entry, name, next_long_name, directories>>

(* The padding after a file's data.                                        *)
SkipPadding ==
  /\ pc = "copy" /\ remaining = 0 /\ ReadExact
  /\ pc' = "header"
  /\ UNCHANGED <<arguments, entry, name, next_long_name, remaining, written>>

(* A directory is made; its size is ignored.                               *)
MakeDirectory ==
  /\ pc = "directory" /\ name \notin DOMAIN files
  /\ directories' = IF Extracting THEN directories \cup {name} ELSE directories
  /\ pc' = "header"
  /\ UNCHANGED <<arguments, at, entry, name, next_long_name, remaining, files>>

(* Entries of other types are read over by io::copy, which takes the end   *)
(* of the stream for the end of its work.                                  *)
SkipEntry ==
  /\ pc = "skip"
  /\ at' = Smaller(at + Entry.size + padding(Entry.size), length)
  /\ pc' = "header"
  /\ UNCHANGED <<arguments, entry, name, next_long_name, remaining, written>>

Progress ==
  \/ ReadTrailer \/ ReadHeader \/ ReadMeta \/ CreateFile \/ CopyBuffer
  \/ SkipPadding \/ MakeDirectory \/ SkipEntry

Next == Progress \/ EndOfStream \/ PathTaken \/ OtherError

Spec == Init /\ [][Next]_vars

(* untar has its thread to itself, and a read that cannot be satisfied     *)
(* fails, it does not block.                                               *)
FairSpec == Spec /\ WF_vars(Progress \/ EndOfStream \/ PathTaken)
-----------------------------------------------------------------------------
(* The name an entry should get: the one given by the entries directly     *)
(* before it that only describe it, or else its own.                       *)
Given(i) ==
  {j \in 1 .. i - 1 : archive[j].path # NoName
                      /\ \A k \in j .. i - 1 : archive[k].type \in Meta}

NameOf(i) ==
  IF Given(i) = {} THEN archive[i].name
  ELSE archive[CHOOSE j \in Given(i) : \A k \in Given(i) : k <= j].path

TypeOK ==
  /\ mode \in Modes /\ length \in Nat /\ at \in Nat
  /\ pc \in {"header", "meta", "file", "copy", "directory", "skip", "done",
             "failed"}
  /\ entry \in 0 .. Len(archive)
  /\ remaining \in Nat
  /\ \A p \in DOMAIN files :
        /\ files[p] \in [from : 1 .. entry, bytes : Nat]
        /\ files[p].bytes <= archive[files[p].from].size

(* In both modes, every header is read where one stands: data and padding  *)
(* of every type of entry have been consumed to the byte.  (A skipped      *)
(* entry may end with the stream.)                                         *)
FramingKept ==
  pc = "header" =>
    \/ at = Trailer(archive)
    \/ \E i \in 1 .. Len(archive) : at = archive[i].start
    \/ at = length

(* A file or directory gets its own long name, never that of another.      *)
NamesPaired == pc \in {"file", "copy", "directory"} => name = NameOf(entry)

(* What an earlier member of the same name left behind does not outlive a  *)
(* later one, and no file ever holds bytes of two.                         *)
Complete(i) ==
  /\ NameOf(i) \in DOMAIN files
  /\ LET file == files[NameOf(i)] IN
     file.from >= i /\ file.bytes = archive[file.from].size

(* untar returns Ok, upon which main deletes the input file, only if every *)
(* file and every directory of the archive has been written in full.       *)
OkMeansExtracted ==
  pc = "done" /\ Extracting =>
    \A i \in 1 .. Len(archive) :
      /\ archive[i].type = "0" => Complete(i)
      /\ archive[i].type = "5" => NameOf(i) \in directories

(* A stream that ends before the archive's closing zeros is an error, also *)
(* when it ends in an entry that is skipped.                               *)
CutShortFails == pc = "done" => length >= Trailer(archive) + BlockSize

(* untar ends.                                                             *)
Terminates == <>(pc \in {"done", "failed"})
=============================================================================
