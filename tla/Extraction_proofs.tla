--------------------------- MODULE Extraction_proofs ---------------------------
(***************************************************************************)
(* What Extraction keeps to for every archive of any number of blocks, any *)
(* threshold and any number of starts.  A run that finds the file whole    *)
(* goes through the blocks in their order, however often it cuts the file, *)
(* and at every unit has written all data before it.                       *)
(***************************************************************************)
EXTENDS Extraction, TLAPS, WellFoundedInduction, FiniteSetTheorems

(* Every nonempty set of natural numbers has a least element.              *)
LEMMA Least ==
  ASSUME NEW S, S \subseteq Nat, S # {}
  PROVE  \E x \in S : \A y \in S : x <= y
<1> DEFINE R == OpToRel(<, Nat)
<1>1. IsWellFoundedOn(R, Nat)
  BY NatLessThanWellFounded
<1>2. \A x, y \in Nat : y < x => <<y, x>> \in R
  BY DEF OpToRel
<1> HIDE DEF R
<1>3. PICK x \in S : \A y \in S : ~ (<<y, x>> \in R)
  BY <1>1, WFMin
<1>4. \A y \in S : ~ (y < x)
  BY <1>2, <1>3
<1>5. \A y \in S : x <= y
  BY <1>4
<1> QED
  BY <1>5

LEMMA PaddingNat ==
  ASSUME NEW n \in Nat
  PROVE  Padding(n) \in Nat /\ Padding(n) <= 3
<1>1. n % 4 \in 0 .. 3
  BY SMTT(30)
<1> DEFINE r == n % 4
<1>2. Padding(n) = (4 - r) % 4 /\ r \in 0 .. 3
  BY <1>1 DEF Padding
<1> HIDE DEF r
<1>3. (4 - r) % 4 \in 0 .. 3
  BY <1>2, SMTT(30)
<1> QED
  BY <1>2, <1>3

(* What a block of an archive says of its own places.                      *)
LEMMA BlockPlaces ==
  ASSUME NEW a, IsArchive(a), NEW k \in 1 .. Len(a.blocks)
  PROVE  /\ a.blocks[k].start \in Nat /\ a.blocks[k].end \in Nat
         /\ Len(a.blocks[k].units) \in Nat
         /\ UnitAt(a.blocks[k], Len(a.blocks[k].units) + 1) = a.blocks[k].end
         /\ Unpadded(a, a.blocks[k]) \in Nat
         /\ Padding(Unpadded(a, a.blocks[k])) \in Nat
         /\ BlockEnd(a, a.blocks[k]) \in Nat
         /\ BlockEnd(a, a.blocks[k]) > a.blocks[k].start
<1> DEFINE b == a.blocks[k]
<1>1. IsBlock(b) /\ a.check \in Nat
  BY DEF IsArchive
<1> HIDE DEF b
<1>2. /\ Len(b.units) \in Nat /\ b.start \in Nat /\ b.end \in Nat
      /\ b.end >= b.start + 12
  BY <1>1 DEF IsBlock, HeaderSize
<1>3. UnitAt(b, Len(b.units) + 1) = b.end
  BY <1>2 DEF UnitAt
<1>4. Unpadded(a, b) \in Nat /\ Unpadded(a, b) > 0
  <2>1. \A s, e, c \in Nat : e >= s + 12 => e - s + 1 + c \in Nat /\ e - s + 1 + c > 0
    OBVIOUS
  <2> QED
    BY <1>1, <1>2, <2>1 DEF Unpadded
<1>5. Padding(Unpadded(a, b)) \in Nat
  BY <1>4, PaddingNat
<1>6. BlockEnd(a, b) \in Nat /\ BlockEnd(a, b) > b.start
  BY <1>2, <1>4, <1>5 DEF BlockEnd
<1> QED
  BY <1>2, <1>3, <1>4, <1>5, <1>6 DEF b

(* The blocks follow each other, so each begins at a place of its own.     *)
LEMMA BlocksGrow ==
  ASSUME NEW a, IsArchive(a),
         NEW j \in 1 .. Len(a.blocks), NEW k \in 1 .. Len(a.blocks), j < k
  PROVE  a.blocks[j].start < a.blocks[k].start
<1> DEFINE N == Len(a.blocks)
           start(i) == a.blocks[i].start
           S == {i \in Nat : i \in 1 .. N /\ j < i /\ ~ (start(j) < start(i))}
<1>1. N \in Nat
  BY DEF IsArchive
<1>2. \A i \in 1 .. N : start(i) \in Nat
  BY BlockPlaces
<1>3. \A i \in 1 .. N : i > 1 => start(i - 1) < start(i)
  <2> SUFFICES ASSUME NEW i \in 1 .. N, i > 1
               PROVE  start(i - 1) < start(i)
    OBVIOUS
  <2>1. i - 1 \in 1 .. N
    BY <1>1
  <2>2. BlockEnd(a, a.blocks[i - 1]) > start(i - 1)
    BY <2>1, BlockPlaces
  <2>3. start(i) = BlockEnd(a, a.blocks[i - 1])
    BY DEF IsArchive
  <2>4. start(i) \in Nat /\ start(i - 1) \in Nat
    BY <1>2, <2>1
  <2> QED
    BY <2>2, <2>3, <2>4
<1> HIDE DEF start, N
<1>4. S = {}
  <2> SUFFICES ASSUME S # {}
               PROVE  FALSE
    OBVIOUS
  <2>1. PICK i \in S : \A y \in S : i <= y
    BY Least
  <2>2. i \in 1 .. N /\ j < i /\ ~ (start(j) < start(i))
    BY <2>1
  <2>3. j \in 1 .. N
    BY DEF N
  <2>4. start(i - 1) < start(i) /\ i - 1 \in 1 .. N
    BY <1>1, <1>3, <2>2, <2>3
  <2>5. i - 1 # j
    BY <2>2, <2>4
  <2>6. j < i - 1 /\ i - 1 \in Nat
    BY <2>2, <2>3, <2>4, <2>5
  <2>7. ~ (i - 1 \in S)
    BY <2>1, <2>2, <2>6
  <2>8. start(j) < start(i - 1)
    BY <2>4, <2>6, <2>7
  <2> QED
    BY <1>2, <2>2, <2>3, <2>4, <2>8
<1>5. k \in 1 .. N /\ ~ (k \in S)
  BY <1>4 DEF N
<1> QED
  BY <1>1, <1>5 DEF start, N
-----------------------------------------------------------------------------
(* Where a process that runs is in the archive.                            *)
Reading ==
  pc = "running" =>
    /\ block \in 1 .. Len(Blocks) /\ unit \in 1 .. Len(Units) + 1
    /\ current_record_idx < block
    /\ buf # <<>> => unit > 1 /\ buf = <<Units[unit - 1]>>

TypeInv == archive \in Archives /\ TypeOK /\ Reading

LEMMA ArchiveIs == TypeInv => IsArchive(archive)
  BY ArchivesAssumption DEF TypeInv

LEMMA TypeInit == Init => TypeInv
<1> SUFFICES ASSUME Init
             PROVE  TypeInv
  OBVIOUS
<1>1. archive \in Archives /\ IsArchive(archive) /\ MaxRuns \in Nat
  BY ArchivesAssumption DEF Init
<1>2. Len(Blocks) \in Nat
  BY <1>1 DEF IsArchive, Blocks
<1>3. removed \in BOOLEAN
  BY DEF Init
<1>4. /\ base = 0 /\ runs = 0 /\ origin = 0 /\ pc = "stopped"
      /\ current_record_idx = 0 /\ block = 0 /\ unit = 0 /\ place = 0
      /\ bytes_processed_since_last_strip = 0
      /\ buf = <<>> /\ member = 0 /\ left = 0
  BY DEF Init
<1>5. TypeOK
  BY <1>1, <1>2, <1>3, <1>4 DEF TypeOK
<1> QED
  BY <1>1, <1>4, <1>5 DEF TypeInv, Reading

(* A block set up where the handle stands is one of the archive's, and is  *)
(* begun with its first unit.                                              *)
LEMMA SetUp ==
  ASSUME TypeInv, NEW at \in Nat, NEW counted \in Nat, SetupNextBlock(at, counted)
  PROVE  /\ block' \in 0 .. Len(Blocks) /\ unit' \in Nat /\ place' \in Nat
         /\ bytes_processed_since_last_strip' \in Nat
         /\ pc' \in {"running", "stopped"}
         /\ pc' = "running" =>
              /\ block' \in 1 .. Len(Blocks) /\ unit' = 1
              /\ Blocks[block'].start = at /\ place' = at + HeaderSize
              /\ bytes_processed_since_last_strip' = counted + HeaderSize
<1>1. CASE \E k \in 1 .. Len(Blocks) :
             /\ Blocks[k].start = at
             /\ block' = k /\ unit' = 1
             /\ place' = at + HeaderSize
             /\ bytes_processed_since_last_strip' = counted + HeaderSize
             /\ pc' = "running"
  BY <1>1 DEF HeaderSize
<1>2. CASE /\ pc' = "stopped"
           /\ UNCHANGED <<block, unit, place, bytes_processed_since_last_strip>>
  BY <1>2 DEF TypeInv, TypeOK
<1> QED
  BY <1>1, <1>2 DEF SetupNextBlock

(* Units have sizes, and fit what the ones before them leave owed.         *)
LEMMA UnitHas ==
  ASSUME TypeInv, NEW k \in 1 .. Len(Blocks), NEW i \in 1 .. Len(Blocks[k].units)
  PROVE  /\ IsUnit(Blocks[k].units[i])
         /\ Fits(Blocks[k].units[i], OwedAt(Blocks[k], i))
<1>1. IsBlock(Blocks[k])
  BY ArchiveIs DEF IsArchive, Blocks
<1> QED
  BY <1>1 DEF IsBlock

(* What a run asks for at a block's end is a number, and if it counts as   *)
(* the archive does, the sum is where the next block begins.               *)
LEMMA SkipIsNat ==
  ASSUME TypeInv, NEW record \in 1 .. Len(Blocks)
  PROVE  to_skip(record) \in Nat
<1>1. Padding(Unpadded(archive, Blocks[record])) \in Nat
  BY ArchiveIs, BlockPlaces DEF Blocks
<1>2. archive.check \in Nat
  BY ArchiveIs DEF IsArchive
<1> QED
  BY <1>1, <1>2 DEF to_skip

LEMMA TypeStep == TypeInv /\ [Next]_vars => TypeInv'
<1> SUFFICES ASSUME TypeInv, [Next]_vars
             PROVE  TypeInv'
  OBVIOUS
<1> USE DEF Blocks
<1>0. /\ IsArchive(archive) /\ Len(Blocks) \in Nat /\ MaxRuns \in Nat
      /\ archive \in Archives
  BY ArchiveIs, ArchivesAssumption DEF IsArchive, TypeInv
<1>t. TypeOK
  BY DEF TypeInv
<1>1. CASE UNCHANGED vars
  <2>1. TypeOK'
    BY <1>1, <1>t DEF TypeOK, vars, args, disk, reading, untar
  <2>2. Reading'
    BY <1>1 DEF TypeInv, Reading, Units, vars, args, disk, reading, untar
  <2> QED
    BY <1>0, <1>1, <2>1, <2>2 DEF TypeInv, vars, args
<1>2. CASE RefuseName
  <2>1. /\ archive' = archive /\ removed' = removed /\ base' = base
        /\ runs < MaxRuns /\ runs' = runs + 1 /\ origin' = base
        /\ buf' = <<>> /\ member' = 0 /\ left' = 0 /\ current_record_idx' = 0
        /\ UNCHANGED <<block, unit, place, bytes_processed_since_last_strip>>
    BY <1>2 DEF RefuseName, Started, args, disk
  <2>2. pc' \in {"done", "panicked"}
    BY <1>2 DEF RefuseName
  <2>3. TypeOK'
    BY <1>0, <1>t, <2>1, <2>2 DEF TypeOK
  <2> QED
    BY <1>0, <2>1, <2>2, <2>3 DEF TypeInv, Reading
<1>3. CASE Start
  <2>1. /\ archive' = archive /\ removed' = removed /\ base' = base
        /\ runs < MaxRuns /\ runs' = runs + 1 /\ origin' = base
        /\ buf' = <<>> /\ member' = 0 /\ left' = 0 /\ current_record_idx' = 0
    BY <1>3 DEF Start, Started, args, disk
  <2>2. SetupNextBlock(base + 12, 12) /\ base + 12 \in Nat
    BY <1>3, <1>t DEF Start, StreamHeaderSize, TypeOK
  <2>3. /\ block' \in 0 .. Len(Blocks) /\ unit' \in Nat /\ place' \in Nat
        /\ bytes_processed_since_last_strip' \in Nat
        /\ pc' \in {"running", "stopped"}
        /\ pc' = "running" => block' \in 1 .. Len(Blocks) /\ unit' = 1
    BY <2>2, SetUp
  <2>4. TypeOK'
    BY <1>0, <1>t, <2>1, <2>3 DEF TypeOK
  <2>5. Reading'
    <3> SUFFICES ASSUME pc' = "running"
                 PROVE  Reading'
      BY DEF Reading
    <3>1. block' \in 1 .. Len(Blocks) /\ Len(Blocks[block'].units) \in Nat
      BY <1>0, <2>3, BlockPlaces
    <3>2. unit' \in 1 .. Len(Units') + 1
      BY <2>1, <2>3, <3>1 DEF Units
    <3> QED
      BY <2>1, <3>1, <3>2 DEF Reading
  <2> QED
    BY <1>0, <2>1, <2>4, <2>5 DEF TypeInv
<1>4. CASE Fetch
  <2>1. /\ pc = "running" /\ buf = <<>> /\ unit <= Len(Units)
        /\ buf' = <<Units[unit]>> /\ unit' = unit + 1
        /\ archive' = archive /\ removed' = removed /\ runs' = runs /\ origin' = origin
        /\ pc' = pc /\ current_record_idx' = current_record_idx /\ block' = block
        /\ member' = member /\ left' = left
    BY <1>4 DEF Fetch, args
  <2>2. /\ block \in 1 .. Len(Blocks) /\ unit \in 1 .. Len(Units) + 1
        /\ current_record_idx < block
    BY <2>1 DEF TypeInv, Reading
  <2>3. Len(Units) \in Nat
    BY <1>0, <2>2, BlockPlaces DEF Units
  <2>4. unit \in 1 .. Len(Units)
    BY <2>1, <2>2, <2>3
  <2>5. Units[unit].size \in Nat
    BY <2>2, <2>4, UnitHas DEF Units, IsUnit
  <2>6. /\ base' \in Nat /\ base' >= base /\ place' \in Nat
        /\ bytes_processed_since_last_strip' \in Nat
    <3> DEFINE processed == bytes_processed_since_last_strip + Units[unit].size
    <3>1. processed \in Nat /\ base \in Nat /\ place \in Nat
      BY <1>t, <2>5 DEF TypeOK
    <3>2. \/ /\ base' = base + processed /\ place' = base'
             /\ bytes_processed_since_last_strip' = 0
          \/ /\ base' = base /\ place' = place + Units[unit].size
             /\ bytes_processed_since_last_strip' = processed
      BY <1>4 DEF Fetch, to_strip
    <3> HIDE DEF processed
    <3> QED
      BY <2>5, <3>1, <3>2
  <2>7. TypeOK'
    BY <1>0, <1>t, <2>1, <2>6 DEF TypeOK
  <2>8. Reading'
    <3>1. Units' = Units
      BY <2>1 DEF Units
    <3>2. unit' - 1 = unit /\ unit' > 1 /\ unit' \in 1 .. Len(Units) + 1
      BY <2>1, <2>3, <2>4
    <3> QED
      BY <2>1, <2>2, <3>1, <3>2 DEF Reading
  <2> QED
    BY <1>0, <2>1, <2>7, <2>8 DEF TypeInv
<1>5. CASE EndBlock
  <2>1. /\ pc = "running" /\ buf = <<>> /\ unit > Len(Units)
        /\ place = UnitAt(Blocks[block], unit)
        /\ current_record_idx' = current_record_idx + 1
        /\ archive' = archive /\ removed' = removed /\ base' = base
        /\ runs' = runs /\ origin' = origin
        /\ buf' = buf /\ member' = member /\ left' = left
    BY <1>5 DEF EndBlock, args, disk, untar
  <2>2. /\ block \in 1 .. Len(Blocks) /\ unit \in 1 .. Len(Units) + 1
        /\ current_record_idx < block /\ current_record_idx \in Nat
    BY <1>t, <2>1 DEF TypeInv, Reading, TypeOK
  <2>3. Len(Units) \in Nat
    BY <1>0, <2>2, BlockPlaces DEF Units
  <2>4. unit = Len(Units) + 1
    BY <2>1, <2>2, <2>3
  <2>5. place = Blocks[block].end /\ Blocks[block].end >= Blocks[block].start
    <3>1. UnitAt(Blocks[block], Len(Units) + 1) = Blocks[block].end
      BY <1>0, <2>2, BlockPlaces DEF Units
    <3>2. Blocks[block].end >= Blocks[block].start
      <4>1. IsBlock(Blocks[block])
        BY <1>0, <2>2 DEF IsArchive
      <4> QED
        BY <4>1 DEF IsBlock, HeaderSize
    <3> QED
      BY <2>1, <2>4, <3>1, <3>2
  <2>6. to_skip(current_record_idx + 1) \in Nat
    BY <1>0, <2>2, SkipIsNat
  <2>7. CASE /\ current_record_idx' = Len(Blocks)
             /\ pc' = "stopped"
             /\ UNCHANGED <<block, unit, place, bytes_processed_since_last_strip>>
    <3>1. TypeOK'
      BY <1>0, <1>t, <2>1, <2>7 DEF TypeOK
    <3> QED
      BY <1>0, <2>1, <2>7, <3>1 DEF TypeInv, Reading
  <2>8. CASE /\ current_record_idx' < Len(Blocks)
             /\ SetupNextBlock(place + 1 + to_skip(current_record_idx + 1),
                               bytes_processed_since_last_strip
                                 + to_skip(current_record_idx + 1))
    <3> DEFINE at == place + 1 + to_skip(current_record_idx + 1)
               counted == bytes_processed_since_last_strip
                            + to_skip(current_record_idx + 1)
    <3>1. at \in Nat /\ counted \in Nat /\ at > Blocks[block].start
      <4>1. place \in Nat /\ bytes_processed_since_last_strip \in Nat
        BY <1>t DEF TypeOK
      <4>2. Blocks[block].start \in Nat /\ Blocks[block].end \in Nat
        BY <1>0, <2>2, BlockPlaces
      <4> QED
        BY <2>5, <2>6, <4>1, <4>2
    <3>2. SetupNextBlock(at, counted)
      BY <2>8
    <3> HIDE DEF at, counted
    <3>3. /\ block' \in 0 .. Len(Blocks) /\ unit' \in Nat /\ place' \in Nat
          /\ bytes_processed_since_last_strip' \in Nat
          /\ pc' \in {"running", "stopped"}
          /\ pc' = "running" => /\ block' \in 1 .. Len(Blocks) /\ unit' = 1
                                /\ Blocks[block'].start = at
      BY <3>1, <3>2, SetUp
    <3>4. current_record_idx' \in 0 .. Len(Blocks)
      BY <1>0, <2>1, <2>2, <2>8
    <3>5. TypeOK'
      BY <1>0, <1>t, <2>1, <3>3, <3>4 DEF TypeOK
    <3>6. Reading'
      <4> SUFFICES ASSUME pc' = "running"
                   PROVE  Reading'
        BY DEF Reading
      <4>1. /\ block' \in 1 .. Len(Blocks) /\ unit' = 1
            /\ Blocks[block'].start > Blocks[block].start
        BY <3>1, <3>3
      <4>2. block < block'
        <5>1. CASE block' < block
          <6>1. Blocks[block'].start < Blocks[block].start
            BY <1>0, <2>2, <4>1, <5>1, BlocksGrow
          <6>2. Blocks[block'].start \in Nat /\ Blocks[block].start \in Nat
            BY <1>0, <2>2, <4>1, BlockPlaces
          <6> QED
            BY <4>1, <6>1, <6>2
        <5>2. CASE block' = block
          <6>1. Blocks[block].start \in Nat
            BY <1>0, <2>2, BlockPlaces
          <6> QED
            BY <4>1, <5>2, <6>1
        <5> QED
          BY <1>0, <2>2, <4>1, <5>1, <5>2
      <4>3. current_record_idx' < block'
        BY <1>0, <2>1, <2>2, <4>1, <4>2
      <4>4. Len(Blocks[block'].units) \in Nat
        BY <1>0, <4>1, BlockPlaces
      <4>5. unit' \in 1 .. Len(Units') + 1
        BY <2>1, <4>1, <4>4 DEF Units
      <4> QED
        BY <2>1, <4>1, <4>3, <4>5 DEF Reading
    <3> QED
      BY <1>0, <2>1, <3>5, <3>6 DEF TypeInv
  <2> QED
    BY <1>5, <2>7, <2>8 DEF EndBlock
<1>6. CASE Misread \/ Stop \/ NoHeader
  <2>1. /\ pc' \in {"misread", "stopped"}
        /\ UNCHANGED <<args, disk, runs, origin, reading, untar>>
    BY <1>6 DEF Misread, Stop, NoHeader
  <2>2. TypeOK'
    BY <1>0, <1>t, <2>1 DEF TypeOK, args, disk, reading, untar
  <2> QED
    BY <1>0, <2>1, <2>2 DEF TypeInv, Reading, args
<1>7. CASE Header
  <2>1. /\ pc = "running" /\ buf # <<>> /\ buf' = <<>>
        /\ member' = buf[1].member /\ left' = buf[1].count
        /\ UNCHANGED <<args, removed, base, runs, origin, pc, reading>>
    BY <1>7 DEF Header
  <2>2. /\ block \in 1 .. Len(Blocks) /\ unit \in 1 .. Len(Units) + 1
        /\ current_record_idx < block
        /\ unit > 1 /\ buf = <<Units[unit - 1]>>
    BY <2>1 DEF TypeInv, Reading
  <2>3. buf[1].member \in Nat /\ buf[1].count \in Nat
    <3>1. Len(Units) \in Nat
      BY <1>0, <2>2, BlockPlaces DEF Units
    <3>2. unit - 1 \in 1 .. Len(Units)
      BY <2>2, <3>1
    <3>3. IsUnit(Units[unit - 1])
      BY <2>2, <3>2, UnitHas DEF Units
    <3> QED
      BY <2>2, <3>3 DEF IsUnit
  <2>4. TypeOK'
    BY <1>0, <1>t, <2>1, <2>3 DEF TypeOK, args, reading
  <2>5. Reading'
    BY <2>1, <2>2 DEF Reading, Units, args, reading
  <2> QED
    BY <1>0, <2>1, <2>4, <2>5 DEF TypeInv, args
<1>8. CASE Write
  <2>1. /\ pc = "running" /\ buf # <<>> /\ left > 0 /\ left' = left - 1
        /\ buf' = <<>> /\ member' = member
        /\ UNCHANGED <<args, removed, base, runs, origin, pc, reading>>
    BY <1>8 DEF Write, remaining
  <2>2. /\ block \in 1 .. Len(Blocks) /\ unit \in 1 .. Len(Units) + 1
        /\ current_record_idx < block
    BY <2>1 DEF TypeInv, Reading
  <2>3. left' \in Nat
    BY <1>t, <2>1 DEF TypeOK
  <2>4. TypeOK'
    BY <1>0, <1>t, <2>1, <2>3 DEF TypeOK, args, reading
  <2>5. Reading'
    BY <2>1, <2>2 DEF Reading, Units, args, reading
  <2> QED
    BY <1>0, <2>1, <2>4, <2>5 DEF TypeInv, args
<1>9. CASE Remove
  <2>1. /\ removed' = TRUE /\ pc' = "done"
        /\ UNCHANGED <<args, base, written, runs, origin, reading, untar>>
    BY <1>9 DEF Remove
  <2>2. removed' \in BOOLEAN
    BY <2>1
  <2>3. TypeOK'
    BY <1>0, <1>t, <2>1, <2>2 DEF TypeOK, args, reading, untar
  <2> QED
    BY <1>0, <2>1, <2>3 DEF TypeInv, Reading, args
<1> QED
  BY <1>1, <1>2, <1>3, <1>4, <1>5, <1>6, <1>7, <1>8, <1>9 DEF Next, Progress

(* The state is what it looks like: a process that runs is in one of the   *)
(* archive's blocks, with at most the unit it has just read before it.     *)
THEOREM TypeCorrect == Spec => []TypeOK
<1>1. Spec => []TypeInv
  BY TypeInit, TypeStep, PTL DEF Spec
<1>2. TypeInv => TypeOK
  BY DEF TypeInv
<1> QED
  BY <1>1, <1>2, PTL
-----------------------------------------------------------------------------
(* The unit to be dealt with next, and the data behind which a run is.     *)
next == IF buf = <<>> THEN unit ELSE unit - 1

Past(x) == x[1] < block \/ (x[1] = block /\ x[2] < next)

UnitOf(x) == Blocks[x[1]].units[x[2]]

(* A run that began with the whole file has the records in step with the   *)
(* blocks, knows what is owed, and has written all data behind it, which   *)
(* no file that is still to be created belongs to.                         *)
WholeRun ==
  /\ current_record_idx = block - 1
  /\ member = OwedAt(Blocks[block], next).member
  /\ left = OwedAt(Blocks[block], next).left
  /\ \A x \in DataAt : Past(x) => Piece(x) \in written /\ UnitOf(x).member <= member

RunInv ==
  /\ removed => pc = "done"
  /\ removed /\ origin = 0 => Extracted
  /\ pc = "running" /\ origin = 0 => WholeRun

Inv == TypeInv /\ RunInv

LEMMA InvInit == Init => Inv
<1> SUFFICES ASSUME Init
             PROVE  Inv
  OBVIOUS
<1>1. TypeInv
  BY TypeInit
<1>2. removed = FALSE /\ pc = "stopped"
  BY DEF Init
<1> QED
  BY <1>1, <1>2 DEF Inv, RunInv

(* The places of data, and which numbers they are.                         *)
LEMMA DataIs ==
  ASSUME TypeInv, NEW x \in DataAt
  PROVE  /\ x[1] \in 1 .. Len(Blocks) /\ x[2] \in 1 .. Len(Blocks[x[1]].units)
         /\ x = <<x[1], x[2]>> /\ UnitOf(x).kind = "data"
         /\ UnitOf(x).member \in Nat /\ Len(Blocks[x[1]].units) \in Nat
<1>1. PICK k \in 1 .. Len(Blocks) : x \in {<<k, i>> : i \in 1 .. Len(Blocks[k].units)}
  BY DEF DataAt, Places
<1>2. PICK i \in 1 .. Len(Blocks[k].units) : x = <<k, i>>
  BY <1>1
<1>3. x[1] = k /\ x[2] = i /\ x = <<x[1], x[2]>>
  BY <1>2
<1>4. UnitOf(x).kind = "data"
  BY DEF DataAt, UnitOf
<1>5. UnitOf(x).member \in Nat
  BY <1>3, UnitHas DEF UnitOf, IsUnit
<1>6. Len(Blocks[k].units) \in Nat
  BY ArchiveIs, BlockPlaces DEF Blocks
<1> QED
  BY <1>3, <1>4, <1>5, <1>6

(* What a run that goes on has read and not yet dealt with.                *)
LEMMA InBuf ==
  ASSUME TypeInv, pc = "running", buf # <<>>
  PROVE  /\ block \in 1 .. Len(Blocks) /\ Len(Blocks) \in Nat /\ Len(Units) \in Nat
         /\ unit - 1 \in 1 .. Len(Units) /\ unit \in Nat
         /\ buf[1] = Units[unit - 1] /\ next = unit - 1
         /\ IsUnit(buf[1]) /\ Fits(buf[1], OwedAt(Blocks[block], next))
         /\ OwedAt(Blocks[block], unit) = Behind(buf[1])
<1>1. /\ block \in 1 .. Len(Blocks) /\ unit \in 1 .. Len(Units) + 1
      /\ unit > 1 /\ buf = <<Units[unit - 1]>>
  BY DEF TypeInv, Reading
<1>2. Len(Blocks) \in Nat /\ Len(Units) \in Nat
  BY <1>1, ArchiveIs, BlockPlaces DEF IsArchive, Blocks, Units
<1>3. unit - 1 \in 1 .. Len(Units) /\ unit \in Nat
  BY <1>1, <1>2
<1>4. buf[1] = Units[unit - 1] /\ next = unit - 1
  BY <1>1 DEF next
<1>5. /\ IsUnit(Units[unit - 1])
      /\ Fits(Units[unit - 1], OwedAt(Blocks[block], unit - 1))
  BY <1>1, <1>3, UnitHas DEF Units
<1>6. OwedAt(Blocks[block], unit) = Behind(Units[unit - 1])
  BY <1>1 DEF OwedAt, Units
<1> QED
  BY <1>1, <1>2, <1>3, <1>4, <1>5, <1>6

(* Nothing but a write adds to what is on disk, and once the file is gone  *)
(* nothing happens any more.                                               *)
LEMMA RunStutters ==
  ASSUME RunInv, UNCHANGED <<archive, removed, origin, written>>,
         removed => pc' = "done", pc' # "running"
  PROVE  RunInv'
<1>1. Extracted' = Extracted
  BY DEF Extracted, DataAt, Places, Piece, Blocks
<1> QED
  BY <1>1 DEF RunInv

(* What has been written for good when a block begins.                     *)
LEMMA FirstBlock ==
  ASSUME TypeInv, NEW k \in 1 .. Len(Blocks), Blocks[k].start = StreamHeaderSize
  PROVE  k = 1 /\ OwedAt(Blocks[1], 1) = [member |-> 0, left |-> 0]
<1>1. IsArchive(archive) /\ Len(Blocks) \in Nat
  BY ArchiveIs DEF IsArchive, Blocks
<1>2. 1 \in 1 .. Len(Blocks)
  BY <1>1
<1>3. Blocks[1].start = StreamHeaderSize /\ Blocks[1].owed = [member |-> 0, left |-> 0]
  BY <1>1, <1>2 DEF IsArchive, Blocks
<1>4. ~ (1 < k)
  <2> SUFFICES ASSUME 1 < k
               PROVE  FALSE
    OBVIOUS
  <2>1. Blocks[1].start < Blocks[k].start
    BY <1>1, <1>2, BlocksGrow DEF Blocks
  <2> QED
    BY <1>3, <2>1 DEF StreamHeaderSize
<1>5. k = 1
  BY <1>1, <1>4
<1>6. OwedAt(Blocks[1], 1) = Blocks[1].owed
  BY DEF OwedAt
<1> QED
  BY <1>3, <1>5, <1>6

(* Between the end of a block and the next one.                            *)
LEMMA BlockGap ==
  ASSUME TypeInv, NEW j \in 1 .. Len(Blocks), j < Len(Blocks)
  PROVE  /\ j + 1 \in 1 .. Len(Blocks)
         /\ Blocks[j + 1].start = Blocks[j].end + 1 + to_skip(j)
         /\ OwedAt(Blocks[j + 1], 1) = OwedAt(Blocks[j], Len(Blocks[j].units) + 1)
<1>1. IsArchive(archive) /\ Len(Blocks) \in Nat /\ archive.check \in Nat
  BY ArchiveIs DEF IsArchive, Blocks
<1>2. j + 1 \in 1 .. Len(Blocks) /\ j + 1 # 1 /\ j + 1 - 1 = j
  BY <1>1
<1>3. /\ Blocks[j + 1].start = BlockEnd(archive, Blocks[j + 1 - 1])
      /\ Blocks[j + 1].owed = OwedAt(Blocks[j + 1 - 1], Len(Blocks[j + 1 - 1].units) + 1)
  BY <1>1, <1>2 DEF IsArchive, Blocks
<1>4. BlockEnd(archive, Blocks[j]) = Blocks[j].end + 1 + to_skip(j)
  <2>1. /\ Blocks[j].start \in Nat /\ Blocks[j].end \in Nat
        /\ Padding(Unpadded(archive, Blocks[j])) \in Nat
    BY <1>1, BlockPlaces DEF Blocks
  <2> DEFINE s == Blocks[j].start
             e == Blocks[j].end
             c == archive.check
             p == Padding(Unpadded(archive, Blocks[j]))
  <2>2. BlockEnd(archive, Blocks[j]) = s + (e - s + 1 + c) + p /\ to_skip(j) = c + p
    BY DEF BlockEnd, to_skip, Unpadded
  <2>3. s \in Nat /\ e \in Nat /\ c \in Nat /\ p \in Nat
    BY <1>1, <2>1
  <2> HIDE DEF s, e, c, p
  <2>4. s + (e - s + 1 + c) + p = e + 1 + (c + p)
    BY ONLY <2>3
  <2>5. BlockEnd(archive, Blocks[j]) = e + 1 + to_skip(j)
    BY ONLY <2>2, <2>4
  <2> QED
    BY <2>5 DEF e
<1>5. OwedAt(Blocks[j + 1], 1) = Blocks[j + 1].owed
  BY DEF OwedAt
<1> QED
  BY <1>2, <1>3, <1>4, <1>5

(* Behind the check and the padding that any record asks for there can     *)
(* only be the next block: paddings differ by less than a block's header.  *)
LEMMA NextBlock ==
  ASSUME TypeInv, NEW j \in 1 .. Len(Blocks), NEW r \in 1 .. Len(Blocks),
         NEW k \in 1 .. Len(Blocks), Blocks[k].start = Blocks[j].end + 1 + to_skip(r)
  PROVE  /\ k = j + 1
         /\ OwedAt(Blocks[k], 1) = OwedAt(Blocks[j], Len(Blocks[j].units) + 1)
<1>1. IsArchive(archive) /\ Len(Blocks) \in Nat /\ archive.check \in Nat
  BY ArchiveIs DEF IsArchive, Blocks
<1>2. \A i \in 1 .. Len(Blocks) :
        /\ Blocks[i].start \in Nat /\ Blocks[i].end \in Nat
        /\ Blocks[i].end >= Blocks[i].start + 12
  <2> SUFFICES ASSUME NEW i \in 1 .. Len(Blocks)
               PROVE  /\ Blocks[i].start \in Nat /\ Blocks[i].end \in Nat
                      /\ Blocks[i].end >= Blocks[i].start + 12
    OBVIOUS
  <2>1. IsBlock(Blocks[i])
    BY <1>1 DEF IsArchive, Blocks
  <2> QED
    BY <2>1 DEF IsBlock, HeaderSize
<1>3. \A i \in 1 .. Len(Blocks) :
        to_skip(i) \in Nat /\ archive.check <= to_skip(i) /\ to_skip(i) <= archive.check + 3
  <2> SUFFICES ASSUME NEW i \in 1 .. Len(Blocks)
               PROVE  /\ to_skip(i) \in Nat /\ archive.check <= to_skip(i)
                      /\ to_skip(i) <= archive.check + 3
    OBVIOUS
  <2>1. Unpadded(archive, Blocks[i]) \in Nat
    BY <1>1, BlockPlaces DEF Blocks
  <2> DEFINE p == Padding(Unpadded(archive, Blocks[i]))
  <2>2. p \in Nat /\ p <= 3
    BY <2>1, PaddingNat
  <2>3. to_skip(i) = archive.check + p
    BY DEF to_skip
  <2> HIDE DEF p
  <2> QED
    BY <1>1, <2>2, <2>3
<1>4. j < k
  <2>1. Blocks[j].start < Blocks[k].start
    <3> DEFINE s == Blocks[j].start
               e == Blocks[j].end
               w == to_skip(r)
    <3>1. s \in Nat /\ e \in Nat /\ e >= s + 12 /\ w \in Nat
      BY <1>2, <1>3
    <3>2. Blocks[k].start = e + 1 + w
      OBVIOUS
    <3> HIDE DEF s, e, w
    <3>3. s < Blocks[k].start
      BY <3>1, <3>2
    <3> QED
      BY <3>3 DEF s
  <2>2. ~ (k < j)
    <3> SUFFICES ASSUME k < j
                 PROVE  FALSE
      OBVIOUS
    <3>1. Blocks[k].start < Blocks[j].start
      BY <1>1, BlocksGrow DEF Blocks
    <3> QED
      BY <1>2, <2>1, <3>1
  <2>3. k # j
    BY <1>2, <2>1
  <2> QED
    BY <1>1, <2>2, <2>3
<1>5. j < Len(Blocks)
  BY <1>1, <1>4
<1>6. /\ j + 1 \in 1 .. Len(Blocks) /\ Blocks[j + 1].start = Blocks[j].end + 1 + to_skip(j)
      /\ OwedAt(Blocks[j + 1], 1) = OwedAt(Blocks[j], Len(Blocks[j].units) + 1)
  BY <1>5, BlockGap
<1>7. ASSUME j + 1 < k
      PROVE  FALSE
  <2> DEFINE n == j + 1
  <2>1. n \in 1 .. Len(Blocks) /\ n < Len(Blocks)
    BY <1>1, <1>6, <1>7
  <2>2. n + 1 \in 1 .. Len(Blocks) /\ Blocks[n + 1].start = Blocks[n].end + 1 + to_skip(n)
    <3> HIDE DEF n
    <3> QED
      BY <2>1, BlockGap
  <2>3. Blocks[n + 1].start <= Blocks[k].start
    <3>1. n + 1 = k \/ n + 1 < k
      BY <1>1, <1>7, <2>2
    <3>2. CASE n + 1 = k
      BY <1>2, <3>2
    <3>3. CASE n + 1 < k
      <4>1. Blocks[n + 1].start < Blocks[k].start
        BY <1>1, <2>2, <3>3, BlocksGrow DEF Blocks
      <4> QED
        BY <1>2, <2>2, <4>1
    <3> QED
      BY <3>1, <3>2, <3>3
  <2> DEFINE c == archive.check
             e == Blocks[j].end
             f == Blocks[n].end
             s == Blocks[n].start
             u == Blocks[n + 1].start
             v == Blocks[k].start
             p == to_skip(j)
             q == to_skip(n)
             w == to_skip(r)
  <2>4. /\ c \in Nat /\ e \in Nat /\ f \in Nat /\ s \in Nat /\ u \in Nat /\ v \in Nat
        /\ p \in Nat /\ q \in Nat /\ w \in Nat
        /\ f >= s + 12 /\ c <= p /\ w <= c + 3
    BY <1>1, <1>2, <1>3, <2>1, <2>2
  <2>5. s = e + 1 + p /\ u = f + 1 + q /\ v = e + 1 + w /\ u <= v
    BY <1>6, <2>2, <2>3
  <2> HIDE DEF c, e, f, s, u, v, p, q, w
  <2> QED
    BY ONLY <2>4, <2>5
<1>8. k = j + 1
  BY <1>1, <1>4, <1>7
<1> QED
  BY <1>6, <1>8

LEMMA RunStep == Inv /\ [Next]_vars => RunInv'
<1> SUFFICES ASSUME Inv, [Next]_vars
             PROVE  RunInv'
  OBVIOUS
<1>0. TypeInv /\ TypeOK /\ RunInv
  BY DEF Inv, TypeInv
<1>1. CASE UNCHANGED vars
  <2>1. /\ archive' = archive /\ removed' = removed /\ origin' = origin /\ pc' = pc
        /\ written' = written /\ current_record_idx' = current_record_idx
        /\ block' = block /\ unit' = unit /\ buf' = buf /\ member' = member
        /\ left' = left
    BY <1>1 DEF vars, args, disk, reading, untar
  <2>2. Extracted' = Extracted
    BY <2>1 DEF Extracted, DataAt, Places, Piece, Blocks
  <2>3. WholeRun => WholeRun'
    <3>1. Blocks' = Blocks /\ DataAt' = DataAt /\ next' = next
      BY <2>1 DEF Blocks, DataAt, Places, next
    <3>2. \A x : (Past(x)' <=> Past(x)) /\ Piece(x)' = Piece(x) /\ UnitOf(x)' = UnitOf(x)
      BY <2>1, <3>1 DEF Past, Piece, UnitOf
    <3> QED
      BY <2>1, <3>1, <3>2 DEF WholeRun
  <2> QED
    BY <1>0, <2>1, <2>2, <2>3 DEF RunInv
<1>2. CASE RefuseName
  <2>1. removed' = FALSE /\ pc' \in {"done", "panicked"}
    <3>1. ~removed /\ removed' = removed /\ removed \in BOOLEAN
      BY <1>0, <1>2 DEF RefuseName, Started, disk, TypeOK
    <3>2. pc' \in {"done", "panicked"}
      BY <1>2 DEF RefuseName
    <3> QED
      BY <3>1, <3>2
  <2> QED
    BY <2>1 DEF RunInv
<1>3. CASE Start
  <2>1. /\ removed' = FALSE /\ archive' = archive /\ origin' = base
        /\ buf' = <<>> /\ member' = 0 /\ left' = 0 /\ current_record_idx' = 0
    <3>1. ~removed /\ removed' = removed /\ removed \in BOOLEAN
      BY <1>0, <1>3 DEF Start, Started, disk, TypeOK
    <3>2. /\ archive' = archive /\ origin' = base
          /\ buf' = <<>> /\ member' = 0 /\ left' = 0 /\ current_record_idx' = 0
      BY <1>3 DEF Start, Started, args
    <3> QED
      BY <3>1, <3>2
  <2>2. ASSUME pc' = "running", base = 0
        PROVE  WholeRun'
    <3>1. SetupNextBlock(base + StreamHeaderSize, StreamHeaderSize)
      BY <1>3 DEF Start
    <3>2. base + StreamHeaderSize = 12 /\ StreamHeaderSize = 12
      BY <2>2 DEF StreamHeaderSize
    <3>3. /\ block' \in 1 .. Len(Blocks) /\ unit' = 1 /\ Blocks[block'].start = 12
      BY <1>0, <2>2, <3>1, <3>2, SetUp
    <3>4. block' = 1 /\ OwedAt(Blocks[1], 1) = [member |-> 0, left |-> 0]
      BY <1>0, <3>2, <3>3, FirstBlock
    <3>5. Blocks' = Blocks /\ next' = 1
      BY <2>1, <3>3 DEF Blocks, next
    <3>6. \A x \in DataAt' : ~ Past(x)'
      <4> SUFFICES ASSUME NEW x \in DataAt
                   PROVE  ~ (x[1] < 1 \/ (x[1] = 1 /\ x[2] < 1))
        BY <3>4, <3>5 DEF Past, DataAt, Places
      <4>1. x[1] \in 1 .. Len(Blocks) /\ x[2] \in 1 .. Len(Blocks[x[1]].units)
        BY <1>0, DataIs
      <4> QED
        BY <4>1
    <3> QED
      BY <2>1, <3>4, <3>5, <3>6 DEF WholeRun
  <2> QED
    BY <2>1, <2>2 DEF RunInv
<1>4. CASE Fetch
  <2>1. /\ pc = "running" /\ buf = <<>> /\ buf' = <<Units[unit]>> /\ unit' = unit + 1
        /\ UNCHANGED <<archive, removed, written, origin, pc, current_record_idx,
                       block, member, left>>
    BY <1>4 DEF Fetch, args
  <2>2. next' = next
    <3>1. unit \in Nat
      BY <1>0 DEF TypeOK
    <3>2. unit' - 1 = unit /\ buf' # <<>>
      BY <2>1, <3>1
    <3> QED
      BY <2>1, <3>2 DEF next
  <2>3. WholeRun => WholeRun'
    <3>1. Blocks' = Blocks /\ DataAt' = DataAt
      BY <2>1 DEF Blocks, DataAt, Places
    <3>2. \A x : (Past(x)' <=> Past(x)) /\ Piece(x)' = Piece(x) /\ UnitOf(x)' = UnitOf(x)
      BY <2>1, <2>2, <3>1 DEF Past, Piece, UnitOf
    <3> QED
      BY <2>1, <2>2, <3>1, <3>2 DEF WholeRun
  <2>4. Extracted' = Extracted
    BY <2>1 DEF Extracted, DataAt, Places, Piece, Blocks
  <2> QED
    BY <1>0, <2>1, <2>3, <2>4 DEF RunInv
<1>5. CASE EndBlock
  <2>1. /\ pc = "running" /\ buf = <<>> /\ unit > Len(Units)
        /\ place = UnitAt(Blocks[block], unit)
        /\ current_record_idx' = current_record_idx + 1
        /\ UNCHANGED <<archive, removed, written, origin, buf, member, left>>
    BY <1>5 DEF EndBlock, args, disk, untar
  <2>2. /\ block \in 1 .. Len(Blocks) /\ unit \in 1 .. Len(Units) + 1
    BY <1>0, <2>1 DEF TypeInv, Reading
  <2>3. IsArchive(archive) /\ Len(Blocks) \in Nat /\ Len(Units) \in Nat
        /\ UnitAt(Blocks[block], Len(Units) + 1) = Blocks[block].end
    BY <1>0, <2>2, ArchiveIs, BlockPlaces DEF IsArchive, Blocks, Units
  <2>4. unit = Len(Units) + 1 /\ next = unit
    BY <2>1, <2>2, <2>3 DEF next
  <2>5. removed = FALSE
    BY <1>0, <2>1 DEF RunInv, TypeOK
  <2>6. ASSUME pc' = "running", origin = 0
        PROVE  WholeRun'
    <3>1. WholeRun /\ current_record_idx = block - 1
      BY <1>0, <2>1, <2>6 DEF RunInv, WholeRun
    <3>2. /\ current_record_idx' < Len(Blocks)
          /\ SetupNextBlock(place + 1 + to_skip(current_record_idx + 1),
                            bytes_processed_since_last_strip
                              + to_skip(current_record_idx + 1))
      BY <1>5, <2>6 DEF EndBlock
    <3>3. current_record_idx + 1 = block /\ block < Len(Blocks)
      BY <2>1, <2>2, <2>3, <3>1, <3>2
    <3>4. place = Blocks[block].end
      BY <2>1, <2>3, <2>4
    <3> DEFINE at == Blocks[block].end + 1 + to_skip(block)
               counted == bytes_processed_since_last_strip + to_skip(block)
    <3>5. at \in Nat /\ counted \in Nat
      <4>1. Blocks[block].end \in Nat
        BY <2>2, <2>3, BlockPlaces DEF Blocks
      <4>2. to_skip(block) \in Nat
        BY <1>0, <2>2, SkipIsNat
      <4>3. bytes_processed_since_last_strip \in Nat
        BY <1>0 DEF TypeOK
      <4> QED
        BY <4>1, <4>2, <4>3
    <3>6. SetupNextBlock(at, counted)
      BY <3>2, <3>3, <3>4
    <3> HIDE DEF counted
    <3>7. block' \in 1 .. Len(Blocks) /\ unit' = 1 /\ Blocks[block'].start = at
      <4> HIDE DEF at
      <4> QED
        BY <1>0, <2>6, <3>5, <3>6, SetUp
    <3>8. /\ block' = block + 1
          /\ OwedAt(Blocks[block'], 1) = OwedAt(Blocks[block], Len(Units) + 1)
      BY <1>0, <2>2, <3>3, <3>7, NextBlock DEF Units
    <3>9. Blocks' = Blocks /\ next' = 1 /\ DataAt' = DataAt
      BY <2>1, <3>7 DEF Blocks, next, DataAt, Places
    <3>10. \A x \in DataAt : Past(x)' => Past(x)
      <4> SUFFICES ASSUME NEW x \in DataAt, Past(x)'
                   PROVE  Past(x)
        OBVIOUS
      <4>1. /\ x[1] \in 1 .. Len(Blocks) /\ x[2] \in 1 .. Len(Blocks[x[1]].units)
            /\ Len(Blocks[x[1]].units) \in Nat
        BY <1>0, DataIs
      <4>2. x[1] < block + 1 \/ (x[1] = block + 1 /\ x[2] < 1)
        BY <3>8, <3>9 DEF Past
      <4>3. x[1] < block \/ x[1] = block
        BY <2>2, <2>3, <4>1, <4>2
      <4>4. x[1] = block => x[2] < next
        BY <2>4, <2>3, <4>1 DEF Units
      <4> QED
        BY <4>3, <4>4 DEF Past
    <3>11. \A x \in DataAt' : Past(x)' => Piece(x)' \in written' /\ UnitOf(x)' .member <= member'
      BY <2>1, <3>1, <3>9, <3>10 DEF WholeRun, Piece, UnitOf, Blocks
    <3>12. current_record_idx' = block' - 1
      BY <2>1, <2>2, <3>1, <3>8
    <3>13. /\ member' = OwedAt(Blocks'[block'], next').member
           /\ left' = OwedAt(Blocks'[block'], next').left
      BY <2>1, <2>4, <3>1, <3>8, <3>9 DEF WholeRun
    <3> QED
      BY <3>11, <3>12, <3>13 DEF WholeRun
  <2>7. removed' = FALSE /\ origin' = origin
    BY <2>1, <2>5
  <2> QED
    BY <2>6, <2>7 DEF RunInv
<1>6. CASE Misread \/ Stop \/ NoHeader
  <2>1. /\ pc = "running" /\ pc' \in {"misread", "stopped"}
        /\ UNCHANGED <<archive, removed, origin, written>>
    BY <1>6 DEF Misread, Stop, NoHeader, args, disk
  <2>2. ~removed
    BY <1>0, <2>1 DEF RunInv
  <2> QED
    BY <1>0, <2>1, <2>2, RunStutters
<1>7. CASE Header
  <2>1. /\ pc = "running" /\ buf # <<>> /\ left = 0 /\ buf[1].kind = "header"
        /\ member' = buf[1].member /\ left' = buf[1].count
        /\ written' = {w \in written : w[1][1] # buf[1].member}
        /\ buf' = <<>>
        /\ UNCHANGED <<archive, removed, origin, pc, current_record_idx, block, unit>>
    BY <1>7 DEF Header, args, reading
  <2>2. /\ block \in 1 .. Len(Blocks) /\ unit \in Nat /\ next = unit - 1
        /\ buf[1] = Units[unit - 1] /\ IsUnit(buf[1])
        /\ Fits(buf[1], OwedAt(Blocks[block], next))
        /\ OwedAt(Blocks[block], unit) = Behind(buf[1])
    BY <1>0, <2>1, InBuf
  <2>3. removed = FALSE
    BY <1>0, <2>1 DEF RunInv, TypeOK
  <2>4. ASSUME origin = 0
        PROVE  WholeRun'
    <3>1. WholeRun
      BY <1>0, <2>1, <2>4 DEF RunInv
    <3>2. buf[1].member > member /\ buf[1].member \in Nat /\ member \in Nat
      BY <1>0, <2>1, <2>2, <3>1 DEF WholeRun, Fits, IsUnit, TypeOK
    <3>3. next' = unit /\ Blocks' = Blocks /\ DataAt' = DataAt
      BY <2>1 DEF next, Blocks, DataAt, Places
    <3>4. Behind(buf[1]).member = buf[1].member /\ Behind(buf[1]).left = buf[1].count
      BY <2>1 DEF Behind
    <3>5. /\ member' = OwedAt(Blocks'[block'], next').member
          /\ left' = OwedAt(Blocks'[block'], next').left
      BY <2>1, <2>2, <3>3, <3>4
    <3>6. ASSUME NEW x \in DataAt, Past(x)'
          PROVE  Piece(x)' \in written' /\ UnitOf(x)' .member <= member'
      <4>1. /\ x[1] \in 1 .. Len(Blocks) /\ x[2] \in 1 .. Len(Blocks[x[1]].units)
            /\ UnitOf(x).kind = "data" /\ UnitOf(x).member \in Nat
        BY <1>0, DataIs
      <4>2. x[1] < block \/ (x[1] = block /\ x[2] < unit)
        BY <2>1, <3>3, <3>6 DEF Past
      <4>3. ~ (x[1] = block /\ x[2] = unit - 1)
        <5>1. x[1] = block /\ x[2] = unit - 1 => UnitOf(x) = buf[1]
          BY <2>2 DEF UnitOf, Units
        <5> QED
          BY <2>1, <4>1, <5>1
      <4>4. Past(x)
        BY <2>2, <4>1, <4>2, <4>3 DEF Past
      <4>5. Piece(x) \in written /\ UnitOf(x).member <= member
        BY <3>1, <4>4 DEF WholeRun
      <4>6. Piece(x)[1][1] = UnitOf(x).member
        BY DEF Piece, UnitOf
      <4>7. UnitOf(x).member # buf[1].member /\ UnitOf(x).member <= buf[1].member
        BY <3>2, <4>1, <4>5
      <4>8. Piece(x) \in written'
        BY <2>1, <4>5, <4>6, <4>7
      <4>9. Piece(x)' = Piece(x) /\ UnitOf(x)' = UnitOf(x)
        BY <3>3 DEF Piece, UnitOf
      <4> QED
        BY <2>1, <4>7, <4>8, <4>9
    <3> QED
      BY <2>1, <3>1, <3>3, <3>5, <3>6 DEF WholeRun
  <2> QED
    BY <2>1, <2>3, <2>4 DEF RunInv
<1>8. CASE Write
  <2>1. /\ pc = "running" /\ buf # <<>> /\ left > 0 /\ left' = left - 1
        /\ written' = written \cup {<<<<member, left>>, buf[1]>>}
        /\ buf' = <<>>
        /\ UNCHANGED <<archive, removed, origin, pc, current_record_idx, block, unit,
                       member>>
    BY <1>8 DEF Write, remaining, args, reading
  <2>2. /\ block \in 1 .. Len(Blocks) /\ unit \in Nat /\ next = unit - 1
        /\ buf[1] = Units[unit - 1] /\ IsUnit(buf[1])
        /\ Fits(buf[1], OwedAt(Blocks[block], next))
        /\ OwedAt(Blocks[block], unit) = Behind(buf[1])
    BY <1>0, <2>1, InBuf
  <2>3. removed = FALSE
    BY <1>0, <2>1 DEF RunInv, TypeOK
  <2>4. ASSUME origin = 0
        PROVE  WholeRun'
    <3>1. WholeRun
      BY <1>0, <2>1, <2>4 DEF RunInv
    <3>2. buf[1].kind = "data" /\ buf[1].member = member /\ buf[1].count = left
      BY <2>1, <2>2, <3>1 DEF WholeRun, Fits
    <3>3. next' = unit /\ Blocks' = Blocks /\ DataAt' = DataAt
      BY <2>1 DEF next, Blocks, DataAt, Places
    <3>4. Behind(buf[1]).member = member /\ Behind(buf[1]).left = left - 1
      BY <3>2 DEF Behind
    <3>5. /\ member' = OwedAt(Blocks'[block'], next').member
          /\ left' = OwedAt(Blocks'[block'], next').left
      BY <2>1, <2>2, <3>3, <3>4
    <3>6. ASSUME NEW x \in DataAt, Past(x)'
          PROVE  Piece(x)' \in written' /\ UnitOf(x)' .member <= member'
      <4>1. /\ x[1] \in 1 .. Len(Blocks) /\ x[2] \in 1 .. Len(Blocks[x[1]].units)
            /\ UnitOf(x).member \in Nat
        BY <1>0, DataIs
      <4>2. x[1] < block \/ (x[1] = block /\ x[2] < unit)
        BY <2>1, <3>3, <3>6 DEF Past
      <4>3. Piece(x)' = Piece(x) /\ UnitOf(x)' = UnitOf(x)
        BY <3>3 DEF Piece, UnitOf
      <4>4. CASE x[1] = block /\ x[2] = unit - 1
        <5>1. UnitOf(x) = buf[1]
          BY <2>2, <4>4 DEF UnitOf, Units
        <5>2. Piece(x) = <<<<member, left>>, buf[1]>>
          BY <3>2, <5>1 DEF Piece, UnitOf
        <5>3. UnitOf(x).member <= member
          BY <3>2, <4>1, <5>1
        <5> QED
          BY <2>1, <4>3, <5>2, <5>3
      <4>5. CASE ~ (x[1] = block /\ x[2] = unit - 1)
        <5>1. Past(x)
          BY <2>2, <4>1, <4>2, <4>5 DEF Past
        <5>2. Piece(x) \in written /\ UnitOf(x).member <= member
          BY <3>1, <5>1 DEF WholeRun
        <5> QED
          BY <2>1, <4>3, <5>2
      <4> QED
        BY <4>4, <4>5
    <3> QED
      BY <2>1, <3>1, <3>3, <3>5, <3>6 DEF WholeRun
  <2> QED
    BY <2>1, <2>3, <2>4 DEF RunInv
<1>9. CASE Remove
  <2>1. /\ pc = "running" /\ buf # <<>> /\ left = 0 /\ IsZero(buf[1]) /\ pc' = "done"
        /\ UNCHANGED <<archive, written, origin>>
    BY <1>9 DEF Remove, end_found, args
  <2>2. /\ block \in 1 .. Len(Blocks) /\ Len(Blocks) \in Nat /\ Len(Units) \in Nat
        /\ unit - 1 \in 1 .. Len(Units) /\ unit \in Nat /\ next = unit - 1
        /\ buf[1] = Units[unit - 1]
        /\ Fits(buf[1], OwedAt(Blocks[block], next))
    BY <1>0, <2>1, InBuf
  <2>3. Extracted' = Extracted
    BY <2>1 DEF Extracted, DataAt, Places, Piece, Blocks
  <2>4. ASSUME origin = 0
        PROVE  Extracted
    <3>1. WholeRun
      BY <1>0, <2>1, <2>4 DEF RunInv
    <3>2. buf[1].kind # "data"
      BY <2>1, <2>2, <3>1 DEF WholeRun, Fits
    <3>3. buf[1].kind = "end"
      BY <2>1, <3>2 DEF IsZero
    <3>4. block = Len(Blocks) /\ unit - 1 = Len(Units)
      <4>1. \A i \in 1 .. Len(archive.blocks[block].units) :
              archive.blocks[block].units[i].kind = "end" =>
                block = Len(archive.blocks) /\ i = Len(archive.blocks[block].units)
        BY <1>0, <2>2, ArchiveIs DEF IsArchive, Blocks
      <4> QED
        BY <2>2, <3>3, <4>1 DEF Blocks, Units
    <3>5. ASSUME NEW x \in DataAt
          PROVE  Piece(x) \in written
      <4>1. /\ x[1] \in 1 .. Len(Blocks) /\ x[2] \in 1 .. Len(Blocks[x[1]].units)
            /\ UnitOf(x).kind = "data"
        BY <1>0, DataIs
      <4>2. ~ (x[1] = block /\ x[2] = unit - 1)
        <5>1. x[1] = block /\ x[2] = unit - 1 => UnitOf(x) = buf[1]
          BY <2>2 DEF UnitOf, Units
        <5> QED
          BY <3>2, <4>1, <5>1
      <4>3. x[1] < block \/ (x[1] = block /\ x[2] \in 1 .. Len(Units))
        BY <2>2, <3>4, <4>1 DEF Units
      <4>4. Past(x)
        BY <2>2, <3>4, <4>2, <4>3 DEF Past
      <4> QED
        BY <3>1, <4>4 DEF WholeRun
    <3> QED
      BY <3>5 DEF Extracted
  <2> QED
    BY <2>1, <2>3, <2>4 DEF RunInv
<1> QED
  BY <1>1, <1>2, <1>3, <1>4, <1>5, <1>6, <1>7, <1>8, <1>9 DEF Next, Progress

(* The archive is removed only by a run that has extracted all of it, if   *)
(* that run found it whole, however many blocks, cuts and earlier runs     *)
(* there were, and wherever its data look like the end.                    *)
THEOREM RemovalIsComplete == Spec => []CompleteWhenWhole
<1>1. Inv /\ [Next]_vars => Inv'
  BY TypeStep, RunStep DEF Inv
<1>2. Inv => CompleteWhenWhole
  BY DEF Inv, RunInv, CompleteWhenWhole
<1> QED
  BY <1>1, <1>2, InvInit, PTL DEF Spec
-----------------------------------------------------------------------------
(* Where the units are, one after the other, and what they owe.            *)
At(x) == UnitAt(Blocks[x[1]], x[2])

LEMMA OneUnitOn ==
  ASSUME TypeInv, NEW k \in 1 .. Len(Blocks), NEW i \in 1 .. Len(Blocks[k].units)
  PROVE  /\ UnitAt(Blocks[k], i) \in Nat
         /\ Blocks[k].units[i].size \in Nat
         /\ UnitAt(Blocks[k], i + 1) = UnitAt(Blocks[k], i) + Blocks[k].units[i].size
         /\ UnitAt(Blocks[k], i + 1) > UnitAt(Blocks[k], i)
         /\ UnitAt(Blocks[k], 1) = Blocks[k].start + HeaderSize
         /\ Blocks[k].start \in Nat
<1>1. IsBlock(Blocks[k]) /\ Len(Blocks[k].units) \in Nat
  BY ArchiveIs, BlockPlaces DEF IsArchive, Blocks
<1>2. IsUnit(Blocks[k].units[i])
  BY UnitHas
<1>3. UnitAt(Blocks[k], i) \in Nat
  BY <1>1, <1>2 DEF UnitAt, IsUnit
<1>4. Blocks[k].units[i].size \in Nat \ {0}
  BY <1>2 DEF IsUnit
<1>5. UnitAt(Blocks[k], i + 1) = UnitAt(Blocks[k], i) + Blocks[k].units[i].size
  <2>1. i + 1 \in 1 .. Len(Blocks[k].units) + 1 /\ i + 1 # 1 /\ i + 1 - 1 = i
    BY <1>1
  <2>2. UnitAt(Blocks[k], i + 1)
          = UnitAt(Blocks[k], i + 1 - 1) + Blocks[k].units[i + 1 - 1].size
    BY <1>1, <2>1 DEF IsBlock
  <2> QED
    BY <2>1, <2>2
<1>6. UnitAt(Blocks[k], 1) = Blocks[k].start + HeaderSize /\ Blocks[k].start \in Nat
  <2>1. 1 \in 1 .. Len(Blocks[k].units) + 1
    BY <1>1
  <2> QED
    BY <1>1, <2>1 DEF IsBlock
<1> QED
  BY <1>3, <1>4, <1>5, <1>6

LEMMA PlacesGrow ==
  ASSUME TypeInv, NEW k \in 1 .. Len(Blocks),
         NEW i \in 1 .. Len(Blocks[k].units) + 1, NEW j \in 1 .. Len(Blocks[k].units) + 1
  PROVE  /\ UnitAt(Blocks[k], i) \in Nat
         /\ i <= j => UnitAt(Blocks[k], i) <= UnitAt(Blocks[k], j)
<1> DEFINE n == Len(Blocks[k].units)
           at(m) == UnitAt(Blocks[k], m)
           S == {m \in Nat : m \in 1 .. n + 1 /\ i <= m /\ ~ (at(i) <= at(m))}
<1>1. n \in Nat /\ at(n + 1) = Blocks[k].end /\ Blocks[k].end \in Nat
  BY ArchiveIs, BlockPlaces DEF Blocks
<1>2. \A m \in 1 .. n : at(m) \in Nat /\ at(m + 1) > at(m)
  BY OneUnitOn
<1> HIDE DEF n, at
<1>3. \A m \in 1 .. n + 1 : at(m) \in Nat
  <2> SUFFICES ASSUME NEW m \in 1 .. n + 1
               PROVE  at(m) \in Nat
    OBVIOUS
  <2>1. m \in 1 .. n \/ m = n + 1
    BY <1>1
  <2> QED
    BY <1>1, <1>2, <2>1
<1>4. i \in 1 .. n + 1 /\ j \in 1 .. n + 1
  BY DEF n
<1>5. S = {}
  <2> SUFFICES ASSUME S # {}
               PROVE  FALSE
    OBVIOUS
  <2>1. PICK m \in S : \A y \in S : m <= y
    BY Least
  <2>2. m \in 1 .. n + 1 /\ i <= m /\ ~ (at(i) <= at(m)) /\ m # i
    BY <1>3, <1>4, <2>1
  <2>3. m - 1 \in 1 .. n /\ i <= m - 1 /\ m - 1 + 1 = m /\ m - 1 \in 1 .. n + 1
    BY <1>1, <1>4, <2>2
  <2>4. ~ (m - 1 \in S)
    BY <2>1, <2>3
  <2>5. at(i) <= at(m - 1)
    BY <2>3, <2>4
  <2>6. at(m) > at(m - 1)
    BY <1>2, <2>3
  <2> QED
    BY <1>3, <1>4, <2>2, <2>3, <2>5, <2>6
<1>6. at(i) \in Nat
  BY <1>3, <1>4
<1>7. i <= j => at(i) <= at(j)
  <2>1. ~ (j \in S) /\ j \in Nat
    BY <1>4, <1>5
  <2> QED
    BY <1>4, <2>1
<1> QED
  BY <1>6, <1>7 DEF at

(* A block ends before the next one begins.                                *)
LEMMA BlocksApart ==
  ASSUME TypeInv, NEW j \in 1 .. Len(Blocks), NEW k \in 1 .. Len(Blocks), j < k
  PROVE  Blocks[j].end < Blocks[k].start
<1>1. IsArchive(archive) /\ Len(Blocks) \in Nat
  BY ArchiveIs DEF IsArchive, Blocks
<1>2. j < Len(Blocks)
  BY <1>1
<1>3. /\ j + 1 \in 1 .. Len(Blocks)
      /\ Blocks[j + 1].start = Blocks[j].end + 1 + to_skip(j)
  BY <1>2, BlockGap
<1>4. /\ to_skip(j) \in Nat /\ Blocks[j].end \in Nat /\ Blocks[k].start \in Nat
      /\ Blocks[j + 1].start \in Nat
  BY <1>1, <1>3, SkipIsNat, BlockPlaces DEF Blocks
<1>5. Blocks[j].end < Blocks[j + 1].start
  BY <1>3, <1>4
<1>6. CASE j + 1 = k
  BY <1>5, <1>6
<1>7. CASE j + 1 < k
  <2>1. Blocks[j + 1].start < Blocks[k].start
    BY <1>1, <1>3, <1>7, BlocksGrow DEF Blocks
  <2> QED
    BY <1>4, <1>5, <2>1
<1> QED
  BY <1>1, <1>6, <1>7

(* A block without units leaves owed what was owed before it.              *)
LEMMA OwedTyped ==
  ASSUME TypeInv, NEW k \in 1 .. Len(Blocks), NEW i \in 1 .. Len(Blocks[k].units) + 1
  PROVE  OwedAt(Blocks[k], i).member \in Nat
<1> DEFINE N == Len(Blocks)
           owed(m) == OwedAt(Blocks[m], 1).member
           S == {m \in Nat : m \in 1 .. N /\ owed(m) \notin Nat}
<1>1. IsArchive(archive) /\ N \in Nat
  BY ArchiveIs DEF IsArchive, Blocks
<1>2. \A m \in 1 .. N : \A n \in 2 .. Len(Blocks[m].units) + 1 :
        OwedAt(Blocks[m], n).member \in Nat
  <2> SUFFICES ASSUME NEW m \in 1 .. N, NEW n \in 2 .. Len(Blocks[m].units) + 1
               PROVE  OwedAt(Blocks[m], n).member \in Nat
    OBVIOUS
  <2>1. Len(Blocks[m].units) \in Nat
    BY <1>1, BlockPlaces DEF Blocks
  <2>2. n - 1 \in 1 .. Len(Blocks[m].units) /\ n # 1
    BY <2>1
  <2>3. IsUnit(Blocks[m].units[n - 1])
    BY <2>2, UnitHas
  <2> QED
    BY <2>2, <2>3 DEF OwedAt, Behind, IsUnit
<1>3. S = {}
  <2> SUFFICES ASSUME S # {}
               PROVE  FALSE
    OBVIOUS
  <2>1. PICK m \in S : \A y \in S : m <= y
    <3>1. S \subseteq Nat
      OBVIOUS
    <3> QED
      BY <3>1, Least
  <2>2. m \in 1 .. N /\ owed(m) \notin Nat
    BY <2>1
  <2>3. CASE m = 1
    <3>1. Blocks[1].owed = [member |-> 0, left |-> 0]
      BY <1>1, <2>2, <2>3 DEF IsArchive, Blocks
    <3>2. owed(m) = 0
      BY <2>3, <3>1 DEF OwedAt
    <3> QED
      BY <2>2, <3>2
  <2>4. CASE m # 1
    <3> DEFINE p == m - 1
    <3>1. p \in 1 .. N /\ p < N /\ p + 1 = m /\ p \in Nat /\ ~ (m <= p)
      BY <1>1, <2>2, <2>4
    <3> HIDE DEF p
    <3>2. OwedAt(Blocks[p + 1], 1) = OwedAt(Blocks[p], Len(Blocks[p].units) + 1)
      BY <3>1, BlockGap
    <3>3. owed(p) \in Nat
      BY <2>1, <3>1
    <3>4. Len(Blocks[p].units) \in Nat
      BY <1>1, <3>1, BlockPlaces DEF Blocks
    <3>5. CASE Len(Blocks[p].units) = 0
      BY <2>2, <3>1, <3>2, <3>3, <3>5
    <3>6. CASE Len(Blocks[p].units) # 0
      <4>1. Len(Blocks[p].units) + 1 \in 2 .. Len(Blocks[p].units) + 1
        BY <3>4, <3>6
      <4>2. OwedAt(Blocks[p], Len(Blocks[p].units) + 1).member \in Nat
        BY <1>2, <3>1, <4>1
      <4> QED
        BY <2>2, <3>1, <3>2, <4>2
    <3> QED
      BY <3>5, <3>6
  <2> QED
    BY <2>3, <2>4
<1>4. CASE i = 1
  BY <1>3, <1>4
<1>5. CASE i # 1
  <2>1. Len(Blocks[k].units) \in Nat
    BY <1>1, BlockPlaces DEF Blocks
  <2>2. i \in 2 .. Len(Blocks[k].units) + 1
    BY <1>5, <2>1
  <2> QED
    BY <1>2, <2>2
<1> QED
  BY <1>4, <1>5

(* What is owed only ever goes on to later members: nothing comes behind   *)
(* the end.                                                                *)
LEMMA OwedOneOn ==
  ASSUME TypeInv, NEW k \in 1 .. Len(Blocks), NEW i \in 1 .. Len(Blocks[k].units),
         k < Len(Blocks) \/ i < Len(Blocks[k].units)
  PROVE  OwedAt(Blocks[k], i).member <= OwedAt(Blocks[k], i + 1).member
<1> DEFINE u == Blocks[k].units[i]
           o == OwedAt(Blocks[k], i)
<1>1. IsArchive(archive) /\ Len(Blocks) \in Nat /\ Len(Blocks[k].units) \in Nat
  BY ArchiveIs, BlockPlaces DEF IsArchive, Blocks
<1>2. u.kind # "end"
  <2>1. u.kind = "end" => k = Len(Blocks) /\ i = Len(Blocks[k].units)
    BY <1>1 DEF IsArchive, Blocks
  <2> QED
    BY <1>1, <2>1
<1>3. IsUnit(u) /\ Fits(u, o)
  BY UnitHas
<1>4. OwedAt(Blocks[k], i + 1).member = u.member
  <2>1. i + 1 # 1 /\ i + 1 - 1 = i
    BY <1>1
  <2> QED
    BY <2>1 DEF OwedAt, Behind
<1>5. o.member \in Nat
  <2>1. i \in 1 .. Len(Blocks[k].units) + 1
    BY <1>1
  <2> QED
    BY <2>1, OwedTyped
<1> HIDE DEF u, o
<1>6. u.member \in Nat
  BY <1>3 DEF IsUnit
<1>7. CASE u.kind = "header"
  <2>1. u.member > o.member
    BY <1>3, <1>7 DEF Fits
  <2> QED
    BY <1>4, <1>6, <1>5, <2>1 DEF o
<1>8. CASE u.kind = "data"
  BY <1>3, <1>4, <1>6, <1>8 DEF Fits, o
<1> QED
  BY <1>2, <1>3, <1>7, <1>8 DEF IsUnit

LEMMA OwedWithin ==
  ASSUME TypeInv, NEW k \in 1 .. Len(Blocks),
         NEW i \in 1 .. Len(Blocks[k].units) + 1, NEW j \in 1 .. Len(Blocks[k].units) + 1,
         i <= j, k < Len(Blocks) \/ j <= Len(Blocks[k].units)
  PROVE  OwedAt(Blocks[k], i).member <= OwedAt(Blocks[k], j).member
<1> DEFINE n == Len(Blocks[k].units)
           owed(m) == OwedAt(Blocks[k], m).member
           S == {m \in Nat : m \in i .. j /\ ~ (owed(i) <= owed(m))}
<1>1. n \in Nat
  BY ArchiveIs, BlockPlaces DEF Blocks
<1>2. \A m \in 1 .. n + 1 : owed(m) \in Nat
  BY OwedTyped
<1>3. \A m \in 1 .. n : k < Len(Blocks) \/ m < n => owed(m) <= owed(m + 1)
  BY OwedOneOn
<1>4. /\ i \in 1 .. n + 1 /\ j \in 1 .. n + 1 /\ i <= j
      /\ k < Len(Blocks) \/ j <= n
  OBVIOUS
<1> HIDE DEF n, owed
<1>5. S = {}
  <2> SUFFICES ASSUME S # {}
               PROVE  FALSE
    OBVIOUS
  <2>1. PICK m \in S : \A y \in S : m <= y
    <3>1. S \subseteq Nat
      OBVIOUS
    <3> QED
      BY <3>1, Least
  <2>2. m \in i .. j /\ ~ (owed(i) <= owed(m)) /\ m # i
    BY <1>1, <1>2, <1>4, <2>1
  <2>3. /\ m - 1 \in i .. j /\ m - 1 \in 1 .. n /\ m - 1 + 1 = m
        /\ m - 1 \in 1 .. n + 1 /\ m \in 1 .. n + 1 /\ m - 1 \in Nat /\ ~ (m <= m - 1)
        /\ k < Len(Blocks) \/ m - 1 < n
    BY <1>1, <1>4, <2>2
  <2>4. owed(i) <= owed(m - 1)
    BY <2>1, <2>3
  <2>5. owed(m - 1) <= owed(m)
    BY <1>3, <2>3
  <2>6. owed(i) \in Nat /\ owed(m - 1) \in Nat /\ owed(m) \in Nat
    BY <1>2, <1>4, <2>3
  <2> QED
    BY <2>2, <2>4, <2>5, <2>6
<1>6. owed(i) <= owed(j)
  <2>1. j \in Nat /\ j \in i .. j /\ ~ (j \in S)
    BY <1>1, <1>4, <1>5
  <2> QED
    BY <2>1
<1> QED
  BY <1>6 DEF owed

LEMMA OwedAcross ==
  ASSUME TypeInv, NEW j \in 1 .. Len(Blocks), NEW k \in 1 .. Len(Blocks), j <= k
  PROVE  OwedAt(Blocks[j], 1).member <= OwedAt(Blocks[k], 1).member
<1> DEFINE N == Len(Blocks)
           owed(m) == OwedAt(Blocks[m], 1).member
           S == {m \in Nat : m \in j .. N /\ ~ (owed(j) <= owed(m))}
<1>1. N \in Nat
  BY ArchiveIs DEF IsArchive, Blocks
<1>2. \A m \in 1 .. N : owed(m) \in Nat
  <2> SUFFICES ASSUME NEW m \in 1 .. N
               PROVE  owed(m) \in Nat
    OBVIOUS
  <2>1. Len(Blocks[m].units) \in Nat
    BY ArchiveIs, BlockPlaces DEF Blocks
  <2>2. 1 \in 1 .. Len(Blocks[m].units) + 1
    BY <2>1
  <2> QED
    BY <2>2, OwedTyped
<1>3. \A m \in 1 .. N : m < N => owed(m) <= owed(m + 1)
  <2> SUFFICES ASSUME NEW m \in 1 .. N, m < N
               PROVE  owed(m) <= owed(m + 1)
    OBVIOUS
  <2>1. Len(Blocks[m].units) \in Nat
    BY ArchiveIs, BlockPlaces DEF Blocks
  <2> DEFINE n == Len(Blocks[m].units) + 1
  <2>2. 1 \in 1 .. n /\ n \in 1 .. n /\ 1 <= n
    BY <2>1
  <2>3. OwedAt(Blocks[m], 1).member <= OwedAt(Blocks[m], n).member
    BY <2>2, OwedWithin
  <2>4. OwedAt(Blocks[m + 1], 1) = OwedAt(Blocks[m], n)
    BY BlockGap
  <2> QED
    BY <2>3, <2>4
<1>4. j \in 1 .. N /\ k \in 1 .. N /\ j <= k
  OBVIOUS
<1> HIDE DEF N, owed
<1>5. S = {}
  <2> SUFFICES ASSUME S # {}
               PROVE  FALSE
    OBVIOUS
  <2>1. PICK m \in S : \A y \in S : m <= y
    <3>1. S \subseteq Nat
      OBVIOUS
    <3> QED
      BY <3>1, Least
  <2>2. m \in j .. N /\ ~ (owed(j) <= owed(m)) /\ m # j
    BY <1>1, <1>2, <1>4, <2>1
  <2>3. /\ m - 1 \in j .. N /\ m - 1 \in 1 .. N /\ m - 1 + 1 = m /\ m - 1 < N
        /\ m \in 1 .. N /\ m - 1 \in Nat /\ ~ (m <= m - 1)
    BY <1>1, <1>4, <2>2
  <2>4. owed(j) <= owed(m - 1)
    BY <2>1, <2>3
  <2>5. owed(m - 1) <= owed(m)
    BY <1>3, <2>3
  <2>6. owed(j) \in Nat /\ owed(m - 1) \in Nat /\ owed(m) \in Nat
    BY <1>2, <1>4, <2>3
  <2> QED
    BY <2>2, <2>4, <2>5, <2>6
<1>6. owed(j) <= owed(k)
  <2>1. k \in Nat /\ k \in j .. N /\ ~ (k \in S)
    BY <1>1, <1>4, <1>5
  <2> QED
    BY <2>1
<1> QED
  BY <1>6 DEF owed

(* So the data before a header are of members before its own.              *)
LEMMA DataBeforeHeader ==
  ASSUME TypeInv, NEW x \in DataAt,
         NEW k \in 1 .. Len(Blocks), NEW n \in 1 .. Len(Blocks[k].units),
         Blocks[k].units[n].kind = "header",
         x[1] < k \/ (x[1] = k /\ x[2] <= n)
  PROVE  UnitOf(x).member < Blocks[k].units[n].member
<1> DEFINE j == x[1]
           i == x[2]
<1>1. /\ j \in 1 .. Len(Blocks) /\ i \in 1 .. Len(Blocks[j].units)
      /\ UnitOf(x).kind = "data" /\ UnitOf(x) = Blocks[j].units[i]
      /\ Len(Blocks[j].units) \in Nat /\ Len(Blocks[k].units) \in Nat
      /\ Len(Blocks) \in Nat
  BY DataIs, ArchiveIs, BlockPlaces DEF IsArchive, Blocks, UnitOf
<1>2. UnitOf(x).member = OwedAt(Blocks[j], i).member
  BY <1>1, UnitHas DEF Fits
<1>3. Blocks[k].units[n].member > OwedAt(Blocks[k], n).member
  BY UnitHas DEF Fits
<1>4. /\ i \in 1 .. Len(Blocks[j].units) + 1 /\ n \in 1 .. Len(Blocks[k].units) + 1
      /\ 1 \in 1 .. Len(Blocks[k].units) + 1 /\ 1 <= n /\ n <= Len(Blocks[k].units)
  BY <1>1
<1>5. /\ OwedAt(Blocks[j], i).member \in Nat /\ OwedAt(Blocks[k], n).member \in Nat
      /\ Blocks[k].units[n].member \in Nat
  <2>1. OwedAt(Blocks[j], i).member \in Nat
    BY <1>1, <1>4, OwedTyped
  <2>2. OwedAt(Blocks[k], n).member \in Nat
    BY <1>4, OwedTyped
  <2>3. Blocks[k].units[n].member \in Nat
    BY UnitHas DEF IsUnit
  <2> QED
    BY <2>1, <2>2, <2>3
<1>6. OwedAt(Blocks[j], i).member <= OwedAt(Blocks[k], n).member
  <2>1. CASE j < k
    <3> DEFINE m == Len(Blocks[j].units) + 1
    <3>1. m \in 1 .. m /\ i \in 1 .. m /\ i <= m /\ j < Len(Blocks) /\ j + 1 <= k
      BY <1>1, <2>1
    <3>2. OwedAt(Blocks[j], i).member <= OwedAt(Blocks[j], m).member
      BY <1>1, <3>1, OwedWithin
    <3>3. OwedAt(Blocks[j + 1], 1) = OwedAt(Blocks[j], m) /\ j + 1 \in 1 .. Len(Blocks)
      BY <1>1, <3>1, BlockGap
    <3>4. OwedAt(Blocks[j + 1], 1).member <= OwedAt(Blocks[k], 1).member
      BY <3>1, <3>3, OwedAcross
    <3>5. OwedAt(Blocks[k], 1).member <= OwedAt(Blocks[k], n).member
      BY <1>4, OwedWithin
    <3>6. OwedAt(Blocks[j], m).member \in Nat /\ OwedAt(Blocks[k], 1).member \in Nat
      BY <1>1, <1>4, <3>1, OwedTyped
    <3> HIDE DEF j, i, m
    <3> QED
      BY <1>5, <3>2, <3>3, <3>4, <3>5, <3>6
  <2>2. CASE j = k /\ i <= n
    BY <1>4, <2>2, OwedWithin
  <2> QED
    BY <2>1, <2>2
<1> HIDE DEF j, i
<1> QED
  BY <1>2, <1>3, <1>5, <1>6
-----------------------------------------------------------------------------
(* The unit a run deals with next, the only one it can lose.               *)
Cur == <<block, next>>

(* What a run that goes on has not lost: nothing that it has passed, but   *)
(* for what its start, or an earlier one, seeks over; and it never cuts    *)
(* beyond the unit it has read.                                            *)
LittleLost ==
  /\ base <= UnitAt(Blocks[block], unit)
  /\ base + bytes_processed_since_last_strip <= place
  /\ left > 0 => /\ member = OwedAt(Blocks[block], next).member
                 /\ left = OwedAt(Blocks[block], next).left
  /\ Cardinality(Gone \ {Cur}) <= runs - 1
  /\ \A x \in DataAt : Past(x) /\ base <= At(x) /\ ~PassedOver(x) => Piece(x) \in written

LossInv ==
  /\ IsFiniteSet(Gone) /\ Cardinality(Gone) <= runs
  /\ pc = "running" => LittleLost

(* The archive itself does not change, and nor does what is said of it.    *)
LEMMA ArchiveStays ==
  ASSUME archive' = archive
  PROVE  /\ Blocks' = Blocks /\ DataAt' = DataAt
         /\ \A x : /\ Piece(x)' = Piece(x) /\ At(x)' = At(x) /\ UnitOf(x)' = UnitOf(x)
                   /\ PassedOver(x)' <=> PassedOver(x)
<1>1. Blocks' = Blocks
  BY DEF Blocks
<1>2. DataAt' = DataAt
  BY <1>1 DEF DataAt, Places
<1>3. \A x : Piece(x)' = Piece(x) /\ At(x)' = At(x) /\ UnitOf(x)' = UnitOf(x)
  BY <1>1 DEF Piece, At, UnitOf
<1>4. \A x : PassedOver(x)' <=> PassedOver(x)
  BY <1>1 DEF PassedOver
<1> QED
  BY <1>1, <1>2, <1>3, <1>4

(* What is gone grows by the unit dealt with next at most, and not while   *)
(* the next one takes its place.                                           *)
LEMMA LossCount ==
  ASSUME NEW G, NEW H, NEW c, NEW d, NEW n \in Nat,
         IsFiniteSet(G), Cardinality(G \ {c}) <= n - 1,
         H \subseteq G \cup {c}, H \ {d} \subseteq G \ {c}
  PROVE  IsFiniteSet(H) /\ Cardinality(H) <= n /\ Cardinality(H \ {d}) <= n - 1
<1>1. IsFiniteSet(G \cup {c}) /\ IsFiniteSet(G \ {c})
  BY FS_AddElement, FS_RemoveElement
<1>2. IsFiniteSet(H) /\ IsFiniteSet(H \ {d})
  BY <1>1, FS_Subset
<1>3. Cardinality(H \ {d}) <= Cardinality(G \ {c})
  BY <1>1, FS_Subset
<1>4. /\ Cardinality(G \ {c}) \in Nat /\ Cardinality(H) \in Nat
      /\ Cardinality(H \ {d}) \in Nat
  BY <1>1, <1>2, FS_CardinalityType
<1>5. Cardinality(H) <= Cardinality(H \ {d}) + 1
  <2>1. Cardinality(H \ {d}) = IF d \in H THEN Cardinality(H) - 1 ELSE Cardinality(H)
    BY <1>2, FS_RemoveElement
  <2> QED
    BY <1>4, <2>1
<1> QED
  BY <1>2, <1>3, <1>4, <1>5

(* A set that does not grow, for the steps that end a run.                 *)
LEMMA LossKept ==
  ASSUME LossInv, TypeInv, UNCHANGED <<archive, base, written>>,
         runs' \in Nat, runs <= runs', pc' # "running"
  PROVE  LossInv'
<1>1. Gone' = Gone
  BY ArchiveStays DEF Gone, At
<1>2. IsFiniteSet(Gone) /\ Cardinality(Gone) <= runs /\ Cardinality(Gone) \in Nat
  BY FS_CardinalityType DEF LossInv
<1>3. runs \in Nat
  BY ArchivesAssumption DEF TypeInv, TypeOK
<1>4. Cardinality(Gone) <= runs'
  BY <1>2, <1>3
<1> QED
  BY <1>1, <1>2, <1>4 DEF LossInv

(* A start finds what the runs before it lost, and takes twelve bytes for  *)
(* the stream's header wherever it stands.                                 *)
LEMMA LossStart ==
  ASSUME TypeInv, LossInv, Start, pc' = "running", runs' \in Nat
  PROVE  LossInv'
<1>1. /\ runs' = runs + 1 /\ buf' = <<>> /\ left' = 0
      /\ UNCHANGED <<archive, base, written>>
      /\ SetupNextBlock(base + StreamHeaderSize, StreamHeaderSize)
  BY DEF Start, Started, args, disk
<1>2. base \in Nat /\ runs \in Nat /\ Len(Blocks) \in Nat
  BY ArchivesAssumption, ArchiveIs DEF TypeInv, TypeOK, IsArchive, Blocks
<1>3. /\ block' \in 1 .. Len(Blocks) /\ unit' = 1
      /\ Blocks[block'].start = base + 12 /\ place' = base + 24
      /\ bytes_processed_since_last_strip' = 24
  <2>1. base + StreamHeaderSize \in Nat /\ StreamHeaderSize \in Nat
    BY <1>2 DEF StreamHeaderSize
  <2>2. /\ block' \in 1 .. Len(Blocks) /\ unit' = 1
        /\ Blocks[block'].start = base + StreamHeaderSize
        /\ place' = base + StreamHeaderSize + HeaderSize
        /\ bytes_processed_since_last_strip' = StreamHeaderSize + HeaderSize
    BY <1>1, <2>1, SetUp
  <2> QED
    BY <1>2, <2>2 DEF StreamHeaderSize, HeaderSize
<1>4. /\ Blocks' = Blocks /\ DataAt' = DataAt
      /\ \A x : Piece(x)' = Piece(x) /\ At(x)' = At(x) /\ (PassedOver(x)' <=> PassedOver(x))
  BY <1>1, ArchiveStays
<1>5. Gone' = Gone
  BY <1>1, <1>4 DEF Gone, At
<1>6. /\ IsFiniteSet(Gone) /\ Cardinality(Gone) <= runs /\ Cardinality(Gone) \in Nat
      /\ Cardinality(Gone \ {Cur'}) <= runs' - 1
  <2>1. IsFiniteSet(Gone) /\ Cardinality(Gone) <= runs /\ Cardinality(Gone) \in Nat
    BY FS_CardinalityType DEF LossInv
  <2>2. IsFiniteSet(Gone \ {Cur'}) /\ Cardinality(Gone \ {Cur'}) <= Cardinality(Gone)
    BY <2>1, FS_Subset
  <2>3. Cardinality(Gone \ {Cur'}) \in Nat
    BY <2>2, FS_CardinalityType
  <2> QED
    BY <1>1, <1>2, <2>1, <2>2, <2>3
<1>7. UnitAt(Blocks[block'], 1) = base + 24
  <2>1. IsBlock(Blocks[block']) /\ Len(Blocks[block'].units) \in Nat
    BY <1>3, ArchiveIs, BlockPlaces DEF IsArchive, Blocks
  <2>2. 1 \in 1 .. Len(Blocks[block'].units) + 1
    BY <2>1
  <2>3. UnitAt(Blocks[block'], 1) = Blocks[block'].start + 12
    BY <2>1, <2>2 DEF IsBlock, HeaderSize
  <2> QED
    BY <1>2, <1>3, <2>3
<1>8. ASSUME NEW x \in DataAt, Past(x)', base <= At(x)
      PROVE  PassedOver(x)
  <2>1. /\ x[1] \in 1 .. Len(Blocks) /\ x[2] \in 1 .. Len(Blocks[x[1]].units)
        /\ Len(Blocks[x[1]].units) \in Nat
    BY DataIs
  <2>2. x[1] < block'
    <3>1. next' = 1
      BY <1>1, <1>3 DEF next
    <3>2. x[1] < block' \/ (x[1] = block' /\ x[2] < 1)
      BY <1>8, <3>1 DEF Past
    <3> QED
      BY <2>1, <3>2
  <2>3. Blocks[x[1]].end < Blocks[block'].start
    BY <1>3, <2>1, <2>2, BlocksApart
  <2>4. At(x) \in Nat /\ At(x) <= Blocks[x[1]].end /\ Blocks[x[1]].end \in Nat
    <3> DEFINE n == Len(Blocks[x[1]].units) + 1
    <3>1. x[2] \in 1 .. n /\ n \in 1 .. n /\ x[2] <= n
      BY <2>1
    <3>2. UnitAt(Blocks[x[1]], n) = Blocks[x[1]].end /\ Blocks[x[1]].end \in Nat
      BY <2>1, ArchiveIs, BlockPlaces DEF Blocks
    <3>3. /\ UnitAt(Blocks[x[1]], x[2]) \in Nat
          /\ UnitAt(Blocks[x[1]], x[2]) <= UnitAt(Blocks[x[1]], n)
      BY <2>1, <3>1, PlacesGrow
    <3> QED
      BY <3>2, <3>3 DEF At
  <2>5. At(x) \in base .. base + 11
    BY <1>2, <1>3, <1>8, <2>3, <2>4
  <2>6. Blocks[block'].start - 12 = base /\ Blocks[block'].start - 1 = base + 11
    BY <1>2, <1>3
  <2>7. At(x) \in Blocks[block'].start - 12 .. Blocks[block'].start - 1
    BY <2>5, <2>6
  <2> QED
    BY <1>3, <2>7 DEF PassedOver, At, StreamHeaderSize
<1>9. LittleLost'
  <2>1. base' <= UnitAt(Blocks'[block'], unit')
    BY <1>1, <1>2, <1>3, <1>4, <1>7
  <2>2. base' + bytes_processed_since_last_strip' <= place'
    BY <1>1, <1>2, <1>3
  <2>3. ~ (left' > 0)
    BY <1>1
  <2>4. Cardinality(Gone' \ {Cur'}) <= runs' - 1
    BY <1>5, <1>6
  <2>5. \A x \in DataAt' : ~ (Past(x)' /\ base' <= At(x)' /\ ~PassedOver(x)')
    BY <1>1, <1>4, <1>8
  <2> QED
    BY <2>1, <2>2, <2>3, <2>4, <2>5 DEF LittleLost
<1>10. IsFiniteSet(Gone') /\ Cardinality(Gone') <= runs'
  BY <1>1, <1>2, <1>5, <1>6
<1> QED
  BY <1>9, <1>10 DEF LossInv

(* What comes behind a unit begins where it ends, or later.                *)
LEMMA Beyond ==
  ASSUME TypeInv, NEW x \in DataAt,
         NEW k \in 1 .. Len(Blocks), NEW i \in 1 .. Len(Blocks[k].units),
         k < x[1] \/ (k = x[1] /\ i < x[2])
  PROVE  UnitAt(Blocks[k], i + 1) <= At(x)
<1>1. /\ x[1] \in 1 .. Len(Blocks) /\ x[2] \in 1 .. Len(Blocks[x[1]].units)
      /\ Len(Blocks[x[1]].units) \in Nat
  BY DataIs
<1>2. /\ At(x) \in Nat /\ UnitAt(Blocks[k], i + 1) \in Nat
      /\ Len(Blocks[k].units) \in Nat
  <2>1. At(x) \in Nat
    BY <1>1, OneUnitOn DEF At
  <2>2. UnitAt(Blocks[k], i + 1) \in Nat /\ Len(Blocks[k].units) \in Nat
    <3>1. Len(Blocks[k].units) \in Nat
      BY ArchiveIs, BlockPlaces DEF Blocks
    <3>2. i + 1 \in 1 .. Len(Blocks[k].units) + 1
      BY <3>1
    <3> QED
      BY <3>1, <3>2, PlacesGrow
  <2> QED
    BY <2>1, <2>2
<1>3. CASE k < x[1]
  <2>1. Blocks[k].end < Blocks[x[1]].start
    BY <1>1, <1>3, BlocksApart
  <2>2. At(x) >= Blocks[x[1]].start /\ Blocks[x[1]].start \in Nat
    <3> DEFINE n == x[2]
    <3>1. /\ 1 \in 1 .. Len(Blocks[x[1]].units) + 1 /\ n \in 1 .. Len(Blocks[x[1]].units) + 1
          /\ 1 <= n /\ 1 \in 1 .. Len(Blocks[x[1]].units)
      BY <1>1
    <3>2. /\ UnitAt(Blocks[x[1]], 1) \in Nat
          /\ UnitAt(Blocks[x[1]], 1) <= UnitAt(Blocks[x[1]], n)
      BY <1>1, <3>1, PlacesGrow
    <3>3. /\ UnitAt(Blocks[x[1]], 1) = Blocks[x[1]].start + 12
          /\ Blocks[x[1]].start \in Nat
      BY <1>1, <3>1, OneUnitOn DEF HeaderSize
    <3> QED
      BY <1>2, <3>2, <3>3 DEF At
  <2>3. UnitAt(Blocks[k], i + 1) <= Blocks[k].end /\ Blocks[k].end \in Nat
    <3> DEFINE n == Len(Blocks[k].units) + 1
    <3>1. i + 1 \in 1 .. n /\ n \in 1 .. n /\ i + 1 <= n
      BY <1>2
    <3>2. UnitAt(Blocks[k], n) = Blocks[k].end /\ Blocks[k].end \in Nat
      BY ArchiveIs, BlockPlaces DEF Blocks
    <3>3. UnitAt(Blocks[k], i + 1) <= UnitAt(Blocks[k], n)
      BY <3>1, PlacesGrow
    <3> QED
      BY <3>2, <3>3
  <2> QED
    BY <1>2, <2>1, <2>2, <2>3
<1>4. CASE k = x[1] /\ i < x[2]
  <2>1. /\ i + 1 \in 1 .. Len(Blocks[k].units) + 1
        /\ x[2] \in 1 .. Len(Blocks[k].units) + 1 /\ i + 1 <= x[2]
    BY <1>1, <1>4
  <2>2. UnitAt(Blocks[k], i + 1) <= UnitAt(Blocks[k], x[2])
    BY <2>1, PlacesGrow
  <2> QED
    BY <1>4, <2>2 DEF At
<1> QED
  BY <1>3, <1>4

(* The unit read is the only one that a cut can take in front of.          *)
LEMMA LossFetch ==
  ASSUME TypeInv, LossInv, Fetch
  PROVE  LossInv'
<1> DEFINE processed == bytes_processed_since_last_strip + Units[unit].size
<1>1. /\ pc = "running" /\ pc' = "running" /\ buf = <<>> /\ buf' = <<Units[unit]>>
      /\ unit <= Len(Units) /\ unit' = unit + 1
      /\ place = UnitAt(Blocks[block], unit)
      /\ UNCHANGED <<archive, written, runs, block, member, left>>
  BY DEF Fetch, args
<1>2. LittleLost /\ IsFiniteSet(Gone)
  BY <1>1 DEF LossInv
<1>3. /\ block \in 1 .. Len(Blocks) /\ Len(Units) \in Nat /\ unit \in 1 .. Len(Units)
      /\ Len(Blocks) \in Nat /\ runs \in Nat /\ base \in Nat
      /\ bytes_processed_since_last_strip \in Nat
  <2>1. block \in 1 .. Len(Blocks) /\ unit \in 1 .. Len(Units) + 1
    BY <1>1 DEF TypeInv, Reading
  <2>2. Len(Units) \in Nat /\ Len(Blocks) \in Nat
    BY <2>1, ArchiveIs, BlockPlaces DEF IsArchive, Blocks, Units
  <2>3. /\ runs \in Nat /\ base \in Nat /\ bytes_processed_since_last_strip \in Nat
    BY ArchivesAssumption DEF TypeInv, TypeOK
  <2> QED
    BY <1>1, <2>1, <2>2, <2>3
<1>4. /\ place \in Nat /\ Units[unit].size \in Nat
      /\ UnitAt(Blocks[block], unit + 1) = place + Units[unit].size
      /\ UnitAt(Blocks[block], unit + 1) > place
  BY <1>1, <1>3, OneUnitOn DEF Units
<1>5. /\ base' \in Nat /\ base <= base' /\ base' <= UnitAt(Blocks[block], unit + 1)
      /\ base' + bytes_processed_since_last_strip' <= place'
  <2>1. \/ /\ base' = base + processed /\ place' = base'
           /\ bytes_processed_since_last_strip' = 0
        \/ /\ place' = place + Units[unit].size /\ base' = base
           /\ bytes_processed_since_last_strip' = processed
    BY DEF Fetch, to_strip
  <2>2. base <= place /\ base + bytes_processed_since_last_strip <= place
    BY <1>1, <1>2, <1>3, <1>4 DEF LittleLost
  <2> DEFINE size == Units[unit].size
  <2>3. processed = bytes_processed_since_last_strip + size /\ size \in Nat
    BY <1>4
  <2>4. UnitAt(Blocks[block], unit + 1) = place + size
    BY <1>4
  <2> DEFINE after == UnitAt(Blocks[block], unit + 1)
             counted == bytes_processed_since_last_strip
  <2>5. /\ base \in Nat /\ counted \in Nat /\ place \in Nat /\ size \in Nat
        /\ after = place + size /\ processed = counted + size /\ base + counted <= place
    BY <1>3, <1>4, <2>2, <2>3, <2>4
  <2>6. \/ base' = base + processed /\ place' = base' /\ counted' = 0
        \/ place' = place + size /\ base' = base /\ counted' = processed
    BY <2>1
  <2> HIDE DEF size, processed, after, counted
  <2>7. CASE base' = base + processed /\ place' = base' /\ counted' = 0
    <3>1. base' \in Nat /\ base <= base' /\ base' <= after /\ base' + counted' <= place'
      BY <2>5, <2>7
    <3> QED
      BY <3>1 DEF after, counted
  <2>8. CASE place' = place + size /\ base' = base /\ counted' = processed
    <3>1. base' \in Nat /\ base <= base' /\ base' <= after /\ base' + counted' <= place'
      BY <2>5, <2>8
    <3> QED
      BY <3>1 DEF after, counted
  <2> QED
    BY <2>6, <2>7, <2>8
<1>6. /\ Blocks' = Blocks /\ DataAt' = DataAt
      /\ \A x : Piece(x)' = Piece(x) /\ At(x)' = At(x) /\ (PassedOver(x)' <=> PassedOver(x))
  BY <1>1, ArchiveStays
<1>7. next = unit /\ next' = unit /\ Cur' = Cur
  <2>1. unit' - 1 = unit /\ buf' # <<>>
    BY <1>1, <1>3
  <2> QED
    BY <1>1, <2>1 DEF next, Cur
<1>8. ASSUME NEW x \in DataAt, At(x) < base', ~PassedOver(x), Piece(x) \notin written,
             x # Cur
      PROVE  At(x) < base
  <2>1. /\ x[1] \in 1 .. Len(Blocks) /\ x[2] \in 1 .. Len(Blocks[x[1]].units)
        /\ x = <<x[1], x[2]>> /\ Len(Blocks[x[1]].units) \in Nat
    BY DataIs
  <2>2. At(x) \in Nat
    BY <2>1, OneUnitOn DEF At
  <2>3. ~ (block < x[1] \/ (block = x[1] /\ unit < x[2]))
    <3> SUFFICES ASSUME block < x[1] \/ (block = x[1] /\ unit < x[2])
                 PROVE  FALSE
      OBVIOUS
    <3>1. UnitAt(Blocks[block], unit + 1) <= At(x)
      BY <1>3, Beyond DEF Units
    <3> QED
      BY <1>4, <1>5, <1>8, <2>2, <3>1
  <2>5. ~ (x[1] = block /\ x[2] = unit)
    BY <1>7, <1>8, <2>1 DEF Cur
  <2>6. Past(x)
    BY <1>3, <1>7, <2>1, <2>3, <2>5 DEF Past
  <2>7. ~ (base <= At(x))
    BY <1>2, <1>8, <2>6 DEF LittleLost
  <2> QED
    BY <1>3, <2>2, <2>7
<1>9. Gone' \subseteq Gone \cup {Cur}
  <2> SUFFICES ASSUME NEW x \in Gone', x # Cur
               PROVE  x \in Gone
    OBVIOUS
  <2>1. x \in DataAt /\ At(x) < base' /\ Piece(x) \notin written /\ ~PassedOver(x)
    <3>1. /\ x \in DataAt' /\ At(x)' < base' /\ Piece(x)' \notin written' /\ ~PassedOver(x)'
      BY DEF Gone, At
    <3> QED
      BY <1>1, <1>6, <3>1
  <2>2. At(x) < base
    BY <1>8, <2>1
  <2> QED
    BY <2>1, <2>2 DEF Gone, At
<1>10. /\ IsFiniteSet(Gone') /\ Cardinality(Gone') <= runs
       /\ Cardinality(Gone' \ {Cur'}) <= runs - 1
  <2>1. Gone' \ {Cur'} \subseteq Gone \ {Cur}
    BY <1>7, <1>9
  <2>2. Cardinality(Gone \ {Cur}) <= runs - 1
    BY <1>2 DEF LittleLost
  <2> QED
    BY <1>2, <1>3, <1>9, <2>1, <2>2, LossCount
<1>11. LittleLost'
  <2>1. base' <= UnitAt(Blocks'[block'], unit')
    BY <1>1, <1>5, <1>6
  <2>2. left' > 0 => /\ member' = OwedAt(Blocks'[block'], next').member
                     /\ left' = OwedAt(Blocks'[block'], next').left
    BY <1>1, <1>2, <1>6, <1>7 DEF LittleLost
  <2>3. ASSUME NEW x \in DataAt, Past(x)', base' <= At(x), ~PassedOver(x)
        PROVE  Piece(x) \in written
    <3>1. Past(x)
      BY <1>1, <1>7, <2>3 DEF Past
    <3>2. At(x) \in Nat
      BY DataIs, OneUnitOn DEF At
    <3>3. base <= At(x)
      BY <1>3, <1>5, <2>3, <3>2
    <3> QED
      BY <1>2, <2>3, <3>1, <3>3 DEF LittleLost
  <2>4. \A x \in DataAt' : Past(x)' /\ base' <= At(x)' /\ ~PassedOver(x)' => Piece(x)' \in written'
    BY <1>1, <1>6, <2>3
  <2>5. /\ base' + bytes_processed_since_last_strip' <= place'
        /\ Cardinality(Gone' \ {Cur'}) <= runs' - 1
    BY <1>1, <1>5, <1>10
  <2> QED
    BY <2>1, <2>2, <2>4, <2>5 DEF LittleLost
<1> QED
  BY <1>1, <1>10, <1>11 DEF LossInv

(* The next block is the one whose header the handle is at; everything     *)
(* before it is behind the run that has come to a block's end.             *)
LEMMA LossEndBlock ==
  ASSUME TypeInv, LossInv, EndBlock, pc' = "running"
  PROVE  LossInv'
<1>1. /\ pc = "running" /\ buf = <<>> /\ buf' = <<>> /\ unit > Len(Units)
      /\ place = UnitAt(Blocks[block], unit)
      /\ UNCHANGED <<archive, base, written, runs, member, left>>
  BY DEF EndBlock, args, disk, untar
<1>2. LittleLost /\ IsFiniteSet(Gone)
  BY <1>1 DEF LossInv
<1>3. /\ block \in 1 .. Len(Blocks) /\ unit = Len(Units) + 1 /\ Len(Units) \in Nat
      /\ Len(Blocks) \in Nat /\ runs \in Nat /\ base \in Nat
      /\ bytes_processed_since_last_strip \in Nat /\ current_record_idx \in Nat
      /\ place = Blocks[block].end /\ Blocks[block].end \in Nat
  <2>1. block \in 1 .. Len(Blocks) /\ unit \in 1 .. Len(Units) + 1
    BY <1>1 DEF TypeInv, Reading
  <2>2. /\ Len(Units) \in Nat /\ Len(Blocks) \in Nat /\ Blocks[block].end \in Nat
        /\ UnitAt(Blocks[block], Len(Units) + 1) = Blocks[block].end
    BY <2>1, ArchiveIs, BlockPlaces DEF IsArchive, Blocks, Units
  <2>3. /\ runs \in Nat /\ base \in Nat /\ bytes_processed_since_last_strip \in Nat
    BY ArchivesAssumption DEF TypeInv, TypeOK
  <2>4. current_record_idx \in Nat
    BY <2>2 DEF TypeInv, TypeOK
  <2>5. unit = Len(Units) + 1
    BY <1>1, <2>1, <2>2
  <2> QED
    BY <1>1, <2>1, <2>2, <2>3, <2>4, <2>5
<1> DEFINE skip == to_skip(current_record_idx + 1)
<1>4. /\ current_record_idx + 1 < Len(Blocks)
      /\ SetupNextBlock(Blocks[block].end + 1 + skip, bytes_processed_since_last_strip + skip)
  BY <1>1, <1>3 DEF EndBlock
<1>5. skip \in Nat /\ current_record_idx + 1 \in 1 .. Len(Blocks)
  BY <1>3, <1>4, SkipIsNat
<1>6. /\ block' \in 1 .. Len(Blocks) /\ unit' = 1
      /\ Blocks[block'].start = Blocks[block].end + 1 + skip
      /\ place' = Blocks[block].end + 1 + skip + HeaderSize
      /\ bytes_processed_since_last_strip'
           = bytes_processed_since_last_strip + skip + HeaderSize
  <2> DEFINE at == Blocks[block].end + 1 + skip
             counted == bytes_processed_since_last_strip + skip
  <2> HIDE DEF skip
  <2>1. at \in Nat /\ counted \in Nat
    <3>1. /\ Blocks[block].end \in Nat /\ bytes_processed_since_last_strip \in Nat
          /\ skip \in Nat
      BY <1>3, <1>5
    <3> QED
      BY ONLY <3>1
  <2>2. SetupNextBlock(at, counted)
    BY <1>4
  <2> HIDE DEF at, counted
  <2>3. /\ block' \in 1 .. Len(Blocks) /\ unit' = 1
        /\ Blocks[block'].start = at /\ place' = at + HeaderSize
        /\ bytes_processed_since_last_strip' = counted + HeaderSize
    BY <2>1, <2>2, SetUp
  <2> QED
    BY <2>3 DEF at, counted
<1>7. /\ block' = block + 1
      /\ OwedAt(Blocks[block'], 1) = OwedAt(Blocks[block], Len(Blocks[block].units) + 1)
  BY <1>3, <1>5, <1>6, NextBlock
<1>8. UnitAt(Blocks[block'], 1) = Blocks[block].end + 1 + skip + HeaderSize
  <2>1. IsBlock(Blocks[block']) /\ Len(Blocks[block'].units) \in Nat
    BY <1>6, ArchiveIs, BlockPlaces DEF IsArchive, Blocks
  <2>2. 1 \in 1 .. Len(Blocks[block'].units) + 1
    BY <2>1
  <2>3. UnitAt(Blocks[block'], 1) = Blocks[block'].start + HeaderSize
    BY <2>1, <2>2 DEF IsBlock
  <2> QED
    BY <1>6, <2>3
<1>9. /\ Blocks' = Blocks /\ DataAt' = DataAt
      /\ \A x : Piece(x)' = Piece(x) /\ At(x)' = At(x) /\ (PassedOver(x)' <=> PassedOver(x))
  BY <1>1, ArchiveStays
<1>10. Gone' = Gone
  BY <1>1, <1>9 DEF Gone, At
<1>11. ~ (Cur \in Gone)
  <2> SUFFICES ASSUME Cur \in DataAt
               PROVE  FALSE
    BY DEF Gone
  <2>1. Cur[1] = block /\ Cur[2] = unit
    BY <1>1 DEF Cur, next
  <2>2. unit \in 1 .. Len(Units)
    BY <2>1, DataIs DEF Units
  <2> QED
    BY <1>1, <1>3, <2>2
<1>12. /\ IsFiniteSet(Gone') /\ Cardinality(Gone') <= runs
       /\ Cardinality(Gone' \ {Cur'}) <= runs - 1
  <2>1. Gone' \subseteq Gone \cup {Cur} /\ Gone' \ {Cur'} \subseteq Gone \ {Cur}
    BY <1>10, <1>11
  <2>2. Cardinality(Gone \ {Cur}) <= runs - 1
    BY <1>2 DEF LittleLost
  <2> QED
    BY <1>2, <1>3, <2>1, <2>2, LossCount
<1>13. \A x \in DataAt : Past(x)' => Past(x)
  <2> SUFFICES ASSUME NEW x \in DataAt, Past(x)'
               PROVE  Past(x)
    OBVIOUS
  <2>1. /\ x[1] \in 1 .. Len(Blocks) /\ x[2] \in 1 .. Len(Blocks[x[1]].units)
        /\ Len(Blocks[x[1]].units) \in Nat
    BY DataIs
  <2>2. x[1] < block + 1 \/ (x[1] = block + 1 /\ x[2] < 1)
    <3>1. next' = 1
      BY <1>1, <1>6 DEF next
    <3> QED
      BY <1>7, <3>1 DEF Past
  <2>3. x[1] < block \/ x[1] = block
    BY <1>3, <2>1, <2>2
  <2>4. x[1] = block => x[2] < next
    BY <1>1, <1>3, <2>1 DEF Units, next
  <2> QED
    BY <2>3, <2>4 DEF Past
<1>14. LittleLost'
  <2> DEFINE bytes == bytes_processed_since_last_strip
             end == Blocks[block].end
  <2>1. /\ base <= end /\ base + bytes <= end
    BY <1>1, <1>2, <1>3 DEF LittleLost
  <2>2. /\ base \in Nat /\ bytes \in Nat /\ end \in Nat /\ skip \in Nat
    BY <1>3, <1>5
  <2>3. /\ place' = end + 1 + skip + 12 /\ bytes' = bytes + skip + 12
        /\ UnitAt(Blocks[block'], 1) = end + 1 + skip + 12
    BY <1>6, <1>8 DEF HeaderSize
  <2> HIDE DEF bytes, end, skip
  <2>4. base <= UnitAt(Blocks[block'], 1) /\ base + bytes' <= place'
    BY <2>1, <2>2, <2>3
  <2>5. /\ base' <= UnitAt(Blocks'[block'], unit')
        /\ base' + bytes_processed_since_last_strip' <= place'
    BY <1>1, <1>6, <1>9, <2>4 DEF bytes
  <2>6. left' > 0 => /\ member' = OwedAt(Blocks'[block'], next').member
                     /\ left' = OwedAt(Blocks'[block'], next').left
    <3>1. OwedAt(Blocks[block'], 1) = OwedAt(Blocks[block], Len(Units) + 1)
      BY <1>7 DEF Units
    <3>2. next = Len(Units) + 1 /\ next' = 1
      BY <1>1, <1>3, <1>6 DEF next
    <3>3. left > 0 => /\ member = OwedAt(Blocks[block], next).member
                      /\ left = OwedAt(Blocks[block], next).left
      BY <1>2 DEF LittleLost
    <3> QED
      BY <1>1, <1>9, <3>1, <3>2, <3>3
  <2>7. \A x \in DataAt' : Past(x)' /\ base' <= At(x)' /\ ~PassedOver(x)' => Piece(x)' \in written'
    BY <1>1, <1>2, <1>9, <1>13 DEF LittleLost
  <2>8. Cardinality(Gone' \ {Cur'}) <= runs' - 1
    BY <1>1, <1>12
  <2> QED
    BY <2>5, <2>6, <2>7, <2>8 DEF LittleLost
<1> QED
  BY <1>1, <1>12, <1>14 DEF LossInv

(* What untar deals with is the unit at the run's own place.               *)
LEMMA Dealt ==
  ASSUME TypeInv, pc = "running", buf # <<>>, buf' = <<>>, unit' = unit, block' = block
  PROVE  /\ UnitOf(Cur) = buf[1] /\ next' = unit /\ next = unit - 1
         /\ OwedAt(Blocks[block], unit) = Behind(buf[1])
         /\ Fits(buf[1], OwedAt(Blocks[block], next))
         /\ \A x \in DataAt : Past(x)' => Past(x) \/ x = Cur
<1>1. /\ block \in 1 .. Len(Blocks) /\ unit - 1 \in 1 .. Len(Units) /\ unit \in Nat
      /\ buf[1] = Units[unit - 1] /\ next = unit - 1
      /\ OwedAt(Blocks[block], unit) = Behind(buf[1])
      /\ Fits(buf[1], OwedAt(Blocks[block], next))
  BY InBuf
<1>2. UnitOf(Cur) = buf[1]
  BY <1>1 DEF UnitOf, Units, Cur
<1>3. next' = unit
  BY DEF next
<1>4. ASSUME NEW x \in DataAt, Past(x)', x # Cur
      PROVE  Past(x)
  <2>1. /\ x[1] \in 1 .. Len(Blocks) /\ x[2] \in 1 .. Len(Blocks[x[1]].units)
        /\ x = <<x[1], x[2]>> /\ Len(Blocks[x[1]].units) \in Nat
    BY DataIs
  <2>2. x[1] < block \/ (x[1] = block /\ x[2] < unit)
    BY <1>3, <1>4 DEF Past
  <2>3. ~ (x[1] = block /\ x[2] = unit - 1)
    BY <1>1, <1>4, <2>1 DEF Cur
  <2> QED
    BY <1>1, <2>1, <2>2, <2>3 DEF Past
<1> QED
  BY <1>1, <1>2, <1>3, <1>4

(* A header makes room for data behind it only.                            *)
LEMMA LossHeader ==
  ASSUME TypeInv, LossInv, Header
  PROVE  LossInv'
<1>1. /\ pc = "running" /\ pc' = "running" /\ buf # <<>> /\ buf[1].kind = "header"
      /\ member' = buf[1].member /\ left' = buf[1].count
      /\ written' = {w \in written : w[1][1] # buf[1].member}
      /\ buf' = <<>>
      /\ UNCHANGED <<archive, base, runs, block, unit, place,
                     bytes_processed_since_last_strip>>
  BY DEF Header, args, reading
<1>2. LittleLost /\ IsFiniteSet(Gone)
  BY <1>1 DEF LossInv
<1>3. /\ UnitOf(Cur) = buf[1] /\ next' = unit /\ next = unit - 1
      /\ OwedAt(Blocks[block], unit) = Behind(buf[1])
      /\ \A x \in DataAt : Past(x)' => Past(x) \/ x = Cur
  BY <1>1, Dealt
<1>4. /\ block \in 1 .. Len(Blocks) /\ unit - 1 \in 1 .. Len(Blocks[block].units)
      /\ unit \in Nat /\ buf[1] = Blocks[block].units[unit - 1]
      /\ runs \in Nat /\ base \in Nat
  <2>1. /\ block \in 1 .. Len(Blocks) /\ unit - 1 \in 1 .. Len(Units)
        /\ unit \in Nat /\ buf[1] = Units[unit - 1]
    BY <1>1, InBuf
  <2>2. runs \in Nat /\ base \in Nat
    BY ArchivesAssumption DEF TypeInv, TypeOK
  <2> QED
    BY <2>1, <2>2 DEF Units
<1>5. /\ Blocks' = Blocks /\ DataAt' = DataAt
      /\ \A x : Piece(x)' = Piece(x) /\ At(x)' = At(x) /\ (PassedOver(x)' <=> PassedOver(x))
  BY <1>1, ArchiveStays
<1>6. ASSUME NEW x \in DataAt, Piece(x) \in written, Piece(x) \notin written'
      PROVE  ~ (At(x) < base) /\ ~ Past(x)
  <2>1. UnitOf(x).member = buf[1].member /\ buf[1].member \in Nat
    <3>1. Piece(x)[1][1] = buf[1].member
      BY <1>1, <1>6
    <3>2. UnitOf(x).member \in Nat
      BY DataIs
    <3> QED
      BY <3>1, <3>2 DEF Piece, UnitOf
  <2>2. ~ (x[1] < block \/ (x[1] = block /\ x[2] <= unit - 1))
    <3> SUFFICES ASSUME x[1] < block \/ (x[1] = block /\ x[2] <= unit - 1)
                 PROVE  FALSE
      OBVIOUS
    <3>1. UnitOf(x).member < Blocks[block].units[unit - 1].member
      BY <1>1, <1>4, DataBeforeHeader
    <3> QED
      BY <1>4, <2>1, <3>1
  <2>3. /\ x[1] \in 1 .. Len(Blocks) /\ x[2] \in 1 .. Len(Blocks[x[1]].units)
        /\ Len(Blocks[x[1]].units) \in Nat
    BY DataIs
  <2>4. block < x[1] \/ (block = x[1] /\ unit - 1 < x[2])
    BY <1>4, <2>2, <2>3
  <2>5. UnitAt(Blocks[block], unit) <= At(x)
    <3>1. UnitAt(Blocks[block], unit - 1 + 1) <= At(x)
      BY <1>4, <2>4, Beyond
    <3>2. unit - 1 + 1 = unit
      BY <1>4
    <3> QED
      BY <3>1, <3>2
  <2>6. base <= UnitAt(Blocks[block], unit)
    BY <1>2 DEF LittleLost
  <2>7. At(x) \in Nat /\ UnitAt(Blocks[block], unit) \in Nat
    <3>1. At(x) \in Nat
      BY <2>3, OneUnitOn DEF At
    <3>2. Len(Blocks[block].units) \in Nat
      BY <1>4, ArchiveIs, BlockPlaces DEF Blocks
    <3>3. unit \in 1 .. Len(Blocks[block].units) + 1
      BY <1>4, <3>2
    <3> QED
      BY <1>4, <3>1, <3>3, PlacesGrow
  <2>8. ~ (At(x) < base)
    BY <1>4, <2>5, <2>6, <2>7
  <2>9. ~ Past(x)
    BY <1>3, <1>4, <2>3, <2>4 DEF Past
  <2> QED
    BY <2>8, <2>9
<1>7. Cur \notin DataAt
  BY <1>1, <1>3, DataIs
<1>8. Gone' \subseteq Gone \ {Cur}
  <2> SUFFICES ASSUME NEW x \in Gone'
               PROVE  x \in Gone
    BY <1>7 DEF Gone
  <2>1. x \in DataAt /\ At(x) < base /\ Piece(x) \notin written' /\ ~PassedOver(x)
    <3>1. x \in DataAt' /\ At(x)' < base' /\ Piece(x)' \notin written' /\ ~PassedOver(x)'
      BY DEF Gone, At
    <3> QED
      BY <1>1, <1>5, <3>1
  <2>2. Piece(x) \notin written
    BY <1>6, <2>1
  <2> QED
    BY <2>1, <2>2 DEF Gone, At
<1>9. /\ IsFiniteSet(Gone') /\ Cardinality(Gone') <= runs
      /\ Cardinality(Gone' \ {Cur'}) <= runs - 1
  <2>1. Gone' \subseteq Gone \cup {Cur} /\ Gone' \ {Cur'} \subseteq Gone \ {Cur}
    BY <1>8
  <2>2. Cardinality(Gone \ {Cur}) <= runs - 1
    BY <1>2 DEF LittleLost
  <2> QED
    BY <1>2, <1>4, <2>1, <2>2, LossCount
<1>10. LittleLost'
  <2>1. /\ base' <= UnitAt(Blocks'[block'], unit')
        /\ base' + bytes_processed_since_last_strip' <= place'
    BY <1>1, <1>2, <1>5 DEF LittleLost
  <2>2. /\ member' = OwedAt(Blocks'[block'], next').member
        /\ left' = OwedAt(Blocks'[block'], next').left
    BY <1>1, <1>3, <1>5 DEF Behind
  <2>3. Cardinality(Gone' \ {Cur'}) <= runs' - 1
    BY <1>1, <1>9
  <2>4. ASSUME NEW x \in DataAt, Past(x)', base <= At(x), ~PassedOver(x)
        PROVE  Piece(x) \in written'
    <3>1. Past(x)
      BY <1>3, <1>7, <2>4
    <3>2. Piece(x) \in written
      BY <1>2, <2>4, <3>1 DEF LittleLost
    <3> QED
      BY <1>6, <3>1, <3>2
  <2>5. \A x \in DataAt' : Past(x)' /\ base' <= At(x)' /\ ~PassedOver(x)' => Piece(x)' \in written'
    BY <1>1, <1>5, <2>4
  <2> QED
    BY <2>1, <2>2, <2>3, <2>5 DEF LittleLost
<1> QED
  BY <1>1, <1>9, <1>10 DEF LossInv

(* Data are written to the member they belong to.                          *)
LEMMA LossWrite ==
  ASSUME TypeInv, LossInv, Write
  PROVE  LossInv'
<1>1. /\ pc = "running" /\ pc' = "running" /\ buf # <<>> /\ left > 0
      /\ left' = left - 1 /\ buf' = <<>>
      /\ written' = written \cup {<<<<member, left>>, buf[1]>>}
      /\ UNCHANGED <<archive, base, runs, block, unit, place,
                     bytes_processed_since_last_strip, member>>
  BY DEF Write, remaining, args, reading
<1>2. LittleLost /\ IsFiniteSet(Gone) /\ runs \in Nat
  BY <1>1, ArchivesAssumption DEF LossInv, TypeInv, TypeOK
<1>3. /\ UnitOf(Cur) = buf[1] /\ next' = unit /\ next = unit - 1
      /\ OwedAt(Blocks[block], unit) = Behind(buf[1])
      /\ Fits(buf[1], OwedAt(Blocks[block], next))
      /\ \A x \in DataAt : Past(x)' => Past(x) \/ x = Cur
  BY <1>1, Dealt
<1>4. buf[1].kind = "data" /\ buf[1].member = member /\ buf[1].count = left
  <2>1. /\ member = OwedAt(Blocks[block], next).member
        /\ left = OwedAt(Blocks[block], next).left
    BY <1>1, <1>2 DEF LittleLost
  <2> QED
    BY <1>1, <1>3, <2>1 DEF Fits
<1>5. /\ Blocks' = Blocks /\ DataAt' = DataAt
      /\ \A x : Piece(x)' = Piece(x) /\ At(x)' = At(x) /\ (PassedOver(x)' <=> PassedOver(x))
  BY <1>1, ArchiveStays
<1>6. Piece(Cur) \in written' /\ written \subseteq written'
  <2>1. Piece(Cur) = <<<<member, left>>, buf[1]>>
    BY <1>3, <1>4 DEF Piece, UnitOf
  <2> QED
    BY <1>1, <2>1
<1>7. Gone' \subseteq Gone \ {Cur}
  <2> SUFFICES ASSUME NEW x \in Gone'
               PROVE  x \in Gone /\ x # Cur
    OBVIOUS
  <2>1. x \in DataAt /\ At(x) < base /\ Piece(x) \notin written' /\ ~PassedOver(x)
    <3>1. x \in DataAt' /\ At(x)' < base' /\ Piece(x)' \notin written' /\ ~PassedOver(x)'
      BY DEF Gone, At
    <3> QED
      BY <1>1, <1>5, <3>1
  <2> QED
    BY <1>6, <2>1 DEF Gone, At
<1>8. /\ IsFiniteSet(Gone') /\ Cardinality(Gone') <= runs
      /\ Cardinality(Gone' \ {Cur'}) <= runs - 1
  <2>1. Gone' \subseteq Gone \cup {Cur} /\ Gone' \ {Cur'} \subseteq Gone \ {Cur}
    BY <1>7
  <2>2. Cardinality(Gone \ {Cur}) <= runs - 1
    BY <1>2 DEF LittleLost
  <2> QED
    BY <1>2, <2>1, <2>2, LossCount
<1>9. LittleLost'
  <2>1. /\ base' <= UnitAt(Blocks'[block'], unit')
        /\ base' + bytes_processed_since_last_strip' <= place'
    BY <1>1, <1>2, <1>5 DEF LittleLost
  <2>2. /\ member' = OwedAt(Blocks'[block'], next').member
        /\ left' = OwedAt(Blocks'[block'], next').left
    BY <1>1, <1>3, <1>4, <1>5 DEF Behind
  <2>3. Cardinality(Gone' \ {Cur'}) <= runs' - 1
    BY <1>1, <1>8
  <2>4. ASSUME NEW x \in DataAt, Past(x)', base <= At(x), ~PassedOver(x)
        PROVE  Piece(x) \in written'
    <3>1. CASE x = Cur
      BY <1>6, <3>1
    <3>2. CASE Past(x)
      BY <1>2, <1>6, <2>4, <3>2 DEF LittleLost
    <3> QED
      BY <1>3, <2>4, <3>1, <3>2
  <2>5. \A x \in DataAt' : Past(x)' /\ base' <= At(x)' /\ ~PassedOver(x)' => Piece(x)' \in written'
    BY <1>1, <1>5, <2>4
  <2> QED
    BY <2>1, <2>2, <2>3, <2>5 DEF LittleLost
<1> QED
  BY <1>1, <1>8, <1>9 DEF LossInv

LEMMA LossStep == TypeInv /\ LossInv /\ [Next]_vars => LossInv'
<1> SUFFICES ASSUME TypeInv, LossInv, [Next]_vars
             PROVE  LossInv'
  OBVIOUS
<1>0. TypeInv' /\ runs \in Nat /\ runs' \in Nat
  <2>1. TypeInv'
    BY TypeStep
  <2>2. runs \in Nat
    BY ArchivesAssumption DEF TypeInv, TypeOK
  <2>3. runs' \in 0 .. MaxRuns
    BY <2>1 DEF TypeInv, TypeOK
  <2> QED
    BY <2>1, <2>2, <2>3, ArchivesAssumption
<1>1. CASE UNCHANGED vars
  <2>1. /\ archive' = archive /\ base' = base /\ written' = written /\ runs' = runs
        /\ pc' = pc /\ block' = block /\ unit' = unit /\ buf' = buf /\ place' = place
        /\ bytes_processed_since_last_strip' = bytes_processed_since_last_strip
        /\ member' = member /\ left' = left
    BY <1>1 DEF vars, args, disk, reading, untar
  <2>2. /\ Blocks' = Blocks /\ DataAt' = DataAt
        /\ \A x : Piece(x)' = Piece(x) /\ At(x)' = At(x) /\ (PassedOver(x)' <=> PassedOver(x))
    BY <2>1, ArchiveStays
  <2>3. next' = next /\ Gone' = Gone
    BY <2>1, <2>2 DEF next, Gone, At
  <2>4. (\A x : Past(x)' <=> Past(x)) /\ Cur' = Cur
    BY <2>1, <2>3 DEF Past, Cur
  <2>5. LittleLost => LittleLost'
    BY <2>1, <2>2, <2>3, <2>4 DEF LittleLost
  <2> QED
    BY <2>1, <2>3, <2>5 DEF LossInv
<1>2. CASE RefuseName
  <2>1. runs' = runs + 1 /\ UNCHANGED <<archive, base, written>> /\ pc' # "running"
    BY <1>2 DEF RefuseName, Started, args, disk
  <2> QED
    BY <1>0, <2>1, LossKept
<1>3. CASE Start /\ pc' = "running"
  BY <1>0, <1>3, LossStart
<1>4. CASE Start /\ pc' # "running"
  <2>1. runs' = runs + 1 /\ UNCHANGED <<archive, base, written>>
    BY <1>4 DEF Start, Started, args, disk
  <2> QED
    BY <1>0, <1>4, <2>1, LossKept
<1>5. CASE Fetch
  BY <1>5, LossFetch
<1>6. CASE EndBlock /\ pc' = "running"
  BY <1>6, LossEndBlock
<1>7. CASE \/ EndBlock /\ pc' # "running"
           \/ Misread \/ Stop \/ NoHeader \/ Remove
  <2>1. runs' = runs /\ UNCHANGED <<archive, base, written>> /\ pc' # "running"
    BY <1>7 DEF EndBlock, Misread, Stop, NoHeader, Remove, args, disk
  <2> QED
    BY <1>0, <2>1, LossKept
<1>8. CASE Header
  BY <1>8, LossHeader
<1>9. CASE Write
  BY <1>9, LossWrite
<1> QED
  BY <1>1, <1>2, <1>3, <1>4, <1>5, <1>6, <1>7, <1>8, <1>9 DEF Next, Progress

(* However a run ends, it loses no more than the one unit it had read; but *)
(* units that begin in the twelve bytes before a block may be passed over. *)
(* Whatever the archive, the threshold and the moments the runs are killed *)
(* at, everything else that is cut off the file was written before.        *)
THEOREM OneUnitIsLost == Spec => []OneUnitPerRun
<1>1. Init => LossInv
  <2> SUFFICES ASSUME Init
               PROVE  LossInv
    OBVIOUS
  <2>1. base = 0 /\ runs = 0 /\ pc = "stopped" /\ TypeInv
    BY TypeInit DEF Init
  <2>2. \A x \in DataAt : UnitAt(Blocks[x[1]], x[2]) \in Nat
    BY <2>1, DataIs, OneUnitOn
  <2>3. Gone = {}
    BY <2>1, <2>2 DEF Gone
  <2> QED
    BY <2>1, <2>3, FS_EmptySet DEF LossInv
<1>2. TypeInv /\ LossInv => OneUnitPerRun
  <2> SUFFICES ASSUME TypeInv, LossInv
               PROVE  OneUnitPerRun
    OBVIOUS
  <2>1. CASE pc = "running" /\ buf = <<>>
    <3>1. LittleLost /\ Cur = <<block, unit>>
      BY <2>1 DEF LossInv, Cur, next
    <3>2. ~ (Cur \in Gone)
      <4> SUFFICES ASSUME Cur \in Gone
                   PROVE  FALSE
        OBVIOUS
      <4>1. Cur \in DataAt /\ At(Cur) < base
        BY DEF Gone, At
      <4>2. At(Cur) = UnitAt(Blocks[block], unit) /\ At(Cur) \in Nat /\ base \in Nat
        BY <3>1, <4>1, DataIs, OneUnitOn DEF At, TypeInv, TypeOK
      <4>3. base <= UnitAt(Blocks[block], unit)
        BY <3>1 DEF LittleLost
      <4> QED
        BY <4>1, <4>2, <4>3
    <3>3. Gone \ {Cur} = Gone
      BY <3>2
    <3> QED
      BY <2>1, <3>1, <3>3 DEF LittleLost, OneUnitPerRun
  <2>2. CASE ~ (pc = "running" /\ buf = <<>>)
    BY <2>2 DEF LossInv, OneUnitPerRun
  <2> QED
    BY <2>1, <2>2
<1>3. TypeInv /\ LossInv /\ [Next]_vars => (TypeInv /\ LossInv)'
  BY TypeStep, LossStep
<1> QED
  BY <1>1, <1>2, <1>3, TypeInit, PTL DEF Spec
=============================================================================
