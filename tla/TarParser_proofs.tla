--------------------------- MODULE TarParser_proofs ---------------------------
(***************************************************************************)
(* What TarParser keeps to, for every archive, block and buffer size and   *)
(* every length of the stream.  The invariant says for each part of the    *)
(* loop where the stream stands, which name is owed to whom, and what has  *)
(* been written; that headers are recognised by their place and each is    *)
(* read once rests on the entries' places growing along the archive.       *)
(***************************************************************************)
EXTENDS TarParser, TLAPS, WellFoundedInduction

(* Every nonempty set of natural numbers has a least element.              *)
LEMMA Least ==
  ASSUME NEW S, S \subseteq Nat, S # {}
  PROVE  \E x \in S : \A y \in S : x <= y
<1> DEFINE R == OpToRel(<, Nat)
<1>1. IsWellFoundedOn(R, Nat)
  BY NatLessThanWellFounded
<1>2. \A x, y \in Nat : y < x => <<y, x>> \in R
  BY DEF OpToRel
<1> HIDE DEF R
<1>3. PICK x \in S : \A y \in S : ~ (<<y, x>> \in R)
  BY <1>1, WFMin
<1>4. \A y \in S : ~ (y < x)
  BY <1>2, <1>3
<1>5. \A y \in S : x <= y
  BY <1>4
<1> QED
  BY <1>5

(* Euclid's division.                                                      *)
LEMMA DivMod ==
  ASSUME NEW a \in Nat, a > 0, NEW x \in Nat
  PROVE  x = a * (x \div a) + (x % a) /\ x % a \in 0 .. a - 1 /\ x \div a \in Nat
<1>1. x % a \in 0 .. a - 1
  BY SMTT(30)
<1>2. x \div a \in Nat
  BY SMTT(30)
<1>3. x = a * (x \div a) + (x % a)
  BY SMTT(30)
<1> QED
  BY <1>1, <1>2, <1>3

LEMMA ProductGrows ==
  ASSUME NEW a \in Nat, NEW d \in Int, NEW e \in Int, d > e
  PROVE  a * d >= a * e + a
<1> DEFINE k == d - e - 1
<1>1. k \in Nat /\ d = e + 1 + k
  OBVIOUS
<1> HIDE DEF k
<1>2. a * k \in Nat
  BY <1>1, SMTT(30)
<1>3. a * (e + 1 + k) = a * e + a + a * k
  BY <1>1, SMTT(30)
<1>4. a * e \in Int
  BY SMTT(30)
<1> QED
  BY <1>1, <1>2, <1>3, <1>4

(* A quotient with its remainder is the only one.                          *)
LEMMA DivUnique ==
  ASSUME NEW a \in Nat, a > 0, NEW x \in Nat, NEW q \in Nat, NEW r \in 0 .. a - 1,
         x = a * q + r
  PROVE  x \div a = q /\ x % a = r
<1> DEFINE d == x \div a
           s == x % a
<1>1. x = a * d + s /\ s \in 0 .. a - 1 /\ d \in Nat
  BY DivMod
<1> HIDE DEF d, s
<1>2. a * d \in Int /\ a * q \in Int
  BY <1>1, SMTT(30)
<1>3. CASE d > q
  <2>1. a * d >= a * q + a
    BY <1>1, <1>3, ProductGrows
  <2> QED
    BY <1>1, <1>2, <2>1
<1>4. CASE d < q
  <2>1. a * q >= a * d + a
    BY <1>1, <1>4, ProductGrows
  <2> QED
    BY <1>1, <1>2, <2>1
<1>5. CASE d = q
  BY <1>1, <1>2, <1>5 DEF d, s
<1> QED
  BY <1>1, <1>3, <1>4, <1>5

(* The code pads data up to the next multiple of a block.                  *)
LEMMA PaddingFills ==
  ASSUME NEW n \in Nat
  PROVE  /\ padding(n) \in Nat
         /\ n + padding(n) = ((n + BlockSize - 1) \div BlockSize) * BlockSize
<1> DEFINE B == BlockSize
           q == n \div B
           r == n % B
<1>1. B \in Nat /\ B > 0
  BY SizesAssumption
<1>2. n = B * q + r /\ r \in 0 .. B - 1 /\ q \in Nat
  BY <1>1, DivMod
<1>3. padding(n) = (B - r) % B
  BY DEF padding
<1>4. ((n + BlockSize - 1) \div BlockSize) * BlockSize = ((n + B - 1) \div B) * B
  OBVIOUS
<1> HIDE DEF B, q, r
<1>5. B * q \in Nat /\ q * B = B * q /\ (q + 1) * B = B * q + B
      /\ B * (q + 1) = B * q + B
  BY <1>1, <1>2, SMTT(30)
<1>6. CASE r = 0
  <2>1. (B - r) % B = 0
    <3>1. B - r = B * 1 + 0 /\ B - r \in Nat
      BY <1>1, <1>6
    <3> QED
      BY <1>1, <3>1, DivUnique
  <2>2. (n + B - 1) \div B = q
    <3>1. n + B - 1 = B * q + (B - 1) /\ n + B - 1 \in Nat /\ B - 1 \in 0 .. B - 1
      BY <1>1, <1>2, <1>5, <1>6
    <3> QED
      BY <1>1, <1>2, <3>1, DivUnique
  <2> QED
    BY <1>2, <1>3, <1>4, <1>5, <1>6, <2>1, <2>2
<1>7. CASE r > 0
  <2>1. (B - r) % B = B - r
    <3>1. B - r = B * 0 + (B - r) /\ B - r \in Nat /\ B - r \in 0 .. B - 1
      BY <1>1, <1>2, <1>7
    <3> QED
      BY <1>1, <3>1, DivUnique
  <2>2. (n + B - 1) \div B = q + 1
    <3>1. n + B - 1 = B * (q + 1) + (r - 1) /\ n + B - 1 \in Nat
          /\ r - 1 \in 0 .. B - 1
      BY <1>1, <1>2, <1>5, <1>7
    <3> QED
      BY <1>1, <1>2, <3>1, DivUnique
  <2>3. B - r \in Nat /\ n + (B - r) = B * q + B
    BY <1>1, <1>2, <1>5
  <2>4. padding(n) = B - r
    BY <1>3, <2>1
  <2>5. ((n + BlockSize - 1) \div BlockSize) * BlockSize = B * q + B
    BY <1>4, <1>5, <2>2
  <2> QED
    BY <2>3, <2>4, <2>5
<1> QED
  BY <1>2, <1>6, <1>7

(* Where the i-th entry begins; after the last one the closing zeros.      *)
Place(a, i) == IF i <= Len(a) THEN a[i].start ELSE Trailer(a)

LEMMA NextPlace ==
  ASSUME NEW a, IsArchive(a), NEW i \in 1 .. Len(a)
  PROVE  /\ Place(a, i) = a[i].start /\ a[i].start \in Nat
         /\ DataSize(a[i]) \in Nat
         /\ Place(a, i + 1) = a[i].start + BlockSize + DataSize(a[i])
<1>1. Len(a) \in Nat /\ IsEntry(a[i]) /\ BlockSize \in Nat /\ BlockSize > 0
  BY SizesAssumption DEF IsArchive
<1>2. a[i].start \in Nat /\ a[i].size \in Nat
  BY <1>1 DEF IsEntry
<1>3. DataSize(a[i]) \in Nat
  <2>1. CASE a[i].type = "5"
    BY <2>1 DEF DataSize
  <2>2. CASE a[i].type # "5"
    <3>1. DataSize(a[i]) = a[i].size + padding(a[i].size)
      BY <1>2, <2>2, PaddingFills DEF DataSize
    <3>2. padding(a[i].size) \in Nat
      BY <1>2, PaddingFills
    <3> QED
      BY <1>2, <3>1, <3>2
  <2> QED
    BY <2>1, <2>2
<1>4. CASE i + 1 <= Len(a)
  <2>1. i + 1 \in 1 .. Len(a) /\ i + 1 # 1 /\ (i + 1) - 1 = i
    BY <1>1, <1>4
  <2>2. a[i + 1].start = EndOf(a[(i + 1) - 1])
    BY <2>1 DEF IsArchive
  <2> QED
    BY <1>1, <1>2, <1>3, <1>4, <2>1, <2>2 DEF Place, EndOf
<1>5. CASE i = Len(a)
  BY <1>1, <1>2, <1>3, <1>5 DEF Place, EndOf, Trailer
<1> QED
  BY <1>1, <1>4, <1>5

LEMMA PlacesAreNumbers ==
  ASSUME NEW a, IsArchive(a), NEW i \in 1 .. Len(a) + 1
  PROVE  Place(a, i) \in Nat
<1>1. Len(a) \in Nat
  BY DEF IsArchive
<1>2. CASE i <= Len(a)
  BY <1>1, <1>2, NextPlace
<1>3. CASE i = Len(a) + 1 /\ Len(a) > 0
  <2>1. Len(a) \in 1 .. Len(a)
    BY <1>1, <1>3
  <2>2. Place(a, Len(a) + 1) = a[Len(a)].start + BlockSize + DataSize(a[Len(a)])
        /\ a[Len(a)].start \in Nat /\ DataSize(a[Len(a)]) \in Nat
    BY <2>1, NextPlace
  <2> QED
    BY <1>3, <2>2, SizesAssumption
<1>4. CASE i = Len(a) + 1 /\ Len(a) = 0
  BY <1>4 DEF Place, Trailer
<1> QED
  BY <1>1, <1>2, <1>3, <1>4

(* No two entries begin at the same place.                                 *)
LEMMA PlacesGrow ==
  ASSUME NEW a, IsArchive(a), NEW i \in 1 .. Len(a) + 1, NEW j \in 1 .. Len(a) + 1,
         i < j
  PROVE  Place(a, i) < Place(a, j)
<1> DEFINE S == {k \in i + 1 .. Len(a) + 1 : ~ (Place(a, i) < Place(a, k))}
<1>1. Len(a) \in Nat /\ BlockSize \in Nat /\ BlockSize > 0
  BY SizesAssumption DEF IsArchive
<1>2. S = {}
  <2> SUFFICES ASSUME S # {} PROVE FALSE
    OBVIOUS
  <2>1. S \subseteq Nat
    BY <1>1
  <2>2. PICK k \in S : \A y \in S : k <= y
    <3> HIDE DEF S
    <3> QED
      BY <2>1, Least
  <2>3. k \in Nat /\ i < k /\ k <= Len(a) + 1 /\ ~ (Place(a, i) < Place(a, k))
    BY <1>1, <2>2
  <2>4. ~ (k - 1 \in S)
    <3> HIDE DEF S
    <3> QED
      BY <2>2, <2>3
  <2> DEFINE h == k - 1
  <2>5. h \in 1 .. Len(a) /\ k = h + 1 /\ i <= h
    BY <1>1, <2>3
  <2>6. h = i \/ Place(a, i) < Place(a, h)
    BY <1>1, <2>4, <2>5
  <2> HIDE DEF h
  <2>7. /\ Place(a, h) = a[h].start /\ a[h].start \in Nat /\ DataSize(a[h]) \in Nat
        /\ Place(a, k) = a[h].start + BlockSize + DataSize(a[h])
    BY <2>5, NextPlace
  <2>8. Place(a, i) \in Nat
    BY PlacesAreNumbers
  <2> HIDE DEF S
  <2>9. CASE h = i
    BY <1>1, <2>3, <2>7, <2>8, <2>9
  <2>10. CASE Place(a, i) < Place(a, h)
    BY <1>1, <2>3, <2>7, <2>8, <2>10
  <2> QED
    BY <2>6, <2>9, <2>10
<1> QED
  BY <1>1, <1>2

(* The name the i-th entry leaves for the next, and what entry i is called *)
(* with what the one before it leaves.                                     *)
Pending(a, i) == IF i >= 1 THEN a[i].path ELSE NoName

Named(a, i) == IF Pending(a, i - 1) # NoName THEN Pending(a, i - 1) ELSE a[i].name

LEMMA NameGiven ==
  ASSUME IsArchive(archive), NEW i \in 1 .. Len(archive)
  PROVE  NameOf(i) = Named(archive, i)
<1>1. Len(archive) \in Nat
  BY DEF IsArchive
<1>2. \A j \in Given(i) : j \in Nat /\ j >= 1 /\ j <= i - 1
  BY <1>1 DEF Given
<1>3. CASE i > 1 /\ archive[i - 1].path # NoName
  <2>1. i - 1 \in 1 .. Len(archive)
    BY <1>1, <1>3
  <2>2. archive[i - 1].type \in Meta
    BY <1>3, <2>1 DEF IsArchive, IsEntry, Meta
  <2>3. i - 1 \in Given(i)
    <3>1. i - 1 \in 1 .. i - 1
      BY <1>1, <1>3
    <3>2. \A k \in i - 1 .. i - 1 : k = i - 1
      BY <1>1
    <3> QED
      BY <1>3, <2>2, <3>1, <3>2 DEF Given
  <2>4. (CHOOSE j \in Given(i) : \A k \in Given(i) : k <= j) = i - 1
    <3>1. \A k \in Given(i) : k <= i - 1
      BY <1>2
    <3>2. \A j \in Given(i) : (\A k \in Given(i) : k <= j) => j = i - 1
      BY <1>1, <1>2, <2>3
    <3> QED
      BY <2>3, <3>1, <3>2
  <2>5. NameOf(i) = archive[i - 1].path
    BY <2>3, <2>4 DEF NameOf
  <2>6. i - 1 >= 1
    BY <1>1, <1>3
  <2> QED
    BY <1>3, <2>5, <2>6 DEF Named, Pending
<1>4. CASE ~ (i > 1 /\ archive[i - 1].path # NoName)
  <2>1. Given(i) = {}
    <3> SUFFICES ASSUME NEW j \in Given(i) PROVE FALSE
      OBVIOUS
    <3>1. j \in 1 .. i - 1 /\ archive[j].path # NoName
          /\ \A k \in j .. i - 1 : archive[k].type \in Meta
      BY DEF Given
    <3> DEFINE S == {k \in j .. i - 1 : archive[k].path = NoName}
    <3>2. S \subseteq Nat
      BY <1>1, <3>1
    <3>3. i - 1 \in S
      BY <1>1, <1>4, <3>1
    <3> HIDE DEF S
    <3>4. PICK k \in S : \A y \in S : k <= y
      BY <3>2, <3>3, Least
    <3>5. k \in j .. i - 1 /\ archive[k].path = NoName /\ k # j
      BY <3>1 DEF S
    <3>6. k - 1 \in j .. i - 1 /\ ~ (k - 1 \in S) /\ k \in 2 .. Len(archive)
      BY <1>1, <3>1, <3>4, <3>5
    <3>7. archive[k - 1].path # NoName
      BY <3>6 DEF S
    <3>8. archive[k].type \in Meta
      BY <3>1, <3>5
    <3>9. archive[k].path # NoName
      BY <3>6, <3>7, <3>8 DEF IsArchive
    <3> QED
      BY <3>5, <3>9
  <2>2. NameOf(i) = archive[i].name
    BY <2>1 DEF NameOf
  <2>3. ~ (Pending(archive, i - 1) # NoName)
    BY <1>1, <1>4 DEF Pending
  <2> QED
    BY <2>2, <2>3 DEF Named
<1> QED
  BY <1>3, <1>4

InEntry == pc \in {"meta", "file", "copy", "directory", "skip"}

(* Where the stream stands in each part of the loop.  "at = length" is a   *)
(* skipped entry which has ended with the stream; no header follows it.    *)
Position ==
  /\ pc = "header" => at = length \/ at = Place(archive, entry + 1)
  /\ InEntry => entry \in 1 .. Len(archive)
  /\ InEntry /\ pc # "copy" => /\ pc = Handler(Entry.type)
                               /\ at = Entry.start + BlockSize
  /\ pc = "copy" => /\ Entry.type = "0"
                    /\ at + remaining = Entry.start + BlockSize + Entry.size
  /\ pc = "done" => entry = Len(archive) /\ length >= Trailer(archive) + BlockSize

(* What next_long_name holds, and whom it has been given to.               *)
Naming ==
  /\ pc = "header" => next_long_name = Pending(archive, entry)
  /\ InEntry => next_long_name = NoName /\ name = Named(archive, entry)

(* Entries which have been dealt with.                                     *)
Handled(i) == i < entry \/ pc \in {"header", "done"}

Writing ==
  Extracting /\ pc # "failed" =>
    /\ \A p \in DOMAIN files :
          \/ files[p].bytes = archive[files[p].from].size
          \/ pc = "copy" /\ p = name
    /\ pc = "copy" => /\ name \in DOMAIN files /\ files[name].from = entry
                      /\ files[name].bytes + remaining = Entry.size
    /\ \A i \in 1 .. entry : Handled(i) =>
         /\ archive[i].type = "0" => /\ Named(archive, i) \in DOMAIN files
                                     /\ files[Named(archive, i)].from >= i
         /\ archive[i].type = "5" => Named(archive, i) \in directories

TarInv == TypeOK /\ IsArchive(archive) /\ Position /\ Naming /\ Writing

(* The entry being handled and its numbers.                                *)
LEMMA EntryFacts ==
  ASSUME TarInv, InEntry
  PROVE  /\ entry \in 1 .. Len(archive) /\ Len(archive) \in Nat
         /\ IsEntry(Entry) /\ Entry = archive[entry]
         /\ Entry.size \in Nat /\ Entry.start \in Nat
         /\ padding(Entry.size) \in Nat
         /\ Place(archive, entry + 1) = Entry.start + BlockSize + DataSize(Entry)
<1>1. IsArchive(archive) /\ entry \in 1 .. Len(archive)
  BY DEF TarInv, Position
<1>2. IsEntry(archive[entry]) /\ Len(archive) \in Nat
  BY <1>1 DEF IsArchive
<1>3. archive[entry].size \in Nat /\ archive[entry].start \in Nat
  BY <1>2 DEF IsEntry
<1>4. padding(archive[entry].size) \in Nat
  BY <1>3, PaddingFills
<1>5. Place(archive, entry + 1)
        = archive[entry].start + BlockSize + DataSize(archive[entry])
  BY <1>1, NextPlace
<1> QED
  BY <1>1, <1>2, <1>3, <1>4, <1>5 DEF Entry

(* Data and padding together take the room the archive gives them.         *)
LEMMA DataFills ==
  ASSUME TarInv, InEntry, Entry.type # "5"
  PROVE  DataSize(Entry) = Entry.size + padding(Entry.size)
<1>1. Entry.size \in Nat
  BY EntryFacts
<1> QED
  BY <1>1, PaddingFills DEF DataSize

LEMMA InitTar == Init => TarInv
<1> SUFFICES ASSUME Init PROVE TarInv
  OBVIOUS
<1>1. IsArchive(archive)
  BY ArchivesAssumption DEF Init
<1>2. Len(archive) \in Nat /\ BlockSize \in Nat
  BY <1>1, SizesAssumption DEF IsArchive
<1>3. Place(archive, 1) = 0 /\ Trailer(archive) \in Nat
  <2>1. 1 \in 1 .. Len(archive) + 1 /\ Len(archive) + 1 \in 1 .. Len(archive) + 1
    BY <1>2
  <2>2. Trailer(archive) \in Nat
    BY <1>1, <1>2, <2>1, PlacesAreNumbers DEF Place
  <2>3. CASE Len(archive) = 0
    BY <2>2, <2>3 DEF Place, Trailer
  <2>4. CASE Len(archive) >= 1
    <3>1. archive[1].start = 0
      BY <1>1, <1>2, <2>4 DEF IsArchive
    <3> QED
      BY <1>2, <2>2, <2>4, <3>1 DEF Place
  <2> QED
    BY <1>2, <2>3, <2>4
<1>4. TypeOK
  <2>1. length \in Nat
    BY <1>2, <1>3 DEF Init
  <2> QED
    BY <1>2, <2>1 DEF Init, TypeOK
<1>5. Position
  BY <1>3 DEF Init, Position, InEntry
<1>6. Naming
  BY DEF Init, Naming, InEntry, Pending
<1>7. Writing
  BY DEF Init, Writing
<1> QED
  BY <1>1, <1>4, <1>5, <1>6, <1>7 DEF TarInv

(* The arguments of the call do not change.                                *)
LEMMA Fixed ==
  ASSUME [Next]_vars
  PROVE  archive' = archive /\ mode' = mode /\ length' = length
<1>1. CASE UNCHANGED vars
  BY <1>1 DEF vars, arguments
<1>2. CASE Next
  BY <1>2 DEF Next, Progress, ReadTrailer, ReadHeader, ReadMeta, CreateFile,
     CopyBuffer, SkipPadding, MakeDirectory, SkipEntry, EndOfStream, PathTaken,
     OtherError, Fails, arguments
<1> QED
  BY <1>1, <1>2

(* A header stands right after the entry that was handled last.            *)
LEMMA HeaderFound ==
  ASSUME TarInv, ReadHeader
  PROVE  /\ entry' = entry + 1 /\ entry' \in 1 .. Len(archive)
         /\ name' = Named(archive, entry')
         /\ at' = archive[entry'].start + BlockSize
         /\ pc' = Handler(archive[entry'].type)
         /\ next_long_name' = NoName
         /\ UNCHANGED <<arguments, remaining, written>>
<1>1. /\ IsArchive(archive) /\ Len(archive) \in Nat /\ entry \in 0 .. Len(archive)
      /\ at \in Nat /\ length \in Nat /\ BlockSize \in Nat /\ BlockSize > 0
  BY SizesAssumption DEF TarInv, TypeOK, IsArchive
<1>2. pc = "header" /\ at + BlockSize <= length /\ at' = at + BlockSize
  BY DEF ReadHeader, ReadExact, wanted
<1>3. PICK i \in 1 .. Len(archive) :
        /\ archive[i].start = at /\ entry' = i
        /\ name' = IF next_long_name # NoName THEN next_long_name
                                              ELSE archive[i].name
        /\ pc' = Handler(archive[i].type)
  BY DEF ReadHeader
<1>4. Place(archive, i) = at
  BY <1>1, <1>3 DEF Place
<1>5. at = Place(archive, entry + 1)
  BY <1>1, <1>2 DEF TarInv, Position
<1>6. i = entry + 1
  <2>1. i \in 1 .. Len(archive) + 1 /\ entry + 1 \in 1 .. Len(archive) + 1
    BY <1>1
  <2>2. CASE i < entry + 1
    <3>1. Place(archive, i) < Place(archive, entry + 1)
      BY <1>1, <2>1, <2>2, PlacesGrow
    <3> QED
      BY <1>1, <1>4, <1>5, <3>1
  <2>3. CASE i > entry + 1
    <3>1. Place(archive, entry + 1) < Place(archive, i)
      BY <1>1, <2>1, <2>3, PlacesGrow
    <3> QED
      BY <1>1, <1>4, <1>5, <3>1
  <2> QED
    BY <1>1, <2>2, <2>3
<1>7. next_long_name = Pending(archive, i - 1)
  BY <1>1, <1>2, <1>6 DEF TarInv, Naming
<1>8. name' = Named(archive, i)
  BY <1>3, <1>7 DEF Named
<1>9. next_long_name' = NoName /\ UNCHANGED <<arguments, remaining, written>>
  BY DEF ReadHeader, name_left
<1> QED
  BY <1>2, <1>3, <1>6, <1>8, <1>9

(* The closing zeros stand right after the last entry.                     *)
LEMMA TrailerFound ==
  ASSUME TarInv, ReadTrailer
  PROVE  entry = Len(archive) /\ length >= Trailer(archive) + BlockSize
<1>1. /\ IsArchive(archive) /\ Len(archive) \in Nat /\ entry \in 0 .. Len(archive)
      /\ at \in Nat /\ length \in Nat /\ BlockSize \in Nat /\ BlockSize > 0
  BY SizesAssumption DEF TarInv, TypeOK, IsArchive
<1>2. pc = "header" /\ at + BlockSize <= length /\ at = Trailer(archive)
  BY DEF ReadTrailer, ReadExact, wanted
<1>3. at = Place(archive, entry + 1)
  BY <1>1, <1>2 DEF TarInv, Position
<1>4. at = Place(archive, Len(archive) + 1)
  BY <1>1, <1>2 DEF Place
<1>5. CASE entry < Len(archive)
  <2>1. Place(archive, entry + 1) < Place(archive, Len(archive) + 1)
    <3>1. /\ entry + 1 \in 1 .. Len(archive) + 1
          /\ Len(archive) + 1 \in 1 .. Len(archive) + 1
          /\ entry + 1 < Len(archive) + 1
      BY <1>1, <1>5
    <3> QED
      BY <1>1, <3>1, PlacesGrow
  <2> QED
    BY <1>1, <1>3, <1>4, <2>1
<1> QED
  BY <1>1, <1>2, <1>5

(* Every file's books, the last part of TypeOK.                            *)
FilesOK ==
  \A p \in DOMAIN files :
    /\ files[p] \in [from : 1 .. entry, bytes : Nat]
    /\ files[p].bytes <= archive[files[p].from].size

LEMMA FilesStay ==
  ASSUME TarInv, files' = files, archive' = archive, entry' \in Nat, entry' >= entry
  PROVE  FilesOK'
<1>1. FilesOK /\ entry \in Nat
  BY DEF TarInv, TypeOK, FilesOK, IsArchive
<1>2. ASSUME NEW p \in DOMAIN files
      PROVE  /\ files[p] \in [from : 1 .. entry', bytes : Nat]
             /\ files[p].bytes <= archive[files[p].from].size
  <2>1. /\ files[p] \in [from : 1 .. entry, bytes : Nat]
        /\ files[p].bytes <= archive[files[p].from].size
    BY <1>1, <1>2 DEF FilesOK
  <2>2. 1 .. entry \subseteq 1 .. entry'
    BY <1>1
  <2> QED
    BY <2>1, <2>2
<1> QED
  BY <1>2 DEF FilesOK

LEMMA TypeParts ==
  ASSUME TarInv, archive' = archive, mode' = mode, length' = length,
         at' \in Nat, entry' \in 0 .. Len(archive), remaining' \in Nat,
         pc' \in {"header", "meta", "file", "copy", "directory", "skip", "done",
                  "failed"},
         FilesOK'
  PROVE  TypeOK' /\ IsArchive(archive)'
<1>1. mode \in Modes /\ length \in Nat /\ IsArchive(archive)
  BY DEF TarInv, TypeOK
<1> QED
  BY <1>1 DEF TypeOK, FilesOK

(* A failed call keeps the invariant: it has nothing more to promise.      *)
LEMMA FailStep ==
  ASSUME TarInv, Fails
  PROVE  TarInv'
<1>1. /\ archive' = archive /\ mode' = mode /\ length' = length /\ at' = at
      /\ entry' = entry /\ remaining' = remaining /\ files' = files
      /\ pc' = "failed"
  BY DEF Fails, arguments, written
<1>2. at \in Nat /\ entry \in 0 .. Len(archive) /\ remaining \in Nat
      /\ Len(archive) \in Nat
  BY DEF TarInv, TypeOK, IsArchive
<1>3. FilesOK'
  BY <1>1, <1>2, FilesStay
<1>4. TypeOK' /\ IsArchive(archive)'
  BY <1>1, <1>2, <1>3, TypeParts
<1>5. Position'
  BY <1>1 DEF Position, InEntry
<1>6. Naming'
  BY <1>1 DEF Naming, InEntry
<1>7. Writing'
  BY <1>1 DEF Writing
<1> QED
  BY <1>4, <1>5, <1>6, <1>7 DEF TarInv

(* Books that stay as they are, over a step by which no file is finished.  *)
LEMMA WrittenStays ==
  ASSUME TarInv, archive' = archive, mode' = mode, files' = files,
         directories' = directories, pc # "failed", pc # "copy", pc' # "copy",
         \A i \in 1 .. entry' :
           Handled(i)' => \/ i \in 1 .. entry /\ Handled(i)
                          \/ archive[i].type \notin {"0", "5"}
  PROVE  Writing'
<1> SUFFICES ASSUME Extracting', pc' # "failed"
             PROVE  /\ \A p \in DOMAIN files : files[p].bytes = archive[files[p].from].size
                    /\ \A i \in 1 .. entry' : Handled(i)' =>
                         /\ archive[i].type = "0" => /\ Named(archive, i) \in DOMAIN files
                                                     /\ files[Named(archive, i)].from >= i
                         /\ archive[i].type = "5" => Named(archive, i) \in directories
  BY DEF Writing
<1>1. Extracting
  BY DEF Extracting
<1>2. /\ \A p \in DOMAIN files : files[p].bytes = archive[files[p].from].size
      /\ \A i \in 1 .. entry : Handled(i) =>
           /\ archive[i].type = "0" => /\ Named(archive, i) \in DOMAIN files
                                       /\ files[Named(archive, i)].from >= i
           /\ archive[i].type = "5" => Named(archive, i) \in directories
  BY <1>1 DEF TarInv, Writing
<1> QED
  BY <1>2

LEMMA TrailerStep ==
  ASSUME TarInv, ReadTrailer
  PROVE  TarInv'
<1>1. /\ archive' = archive /\ mode' = mode /\ length' = length
      /\ entry' = entry /\ remaining' = remaining /\ files' = files
      /\ directories' = directories /\ pc = "header" /\ pc' = "done"
      /\ at' = at + BlockSize
  BY DEF ReadTrailer, ReadExact, wanted, arguments, written
<1>2. at \in Nat /\ entry \in 0 .. Len(archive) /\ remaining \in Nat
      /\ Len(archive) \in Nat /\ BlockSize \in Nat
  BY SizesAssumption DEF TarInv, TypeOK, IsArchive
<1>3. FilesOK'
  BY <1>1, <1>2, FilesStay
<1>4. TypeOK' /\ IsArchive(archive)'
  BY <1>1, <1>2, <1>3, TypeParts
<1>5. Position'
  BY <1>1, TrailerFound DEF Position, InEntry
<1>6. Naming'
  BY <1>1 DEF Naming, InEntry
<1>7. Writing'
  <2>1. \A i \in 1 .. entry' : i \in 1 .. entry /\ Handled(i)
    BY <1>1 DEF Handled
  <2> QED
    BY <1>1, <2>1, WrittenStays
<1> QED
  BY <1>4, <1>5, <1>6, <1>7 DEF TarInv

LEMMA HeaderStep ==
  ASSUME TarInv, ReadHeader
  PROVE  TarInv'
<1>1. /\ archive' = archive /\ mode' = mode /\ length' = length
      /\ entry' = entry + 1 /\ entry' \in 1 .. Len(archive)
      /\ remaining' = remaining /\ files' = files /\ directories' = directories
      /\ name' = Named(archive, entry') /\ next_long_name' = NoName
      /\ pc' = Handler(archive[entry'].type)
      /\ at' = archive[entry'].start + BlockSize
  BY HeaderFound DEF arguments, written
<1>2. /\ entry \in 0 .. Len(archive) /\ remaining \in Nat /\ Len(archive) \in Nat
      /\ BlockSize \in Nat /\ IsEntry(archive[entry']) /\ pc = "header"
  BY <1>1, SizesAssumption DEF TarInv, TypeOK, IsArchive, ReadHeader
<1>3. at' \in Nat
  BY <1>1, <1>2 DEF IsEntry
<1>4. pc' \in {"meta", "file", "directory", "skip"}
  BY <1>1 DEF Handler
<1>5. FilesOK'
  BY <1>1, <1>2, FilesStay
<1>6. TypeOK' /\ IsArchive(archive)'
  BY <1>1, <1>2, <1>3, <1>4, <1>5, TypeParts
<1>7. Position'
  BY <1>1, <1>4 DEF Position, InEntry, Entry
<1>8. Naming'
  BY <1>1, <1>4 DEF Naming, InEntry
<1>9. Writing'
  <2>1. \A i \in 1 .. entry' : Handled(i)' => i \in 1 .. entry /\ Handled(i)
    BY <1>1, <1>2, <1>4 DEF Handled
  <2> QED
    BY <1>1, <1>2, <1>4, <2>1, WrittenStays
<1> QED
  BY <1>6, <1>7, <1>8, <1>9 DEF TarInv

(* After an entry comes the place of the next.                             *)
LEMMA EntryEnds ==
  ASSUME TarInv, InEntry
  PROVE  /\ Entry.type = "5" =>
              Place(archive, entry + 1) = Entry.start + BlockSize
         /\ Entry.type # "5" =>
              Place(archive, entry + 1)
                = Entry.start + BlockSize + (Entry.size + padding(Entry.size))
         /\ Entry.type \notin Meta => Pending(archive, entry) = NoName
         /\ Pending(archive, entry) = Entry.path
<1>1. /\ entry \in 1 .. Len(archive) /\ Len(archive) \in Nat /\ IsEntry(Entry)
      /\ Entry = archive[entry] /\ Entry.start \in Nat
      /\ Place(archive, entry + 1) = Entry.start + BlockSize + DataSize(Entry)
  BY EntryFacts
<1>2. BlockSize \in Nat
  BY SizesAssumption
<1>3. ASSUME Entry.type = "5"
      PROVE  Place(archive, entry + 1) = Entry.start + BlockSize
  <2>1. DataSize(Entry) = 0
    BY <1>3 DEF DataSize
  <2> QED
    BY <1>1, <1>2, <2>1
<1>4. ASSUME Entry.type # "5"
      PROVE  Place(archive, entry + 1)
                = Entry.start + BlockSize + (Entry.size + padding(Entry.size))
  BY <1>1, <1>4, DataFills
<1>5. Pending(archive, entry) = Entry.path
  BY <1>1 DEF Pending
<1>6. ASSUME Entry.type \notin Meta PROVE Pending(archive, entry) = NoName
  BY <1>1, <1>5, <1>6 DEF IsEntry, Meta
<1> QED
  BY <1>3, <1>4, <1>5, <1>6

LEMMA MetaStep ==
  ASSUME TarInv, ReadMeta
  PROVE  TarInv'
<1>1. /\ archive' = archive /\ mode' = mode /\ length' = length
      /\ entry' = entry /\ remaining' = remaining /\ files' = files
      /\ directories' = directories /\ pc = "meta" /\ pc' = "header"
      /\ at' = at + (Entry.size + padding(Entry.size))
      /\ next_long_name' = IF Entry.path # NoName THEN Entry.path ELSE next_long_name
  BY DEF ReadMeta, ReadExact, wanted, arguments, written
<1>2. InEntry
  BY <1>1 DEF InEntry
<1>3. /\ entry \in 1 .. Len(archive) /\ remaining \in Nat /\ Len(archive) \in Nat
      /\ at \in Nat /\ Entry.size \in Nat /\ padding(Entry.size) \in Nat
      /\ Entry = archive[entry]
  BY <1>2, EntryFacts DEF TarInv, TypeOK
<1>4. Entry.type \in Meta
  BY <1>1, <1>2 DEF TarInv, Position, Handler
<1>5. at' = Place(archive, entry + 1)
  BY <1>1, <1>2, <1>4, EntryEnds DEF TarInv, Position, Meta
<1>6. at' \in Nat
  BY <1>1, <1>3
<1>7. FilesOK'
  BY <1>1, <1>3, FilesStay
<1>8. TypeOK' /\ IsArchive(archive)'
  BY <1>1, <1>3, <1>6, <1>7, TypeParts
<1>9. Position'
  BY <1>1, <1>5 DEF Position, InEntry
<1>10. Naming'
  <2>1. next_long_name' = Pending(archive, entry)
    BY <1>1, <1>2, EntryEnds DEF TarInv, Naming
  <2> QED
    BY <1>1, <2>1 DEF Naming, InEntry
<1>11. Writing'
  <2>1. \A i \in 1 .. entry' : \/ i \in 1 .. entry /\ Handled(i)
                               \/ archive[i].type \notin {"0", "5"}
    BY <1>1, <1>3, <1>4 DEF Handled, Meta
  <2> QED
    BY <1>1, <2>1, WrittenStays
<1> QED
  BY <1>8, <1>9, <1>10, <1>11 DEF TarInv

LEMMA SkipStep ==
  ASSUME TarInv, SkipEntry
  PROVE  TarInv'
<1>1. /\ archive' = archive /\ mode' = mode /\ length' = length
      /\ entry' = entry /\ remaining' = remaining /\ files' = files
      /\ directories' = directories /\ pc = "skip" /\ pc' = "header"
      /\ at' = Smaller(at + Entry.size + padding(Entry.size), length)
      /\ next_long_name' = next_long_name
  BY DEF SkipEntry, arguments, written
<1>2. InEntry
  BY <1>1 DEF InEntry
<1>3. /\ entry \in 1 .. Len(archive) /\ remaining \in Nat /\ Len(archive) \in Nat
      /\ at \in Nat /\ Entry.size \in Nat /\ padding(Entry.size) \in Nat
      /\ Entry = archive[entry] /\ length \in Nat
  BY <1>2, EntryFacts DEF TarInv, TypeOK
<1>4. Entry.type \notin Meta /\ Entry.type \notin {"0", "5"}
  BY <1>1, <1>2 DEF TarInv, Position, Handler
<1>5. at' = length \/ at' = Place(archive, entry + 1)
  <2>1. at = Entry.start + BlockSize /\ Entry.start \in Nat /\ BlockSize \in Nat
    BY <1>1, <1>2, EntryFacts, SizesAssumption DEF TarInv, Position
  <2>2. Place(archive, entry + 1)
          = Entry.start + BlockSize + (Entry.size + padding(Entry.size))
    BY <1>2, <1>4, EntryEnds
  <2> QED
    BY <1>1, <1>3, <2>1, <2>2 DEF Smaller
<1>6. at' \in Nat
  BY <1>1, <1>3 DEF Smaller
<1>7. FilesOK'
  BY <1>1, <1>3, FilesStay
<1>8. TypeOK' /\ IsArchive(archive)'
  BY <1>1, <1>3, <1>6, <1>7, TypeParts
<1>9. Position'
  BY <1>1, <1>5 DEF Position, InEntry
<1>10. Naming'
  <2>1. next_long_name' = Pending(archive, entry)
    BY <1>1, <1>2, <1>4, EntryEnds DEF TarInv, Naming
  <2> QED
    BY <1>1, <2>1 DEF Naming, InEntry
<1>11. Writing'
  <2>1. \A i \in 1 .. entry' : \/ i \in 1 .. entry /\ Handled(i)
                               \/ archive[i].type \notin {"0", "5"}
    BY <1>1, <1>3, <1>4 DEF Handled
  <2> QED
    BY <1>1, <2>1, WrittenStays
<1> QED
  BY <1>8, <1>9, <1>10, <1>11 DEF TarInv

LEMMA DirectoryStep ==
  ASSUME TarInv, MakeDirectory
  PROVE  TarInv'
<1>1. /\ archive' = archive /\ mode' = mode /\ length' = length /\ at' = at
      /\ entry' = entry /\ remaining' = remaining /\ files' = files
      /\ pc = "directory" /\ pc' = "header" /\ next_long_name' = next_long_name
      /\ directories' = IF Extracting THEN directories \cup {name} ELSE directories
  BY DEF MakeDirectory, arguments
<1>2. InEntry
  BY <1>1 DEF InEntry
<1>3. /\ entry \in 1 .. Len(archive) /\ remaining \in Nat /\ Len(archive) \in Nat
      /\ at \in Nat /\ Entry = archive[entry]
  BY <1>2, EntryFacts DEF TarInv, TypeOK
<1>4. Entry.type = "5"
  BY <1>1, <1>2 DEF TarInv, Position, Handler
<1>5. at' = Place(archive, entry + 1)
  BY <1>1, <1>2, <1>4, EntryEnds DEF TarInv, Position
<1>6. FilesOK'
  BY <1>1, <1>3, FilesStay
<1>7. TypeOK' /\ IsArchive(archive)'
  BY <1>1, <1>3, <1>6, TypeParts
<1>8. Position'
  BY <1>1, <1>5 DEF Position, InEntry
<1>9. Naming'
  <2>1. next_long_name' = Pending(archive, entry)
    BY <1>1, <1>2, <1>4, EntryEnds DEF TarInv, Naming, Meta
  <2> QED
    BY <1>1, <2>1 DEF Naming, InEntry
<1>10. Writing'
  <2> SUFFICES ASSUME Extracting
               PROVE  /\ \A p \in DOMAIN files :
                            files[p].bytes = archive[files[p].from].size
                      /\ \A i \in 1 .. entry :
                           /\ archive[i].type = "0" =>
                                /\ Named(archive, i) \in DOMAIN files
                                /\ files[Named(archive, i)].from >= i
                           /\ archive[i].type = "5" =>
                                Named(archive, i) \in directories \cup {name}
    BY <1>1 DEF Writing, Extracting
  <2>1. /\ \A p \in DOMAIN files : files[p].bytes = archive[files[p].from].size
        /\ \A i \in 1 .. entry : i < entry =>
             /\ archive[i].type = "0" => /\ Named(archive, i) \in DOMAIN files
                                         /\ files[Named(archive, i)].from >= i
             /\ archive[i].type = "5" => Named(archive, i) \in directories
    BY <1>1 DEF TarInv, Writing, Handled
  <2>2. name = Named(archive, entry)
    BY <1>2 DEF TarInv, Naming
  <2>3. \A i \in 1 .. entry : i < entry \/ i = entry
    BY <1>3
  <2> QED
    BY <1>3, <1>4, <2>1, <2>2, <2>3
<1> QED
  BY <1>7, <1>8, <1>9, <1>10 DEF TarInv

LEMMA CreateStep ==
  ASSUME TarInv, CreateFile
  PROVE  TarInv'
<1> DEFINE created == [p \in DOMAIN files \cup {name} |->
                         IF p = name THEN [from |-> entry, bytes |-> 0] ELSE files[p]]
<1>1. /\ archive' = archive /\ mode' = mode /\ length' = length /\ at' = at
      /\ entry' = entry /\ name' = name /\ next_long_name' = next_long_name
      /\ directories' = directories /\ pc = "file" /\ pc' = "copy"
      /\ remaining' = Entry.size
      /\ files' = IF Extracting THEN created ELSE files
  BY DEF CreateFile, arguments
<1>2. InEntry
  BY <1>1 DEF InEntry
<1>3. /\ entry \in 1 .. Len(archive) /\ Entry.size \in Nat /\ Len(archive) \in Nat
      /\ at \in Nat /\ Entry = archive[entry] /\ Entry' = Entry
  BY <1>1, <1>2, EntryFacts DEF TarInv, TypeOK, Entry
<1>4. Entry.type = "0" /\ at = Entry.start + BlockSize
  BY <1>1, <1>2 DEF TarInv, Position, Handler
<1>5. /\ DOMAIN created = DOMAIN files \cup {name}
      /\ created[name] = [from |-> entry, bytes |-> 0]
      /\ \A p \in DOMAIN files : p # name => created[p] = files[p]
  OBVIOUS
<1>6. FilesOK
  BY DEF TarInv, TypeOK, FilesOK
<1> HIDE DEF created
<1>7. FilesOK'
  <2>1. CASE files' = created
    <3> SUFFICES ASSUME NEW p \in DOMAIN created
                 PROVE  /\ created[p] \in [from : 1 .. entry, bytes : Nat]
                        /\ created[p].bytes <= archive[created[p].from].size
      BY <1>1, <2>1 DEF FilesOK
    <3>1. CASE p = name
      <4>1. entry \in 1 .. entry
        BY <1>3
      <4> QED
        BY <1>3, <1>5, <3>1, <4>1
    <3>2. CASE p # name
      BY <1>5, <1>6, <3>2 DEF FilesOK
    <3> QED
      BY <3>1, <3>2
  <2>2. CASE files' = files
    BY <1>1, <1>3, <2>2, FilesStay
  <2> QED
    BY <1>1, <2>1, <2>2
<1>8. TypeOK' /\ IsArchive(archive)'
  BY <1>1, <1>3, <1>7, TypeParts
<1>9. Position'
  BY <1>1, <1>3, <1>4 DEF Position, InEntry
<1>10. Naming'
  BY <1>1, <1>2 DEF TarInv, Naming, InEntry
<1>11. Writing'
  <2> SUFFICES ASSUME Extracting
               PROVE  /\ \A p \in DOMAIN created :
                            \/ created[p].bytes = archive[created[p].from].size
                            \/ p = name
                      /\ name \in DOMAIN created /\ created[name].from = entry
                      /\ created[name].bytes + Entry.size = Entry.size
                      /\ \A i \in 1 .. entry : i < entry =>
                           /\ archive[i].type = "0" =>
                                /\ Named(archive, i) \in DOMAIN created
                                /\ created[Named(archive, i)].from >= i
                           /\ archive[i].type = "5" =>
                                Named(archive, i) \in directories
    BY <1>1, <1>3 DEF Writing, Extracting, Handled
  <2>1. /\ \A p \in DOMAIN files : files[p].bytes = archive[files[p].from].size
        /\ \A i \in 1 .. entry : i < entry =>
             /\ archive[i].type = "0" => /\ Named(archive, i) \in DOMAIN files
                                         /\ files[Named(archive, i)].from >= i
             /\ archive[i].type = "5" => Named(archive, i) \in directories
    BY <1>1 DEF TarInv, Writing, Handled
  <2>2. created[name].from = entry /\ created[name].bytes = 0
    BY <1>5
  <2>3. \A i \in 1 .. entry : i < entry /\ archive[i].type = "0" =>
          /\ Named(archive, i) \in DOMAIN created
          /\ created[Named(archive, i)].from >= i
    <3> SUFFICES ASSUME NEW i \in 1 .. entry, i < entry, archive[i].type = "0"
                 PROVE  /\ Named(archive, i) \in DOMAIN created
                        /\ created[Named(archive, i)].from >= i
      OBVIOUS
    <3>1. Named(archive, i) \in DOMAIN files /\ files[Named(archive, i)].from >= i
      BY <2>1
    <3>2. CASE Named(archive, i) = name
      BY <1>3, <1>5, <2>2, <3>2
    <3>3. CASE Named(archive, i) # name
      BY <1>5, <3>1, <3>3
    <3> QED
      BY <3>2, <3>3
  <2>4. \A p \in DOMAIN created :
          created[p].bytes = archive[created[p].from].size \/ p = name
    BY <1>5, <2>1
  <2> QED
    BY <1>3, <1>5, <2>1, <2>2, <2>3, <2>4
<1> QED
  BY <1>8, <1>9, <1>10, <1>11 DEF TarInv

LEMMA CopyStep ==
  ASSUME TarInv, CopyBuffer
  PROVE  TarInv'
<1> DEFINE t == to_read
           grown == [files EXCEPT ![name].bytes = @ + t]
<1>1. /\ archive' = archive /\ mode' = mode /\ length' = length
      /\ entry' = entry /\ name' = name /\ next_long_name' = next_long_name
      /\ directories' = directories /\ pc = "copy" /\ pc' = "copy"
      /\ at' = at + t /\ remaining > 0 /\ remaining' = remaining - t
      /\ files' = IF Extracting THEN grown ELSE files
  BY DEF CopyBuffer, ReadExact, wanted, arguments
<1>2. InEntry
  BY <1>1 DEF InEntry
<1>3. /\ entry \in 1 .. Len(archive) /\ Entry.size \in Nat /\ Len(archive) \in Nat
      /\ at \in Nat /\ remaining \in Nat /\ Entry = archive[entry] /\ Entry' = Entry
      /\ Entry.start \in Nat /\ BlockSize \in Nat
  BY <1>1, <1>2, EntryFacts, SizesAssumption DEF TarInv, TypeOK, Entry
<1>4. Entry.type = "0" /\ at + remaining = Entry.start + BlockSize + Entry.size
  BY <1>1, <1>2 DEF TarInv, Position
<1>5. t \in Nat /\ t <= remaining
  BY <1>3, SizesAssumption DEF to_read, Smaller
<1>6. FilesOK
  BY DEF TarInv, TypeOK, FilesOK
<1>7. /\ DOMAIN grown = DOMAIN files
      /\ \A p \in DOMAIN files : p # name => grown[p] = files[p]
      /\ name \in DOMAIN files =>
           grown[name] = [files[name] EXCEPT !.bytes = files[name].bytes + t]
  OBVIOUS
<1> HIDE DEF t, grown
<1>8. Extracting =>
        /\ name \in DOMAIN files /\ files[name].from = entry
        /\ files[name].bytes + remaining = Entry.size
        /\ grown[name].from = entry /\ grown[name].bytes = files[name].bytes + t
        /\ grown[name] \in [from : 1 .. entry, bytes : Nat]
  <2> SUFFICES ASSUME Extracting
               PROVE  /\ name \in DOMAIN files /\ files[name].from = entry
                      /\ files[name].bytes + remaining = Entry.size
                      /\ grown[name].from = entry
                      /\ grown[name].bytes = files[name].bytes + t
                      /\ grown[name] \in [from : 1 .. entry, bytes : Nat]
    OBVIOUS
  <2>1. /\ name \in DOMAIN files /\ files[name].from = entry
        /\ files[name].bytes + remaining = Entry.size
    BY <1>1 DEF TarInv, Writing
  <2>2. files[name] \in [from : 1 .. entry, bytes : Nat]
    BY <1>6, <2>1 DEF FilesOK
  <2>3. grown[name] = [files[name] EXCEPT !.bytes = files[name].bytes + t]
    BY <1>7, <2>1
  <2>4. grown[name] = [from |-> files[name].from, bytes |-> files[name].bytes + t]
    BY <2>2, <2>3
  <2> QED
    BY <1>5, <2>1, <2>2, <2>4
<1>9. FilesOK'
  <2>1. CASE Extracting
    <3> SUFFICES ASSUME NEW p \in DOMAIN files
                 PROVE  /\ grown[p] \in [from : 1 .. entry, bytes : Nat]
                        /\ grown[p].bytes <= archive[grown[p].from].size
      BY <1>1, <1>7, <2>1 DEF FilesOK
    <3>1. CASE p = name
      <4>1. files[name].bytes \in Nat
        BY <1>6, <1>8, <2>1 DEF FilesOK
      <4>2. files[name].bytes + t <= Entry.size
        BY <1>3, <1>5, <1>8, <2>1, <4>1
      <4> QED
        BY <1>3, <1>8, <2>1, <3>1, <4>2
    <3>2. CASE p # name
      BY <1>6, <1>7, <3>2 DEF FilesOK
    <3> QED
      BY <3>1, <3>2
  <2>2. CASE ~ Extracting
    BY <1>1, <1>3, <2>2, FilesStay
  <2> QED
    BY <2>1, <2>2
<1>10. TypeOK' /\ IsArchive(archive)'
  <2>1. at' \in Nat /\ remaining' \in Nat
    BY <1>1, <1>3, <1>5
  <2> QED
    BY <1>1, <1>3, <1>9, <2>1, TypeParts
<1>11. Position'
  <2>1. at' + remaining' = Entry.start + BlockSize + Entry.size
    BY <1>1, <1>3, <1>4, <1>5
  <2> QED
    BY <1>1, <1>3, <1>4, <2>1 DEF Position, InEntry
<1>12. Naming'
  BY <1>1, <1>2 DEF TarInv, Naming, InEntry
<1>13. Writing'
  <2> SUFFICES ASSUME Extracting
               PROVE  /\ \A p \in DOMAIN grown :
                            \/ grown[p].bytes = archive[grown[p].from].size
                            \/ p = name
                      /\ name \in DOMAIN grown /\ grown[name].from = entry
                      /\ grown[name].bytes + (remaining - t) = Entry.size
                      /\ \A i \in 1 .. entry : i < entry =>
                           /\ archive[i].type = "0" =>
                                /\ Named(archive, i) \in DOMAIN grown
                                /\ grown[Named(archive, i)].from >= i
                           /\ archive[i].type = "5" =>
                                Named(archive, i) \in directories
    BY <1>1, <1>3 DEF Writing, Extracting, Handled
  <2>1. /\ \A p \in DOMAIN files :
             files[p].bytes = archive[files[p].from].size \/ p = name
        /\ \A i \in 1 .. entry : i < entry =>
             /\ archive[i].type = "0" => /\ Named(archive, i) \in DOMAIN files
                                         /\ files[Named(archive, i)].from >= i
             /\ archive[i].type = "5" => Named(archive, i) \in directories
    BY <1>1 DEF TarInv, Writing, Handled
  <2>2. grown[name].bytes + (remaining - t) = Entry.size
    <3>1. files[name].bytes \in Nat
      BY <1>6, <1>8 DEF FilesOK
    <3> QED
      BY <1>3, <1>5, <1>8, <3>1
  <2>3. \A i \in 1 .. entry : i < entry /\ archive[i].type = "0" =>
          /\ Named(archive, i) \in DOMAIN grown
          /\ grown[Named(archive, i)].from >= i
    <3> SUFFICES ASSUME NEW i \in 1 .. entry, i < entry, archive[i].type = "0"
                 PROVE  /\ Named(archive, i) \in DOMAIN grown
                        /\ grown[Named(archive, i)].from >= i
      OBVIOUS
    <3>1. Named(archive, i) \in DOMAIN files /\ files[Named(archive, i)].from >= i
      BY <2>1
    <3>2. CASE Named(archive, i) = name
      BY <1>3, <1>7, <1>8, <3>1, <3>2
    <3>3. CASE Named(archive, i) # name
      BY <1>7, <3>1, <3>3
    <3> QED
      BY <3>2, <3>3
  <2>4. \A p \in DOMAIN grown :
          grown[p].bytes = archive[grown[p].from].size \/ p = name
    BY <1>7, <2>1
  <2> QED
    BY <1>7, <1>8, <2>1, <2>2, <2>3, <2>4
<1> QED
  BY <1>10, <1>11, <1>12, <1>13 DEF TarInv

LEMMA PaddingStep ==
  ASSUME TarInv, SkipPadding
  PROVE  TarInv'
<1>1. /\ archive' = archive /\ mode' = mode /\ length' = length
      /\ entry' = entry /\ remaining' = remaining /\ remaining = 0
      /\ files' = files /\ directories' = directories
      /\ pc = "copy" /\ pc' = "header" /\ next_long_name' = next_long_name
      /\ at' = at + padding(Entry.size)
  BY DEF SkipPadding, ReadExact, wanted, arguments, written
<1>2. InEntry
  BY <1>1 DEF InEntry
<1>3. /\ entry \in 1 .. Len(archive) /\ Len(archive) \in Nat /\ Entry.size \in Nat
      /\ at \in Nat /\ remaining \in Nat /\ Entry = archive[entry]
      /\ Entry.start \in Nat /\ BlockSize \in Nat /\ padding(Entry.size) \in Nat
  BY <1>2, EntryFacts, SizesAssumption DEF TarInv, TypeOK
<1>4. Entry.type = "0" /\ at + remaining = Entry.start + BlockSize + Entry.size
  BY <1>1, <1>2 DEF TarInv, Position
<1>5. at' = Place(archive, entry + 1)
  <2>1. Place(archive, entry + 1)
          = Entry.start + BlockSize + (Entry.size + padding(Entry.size))
    BY <1>2, <1>4, EntryEnds
  <2> QED
    BY <1>1, <1>3, <1>4, <2>1
<1>6. FilesOK'
  BY <1>1, <1>3, FilesStay
<1>7. TypeOK' /\ IsArchive(archive)'
  <2>1. at' \in Nat
    BY <1>1, <1>3
  <2> QED
    BY <1>1, <1>3, <1>6, <2>1, TypeParts
<1>8. Position'
  BY <1>1, <1>5 DEF Position, InEntry
<1>9. Naming'
  <2>1. next_long_name' = Pending(archive, entry)
    BY <1>1, <1>2, <1>4, EntryEnds DEF TarInv, Naming, Meta
  <2> QED
    BY <1>1, <2>1 DEF Naming, InEntry
<1>10. Writing'
  <2> SUFFICES ASSUME Extracting
               PROVE  /\ \A p \in DOMAIN files :
                            files[p].bytes = archive[files[p].from].size
                      /\ \A i \in 1 .. entry :
                           /\ archive[i].type = "0" =>
                                /\ Named(archive, i) \in DOMAIN files
                                /\ files[Named(archive, i)].from >= i
                           /\ archive[i].type = "5" =>
                                Named(archive, i) \in directories
    BY <1>1 DEF Writing, Extracting
  <2>1. /\ \A p \in DOMAIN files :
             files[p].bytes = archive[files[p].from].size \/ p = name
        /\ name \in DOMAIN files /\ files[name].from = entry
        /\ files[name].bytes + remaining = Entry.size
        /\ \A i \in 1 .. entry : i < entry =>
             /\ archive[i].type = "0" => /\ Named(archive, i) \in DOMAIN files
                                         /\ files[Named(archive, i)].from >= i
             /\ archive[i].type = "5" => Named(archive, i) \in directories
    BY <1>1 DEF TarInv, Writing, Handled
  <2>2. name = Named(archive, entry)
    BY <1>2 DEF TarInv, Naming
  <2>3. \A i \in 1 .. entry : i < entry \/ i = entry
    BY <1>3
  <2>4. files[name].bytes = Entry.size
    <3>1. files[name].bytes \in Nat
      BY <2>1 DEF TarInv, TypeOK
    <3> QED
      BY <1>1, <1>3, <2>1, <3>1
  <2>5. \A p \in DOMAIN files : files[p].bytes = archive[files[p].from].size
    BY <1>3, <2>1, <2>4
  <2>6. \A i \in 1 .. entry : archive[i].type = "0" =>
          Named(archive, i) \in DOMAIN files /\ files[Named(archive, i)].from >= i
    BY <1>3, <2>1, <2>2, <2>3
  <2>7. \A i \in 1 .. entry : archive[i].type = "5" =>
          Named(archive, i) \in directories
    BY <1>3, <1>4, <2>1, <2>3
  <2> QED
    BY <2>5, <2>6, <2>7
<1> QED
  BY <1>7, <1>8, <1>9, <1>10 DEF TarInv

LEMMA StepTar == TarInv /\ [Next]_vars => TarInv'
<1> SUFFICES ASSUME TarInv, [Next]_vars PROVE TarInv'
  OBVIOUS
<1>1. CASE ReadTrailer
  BY <1>1, TrailerStep
<1>2. CASE ReadHeader
  BY <1>2, HeaderStep
<1>3. CASE ReadMeta
  BY <1>3, MetaStep
<1>4. CASE CreateFile
  BY <1>4, CreateStep
<1>5. CASE CopyBuffer
  BY <1>5, CopyStep
<1>6. CASE SkipPadding
  BY <1>6, PaddingStep
<1>7. CASE MakeDirectory
  BY <1>7, DirectoryStep
<1>8. CASE SkipEntry
  BY <1>8, SkipStep
<1>9. CASE EndOfStream \/ PathTaken \/ OtherError
  BY <1>9, FailStep DEF EndOfStream, PathTaken, OtherError
<1>10. CASE UNCHANGED vars
  BY <1>10 DEF vars, arguments, written, TarInv, TypeOK, Position, Naming, Writing,
     Handled, InEntry, Entry, Extracting
<1> QED
  BY <1>1, <1>2, <1>3, <1>4, <1>5, <1>6, <1>7, <1>8, <1>9, <1>10 DEF Next, Progress

LEMMA Invariance == Spec => []TarInv
  BY InitTar, StepTar, PTL DEF Spec

(* Every variable keeps its type, and no file ever holds more bytes than   *)
(* the entry it was made for has.                                          *)
THEOREM TypeCorrect == Spec => []TypeOK
<1>1. TarInv => TypeOK
  BY DEF TarInv
<1> QED
  BY <1>1, Invariance, PTL

(* untar reads every header where one stands: whatever types of entries    *)
(* come in whatever order, data and padding are consumed to the byte.      *)
THEOREM HeadersInPlace == Spec => []FramingKept
<1>1. TarInv => FramingKept
  <2> SUFFICES ASSUME TarInv, pc = "header"
               PROVE  \/ at = Trailer(archive)
                      \/ \E i \in 1 .. Len(archive) : at = archive[i].start
                      \/ at = length
    BY DEF FramingKept
  <2>1. entry \in 0 .. Len(archive) /\ Len(archive) \in Nat
    BY DEF TarInv, TypeOK, IsArchive
  <2>2. at = length \/ at = Place(archive, entry + 1)
    BY DEF TarInv, Position
  <2>3. CASE entry < Len(archive)
    <3>1. entry + 1 \in 1 .. Len(archive)
      BY <2>1, <2>3
    <3> QED
      BY <2>2, <3>1 DEF Place
  <2>4. CASE entry = Len(archive)
    BY <2>1, <2>2, <2>4 DEF Place
  <2> QED
    BY <2>1, <2>3, <2>4
<1> QED
  BY <1>1, Invariance, PTL

(* untar gives a file or directory the long name that was meant for it and *)
(* never that of another.                                                  *)
THEOREM NamesMeet == Spec => []NamesPaired
<1>1. TarInv => NamesPaired
  <2> SUFFICES ASSUME TarInv, pc \in {"file", "copy", "directory"}
               PROVE  name = NameOf(entry)
    BY DEF NamesPaired
  <2>1. entry \in 1 .. Len(archive) /\ name = Named(archive, entry)
    BY DEF TarInv, Position, Naming, InEntry
  <2>2. NameOf(entry) = Named(archive, entry)
    BY <2>1, NameGiven DEF TarInv
  <2> QED
    BY <2>1, <2>2
<1> QED
  BY <1>1, Invariance, PTL

(* When untar returns Ok, upon which main removes the input file, every    *)
(* file and directory of the archive has been written in full.             *)
THEOREM OkIsComplete == Spec => []OkMeansExtracted
<1>1. TarInv => OkMeansExtracted
  <2> SUFFICES ASSUME TarInv, pc = "done", Extracting, NEW i \in 1 .. Len(archive)
               PROVE  /\ archive[i].type = "0" => Complete(i)
                      /\ archive[i].type = "5" => NameOf(i) \in directories
    BY DEF OkMeansExtracted
  <2>1. NameOf(i) = Named(archive, i)
    BY NameGiven DEF TarInv
  <2>2. entry = Len(archive)
    BY DEF TarInv, Position
  <2>3. /\ \A p \in DOMAIN files : files[p].bytes = archive[files[p].from].size
        /\ archive[i].type = "0" => /\ Named(archive, i) \in DOMAIN files
                                    /\ files[Named(archive, i)].from >= i
        /\ archive[i].type = "5" => Named(archive, i) \in directories
    BY <2>2 DEF TarInv, Writing, Handled
  <2> QED
    BY <2>1, <2>3 DEF Complete
<1> QED
  BY <1>1, Invariance, PTL

(* A stream that ends before the archive's closing zeros never gives Ok.   *)
THEOREM ShortStreamsFail == Spec => []CutShortFails
<1>1. TarInv => CutShortFails
  BY DEF TarInv, Position, CutShortFails
<1> QED
  BY <1>1, Invariance, PTL
=============================================================================
