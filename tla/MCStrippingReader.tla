------------------------- MODULE MCStrippingReader -------------------------
(***************************************************************************)
(* Small archives of one to three blocks, laid out as the format asks,     *)
(* over all the ways of mixing LZMA, stored and empty blocks, so that      *)
(* block ends fall before, at and behind the end of the caller's buffer.   *)
(***************************************************************************)
EXTENDS StrippingReader, Functions

Lzma(taken, out) == [stored |-> FALSE, taken |-> taken, out |-> out]
Stored(out)      == [stored |-> TRUE, taken |-> 3, out |-> out]

Size(c) == c.taken + IF c.stored THEN c.out ELSE 0

(* The sum of f[1] .. f[n].                                                *)
SumTo(f, n) == SumFunctionOnSet(f, 1 .. n)

HeaderSize == 12

(* A block at position `start` with these chunks, and `from' bytes before. *)
LayBlock(start, from, chunks, declares, check) ==
  LET sizes == [i \in DOMAIN chunks |-> Size(chunks[i])]
      outs  == [i \in DOMAIN chunks |-> chunks[i].out]
  IN [start |-> start, from |-> from, header |-> HeaderSize, declares |-> declares,
      unpadded |-> HeaderSize + SumTo(sizes, Len(chunks)) + 1 + check,
      uncompressed |-> SumTo(outs, Len(chunks)),
      chunks |-> [i \in DOMAIN chunks |->
                    [at |-> HeaderSize + SumTo(sizes, i - 1),
                     from |-> from + SumTo(outs, i - 1),
                     stored |-> chunks[i].stored, taken |-> chunks[i].taken,
                     out |-> chunks[i].out]] \o <<>>]

(* An archive with these blocks, each a sequence of chunks.                *)
LayArchive(bodies, declares, check) ==
  LET EndOf(blocks) == IF blocks = <<>> THEN StreamHeaderSize
                       ELSE BlockEnd(blocks[Len(blocks)])
      FromOf(blocks) == SumTo([i \in DOMAIN blocks |-> blocks[i].uncompressed],
                              Len(blocks))
      laid[n \in 0 .. Len(bodies)] ==
        IF n = 0 THEN <<>>
        ELSE LET before == laid[n - 1] IN
             Append(before, LayBlock(EndOf(before), FromOf(before), bodies[n],
                                     declares, check))
      blocks == laid[Len(bodies)]
  IN [blocks |-> blocks, check |-> check, size |-> EndOf(blocks) + 20]

Bodies == {<<Lzma(13, 3)>>, <<Stored(2), Lzma(11, 2)>>, <<Lzma(12, 1), Stored(3)>>}
Short  == {<<>>, <<Stored(2)>>}

OneBlock   == {<<b>> : b \in Bodies \cup Short}
TwoBlocks  == {<<b, c>> : b \in Bodies, c \in Bodies \cup Short}
MoreBlocks == {<<b, c, d>> : b \in Short, c \in Bodies, d \in Short}

MCArchives ==
  {LayArchive(bodies, declares, check) :
     bodies \in OneBlock \cup TwoBlocks \cup MoreBlocks,
     declares \in BOOLEAN, check \in {0, 8}}

(* Two blocks with data in both.                                           *)
TwoBlockArchives ==
  {LayArchive(<<b, c>>, TRUE, 8) : b \in Bodies, c \in Bodies}

MCStripThresholds == {0, 14, 30, 45, 1000}

MCReadSizes == {1, 2, 3, 5}
=============================================================================
