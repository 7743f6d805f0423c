---------------------------- MODULE MCExtraction ----------------------------
(* Archives of one to three blocks, in which members go over the blocks'   *)
(* borders and data look like the end of the archive.                      *)
EXTENDS Extraction

Unit(kind, m, n, size, zero) ==
  [kind |-> kind, at |-> 0, member |-> m, count |-> n, size |-> size, zero |-> zero]

H(m, n, size)    == Unit("header", m, n, size, FALSE)
D(m, n, size)    == Unit("data", m, n, size, FALSE)
Zero(m, n, size) == Unit("data", m, n, size, TRUE)
End(size)        == Unit("end", 0, 0, size, TRUE)

LayBlock(start, owed, units) ==
  LET at[i \in 1 .. Len(units) + 1] ==
        IF i = 1 THEN start + HeaderSize ELSE at[i - 1] + units[i - 1].size
  IN  [start |-> start, end |-> at[Len(units) + 1], owed |-> owed,
       units |-> [i \in 1 .. Len(units) |-> [units[i] EXCEPT !.at = at[i]]]]

Lay(check, bodies) ==
  LET laid[n \in 1 .. Len(bodies)] ==
        IF n = 1
        THEN LayBlock(StreamHeaderSize, [member |-> 0, left |-> 0], bodies[1])
        ELSE LET previous == laid[n - 1] IN
             LayBlock(BlockEnd([check |-> check], previous),
                      OwedAt(previous, Len(bodies[n - 1]) + 1), bodies[n])
  IN  [check |-> check, blocks |-> [n \in 1 .. Len(bodies) |-> laid[n]]]

OneBlock == Lay(4, <<
  <<H(1, 2, 5), Zero(1, 2, 2), D(1, 1, 7), H(2, 1, 4), Zero(2, 1, 2), End(2)>>>>)

(* Between the data of the first block and the second block are 12 bytes.  *)
ZeroSecond == Lay(8, <<
  <<H(1, 3, 5), D(1, 3, 7)>>, <<Zero(1, 2, 2), D(1, 1, 9), End(2)>>>>)

DataSecond == Lay(8, <<
  <<H(1, 2, 5), D(1, 2, 7)>>, <<D(1, 1, 9), End(2)>>>>)

HeaderSecond == Lay(8, <<
  <<H(1, 1, 5), D(1, 1, 7)>>, <<H(2, 1, 5), D(2, 1, 6)>>, <<End(2)>>>>)

(* No zero block at the end, and a block whose size is a multiple of four. *)
Endless == Lay(0, <<<<H(1, 1, 5), D(1, 1, 6)>>, <<H(2, 0, 5)>>>>)

(* A last unit that begins in the 12 bytes before the second block.        *)
SmallLast == Lay(0, <<
  <<H(1, 2, 5), D(1, 2, 7), D(1, 1, 11)>>, <<H(2, 1, 5), D(2, 1, 6), End(2)>>>>)

MCArchives == {SmallLast, OneBlock, ZeroSecond, DataSecond, HeaderSecond, Endless}
MCStripThresholds == {0, 30, 36, 43, 1000}
MCNames == {[xz |-> TRUE, length |-> 7], [xz |-> TRUE, length |-> 4],
            [xz |-> FALSE, length |-> 7]}
=============================================================================
