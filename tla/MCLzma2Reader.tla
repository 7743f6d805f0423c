---------------------------- MODULE MCLzma2Reader ----------------------------
(* A window of four bytes; what the bytes are does not matter here.         *)
EXTENDS Lzma2Reader

MCDistances  == {0, 1, 3}
MCLengths    == {1, 2, 4}
MCChunkSizes == {1, 2, 4}
MCReadSizes  == {1, 3, 5}
=============================================================================
