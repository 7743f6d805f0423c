----------------------------- MODULE MCLzDecoder -----------------------------
(* A window of four bytes over an output that wraps it.                     *)
EXTENDS LzDecoder

MCBytes     == {0, 1}
MCDistances == 0 .. 4
MCLengths   == {1, 2, 3, 5}
=============================================================================
