------------------------- MODULE MCStripFilePrefix -------------------------
(***************************************************************************)
(* Files of up to MaxSize bytes, every prefix length from 0 to one past    *)
(* the end of the largest file, and a user-space buffer that fills up      *)
(* before the copy is over.                                                *)
(***************************************************************************)
EXTENDS StripFilePrefix
=============================================================================
