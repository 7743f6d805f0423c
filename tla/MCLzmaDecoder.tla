---------------------------- MODULE MCLzmaDecoder ----------------------------
(* Words of eight bits, so distances up to 255 in sixteen slots.            *)
EXTENDS LzmaDecoder

(* Runs of bits with at most one change in them tell every order of bits    *)
(* apart.                                                                   *)
OneChange(k) == {[i \in 1 .. k |-> IF i <= n THEN b ELSE 1 - b] :
                   n \in 1 .. k, b \in {0, 1}}

(* One symbol, of every kind, length, slot and property byte.               *)
EverySymbol ==
  [inputs |-> {<<>>} \cup UNION {OneChange(k) : k \in 1 .. 8}, long |-> TRUE,
   bytes |-> {65, 254}, positions |-> {6, 13}, fills |-> {3, 250},
   props |-> {93, 146, 255}, symbols |-> 1]

(* Five symbols: one length, three distances, of which the last is too far, *)
(* and literals which leave the byte 65 at the first bit, the last, in      *)
(* between, never.                                                          *)
LongHistory ==
  [inputs |-> {<<>>, <<0, 0, 1>>, <<0, 0, 0, 0>>, <<0, 1, 1, 1>>, <<1, 1, 1, 1>>,
               <<0, 1>>, <<1, 1, 1, 1, 1, 0>>, <<0, 1, 0, 0, 0, 0, 0, 1>>,
               <<1, 1, 0, 0, 0, 0, 0, 1>>, <<0, 1, 0, 1, 1, 1, 1, 0>>,
               <<0, 1, 0, 0, 0, 0, 0, 0>>}, long |-> FALSE,
   bytes |-> {65, 254}, positions |-> {6}, fills |-> {250},
   props |-> {93}, symbols |-> 5]

MCSettings == {EverySymbol, LongHistory}
=============================================================================
