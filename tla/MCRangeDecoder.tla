--------------------------- MODULE MCRangeDecoder ---------------------------
(* Four values of a byte, so a word has 256 and the interval is short of a  *)
(* digit below 64; probabilities out of 8 move between 3 and 5.             *)
EXTENDS RangeDecoder

Codes == {<<0, a, b, c, d>> : a \in Digits, b \in {0, 3}, c \in {0, 1},
                               d \in {0, 3}}

MCMessages ==
  {c \o t : c \in Codes \cup {<<0, 3, 3, 3, 2>>, <<0, 3, 3, 3, 3>>},
           t \in {<<>>, <<2>>, <<0, 0>>, <<1, 0>>, <<2, 1>>}}
    \cup {<<0, 1, 0, 2>>, <<1, 0, 0, 0, 0>>}
=============================================================================
