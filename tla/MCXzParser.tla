----------------------------- MODULE MCXzParser -----------------------------
(* Three bits to a group, so a word of ten bits takes up to four bytes and  *)
(* uses one bit of the fourth, as one of 64 does with the tenth.  Files as  *)
(* the format lays them out, and such files with something changed.         *)
EXTENDS XzParser, SequencesExt

(* How the format writes a number, and several in a row from a place on:    *)
(* where each of them ends.                                                 *)
Bytewise(n) ==
  LET k == CHOOSE k \in 1 .. 4 :
             n < More ^ k /\ (k = 1 \/ n >= More ^ (k - 1))
  IN  [i \in 1 .. k |-> ((n \div More ^ (i - 1)) % More) + IF i < k THEN More ELSE 0]

Row(ns) == FlattenSeq([i \in 1 .. Len(ns) |-> Bytewise(ns[i])])
EndOf(at, ns, i) == at + Len(Row(SubSeq(ns, 1, i)))

(* Zeros up to a multiple of four, then the checksum.                       *)
Sealed(s) == s \o [i \in 1 .. ((4 - (Len(s) % 4)) % 4) |-> 0] \o <<15, 9, 0, 15>>

Record(u, v) == [unpadded_size |-> u, uncompressed_size |-> v]
Filter(id, props) == [id |-> id, props |-> props]
FilterBytes(t) == Row(<<t.id, Len(t.props)>>) \o t.props

(* A header that states the sizes it is given, with its filters.            *)
HeaderOf(packed, plain, filters) ==
  LET flags == Len(filters) - 1 + 4 * Len(packed) + 8 * Len(plain)
      chain == FlattenSeq([i \in 1 .. Len(filters) |-> FilterBytes(filters[i])])
      whole == Sealed(<<0, flags>> \o Row(packed \o plain) \o chain)
  IN  <<Len(whole) \div 4 - 1>> \o Tail(whole)

FilterAt(at, filters, i) ==
  LET t    == filters[i]
      from == at + Len(FlattenSeq([j \in 1 .. i - 1 |-> FilterBytes(filters[j])]))
  IN  [id |-> t.id, size |-> Len(t.props), at |-> from,
       size_at |-> EndOf(from, <<t.id>>, 1),
       props_at |-> EndOf(from, <<t.id, Len(t.props)>>, 2)]

(* A file of records rs, with the sizes of its first block and what its     *)
(* header states of them.                                                   *)
Bare(front, rs, header, check) ==
  LET ns    == <<Len(rs)>> \o FlattenSeq([i \in 1 .. Len(rs) |->
                 <<rs[i].unpadded_size, rs[i].uncompressed_size>>])
      index == Sealed(<<0>> \o Row(ns))
  IN  [front |-> [i \in 1 .. front |-> 1], index |-> index, header |-> header,
       backward |-> Len(index) \div 4 - 1, check |-> check, records |-> rs,
       magic |-> TRUE, footer_crc |-> TRUE, index_crc |-> TRUE, header_crc |-> TRUE,
       intact |-> TRUE, filters |-> <<>>, plain_at |-> 0, block |-> None,
       starts  |-> [r \in 1 .. Len(rs) + 1 |-> EndOf(1, ns, 2 * r - 1)],
       seconds |-> [r \in 1 .. Len(rs) |-> EndOf(1, ns, 2 * r)]]

FileOf(b, before, d, check, later) ==
  LET packed  == IF b.states_packed THEN <<b.packed>> ELSE <<>>
      plain   == IF b.states_plain THEN <<b.plain>> ELSE <<>>
      filters == Append(before, Filter(Lzma2, <<d>>))
      header  == HeaderOf(packed, plain, filters)
      first   == Record(Len(header) + b.packed + check, b.plain)
      at      == EndOf(1, packed, Len(packed))
  IN  [Bare(24, <<first>> \o later, header, check) EXCEPT
         !.filters = [i \in 1 .. Len(filters) |->
                        FilterAt(EndOf(at, plain, Len(plain)), filters, i)],
         !.plain_at = at,
         !.block = [compressed_size |-> b.packed, uncompressed_size |-> b.plain,
                    block_total_size |-> Len(header),
                    dict_size |-> IF d = MaxDict THEN Half - 1
                                  ELSE IF d % 2 = 0 THEN 4 * 2 ^ (d \div 2)
                                  ELSE 6 * 2 ^ (d \div 2)]]

(* Blocks: sizes of one byte and up to four.  Filters before LZMA2: branch  *)
(* filters, delta with its property, one with a long id whose property      *)
(* looks like LZMA2.                                                        *)
BlocksOf(sizes, plains) ==
  [packed : sizes, plain : plains, states_packed : BOOLEAN, states_plain : BOOLEAN]
Chains == {<<>>, <<Filter(4, <<>>)>>, <<Filter(3, <<12>>), Filter(4, <<>>)>>,
           <<Filter(30, <<5, 1, 12>>)>>}

Written ==
  {Bare(24, <<>>, <<0, 0, 0, 0>>, 0)}
    \cup {FileOf(b, before, d, check, later) :
            b \in BlocksOf({5, 64, 980}, {0, 8, 1022}), before \in Chains,
            d \in {0, 11, 12}, check \in {0, 8}, later \in {<<>>, <<Record(511, 1023)>>}}

(* The same with something changed: a checksum, the footer's size, a byte   *)
(* of the index or of the header, with a checksum that fits all the same.   *)
Sample ==
  {FileOf(b, before, 5, 0, later) :
     b \in {[packed |-> p, plain |-> 8, states_packed |-> s, states_plain |-> FALSE] :
              p \in {20, 1023}, s \in BOOLEAN},
     before \in {<<>>, <<Filter(3, <<12>>)>>}, later \in {<<>>, <<Record(40, 1)>>}}

Changed(f) ==
       {[f EXCEPT !.magic = FALSE], [f EXCEPT !.footer_crc = FALSE],
        [f EXCEPT !.index_crc = FALSE], [f EXCEPT !.header_crc = FALSE]}
  \cup {[f EXCEPT !.backward = b] : b \in {0, 1, 62, 63, 64, 255}}
  \cup {[f EXCEPT !.index = ReplaceAt(@, i, b)] : i \in DOMAIN f.index, b \in Bytes}
  \cup {[f EXCEPT !.header = ReplaceAt(@, i, b)] : i \in DOMAIN f.header, b \in Bytes}

Broken == {[g EXCEPT !.intact = FALSE] : g \in UNION {Changed(f) : f \in Sample}}

MCFiles == Written \cup Broken
=============================================================================
