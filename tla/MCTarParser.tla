----------------------------- MODULE MCTarParser -----------------------------
(* Blocks of two bytes, a copy buffer of four, sizes around their multiples,*)
(* and every archive of up to three members, each with the entries that     *)
(* describe it before it as GNU tar and PAX writers put them.               *)
EXTENDS TarParser

Member(type, size, own) ==
  [start |-> 0, type |-> type, size |-> size, name |-> own, path |-> NoName]

Giving(type, size, path) ==
  [start |-> 0, type |-> type, size |-> size, name |-> "meta", path |-> path]

(* What may stand before a member: nothing, a PAX header without a path, a  *)
(* long name, or a long link name and then a long name.                     *)
Preludes ==
  {<<>>,
   <<Giving("g", 3, NoName)>>,
   <<Giving("L", 2, "long")>>,
   <<Giving("K", 1, NoName), Giving("x", 3, "long")>>}

Members ==
  {<<Member("0", size, "a")>> : size \in {0, 1, 4, 5}}
    \cup {<<Member("0", 9, "b")>>, <<Member("5", 0, "d")>>,
          <<Member("5", 3, "d")>>, <<Member("other", 0, "a")>>,
          <<Member("other", 3, "a")>>}

Parts == {prelude \o member : prelude \in Preludes, member \in Members}

Some == {prelude \o member :
           prelude \in {<<>>, <<Giving("L", 2, "long")>>},
           member \in {<<Member("0", 5, "a")>>, <<Member("5", 3, "d")>>,
                       <<Member("other", 3, "a")>>}}

(* The same with every entry in its place.                                  *)
Placed(a) ==
  LET start[i \in 1 .. Len(a)] ==
        IF i = 1 THEN 0 ELSE start[i - 1] + BlockSize + DataSize(a[i - 1])
  IN [i \in 1 .. Len(a) |-> [a[i] EXCEPT !.start = start[i]]]

MCArchives ==
  {Placed(a) : a \in
     {<<>>} \cup Parts \cup {p \o q : p \in Parts, q \in Some}
       \cup {p \o q \o r : p \in Some, q \in Some, r \in Some}}
=============================================================================
