-------------------------- MODULE MC_PackageSigner --------------------------
(* Words of seven bits, kilobytes of four bytes, signatures of four: a block  *)
(* is sixteen bytes unless another size is typed, and one read or write moves *)
(* sixty at most.                                                             *)
EXTENDS PackageSigner

O(opt, arg) == [opt |-> opt, arg |-> arg]
Block(n, u)    == O("b", [num |-> n, unit |-> u])
Version(ns, b) == O("v", [nums |-> ns, bad |-> b])
File           == O("o", "name")

MCOptions ==
  {Block(8, ""), Block(2, "k"), Block(40, "k"), Block(12, ""), Block(0, ""), Block(8, "x"),
   Block(32, "k"), Block(16, "k"), Block(2, ""), Version(<<1, 6, 3>>, 0), Version(<<0, 0>>, 0),
   Version(<<1, 2>>, 2), Version(<<1, 2>>, 1),
   O("m", [chars |-> <<3, 126>>]), O("m", [chars |-> <<>>]),
   O("l", [num |-> 130]), O("e", [num |-> 5]), O("p", [num |-> 2]),
   File, O("?", 0), O("input", "name")}

Content(n) == [i \in 1 .. n |-> (i * 3) % 5]
MCImages == {Content(n) : n \in {0, 1, 3, 4, 5, 11, 12, 13, 15, 16, 17, 57, 62, 125}}
MCOld    == {<<>>, [i \in 1 .. 40 |-> <<"old", 9>>]}
=============================================================================
