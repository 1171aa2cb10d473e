------------------------------ MODULE MCBTree -------------------------------
(***************************************************************************)
(* Small instances of BTree for TLC.                                       *)
(***************************************************************************)
EXTENDS BTreeProperties

Scope(rows, inserts, deletes) == [rows |-> rows, inserts |-> inserts, deletes |-> deletes]

\* A table from its creation, with statements on keys 1 to n.
EightKeys == {Scope(<<>>, 1 .. 8, 1 .. 8)}
SixKeys == {Scope(<<>>, 1 .. 6, 1 .. 6)}

\* A table that grows in every order, and one of three levels that shrinks at
\* its upper end, to two, and grows again.
TopKeys == {9, 10, 11, 13}
GrowAndShrink ==
  {Scope(<<>>, 1 .. 7, {}), Scope(<<1, 3, 5, 7, 9, 11, 13>>, TopKeys, TopKeys)}

\* Tables that grow where the parents of nodes have moved.
FourthLevel ==
  {Scope(<<100, 200, 300, 400, 500, 600, 700, 800, 900, 1000, 350, 360, 370>>,
         {365, 380, 390}, {})}
ThirdLevel == {Scope(<<10, 20, 30, 40>>, {5, 15, 25, 50}, {})}
=============================================================================
