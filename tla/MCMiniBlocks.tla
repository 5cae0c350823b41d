---------------------------- MODULE MCMiniBlocks ----------------------------
(* A small instance of MiniBlocks for TLC. *)
EXTENDS MiniBlocks

Tx(text) == [text |-> text, rest |-> "1"]

\* The same transaction with another fee.
Dearer(text) == [text |-> text, rest |-> "2"]

\* Five transactions leave an odd hash at two levels of the tree. A list of three has the
\* root of the list that goes on with a copy of its last one, even at another fee.
Lists ==
  {<< >>, <<Tx("a"), Tx("b")>>, <<Tx("a"), Tx("b"), Tx("c")>>,
   <<Tx("a"), Tx("b"), Tx("c"), Dearer("c")>>,
   <<Tx("a"), Tx("b"), Tx("c"), Tx("d"), Tx("e")>>}
=============================================================================
