------------------------------ MODULE NodeLists ------------------------------
(* A linked list of lib/goose as the sequence of its nodes: what a loop over *)
(* the list finds there, and what is left of the list when it has taken some *)
(* nodes out.                                                                *)
EXTENDS Integers, FiniteSets

(* The members of nodes in the order of the list.  It is SelectSeq with a    *)
(* set for the test, by positions, so that it can be reasoned about.         *)
Kept(list, nodes) ==
  LET at == {i \in DOMAIN list : list[i] \in nodes}
      before(i) == {j \in at : j < i}
  IN  [k \in 1 .. Cardinality(at) |->
         list[CHOOSE i \in at : Cardinality(before(i)) = k - 1]]
=============================================================================
