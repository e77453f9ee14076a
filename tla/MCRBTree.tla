----------------------------- MODULE MCRBTree ------------------------------
(* Instances of RBTree for TLC.  The node x always gets the same key: ids give *)
(* each node its own, deadlines may be the same for several.                   *)
EXTENDS RBTree

SomeEqual == [x \in Nodes |-> {<<1, 2, 2, 3, 4, 5, 5, 5>>[x]}]
=============================================================================
