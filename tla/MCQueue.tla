------------------------------ MODULE MCQueue ------------------------------
(* Instances of Queue for TLC; heads and nodes are interchangeable. *)
EXTENDS Queue, TLC

CONSTANTS h1, h2, h3, n1, n2, n3, n4

ThreeHeads == {h1, h2, h3}
FourNodes == {n1, n2, n3, n4}

Symmetry == Permutations(ThreeHeads) \cup Permutations(FourNodes)
=============================================================================
