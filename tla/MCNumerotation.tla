--------------------------- MODULE MCNumerotation ---------------------------
(* A small instance of Numerotation.                                       *)
EXTENDS Numerotation, TLC

CONSTANTS t1, t2, t3, c1, c2, c3

Trois    == <<t1, t2, t3>>
Nombres3 == {3}
Symetrie == Permutations(Services)
=============================================================================
