---------------------------- MODULE MCDiffuseur ----------------------------
(* Small instances of Diffuseur.                                           *)
EXTENDS Diffuseur, TLC

CONSTANTS t1, t2, t3, c1, c2, c3

Deux     == <<t1, t2>>
Aucun    == <<>>
Nombres2 == {0, 2}
Symetrie == Permutations(Services)
=============================================================================
