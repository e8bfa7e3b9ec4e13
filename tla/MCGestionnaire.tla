--------------------------- MODULE MCGestionnaire ---------------------------
(* Small instances of Gestionnaire.                                        *)
EXTENDS Gestionnaire, TLC

CONSTANTS d1, d2, k1, k2, k3, k4

Symetrie == Permutations(Connexions) \cup Permutations(Difs)
=============================================================================
