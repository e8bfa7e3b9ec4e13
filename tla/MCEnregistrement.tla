-------------------------- MODULE MCEnregistrement --------------------------
(* A small instance of Enregistrement.                                     *)
EXTENDS Enregistrement

CONSTANTS d1, k1, k2, k3
=============================================================================
