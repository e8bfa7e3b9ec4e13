---------------------------- MODULE GestionnaireC ----------------------------
(***************************************************************************)
(* gestionnaire.c, a directory of which the beginning is written: it       *)
(* listens, so that the kernel completes connections, and never accepts.   *)
(***************************************************************************)
EXTENDS Terminal

CONSTANT MaxBlocs   \* the blocks malloc() can give

ASSUME GestionnaireCAssumption == MaxBlocs \in Nat

VARIABLES
  blocs,  \* blocks it has taken: none is given back
  fils    \* threads created that have not begun

varsDir == <<blocs, fils>>

InitDir == blocs = 0 /\ fils = 0

(* bind() fails when another program holds the port.                       *)
Ecouter ==
  /\ dir = "debut"
  /\ dir' \in {"ecoute", "fin"}
  /\ UNCHANGED <<prog, id, pc, cmd, tmp, varsEntree, ouverts, refuse, req, srv, varsDir>>

(* The end of the process resets the connection that waits.                *)
Finir ==
  /\ dir' = "fin" /\ fils' = 0
  /\ srv' = IF req.cle = "LIST" THEN "mort" ELSE srv
  /\ UNCHANGED <<prog, id, pc, cmd, tmp, varsEntree, ouverts, refuse, req, blocs>>

(* The socket tested is a block that is not initialised, not one accepted: *)
(* a thread begins on it or not.  malloc() ends by giving NULL.            *)
Tourner ==
  /\ dir = "ecoute"
  /\ IF blocs = MaxBlocs THEN Finir
     ELSE /\ blocs' = blocs + 1 /\ fils' \in {fils, fils + 1}
          /\ UNCHANGED vars

(* The thread reads taille, 0, as an address.                              *)
Communication == dir = "ecoute" /\ fils > 0 /\ Finir

NextDir == Ecouter \/ Tourner \/ Communication

=============================================================================
