------------------------------ MODULE Annuaire ------------------------------
(***************************************************************************)
(* What the directory promises: a set of registrations, each polled        *)
(* through the connection that asked for it, and listings that show what   *)
(* was registered at one moment.                                           *)
(***************************************************************************)
EXTENDS Integers, FiniteSets

CONSTANTS Difs, Connexions, maxDiff

VARIABLES
  registre,  \* the registered broadcasters
  suivi,     \* the registration polled through each connection, if any
  vu,        \* the directory as it was when each listing began
  montre     \* what each listing has shown

vars == <<registre, suivi, vu, montre>>

Init ==
  /\ registre = {}
  /\ suivi = [c \in Connexions |-> {}]
  /\ vu = [c \in Connexions |-> {}]
  /\ montre = [c \in Connexions |-> {}]

(* Accepted when there is room and the registration is new.                *)
Inscrire(c, d) ==
  /\ suivi[c] = {} /\ d \notin registre /\ Cardinality(registre) < maxDiff
  /\ registre' = registre \cup {d}
  /\ suivi' = [suivi EXCEPT ![c] = {d}]
  /\ UNCHANGED <<vu, montre>>

(* Refused because it is registered already, and polled all the same.      *)
Refuser(c, d) ==
  /\ suivi[c] = {} /\ d \in registre
  /\ suivi' = [suivi EXCEPT ![c] = {d}]
  /\ UNCHANGED <<registre, vu, montre>>

(* A poll ends: its registration, and no other, leaves the directory.      *)
Desinscrire(c) ==
  /\ suivi[c] # {}
  /\ registre' = registre \ suivi[c]
  /\ suivi' = [suivi EXCEPT ![c] = {}]
  /\ UNCHANGED <<vu, montre>>

Lister(c) ==
  /\ montre[c] = {}
  /\ vu' = [vu EXCEPT ![c] = registre]
  /\ UNCHANGED <<registre, suivi, montre>>

(* A listing shows what its view holds, and still holds when it is shown.  *)
Montrer(c, d) ==
  /\ d \in (vu[c] \cap registre) \ montre[c]
  /\ montre' = [montre EXCEPT ![c] = @ \cup {d}]
  /\ UNCHANGED <<registre, suivi, vu>>

Next ==
  \E c \in Connexions :
    \/ \E d \in Difs : Inscrire(c, d) \/ Refuser(c, d) \/ Montrer(c, d)
    \/ Desinscrire(c) \/ Lister(c)

Spec == Init /\ [][Next]_vars

=============================================================================
