--------------------------- MODULE Enregistrement ---------------------------
(***************************************************************************)
(* The two ends of a registration: the directory (Gestionnaire) and, on    *)
(* each connection, the Registration thread of a broadcaster               *)
(* (Registration.java) or a program that lists.                            *)
(***************************************************************************)
EXTENDS Gestionnaire

VARIABLES
  reg,     \* program counter of the program at the other end: "absent",
           \* "annonce" (to send REGI), "attend" (its answer), "boucle"
           \* (reads polls), "liste" (to send LIST), "fini"
  affiche  \* what the Registration thread has shown last

varsReg  == <<reg, affiche>>
varsTout == <<vars, varsReg>>

InitReg ==
  /\ Init
  /\ reg = [c \in Connexions |-> "absent"]
  /\ affiche = [c \in Connexions |-> "rien"]

(* The message says that the broadcaster is registered: nothing was asked. *)
Annoncer(c) ==
  /\ PairConnecte(c)
  /\ reg' = [reg EXCEPT ![c] = "annonce"]
  /\ affiche' = [affiche EXCEPT ![c] = "enregistre"]

Demander(c) ==
  /\ reg[c] = "annonce"
  /\ PairDemande(c) /\ ligne'[c].cmd = "REGI"
  /\ reg' = [reg EXCEPT ![c] = "attend"]
  /\ UNCHANGED affiche

(* REOK or RENO: either way the thread enters its loop.                    *)
LireReponse(c) ==
  /\ reg[c] = "attend" /\ envoye[c] # <<>>
  /\ affiche' = [affiche EXCEPT ![c] = Head(envoye[c]).cle]
  /\ reg' = [reg EXCEPT ![c] = "boucle"]
  /\ UNCHANGED vars

LireRUOK(c) ==
  /\ reg[c] = "boucle"
  /\ PairIMOK(c)
  /\ UNCHANGED varsReg

(* At the end of the stream msg is null and msg.equals raises: the thread  *)
(* says so and ends, without closing its socket.                           *)
NullPointerBug(c) == FALSE
NullPointer(c) == ferme[c]

LireNull(c) ==
  /\ reg[c] = "boucle" /\ NullPointer(c)
  /\ reg' = [reg EXCEPT ![c] = "fini"]
  /\ affiche' = [affiche EXCEPT ![c] = "erreur"]
  /\ UNCHANGED vars

Registration(c) == Demander(c) \/ LireReponse(c) \/ LireNull(c)

-----------------------------------------------------------------------------
(* Diffuseur.list and Client.list.                                         *)

Interroger(c) ==
  /\ PairConnecte(c)
  /\ reg' = [reg EXCEPT ![c] = "liste"]
  /\ UNCHANGED affiche

DemanderListe(c) ==
  /\ reg[c] = "liste"
  /\ PairDemande(c) /\ ligne'[c].cmd = "LIST"
  /\ UNCHANGED varsReg

(* A program that lists ends with its answer, a broadcaster at any moment, *)
(* and what it showed with it; that the first may be stopped too is in     *)
(* Gestionnaire.                                                           *)
Quitter(c) ==
  /\ reg[c] = "liste" => com[c] = "fini"
  /\ PairPart(c)
  /\ reg' = [reg EXCEPT ![c] = "fini"]
  /\ affiche' = [affiche EXCEPT ![c] = "rien"]

TermineReg == Termine /\ UNCHANGED varsReg

NextReg ==
  \/ \E c \in Connexions :
       \/ (Accepter(c) \/ Communication(c) \/ Ruok(c)) /\ UNCHANGED varsReg
       \/ Annoncer(c) \/ Registration(c) \/ LireRUOK(c)
       \/ Interroger(c) \/ DemanderListe(c) \/ Quitter(c)
  \/ TermineReg

SpecReg == InitReg /\ [][NextReg]_varsTout

(* Runnable threads are scheduled, and the programs of the repository      *)
(* write their request as soon as they are connected (Registration.java:33,*)
(* Diffuseur.java:93, Client.java:74): one that stayed silent and          *)
(* connected would hold the monitor for ever.  Polls may be answered late. *)
SpecEquitable ==
  /\ SpecReg
  /\ \A c \in Connexions :
       /\ WF_varsTout(Accepter(c) /\ UNCHANGED varsReg)
       /\ WF_varsTout(Communication(c) /\ UNCHANGED varsReg)
       /\ WF_varsTout(Ruok(c) /\ UNCHANGED varsReg)
       /\ WF_varsTout(Registration(c)) /\ WF_varsTout(DemanderListe(c))

-----------------------------------------------------------------------------

(* The answer to a REGI is REOK or RENO, and a thread is in its loop only  *)
(* once it has read it.                                                    *)
TypeReg ==
  /\ reg \in [Connexions -> {"absent", "annonce", "attend", "boucle", "liste", "fini"}]
  /\ affiche \in [Connexions -> {"rien", "enregistre", "REOK", "RENO", "erreur"}]
  /\ \A c \in Connexions : reg[c] = "boucle" => affiche[c] \in {"REOK", "RENO"}

Seul(c) == \A c2 \in Connexions \ {c} : ligne[c2] # ligne[c]

(* A Registration thread that reads polls has its entry in the directory,  *)
(* or the end of its stream to read (Gestionnaire.java:83-88, 111), now or *)
(* once the thread that removed the entry has closed the socket, unless    *)
(* the same registration was asked for twice: a duplicate is refused with  *)
(* its stream open, and the poll of one removes the entry of the other.    *)
Prevenu ==
  \A c \in Connexions : reg[c] = "boucle" =>
    \/ Contains(annuaire, ligne[c].dif)
    \/ ruok[c] = "clot" \/ ferme[c]
    \/ ~ Seul(c)

(* A Registration thread does not go on for ever believing that it is      *)
(* registered: if its entry is not in the directory, because it was        *)
(* refused or was late for a poll, it is told by the end of the stream,    *)
(* unless the same registration was asked for twice.                       *)
Averti ==
  \A c \in Connexions :
    reg[c] = "boucle" /\ ~ Contains(annuaire, ligne[c].dif) ~> reg[c] = "fini" \/ ~ Seul(c)

=============================================================================
