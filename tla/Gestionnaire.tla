---------------------------- MODULE Gestionnaire ----------------------------
(***************************************************************************)
(* The directory (Gestionnaire.java).  Each accepted connection has a      *)
(* Communication thread, which reads and serves one request while it holds *)
(* the monitor of `annuaire`, and, when the request is a REGI that is not  *)
(* refused for lack of room, a Ruok thread, which polls the broadcaster    *)
(* and removes its entry, without the monitor, when it stops answering.    *)
(*                                                                         *)
(* The operations of ArrayList (size, contains, add, remove, hasNext,      *)
(* next) are atomic here.  Their order within one REGI cannot be observed: *)
(* meanwhile only removals can happen, so the whole REGI is one step.      *)
(***************************************************************************)
EXTENDS Integers, Sequences, SequencesExt

CONSTANTS
  Difs,      \* the registrations "id ip1 port1 ip2 port2" that may be asked
  Connexions,\* the sockets the manager accepts
  Libre,     \* owner of the monitor when no thread holds it
  maxDiff    \* 10 in the code

ASSUME GestionnaireAssumption ==
  Libre \notin Connexions /\ maxDiff \in Nat \ {0}

VARIABLES
  annuaire,  \* the registered broadcasters, oldest first
  verrou,    \* owner of the monitor of annuaire
  com,       \* program counter of each Communication thread
  vue,       \* the list its iterator was created on
  ruok,      \* program counter of each Ruok thread
  ferme,     \* whether the manager has closed the socket
  envoye,    \* the lines the Communication thread has written
  pair,      \* whether the peer is connected
  ligne,     \* the request it has sent
  imok       \* whether a line from it waits to be read by Ruok

varsCom  == <<verrou, com, vue, envoye>>
varsPair == <<pair, ligne, imok>>
vars == <<annuaire, ruok, ferme, varsCom, varsPair>>

(* AUTRE: neither REGI nor LIST.  COURT: a REGI with fewer than two        *)
(* fields, on which splited[2] raises.                                     *)
Requete == [cmd : {"REGI"}, dif : Difs] \cup [cmd : {"LIST", "AUTRE", "COURT"}]
Rien    == [cmd |-> "RIEN"]
Ligne   == [cle : {"RENO", "REOK", "ERREUR"}]
           \cup [cle : {"LINB"}, nb : Nat] \cup [cle : {"ITEM"}, dif : Difs]
RENOBug == [cle |-> "ERREUR"]
RENO    == [cle |-> "RENO"]
REOK    == [cle |-> "REOK"]
ERREUR  == [cle |-> "ERREUR"]
LINBBug(n) == [cle |-> "LINB", nb |-> n - 1]
LINB(n) == [cle |-> "LINB", nb |-> n]
ITEM(d) == [cle |-> "ITEM", dif |-> d]

Init ==
  /\ annuaire = <<>>
  /\ verrou = Libre
  /\ com = [c \in Connexions |-> "absent"]
  /\ vue = [c \in Connexions |-> <<>>]
  /\ ruok = [c \in Connexions |-> "absent"]
  /\ ferme = [c \in Connexions |-> FALSE]
  /\ envoye = [c \in Connexions |-> <<>>]
  /\ pair = [c \in Connexions |-> "absent"]
  /\ ligne = [c \in Connexions |-> Rien]
  /\ imok = [c \in Connexions |-> FALSE]

(* The operations on the list.  As in Diffuseur, a definition named ...Bug *)
(* is a slip that no run uses but the check of a property.                 *)
Plein(a) == Len(a) = maxDiff

InscritBug(a, d) == FALSE
Inscrit(a, d) == Contains(a, d)

OterBug(a, d) == a
OterBug2(a, d) == IF a = <<>> THEN a ELSE Tail(a)
Oter(a, d) == RemoveFirst(a, d)

(* next() raises when the list changed under the iterator: ArrayList       *)
(* counts the changes, and the only ones possible here are removals.       *)
IntactBug(c) == Len(envoye[c]) <= Len(annuaire)
Intact(c) == annuaire = vue[c]

RendreBug(c) == verrou' = c
Rendre(c) == verrou' = Libre

-----------------------------------------------------------------------------
(* gestionne: accept, and a Communication thread.                          *)

Accepter(c) ==
  /\ pair[c] # "absent" /\ com[c] = "absent"
  /\ com' = [com EXCEPT ![c] = "pret"]
  /\ UNCHANGED <<annuaire, ruok, ferme, verrou, vue, envoye, varsPair>>

-----------------------------------------------------------------------------
(* Communication.run                                                       *)

(* synchronized (annuaire): readLine() is inside.                          *)
Entrer(c) ==
  /\ com[c] = "pret" /\ verrou = Libre
  /\ com' = [com EXCEPT ![c] = "lit"]
  /\ verrou' = c
  /\ UNCHANGED <<annuaire, ruok, ferme, vue, envoye, varsPair>>

Lu(c, cmd) == com[c] = "lit" /\ ligne[c].cmd = cmd

(* The thread answers l, closes the socket if so told, leaves the monitor. *)
Repondre(c, l, fermer) ==
  /\ envoye' = [envoye EXCEPT ![c] = Append(@, l)]
  /\ ferme' = [ferme EXCEPT ![c] = fermer]
  /\ com' = [com EXCEPT ![c] = "fini"]
  /\ Rendre(c)
  /\ UNCHANGED <<vue, varsPair>>

REGIPlein(c) ==
  /\ Lu(c, "REGI") /\ Plein(annuaire)
  /\ Repondre(c, RENO, TRUE)
  /\ UNCHANGED <<annuaire, ruok>>

(* Already registered: refused, yet polled as the registered ones are.     *)
REGIDoublon(c) ==
  /\ Lu(c, "REGI") /\ ~ Plein(annuaire) /\ Inscrit(annuaire, ligne[c].dif)
  /\ Repondre(c, RENO, FALSE)
  /\ ruok' = [ruok EXCEPT ![c] = "demande"]
  /\ UNCHANGED annuaire

REGI(c) ==
  /\ Lu(c, "REGI") /\ ~ Plein(annuaire) /\ ~ Inscrit(annuaire, ligne[c].dif)
  /\ annuaire' = Append(annuaire, ligne[c].dif)
  /\ Repondre(c, REOK, FALSE)
  /\ ruok' = [ruok EXCEPT ![c] = "demande"]

LIST(c) ==
  /\ Lu(c, "LIST")
  /\ envoye' = [envoye EXCEPT ![c] = Append(@, LINB(Len(annuaire)))]
  /\ com' = [com EXCEPT ![c] = "linb"]
  /\ UNCHANGED <<annuaire, ruok, ferme, verrou, vue, varsPair>>

Iterer(c) ==
  /\ com[c] = "linb"
  /\ vue' = [vue EXCEPT ![c] = annuaire]
  /\ com' = [com EXCEPT ![c] = "items"]
  /\ UNCHANGED <<annuaire, ruok, ferme, verrou, envoye, varsPair>>

(* The cursor of the iterator is the number of lines written after LINB.   *)
Curseur(c) == Len(envoye[c]) - 1

(* hasNext() only compares the cursor with the current size.               *)
Reste(c) ==
  /\ com[c] = "items" /\ Curseur(c) # Len(annuaire)
  /\ com' = [com EXCEPT ![c] = "suivant"]
  /\ UNCHANGED <<annuaire, ruok, ferme, verrou, vue, envoye, varsPair>>

Suivant(c) ==
  /\ com[c] = "suivant" /\ Intact(c)
  /\ envoye' = [envoye EXCEPT ![c] = Append(@, ITEM(annuaire[Curseur(c) + 1]))]
  /\ com' = [com EXCEPT ![c] = "items"]
  /\ UNCHANGED <<annuaire, ruok, ferme, verrou, vue, varsPair>>

FinListe(c) ==
  /\ com[c] = "items" /\ Curseur(c) = Len(annuaire)
  /\ ferme' = [ferme EXCEPT ![c] = TRUE]
  /\ com' = [com EXCEPT ![c] = "fini"]
  /\ Rendre(c)
  /\ UNCHANGED <<annuaire, ruok, vue, envoye, varsPair>>

AutreCommande(c) ==
  /\ Lu(c, "AUTRE")
  /\ Repondre(c, ERREUR, TRUE)
  /\ UNCHANGED <<annuaire, ruok>>

(* An exception is printed and the socket left as it is: a null line, a    *)
(* short REGI, a list changed under the iterator.                          *)
Exception(c) ==
  /\ \/ com[c] = "lit" /\ ligne[c] = Rien /\ pair[c] = "parti"
     \/ Lu(c, "COURT")
     \/ com[c] = "suivant" /\ ~ Intact(c)
  /\ com' = [com EXCEPT ![c] = "fini"]
  /\ Rendre(c)
  /\ UNCHANGED <<annuaire, ruok, ferme, vue, envoye, varsPair>>

Communication(c) ==
  \/ Entrer(c) \/ REGIPlein(c) \/ REGIDoublon(c) \/ REGI(c)
  \/ LIST(c) \/ Iterer(c) \/ Reste(c) \/ Suivant(c) \/ FinListe(c)
  \/ AutreCommande(c) \/ Exception(c)

-----------------------------------------------------------------------------
(* Ruok.run                                                                *)

(* Writing to a peer that is gone raises nothing (PrintWriter).            *)
RUOK(c) ==
  /\ ruok[c] = "demande"
  /\ ruok' = [ruok EXCEPT ![c] = "attend"]
  /\ UNCHANGED <<annuaire, ferme, varsCom, varsPair>>

Vivant(c) ==
  /\ ruok[c] = "attend" /\ imok[c]
  /\ imok' = [imok EXCEPT ![c] = FALSE]
  /\ ruok' = [ruok EXCEPT ![c] = "demande"]
  /\ UNCHANGED <<annuaire, ferme, varsCom, pair, ligne>>

(* readLine() returns null when the peer is gone, raises after 5 seconds   *)
(* without a line when it is not.                                          *)
Mort(c) ==
  /\ ruok[c] = "attend" /\ ~ imok[c]
  /\ ruok' = [ruok EXCEPT ![c] = "retire"]
  /\ UNCHANGED <<annuaire, ferme, varsCom, varsPair>>

(* Both paths remove the entry, without the monitor, then close the socket.*)
Retirer(c) ==
  /\ ruok[c] = "retire"
  /\ annuaire' = Oter(annuaire, ligne[c].dif)
  /\ ruok' = [ruok EXCEPT ![c] = "clot"]
  /\ UNCHANGED <<ferme, varsCom, varsPair>>

FermerBug(c) ==
  /\ ruok[c] = "clot"
  /\ ruok' = [ruok EXCEPT ![c] = "fini"]
  /\ UNCHANGED <<annuaire, ferme, varsCom, varsPair>>
Fermer(c) ==
  /\ ruok[c] = "clot"
  /\ ferme' = [ferme EXCEPT ![c] = TRUE]
  /\ ruok' = [ruok EXCEPT ![c] = "fini"]
  /\ UNCHANGED <<annuaire, varsCom, varsPair>>

Ruok(c) == RUOK(c) \/ Vivant(c) \/ Mort(c) \/ Retirer(c) \/ Fermer(c)

-----------------------------------------------------------------------------
(* The peer: a Registration thread, Diffuseur.list or a client.            *)

PairConnecte(c) ==
  /\ pair[c] = "absent"
  /\ pair' = [pair EXCEPT ![c] = "connecte"]
  /\ UNCHANGED <<annuaire, ruok, ferme, varsCom, ligne, imok>>

PairDemande(c) ==
  /\ pair[c] = "connecte" /\ ligne[c] = Rien
  /\ \E r \in Requete : ligne' = [ligne EXCEPT ![c] = r]
  /\ UNCHANGED <<annuaire, ruok, ferme, varsCom, pair, imok>>

PairIMOK(c) ==
  /\ pair[c] = "connecte" /\ ruok[c] = "attend" /\ ~ imok[c]
  /\ imok' = [imok EXCEPT ![c] = TRUE]
  /\ UNCHANGED <<annuaire, ruok, ferme, varsCom, pair, ligne>>

PairPart(c) ==
  /\ pair[c] = "connecte"
  /\ pair' = [pair EXCEPT ![c] = "parti"]
  /\ UNCHANGED <<annuaire, ruok, ferme, varsCom, ligne, imok>>

(* Every request is served and every poll is over.                         *)
Termine ==
  /\ \A c \in Connexions : pair[c] = "parti" /\ com[c] = "fini" /\ ruok[c] \in {"absent", "fini"}
  /\ UNCHANGED vars

Next ==
  \/ \E c \in Connexions :
       \/ Accepter(c) \/ Communication(c) \/ Ruok(c)
       \/ PairConnecte(c) \/ PairDemande(c) \/ PairIMOK(c) \/ PairPart(c)
  \/ Termine

Spec == Init /\ [][Next]_vars

-----------------------------------------------------------------------------
(* Safety.                                                                 *)

(* Every variable keeps the values the code can give it.                   *)
TypeOK ==
  /\ annuaire \in Seq(Difs)
  /\ verrou \in Connexions \cup {Libre}
  /\ com \in [Connexions -> {"absent", "pret", "lit", "linb", "items", "suivant", "fini"}]
  /\ vue \in [Connexions -> Seq(Difs)]
  /\ ruok \in [Connexions -> {"absent", "demande", "attend", "retire", "clot", "fini"}]
  /\ ferme \in [Connexions -> BOOLEAN]
  /\ envoye \in [Connexions -> Seq(Ligne)]
  /\ pair \in [Connexions -> {"absent", "connecte", "parti"}]
  /\ ligne \in [Connexions -> Requete \cup {Rien}]
  /\ imok \in [Connexions -> BOOLEAN]

(* No broadcaster is registered twice and the directory never holds more   *)
(* than maxDiff, although the test is an equality.                         *)
SansDoublon(a) == \A i, j \in 1 .. Len(a) : a[i] = a[j] => i = j
AnnuaireSain == Len(annuaire) <= maxDiff /\ SansDoublon(annuaire)

Surveille(c) == ruok[c] \in {"demande", "attend", "retire"}
Enregistre(c) == REOK \in ToSet(envoye[c])
Demande(c, d) == ligne[c] = [cmd |-> "REGI", dif |-> d]

(* No entry outlives its poll: a Ruok thread that will remove it is still  *)
(* running.                                                                *)
EntreeSurveillee ==
  \A d \in ToSet(annuaire) :
    \E c \in Connexions : Surveille(c) /\ Enregistre(c) /\ Demande(c, d)

(* A polled registration leaves the directory early only through the poll  *)
(* of another connection that asked for the same registration.             *)
PresentSaufDoublon ==
  \A c \in Connexions : Enregistre(c) /\ Surveille(c) =>
    \/ Contains(annuaire, ligne[c].dif)
    \/ \E c2 \in Connexions \ {c} : ligne[c2] = ligne[c] /\ ruok[c2] \in {"clot", "fini"}

(* What LIST shows is the beginning of the directory as it was at one      *)
(* moment of the answer, of at most the size announced by LINB: removals   *)
(* in the middle of the answer never make it skip an entry or repeat one.  *)
ItemsDUneVue ==
  \A c \in Connexions : com[c] \in {"items", "suivant", "fini"} /\ ligne[c].cmd = "LIST" =>
    /\ Curseur(c) <= Len(vue[c])
    /\ \A i \in 1 .. Curseur(c) : envoye[c][i + 1] = ITEM(vue[c][i])
    /\ Len(vue[c]) <= envoye[c][1].nb

(* The manager keeps the promise of Annuaire: what it holds as a list, read*)
(* and changed by many threads, is a set of polled registrations.          *)
Promesse == INSTANCE Annuaire WITH
  registre <- ToSet(annuaire),
  suivi    <- [c \in Connexions |-> IF Surveille(c) THEN {ligne[c].dif} ELSE {}],
  vu       <- [c \in Connexions |-> ToSet(vue[c])],
  montre   <- [c \in Connexions |-> {d \in Difs : ITEM(d) \in ToSet(envoye[c])}]

PromesseSpec == Promesse!Spec

-----------------------------------------------------------------------------
(* Liveness.                                                               *)

(* Once the peer of a polled connection is gone, the entry it asked for    *)
(* goes: the removal does not wait for the monitor.                        *)
MortRetire ==
  \A c \in Connexions, d \in Difs :
    Surveille(c) /\ Demande(c, d) /\ pair[c] = "parti" ~> ~ Contains(annuaire, d)

(* Every accepted connection is served, although requests are read one at  *)
(* a time.                                                                 *)
TousServis == \A c \in Connexions : com[c] = "pret" ~> com[c] = "fini"

-----------------------------------------------------------------------------
(* What the code says of itself, and does not do.                          *)

(* "On maintient la connexion avec le diffuseur [...] s'il est mort, on    *)
(* fermera la connexion a ce moment-la" (Gestionnaire.java:135): a         *)
(* registered broadcaster that is still polled is in the directory.        *)
EnregistrePresent ==
  \A c \in Connexions : Enregistre(c) /\ ruok[c] \in {"demande", "attend"} =>
    Contains(annuaire, ligne[c].dif)

(* "LIST : lister les diffuseurs enregistres" (DiffuseurLauncher.java:53): *)
(* when the answer to LIST ends normally, it has shown every broadcaster   *)
(* that is registered then; none can have registered meanwhile.            *)
ListeComplete ==
  \A c \in Connexions : com[c] = "items" /\ Curseur(c) = Len(annuaire) =>
    \A d \in ToSet(annuaire) : ITEM(d) \in ToSet(envoye[c])

=============================================================================
