------------------------------- MODULE Antenne -------------------------------
(***************************************************************************)
(* What the broadcaster promises to those who listen and to those who      *)
(* connect, without the list, the counter and the monitor: numbered        *)
(* messages in one order, each MESS confided once, and answers to LAST     *)
(* that tell the messages of one moment, latest first.                     *)
(***************************************************************************)
EXTENDS Integers, Sequences, FiniteSets

CONSTANTS
  Textes,    \* the texts the broadcaster has of its own
  Fichier,   \* those its file holds, in order
  Services,  \* the connections, which name the messages they bring
  Nombres,   \* the numbers of messages a LAST may ask for
  NumMax     \* the greatest number of a message

VARIABLES
  emis,      \* the messages that were given a number, in order
  diffuses,  \* those that were broadcast
  confies,   \* the connections whose message was accepted
  perdus,    \* those whose message had a number but no place
  etat,      \* "ouverte", "consulte" during a LAST, "faite"
  instant,   \* what had been emitted when the LAST began
  du,        \* the messages it will tell
  reponse    \* the lines it was given

vars == <<emis, diffuses, confies, perdus, etat, instant, du, reponse>>

Init ==
  /\ emis = <<>> /\ diffuses = <<>>
  /\ confies = {} /\ perdus = {}
  /\ etat = [s \in Services |-> "ouverte"]
  /\ instant = [s \in Services |-> <<>>]
  /\ du = [s \in Services |-> 0]
  /\ reponse = [s \in Services |-> <<>>]

(* The number a message would have now: one for each that was emitted,     *)
(* confided or lost.                                                       *)
Numero == (Len(emis) + Cardinality(confies) + Cardinality(perdus)) % (NumMax + 1)

Messages == [num : 0 .. NumMax, texte : Textes \cup confies]

Repondre(s, ligne) == reponse' = [reponse EXCEPT ![s] = Append(@, ligne)]

(* One message at a time, with a text of the file or of a client.          *)
Emettre ==
  /\ diffuses = emis
  /\ \E m \in Messages : m.num = Numero /\ emis' = Append(emis, m)
  /\ UNCHANGED <<diffuses, confies, perdus, etat, instant, du, reponse>>

Diffuser ==
  /\ diffuses # emis /\ diffuses' = emis
  /\ UNCHANGED <<emis, confies, perdus, etat, instant, du, reponse>>

Confier(s) ==
  /\ etat[s] = "ouverte"
  /\ confies' = confies \cup {s} /\ etat' = [etat EXCEPT ![s] = "faite"]
  /\ Repondre(s, [cle |-> "ACKM"])
  /\ UNCHANGED <<emis, diffuses, perdus, instant, du>>

(* Without a file a message may find no place, and a LAST no more to tell. *)
Perdre(s) ==
  /\ Fichier = <<>> /\ etat[s] = "ouverte"
  /\ perdus' = perdus \cup {s} /\ etat' = [etat EXCEPT ![s] = "faite"]
  /\ UNCHANGED <<emis, diffuses, confies, instant, du, reponse>>

Abandonner(s) ==
  /\ Fichier = <<>> /\ etat[s] = "consulte"
  /\ etat' = [etat EXCEPT ![s] = "faite"] /\ instant' = [instant EXCEPT ![s] = <<>>]
  /\ UNCHANGED <<emis, diffuses, confies, perdus, du, reponse>>

Consulter(s) ==
  /\ etat[s] = "ouverte" /\ etat' = [etat EXCEPT ![s] = "consulte"]
  /\ instant' = [instant EXCEPT ![s] = emis]
  /\ \E n \in Nombres : du' = [du EXCEPT ![s] = IF n < Numero THEN n ELSE Numero]
  /\ UNCHANGED <<emis, diffuses, confies, perdus, reponse>>

(* The messages of that moment, latest first, then the file's, under the   *)
(* number 0 as long as they have not been emitted; that for as many lines  *)
(* as the file has pieces but one, and further back any message there was. *)
Fil(e) == [i \in 1 .. Len(Fichier) |-> [num |-> 0, texte |-> Fichier[i]]] \o e

Dire(s) ==
  LET deja == Len(reponse[s])
      fil  == Fil(instant[s])
  IN
  /\ etat[s] = "consulte" /\ deja < du[s]
  /\ \E m \in Messages :
       /\ deja < Len(Fichier) - 1 => m = fil[Len(fil) - deja]
       /\ Repondre(s, [cle |-> "OLDM", num |-> m.num, texte |-> m.texte])
  /\ UNCHANGED <<emis, diffuses, confies, perdus, etat, instant, du>>

Conclure(s) ==
  /\ etat[s] = "consulte" /\ Len(reponse[s]) >= du[s]
  /\ Repondre(s, [cle |-> "ENDM"])
  /\ etat' = [etat EXCEPT ![s] = "faite"] /\ instant' = [instant EXCEPT ![s] = <<>>]
  /\ UNCHANGED <<emis, diffuses, confies, perdus, du>>

(* Any other request is given no answer, nor one that does not come.       *)
Ecarter(s) ==
  /\ etat[s] = "ouverte" /\ etat' = [etat EXCEPT ![s] = "faite"]
  /\ UNCHANGED <<emis, diffuses, confies, perdus, instant, du, reponse>>

Next ==
  \/ Emettre \/ Diffuser
  \/ \E s \in Services :
       \/ Confier(s) \/ Perdre(s) \/ Ecarter(s)
       \/ Consulter(s) \/ Dire(s) \/ Conclure(s) \/ Abandonner(s)

Spec == Init /\ [][Next]_vars

=============================================================================
