------------------------------- MODULE ClientC -------------------------------
(***************************************************************************)
(* client.c: a dialogue of commands read by read(), whose questions are    *)
(* answered through scanf(), and the three requests.                       *)
(***************************************************************************)
EXTENDS Terminal

Client == prog = "client"

(* The identifier is padded to 8; a longer one makes the padding negative. *)
Completer(n) == n + (8 - n)
Demarrer ==
  /\ Client /\ pc = "debut"
  /\ \/ Sortir
     \/ \E n \in Ids :
          /\ IF n <= 8 THEN id' = Completer(n) /\ pc' = "cmd" ELSE pc' = "plante" /\ UNCHANGED id
          /\ UNCHANGED <<prog, cmd, tmp, varsEntree, varsSock>>

(* The four bytes compared with the commands.  What is left of a line that *)
(* was too long may spell anything.                                        *)
Epelle ==
  IF tty.n - tty.lu < 4 THEN {"autre"}
  ELSE IF tty.lu = 0 THEN {tty.mot} ELSE {"LIST", "LAST", "MESS", "autre"}

LireCmd ==
  /\ Client /\ pc = "cmd"
  /\ Read(5)
  /\ cmd' \in Epelle
  /\ pc' = CASE cmd' = "LIST" -> "list"
             [] cmd' \in {"LAST", "MESS"} -> "ip"
             [] OTHER -> "cmd"
  /\ UNCHANGED <<prog, id, tmp, varsSock>>

(* scanf("%s", ip) until its length is 15; what was typed is not used.     *)
TailleIPBug == 16
TailleIP    == 15
LireIP ==
  /\ Client /\ pc = "ip"
  /\ Scanf(Source.n)
  /\ pc' = IF Source.n - Source.lu = TailleIP THEN "port" ELSE "ip"
  /\ UNCHANGED <<prog, id, cmd, tmp, varsSock>>

(* scanf("%d", &port1) until it has four digits.  A word is not taken, so  *)
(* that each turn of the loop finds it again.                              *)
LirePort ==
  /\ Client /\ pc = "port"
  /\ IF Nombre(Source)
       THEN /\ Scanf(Len(Source.chiffres))
            /\ pc' = IF Entier(Valeur(Source.chiffres)) \in 1000 .. 9999 THEN "connect" ELSE "port"
       ELSE Scanf(Source.lu) /\ pc' = "boucle"
  /\ UNCHANGED <<prog, id, cmd, tmp, varsSock>>

Connecter ==
  /\ Client /\ pc = "connect"
  /\ \/ Connecte(IF cmd = "MESS" THEN "texte" ELSE "nb", Rien) /\ UNCHANGED tmp
     \/ Sortir

-----------------------------------------------------------------------------
(* list                                                                    *)

(* A connection that is refused leaves its socket open.                    *)
List ==
  /\ Client /\ pc = "list"
  /\ \/ dir \in {"java", "ecoute"} /\ Connecte("reponse", LIST) /\ UNCHANGED tmp
     \/ /\ dir \in {"debut", "fin"} \/ ouverts = MaxDescr
        /\ ouverts' = Moindre(ouverts + 1, MaxDescr)
        /\ refuse' = Moindre(refuse + 1, MaxDescr)
        /\ pc' = "cmd"
        /\ UNCHANGED <<prog, id, cmd, tmp, req, srv, dir, varsEntree>>

-----------------------------------------------------------------------------
(* last                                                                    *)

(* The number is written in an array of four, of which the last is NUL.     *)
resStrBug(n) == IF n < 100 THEN n ELSE n \div 10
resStr(n)    == IF n < 1000 THEN n ELSE n \div 10

(* scanf("%d", &res) until it is in 0 .. 999.  A word at the first turn    *)
(* leaves res as it was, not initialised.                                  *)
LireNb ==
  /\ Client /\ pc = "nb"
  /\ IF Nombre(Source)
       THEN /\ Scanf(Len(Source.chiffres))
            /\ IF Entier(Valeur(Source.chiffres)) \in 0 .. 999
                 THEN req' = LAST(resStr(Entier(Valeur(Source.chiffres)))) /\ pc' = "reponse"
                 ELSE pc' = "nb" /\ UNCHANGED req
       ELSE /\ Scanf(Source.lu)
            /\ \/ pc' = "boucle" /\ UNCHANGED req
               \/ pris.voulu # "nb" /\ req' = LAST(0) /\ pc' = "reponse"
  /\ UNCHANGED <<prog, id, cmd, tmp, ouverts, refuse, srv, dir>>

-----------------------------------------------------------------------------
(* msg                                                                     *)

(* The text loses its last byte, be it the end of the line or not, and is  *)
(* padded to 140 with an array that has no NUL: the bytes that follow it   *)
(* are appended too.  157 bytes are sent, with the end of the line if they *)
(* hold it.                                                                *)
Octets  == Moindre(140, tty.n + 1 - tty.lu)
Accents == IF tty.lu = 0 THEN tty.acc ELSE 0
LongueurBug(t, g) == 5 + id + t + (140 - t) + g
Longueur(t, g) == 5 + id + 1 + t + (140 - t) + g
LireInputBug == Getline
LireInput    == Read(140)
LireTexte ==
  /\ Client /\ pc = "texte"
  /\ LireInput
  /\ \E g \in 0 .. MaxBruit :
       req' = MESS(Longueur(Octets - 1, g) - Accents, g, Octets - 1, g <= 2)
  /\ pc' = "ackm"
  /\ UNCHANGED <<prog, id, cmd, tmp, ouverts, refuse, srv, dir>>

(* ACKM or not, the program goes on, and client_alt.c too after ACKM, which *)
(* it is never given; client.c may have written past msg.                  *)
Ackm ==
  /\ prog \in {"client", "client_alt"} /\ pc = "ackm" /\ srv = "acquitte"
  /\ \/ Retour
     \/ /\ req.bruit > 0
        /\ pc' = "plante" /\ ouverts' = 0
        /\ UNCHANGED <<prog, id, cmd, tmp, refuse, req, srv, dir, varsEntree>>

(* The loops of recv() in last and list, whose turns are in Reception:     *)
(* they end with the answer, and when the directory is gone recv() fails   *)
(* and the list is empty.  A socket left open blocks them.                 *)
Reponse ==
  /\ prog \in {"client", "client_alt"} /\ pc = "reponse" /\ srv \in {"repond", "mort"}
  /\ Retour

(* last waits for a recv() that gives ENDM alone: if none does, the next   *)
(* ones give 0 bytes for ever.                                             *)
ReponseSansFin ==
  /\ prog \in {"client", "client_alt"} /\ pc = "reponse" /\ srv = "trouble"
  /\ pc' = "boucle"
  /\ UNCHANGED <<prog, id, cmd, tmp, varsEntree, varsSock>>

NextClient ==
  \/ Demarrer \/ LireCmd \/ LireIP \/ LirePort \/ Connecter \/ List \/ LireNb \/ LireTexte
  \/ Ackm \/ Reponse \/ ReponseSansFin

=============================================================================
