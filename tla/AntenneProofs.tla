---------------------------- MODULE AntenneProofs ----------------------------
(***************************************************************************)
(* Proof that Diffuseur implements Antenne, for every file, every set of   *)
(* clients, every NumMax and every bound.                                  *)
(***************************************************************************)
EXTENDS HistoireProofs

-----------------------------------------------------------------------------
(* What Antenne sees of a state.                                           *)

(* The number Antenne gives next is that of the counter.                   *)
LEMMA NumeroEstNumMes == HInv => Emission!Numero = numMes
<1> SUFFICES ASSUME HInv PROVE Emission!Numero = numMes
  OBVIOUS
<1>1. \A S : Emission!Cardinality(S) = Cardinality(S)
  BY DEF Emission!Cardinality, Cardinality
<1>2. numMes = ((Len(Pris) + Cardinality(Acquittes)) + Cardinality(Rates)) % (NumMax + 1)
  BY HInvCompteExact DEF CompteExact
<1> QED
  BY <1>1, <1>2 DEF Emission!Numero

(* An entry of the list is a message Antenne may emit or tell.             *)
LEMMA EntreeType ==
  ASSUME HInv, NEW k \in 1 .. Len(pile)
  PROVE  /\ pile[k].num \in 0 .. NumMax /\ pile[k].texte \in Textes \cup Acquittes
         /\ [num |-> pile[k].num, texte |-> pile[k].texte] = pile[k]
<1>1. pile[k] \in Message
  BY ElementOfSeq DEF HInv, IInv, TypeOK
<1> QED
  BY <1>1 DEF HInv, Provenance, Message, Numeros

(* The types of the threads.                                               *)
LEMMA ServType ==
  ASSUME HInv
  PROVE  /\ serv \in [Services -> {"absent", "lit", "attend", "envoie", "clos", "muet"}]
         /\ mess \in [Services -> Requete] /\ reponse \in [Services -> Seq(Ligne)]
         /\ stop \in [Services -> Int]
         /\ pile \in Seq(Message) /\ Len(pile) \in Nat
         /\ numMes \in Nat /\ numMes \in 0 .. NumMax
BY LenProperties, DiffuseurAssumption DEF HInv, IInv, TypeOK, Numeros

(* What a thread that moves on changes for Antenne.                        *)
LEMMA EtatSuivant ==
  ASSUME HInv, NEW s \in Services,
         NEW v \in {"absent", "lit", "attend", "envoie", "clos", "muet"},
         serv' = [serv EXCEPT ![s] = v], Pris' = Pris
  PROVE  /\ Etats' = [Etats EXCEPT ![s] = IF v = "envoie" THEN "consulte"
                        ELSE IF v \in {"clos", "muet"} THEN "faite" ELSE "ouverte"]
         /\ Instant' = [Instant EXCEPT ![s] = IF v = "envoie" THEN Pris ELSE <<>>]
<1>1. serv \in [Services -> {"absent", "lit", "attend", "envoie", "clos", "muet"}]
  BY ServType
<1>2. serv'[s] = v /\ \A u \in Services : u # s => serv'[u] = serv[u]
  BY <1>1
<1>3. Etats' = [Etats EXCEPT ![s] = IF v = "envoie" THEN "consulte"
                  ELSE IF v \in {"clos", "muet"} THEN "faite" ELSE "ouverte"]
  BY <1>2 DEF Etats
<1>4. Instant' = [Instant EXCEPT ![s] = IF v = "envoie" THEN Pris ELSE <<>>]
  BY <1>2 DEF Instant
<1> QED
  BY <1>3, <1>4

(* Where it was.                                                           *)
LEMMA EtatActuel ==
  ASSUME HInv, NEW s \in Services
  PROVE  /\ serv[s] \in {"absent", "lit", "attend"} => Etats[s] = "ouverte" /\ Instant[s] = <<>>
         /\ serv[s] = "envoie" => Etats[s] = "consulte" /\ Instant[s] = Pris
BY DEF Etats, Instant

(* A step that leaves the history and the answers leaves all Antenne sees. *)
LEMMA Invisible ==
  ASSUME HInv, Fixe, UNCHANGED <<diffuses, serv, stop, reponse>>
  PROVE  UNCHANGED Emission!vars
BY DEF Fixe, Etats, Instant, Emission!vars

-----------------------------------------------------------------------------
(* The multicast thread.                                                   *)

(* A message taken has the next number, and a text of the file or of an    *)
(* accepted MESS; no LAST is under way.                                    *)
LEMMA PrendreEmet ==
  ASSUME HInv, Prendre
  PROVE  Emission!Emettre
<1> DEFINE m == [num |-> numMes, texte |-> pile[numMes + 1].texte]
<1>1. /\ numMes \in 0 .. Len(pile) - 1 /\ verrou = Libre /\ UNCHANGED varsServ
      /\ Acquittes' = Acquittes /\ Rates' = Rates /\ Len(pile) \in Nat
      /\ Pris = diffuses /\ Pris' = Append(Pris, m)
  BY PrendreEtats
<1>2. diffuses' = diffuses
  BY DEF Prendre
<1>3. \A s \in Services : serv[s] # "envoie"
  BY <1>1, Constantes DEF HInv, IInv, Exclusion
<1>4. Etats' = Etats /\ Instant' = Instant
  BY <1>1, <1>3 DEF Etats, Instant, varsServ
<1>5. m \in Emission!Messages /\ m.num = Emission!Numero
  <2>1. numMes + 1 \in 1 .. Len(pile)
    BY <1>1
  <2>2. pile[numMes + 1].texte \in Textes \cup Acquittes
    BY <2>1, EntreeType
  <2>3. numMes \in 0 .. NumMax
    BY ServType
  <2> QED
    BY <2>2, <2>3, NumeroEstNumMes DEF Emission!Messages
<1> HIDE DEF m
<1> QED
  BY <1>1, <1>2, <1>4, <1>5 DEF Emission!Emettre, varsServ

(* A message that leaves is broadcast.                                     *)
LEMMA EnvoyerDiffuse ==
  ASSUME HInv, Envoyer
  PROVE  Emission!Diffuser \/ UNCHANGED Emission!vars
<1>1. diffuses' = Pris /\ data' = <<>> /\ UNCHANGED varsServ
  BY DEF Envoyer, Pris
<1>2. Pris' = Pris
  <2>1. Pris \in Seq(Message)
    BY PrisType DEF HInv, IInv
  <2> QED
    BY <1>1, <2>1, ConcatEmptySeq DEF Pris
<1>3. Acquittes' = Acquittes /\ Rates' = Rates /\ Etats' = Etats /\ Instant' = Instant
  BY <1>1, <1>2 DEF Acquittes, Rates, Etats, Instant, varsServ
<1> QED
  BY <1>1, <1>2, <1>3 DEF Emission!Diffuser, Emission!vars, varsServ

-----------------------------------------------------------------------------
(* The threads of the clients.                                             *)

(* What a request that is dealt with leaves of the history.                *)
LEMMA HistoireFixe ==
  ASSUME HInv, NEW s \in Services, NEW v \in {"envoie", "clos", "muet"},
         serv' = [serv EXCEPT ![s] = v], mess' = mess, UNCHANGED <<pile, numMes, varsDiff>>,
         serv[s] \in {"lit", "attend", "envoie"}, mess[s].cmd # "MESS"
  PROVE  Fixe /\ diffuses' = diffuses
<1>1. serv'[s] = v /\ \A u \in Services : u # s => serv'[u] = serv[u]
  BY ServType
<1>2. Acquittes' = Acquittes /\ Rates' = Rates
  BY <1>1 DEF Acquittes, Rates
<1> QED
  BY <1>2 DEF Fixe, Pris, varsDiff

(* A MESS that is acknowledged is confided.                                *)
LEMMA MESSConfie ==
  ASSUME HInv, NEW s \in Services, MESS(s)
  PROVE  Emission!Confier(s)
<1>1. /\ PeutTraiter(s, "MESS") /\ serv[s] = "attend"
      /\ reponse' = [reponse EXCEPT ![s] = Append(@, ACKM)]
      /\ serv' = [serv EXCEPT ![s] = "clos"] /\ UNCHANGED <<varsDiff, mess, stop>>
  BY DEF MESS, PeutTraiter
<1>2. Pris' = Pris /\ diffuses' = diffuses
  BY <1>1 DEF Pris, varsDiff
<1>3. serv'[s] = "clos" /\ \A u \in Services : u # s => serv'[u] = serv[u]
  BY <1>1, ServType
<1>4. Acquittes' = Acquittes \cup {s} /\ Rates' = Rates
  BY <1>1, <1>3 DEF Acquittes, Rates, PeutTraiter
<1>5. Etats[s] = "ouverte" /\ Instant[s] = <<>>
  BY <1>1, EtatActuel
<1>6. Etats' = [Etats EXCEPT ![s] = "faite"] /\ Instant' = [Instant EXCEPT ![s] = <<>>]
  BY <1>1, <1>2, EtatSuivant
<1>7. Instant' = Instant
  BY <1>5, <1>6 DEF Instant
<1> QED
  BY <1>1, <1>2, <1>4, <1>5, <1>6, <1>7 DEF Emission!Confier, Emission!Repondre, ACKM

(* A MESS that has no place is lost: the file was empty.                   *)
LEMMA MESSPerdu ==
  ASSUME HInv, HInv', NEW s \in Services, MESSHorsBornes(s)
  PROVE  Emission!Perdre(s)
<1>1. /\ serv[s] = "attend" /\ mess[s].cmd = "MESS"
      /\ serv' = [serv EXCEPT ![s] = "muet"] /\ UNCHANGED <<varsDiff, mess, stop, reponse>>
  BY DEF MESSHorsBornes, PeutTraiter
<1>2. Pris' = Pris /\ diffuses' = diffuses
  BY <1>1 DEF Pris, varsDiff
<1>3. serv'[s] = "muet" /\ \A u \in Services : u # s => serv'[u] = serv[u]
  BY <1>1, ServType
<1>4. Acquittes' = Acquittes /\ Rates' = Rates \cup {s}
  BY <1>1, <1>3 DEF Acquittes, Rates
<1>5. Fichier = <<>>
  BY <1>1, <1>3 DEF HInv, IInv, SansException
<1>6. Etats[s] = "ouverte" /\ Instant[s] = <<>>
  BY <1>1, EtatActuel
<1>7. Etats' = [Etats EXCEPT ![s] = "faite"] /\ Instant' = [Instant EXCEPT ![s] = <<>>]
  BY <1>1, <1>2, EtatSuivant
<1>8. Instant' = Instant
  BY <1>6, <1>7 DEF Instant
<1> QED
  BY <1>1, <1>2, <1>4, <1>5, <1>6, <1>7, <1>8 DEF Emission!Perdre

(* A LAST begins with all that was taken.                                  *)
LEMMA LASTConsulte ==
  ASSUME HInv, NEW s \in Services, LAST(s)
  PROVE  Emission!Consulter(s)
<1>1. /\ serv[s] = "attend" /\ mess[s].cmd = "LAST"
      /\ stop' = [stop EXCEPT ![s] = MinDe(mess[s].nb, numMes)]
      /\ serv' = [serv EXCEPT ![s] = "envoie"] /\ UNCHANGED <<pile, numMes, varsDiff, mess, reponse>>
  BY DEF LAST, PeutTraiter
<1>2. Fixe /\ diffuses' = diffuses
  BY <1>1, HistoireFixe
<1>3. Etats[s] = "ouverte" /\ Instant[s] = <<>>
  BY <1>1, EtatActuel
<1>4. Etats' = [Etats EXCEPT ![s] = "consulte"] /\ Instant' = [Instant EXCEPT ![s] = Pris]
  BY <1>1, <1>2, EtatSuivant DEF Fixe
<1>5. mess[s].nb \in Nombres
  <2>1. mess[s] \in Requete
    BY ServType
  <2> QED
    BY <1>1, <2>1 DEF Requete
<1>6. \E n \in Nombres : stop' = [stop EXCEPT ![s] = IF n < Emission!Numero THEN n ELSE Emission!Numero]
  BY <1>1, <1>5, NumeroEstNumMes DEF MinDe
<1> QED
  BY <1>1, <1>2, <1>3, <1>4, <1>6 DEF Emission!Consulter, Fixe

(* Each of its lines is the next of what it began with, while the end of   *)
(* the list is what was broadcast last.                                    *)
LEMMA LASTDit ==
  ASSUME HInv, NEW s \in Services, LASTSuivant(s)
  PROVE  Emission!Dire(s)
<1> DEFINE n == Len(reponse[s])
           m == pile[Len(pile) - n]
<1>1. /\ serv[s] = "envoie" /\ n < stop[s] /\ n < Len(pile)
      /\ reponse' = [reponse EXCEPT ![s] = Append(@, OLDM(m))]
      /\ UNCHANGED <<pile, numMes, varsDiff, serv, mess, stop>>
  BY DEF LASTSuivant
<1>2. Fixe /\ diffuses' = diffuses /\ Etats' = Etats /\ Instant' = Instant
  BY <1>1 DEF Fixe, Pris, Acquittes, Rates, Etats, Instant, varsDiff
<1>3. Etats[s] = "consulte" /\ Instant[s] = Pris
  BY <1>1, EtatActuel
<1>4. n \in Nat /\ Len(pile) \in Nat
  BY ServType, LenProperties
<1>5. m \in Emission!Messages
  <2>1. Len(pile) - n \in 1 .. Len(pile)
    BY <1>1, <1>4
  <2>2. /\ m.num \in 0 .. NumMax /\ m.texte \in Textes \cup Acquittes
        /\ [num |-> m.num, texte |-> m.texte] = m
    BY <2>1, EntreeType
  <2> HIDE DEF m
  <2>3. [num |-> m.num, texte |-> m.texte] \in Emission!Messages
    BY <2>2 DEF Emission!Messages
  <2> QED
    BY <2>2, <2>3
<1>6. n < Len(Fichier) - 1 => m = Emission!Fil(Instant[s])[Len(Emission!Fil(Instant[s])) - n]
  <2> SUFFICES ASSUME n < Len(Fichier) - 1 PROVE m = Fil[Len(Fil) - n]
    <3>1. Emission!Fil(Pris) = Fil
      BY DEF Emission!Fil, Fil, setPile
    <3> QED
      BY <1>3, <3>1
  <2>1. Len(Fil) \in Nat
    BY FilType, PrisType, Constantes DEF HInv, IInv, Fil
  <2>2. n + 1 \in 1 .. Tranche
    BY <1>4, Constantes DEF Tranche
  <2>3. pile[Len(pile) + 1 - (n + 1)] = Fil[Len(Fil) + 1 - (n + 1)]
    BY <2>2 DEF HInv, SuffixeRecent
  <2>4. Len(pile) + 1 - (n + 1) = Len(pile) - n /\ Len(Fil) + 1 - (n + 1) = Len(Fil) - n
    BY <1>4, <2>1
  <2> QED
    BY <2>3, <2>4
<1>7. Emission!Repondre(s, [cle |-> "OLDM", num |-> m.num, texte |-> m.texte])
  BY <1>1 DEF Emission!Repondre, OLDM
<1> HIDE DEF m
<1> QED
  BY <1>1, <1>2, <1>3, <1>5, <1>6, <1>7 DEF Emission!Dire, Fixe

(* ENDM comes when all the lines are told.                                 *)
LEMMA LASTConclut ==
  ASSUME HInv, NEW s \in Services, LASTFin(s)
  PROVE  Emission!Conclure(s)
<1>1. /\ serv[s] = "envoie" /\ Len(reponse[s]) >= stop[s]
      /\ reponse' = [reponse EXCEPT ![s] = Append(@, ENDM)]
      /\ serv' = [serv EXCEPT ![s] = "clos"] /\ UNCHANGED <<pile, numMes, varsDiff, mess, stop>>
  BY DEF LASTFin
<1>2. Fixe /\ diffuses' = diffuses
  BY <1>1, HistoireFixe DEF HInv, Debuts
<1>3. Etats[s] = "consulte"
  BY <1>1, EtatActuel
<1>4. Etats' = [Etats EXCEPT ![s] = "faite"] /\ Instant' = [Instant EXCEPT ![s] = <<>>]
  BY <1>1, <1>2, EtatSuivant DEF Fixe
<1> QED
  BY <1>1, <1>2, <1>3, <1>4 DEF Emission!Conclure, Emission!Repondre, Fixe, ENDM

(* A LAST is given up only when the file was empty.                        *)
LEMMA LASTAbandonne ==
  ASSUME HInv, HInv', NEW s \in Services, LASTHorsBornes(s)
  PROVE  Emission!Abandonner(s)
<1>1. /\ serv[s] = "envoie" /\ serv' = [serv EXCEPT ![s] = "muet"]
      /\ UNCHANGED <<pile, numMes, varsDiff, mess, stop, reponse>>
  BY DEF LASTHorsBornes
<1>2. mess[s].cmd = "LAST" /\ Fixe /\ diffuses' = diffuses
  BY <1>1, HistoireFixe DEF HInv, Debuts
<1>3. serv'[s] = "muet"
  BY <1>1, ServType
<1>4. Fichier = <<>>
  BY <1>1, <1>2, <1>3 DEF HInv, IInv, SansException
<1>5. Etats[s] = "consulte"
  BY <1>1, EtatActuel
<1>6. Etats' = [Etats EXCEPT ![s] = "faite"] /\ Instant' = [Instant EXCEPT ![s] = <<>>]
  BY <1>1, <1>2, EtatSuivant DEF Fixe
<1> QED
  BY <1>1, <1>2, <1>4, <1>5, <1>6 DEF Emission!Abandonner, Fixe

(* Any other line, or none, ends the connection without an answer.         *)
LEMMA AutreEcarte ==
  ASSUME HInv, NEW s \in Services, Ignorer(s) \/ Couper(s) \/ LireEchoue(s)
  PROVE  Emission!Ecarter(s)
<1>1. PICK v \in {"clos", "muet"} : serv' = [serv EXCEPT ![s] = v]
  BY DEF Ignorer, Couper, LireEchoue
<1>2. /\ serv[s] \in {"lit", "attend"} /\ mess[s].cmd # "MESS"
      /\ UNCHANGED <<pile, numMes, varsDiff, mess, stop, reponse>>
  BY DEF Ignorer, Couper, LireEchoue, PeutTraiter, HInv, IInv, Debut, Aucune
<1>3. Fixe /\ diffuses' = diffuses
  BY <1>1, <1>2, HistoireFixe
<1>4. Etats[s] = "ouverte" /\ Instant[s] = <<>>
  BY <1>2, EtatActuel
<1>5. Etats' = [Etats EXCEPT ![s] = "faite"] /\ Instant' = [Instant EXCEPT ![s] = <<>>]
  BY <1>1, <1>3, EtatSuivant DEF Fixe
<1>6. Instant' = Instant
  BY <1>4, <1>5 DEF Instant
<1> QED
  BY <1>2, <1>3, <1>4, <1>5, <1>6 DEF Emission!Ecarter, Fixe

(* A connection, and a line read before the monitor, are not seen.         *)
LEMMA ConnexionInvisible ==
  ASSUME HInv, NEW s \in Services, Accepter(s) \/ Lire(s)
  PROVE  UNCHANGED Emission!vars
<1>1. PICK v \in {"lit", "attend"} : serv' = [serv EXCEPT ![s] = v]
  BY DEF Accepter, Lire
<1>2. serv[s] \in {"absent", "lit"} /\ UNCHANGED <<pile, numMes, varsDiff, stop, reponse>>
  BY DEF Accepter, Lire
<1>3. serv'[s] = v /\ \A u \in Services : u # s => serv'[u] = serv[u]
  BY <1>1, ServType
<1>4. \A u \in Services : u # s => mess'[u] = mess[u]
  BY ServType DEF Accepter, Lire
<1>5. Acquittes' = Acquittes /\ Rates' = Rates
  BY <1>2, <1>3, <1>4 DEF Acquittes, Rates
<1>6. Pris' = Pris /\ diffuses' = diffuses
  BY <1>2 DEF Pris, varsDiff
<1>7. Etats' = Etats /\ Instant' = Instant
  BY <1>2, <1>3, <1>6 DEF Etats, Instant
<1> QED
  BY <1>2, <1>5, <1>6, <1>7 DEF Emission!vars

-----------------------------------------------------------------------------
(* The implementation.                                                     *)

(* Every step is a step of Antenne or leaves what it sees.                 *)
LEMMA EtapeAntenne == HInv /\ HInv' /\ [Next]_vars => [Emission!Next]_(Emission!vars)
<1> SUFFICES ASSUME HInv, HInv', [Next]_vars PROVE Emission!Next \/ UNCHANGED Emission!vars
  OBVIOUS
<1>1. CASE Prendre
  BY <1>1, PrendreEmet DEF Emission!Next
<1>2. CASE Envoyer
  BY <1>2, EnvoyerDiffuse DEF Emission!Next
<1>3. CASE Boucle \/ EnvoiEchoue \/ UNCHANGED vars
  <2>1. Fixe /\ UNCHANGED <<diffuses, serv, stop, reponse>>
    BY <1>3 DEF Boucle, EnvoiEchoue, vars, varsDiff, varsServ, Fixe, Pris, Acquittes, Rates
  <2> QED
    BY <2>1, Invisible
<1>4. ASSUME NEW s \in Services, Accepter(s) \/ Lire(s) PROVE UNCHANGED Emission!vars
  BY <1>4, ConnexionInvisible
<1>5. ASSUME NEW s \in Services, put(s) \/ LireEchoue(s) PROVE Emission!Next
  <2>1. \/ Emission!Confier(s) \/ Emission!Perdre(s) \/ Emission!Ecarter(s)
        \/ Emission!Consulter(s) \/ Emission!Dire(s) \/ Emission!Conclure(s) \/ Emission!Abandonner(s)
    BY <1>5, MESSConfie, MESSPerdu, AutreEcarte, LASTConsulte, LASTDit, LASTConclut, LASTAbandonne DEF put
  <2> QED
    BY <2>1 DEF Emission!Next
<1>6. ASSUME NEW s \in Services, ClientLit(s) \/ ClientPart(s) PROVE UNCHANGED Emission!vars
  <2>1. Fixe /\ UNCHANGED <<diffuses, serv, stop, reponse>>
    BY <1>6 DEF ClientLit, ClientPart, varsDiff, Fixe, Pris, Acquittes, Rates
  <2> QED
    BY <2>1, Invisible
<1> QED
  BY <1>1, <1>2, <1>3, <1>4, <1>5, <1>6 DEF Next, MultiCast, Termine

(* The broadcaster keeps the promise of Antenne: numbers follow the count  *)
(* of what was given one, in one order, and a LAST tells the messages of   *)
(* one moment and then the pieces of the file, although threads share the  *)
(* list and the counter and one of them writes on its socket inside the    *)
(* monitor.                                                                *)
THEOREM SpecEmission == Spec => EmissionSpec
<1>1. Init => Emission!Init
  BY DEF Init, Emission!Init, Pris, Acquittes, Rates, Etats, Instant
<1>2. HInv /\ HInv' /\ [Next]_vars => [Emission!Next]_(Emission!vars)
  BY EtapeAntenne
<1> QED
  BY <1>1, <1>2, SpecHInv, PTL DEF Spec, EmissionSpec, Emission!Spec

=============================================================================
