------------------------ MODULE EnregistrementProofs ------------------------
(***************************************************************************)
(* The directory with the real programs at the other end is the directory  *)
(* of Gestionnaire, so what GestionnaireProofs proves of it holds here;    *)
(* what a Registration thread reads first is the answer to its REGI; and   *)
(* without an entry in the directory it has the end of its stream to read. *)
(***************************************************************************)
EXTENDS Enregistrement, GestionnaireProofs

-----------------------------------------------------------------------------
(* Enregistrement implements Gestionnaire.                                 *)

(* Every step is one of Gestionnaire or changes nothing of it.             *)
LEMMA EtapeReg == [NextReg]_varsTout => [Next]_vars
<1> SUFFICES ASSUME [NextReg]_varsTout PROVE [Next]_vars
  OBVIOUS
<1>1. CASE UNCHANGED varsTout
  BY <1>1 DEF varsTout
<1>2. CASE TermineReg
  BY <1>2 DEF TermineReg, Next
<1>3. ASSUME NEW c \in Connexions, (Accepter(c) \/ Communication(c) \/ Ruok(c)) /\ UNCHANGED varsReg
      PROVE  Next
  BY <1>3 DEF Next
<1>4. ASSUME NEW c \in Connexions, Annoncer(c) \/ Interroger(c)
      PROVE  Next
  BY <1>4 DEF Next, Annoncer, Interroger
<1>5. ASSUME NEW c \in Connexions, Demander(c) \/ DemanderListe(c)
      PROVE  Next
  BY <1>5 DEF Next, Demander, DemanderListe
<1>6. ASSUME NEW c \in Connexions, LireReponse(c) \/ LireNull(c)
      PROVE  UNCHANGED vars
  BY <1>6 DEF LireReponse, LireNull
<1>7. ASSUME NEW c \in Connexions, LireRUOK(c)
      PROVE  Next
  BY <1>7 DEF Next, LireRUOK
<1>8. ASSUME NEW c \in Connexions, Quitter(c)
      PROVE  Next
  BY <1>8 DEF Next, Quitter
<1> QED
  BY <1>1, <1>2, <1>3, <1>4, <1>5, <1>6, <1>7, <1>8 DEF NextReg, Registration

(* The composition is a behaviour of the directory (Registration.java,     *)
(* Diffuseur.list and Client.list do only what its peers may do).          *)
THEOREM SpecRegSpec == SpecReg => Spec
<1>1. InitReg => Init
  BY DEF InitReg
<1> QED
  BY <1>1, EtapeReg, PTL DEF SpecReg, Spec

-----------------------------------------------------------------------------
(* What a Registration thread reads.                                       *)

(* A thread that waits for its answer has sent REGI.                       *)
Attente == \A c \in Connexions : reg[c] = "attend" => ligne[c].cmd = "REGI"

(* The first line written to one that registers is REOK or RENO.           *)
Premiere ==
  \A c \in Connexions :
    ligne[c].cmd = "REGI" /\ envoye[c] # <<>> => Head(envoye[c]).cle \in {"REOK", "RENO"}

(* It is the only line written while it is served.                         *)
LEMMA PremiereSuivante == IInv /\ Premiere /\ [Next]_vars => Premiere'
<1> SUFFICES ASSUME IInv, Premiere, [Next]_vars PROVE Premiere'
  OBVIOUS
<1>1. TypeOK /\ Avant /\ Nature
  BY DEF IInv
<1>2. ASSUME NEW c \in Connexions, NEW l, Lu(c, "REGI"), l \in {REOK, RENO}, NEW b, Repondre(c, l, b)
      PROVE  Premiere'
  <2>1. envoye[c] = <<>>
    BY <1>1, <1>2 DEF Lu, Avant
  <2>2. Append(<<>>, l) = <<l>> /\ Head(<<l>>) = l
    OBVIOUS
  <2>3. envoye'[c] = <<l>> /\ UNCHANGED ligne /\ \A x \in Connexions \ {c} : envoye'[x] = envoye[x]
    BY <1>1, <1>2, <2>1, <2>2 DEF Repondre, TypeOK, varsPair
  <2>4. l.cle \in {"REOK", "RENO"}
    BY <1>2 DEF REOK, RENO
  <2> QED
    BY <2>2, <2>3, <2>4 DEF Premiere
<1>3. ASSUME NEW c \in Connexions, ligne[c].cmd # "REGI", UNCHANGED ligne,
             \A x \in Connexions \ {c} : envoye'[x] = envoye[x]
      PROVE  Premiere'
  BY <1>3 DEF Premiere
<1>4. ASSUME NEW c \in Connexions, REGIPlein(c) \/ REGIDoublon(c) \/ REGI(c)
      PROVE  Premiere'
  BY <1>2, <1>4 DEF REGIPlein, REGIDoublon, REGI
<1>5. ASSUME NEW c \in Connexions, LIST(c) \/ Suivant(c) \/ AutreCommande(c)
      PROVE  Premiere'
  <2>1. ligne[c].cmd # "REGI"
    BY <1>1, <1>5 DEF LIST, Suivant, AutreCommande, Lu, Nature, Liste
  <2>2. UNCHANGED ligne /\ \A x \in Connexions \ {c} : envoye'[x] = envoye[x]
    BY <1>1, <1>5 DEF LIST, Suivant, AutreCommande, Repondre, TypeOK, varsPair
  <2> QED
    BY <1>3, <2>1, <2>2
<1>6. ASSUME NEW c \in Connexions, PairDemande(c)
      PROVE  Premiere'
  <2>1. pair[c] = "connecte" /\ ligne[c] = Rien /\ UNCHANGED envoye
    BY <1>6 DEF PairDemande, varsCom
  <2>2. com[c] \notin Liste /\ com[c] # "fini"
    BY <1>1, <2>1 DEF Nature, Rien
  <2>3. envoye[c] = <<>>
    BY <1>1, <2>2 DEF TypeOK, Avant, Liste
  <2>4. \A x \in Connexions \ {c} : ligne'[x] = ligne[x]
    BY <1>1, <1>6 DEF PairDemande, TypeOK
  <2> QED
    BY <2>1, <2>3, <2>4 DEF Premiere
<1>7. ASSUME UNCHANGED <<ligne, envoye>>
      PROVE  Premiere'
  BY <1>7 DEF Premiere
<1>8. ASSUME NEW c \in Connexions,
             \/ Accepter(c) \/ Entrer(c) \/ Iterer(c) \/ Reste(c) \/ FinListe(c) \/ Exception(c)
             \/ Ruok(c) \/ PairConnecte(c) \/ PairIMOK(c) \/ PairPart(c)
      PROVE  UNCHANGED <<ligne, envoye>>
  BY <1>8 DEF Accepter, Entrer, Iterer, Reste, FinListe, Exception, Ruok, RUOK, Vivant, Mort, Retirer, Fermer,
              PairConnecte, PairIMOK, PairPart, varsPair, varsCom
<1>9. CASE Termine \/ UNCHANGED vars
  BY <1>7, <1>9 DEF Termine, vars, varsPair, varsCom
<1> QED
  BY <1>4, <1>5, <1>6, <1>7, <1>8, <1>9 DEF Next, Communication

RegInv == IInv /\ Premiere /\ Attente /\ TypeReg

(* RegInv holds initially, and every step keeps it.                        *)
LEMMA InitRegInv == InitReg => RegInv
<1> SUFFICES ASSUME InitReg PROVE RegInv
  OBVIOUS
<1>1. IInv
  BY InitIInv DEF InitReg
<1> QED
  BY <1>1 DEF InitReg, Init, RegInv, Premiere, Attente, TypeReg

LEMMA NextRegInv == RegInv /\ [NextReg]_varsTout => RegInv'
<1> SUFFICES ASSUME RegInv, [NextReg]_varsTout PROVE RegInv'
  OBVIOUS
<1>1. IInv' /\ Premiere'
  BY EtapeReg, NextIInv, PremiereSuivante DEF RegInv
<1>2. TypeOK /\ Premiere /\ Attente /\ TypeReg
  BY DEF RegInv, IInv
<1>3. ASSUME UNCHANGED varsReg, \A c \in Connexions : ligne[c] # Rien => ligne'[c] = ligne[c]
      PROVE  Attente' /\ TypeReg'
  <2>1. reg' = reg /\ affiche' = affiche
    BY <1>3 DEF varsReg
  <2>2. \A c \in Connexions : ligne[c].cmd = "REGI" => ligne'[c].cmd = "REGI"
    BY <1>3 DEF Rien
  <2> QED
    BY <1>2, <2>1, <2>2 DEF Attente, TypeReg
<1>4. ASSUME UNCHANGED varsTout \/ TermineReg
      PROVE  Attente' /\ TypeReg'
  BY <1>3, <1>4 DEF varsTout, vars, varsPair, TermineReg, Termine
<1>5. ASSUME NEW c \in Connexions, (Accepter(c) \/ Communication(c) \/ Ruok(c)) /\ UNCHANGED varsReg
      PROVE  Attente' /\ TypeReg'
  <2>1. UNCHANGED ligne
    BY <1>5 DEF Accepter, Communication, Ruok, RUOK, Vivant, Mort, Retirer, Fermer, Entrer, REGIPlein, REGIDoublon,
                REGI, LIST, Iterer, Reste, Suivant, FinListe, AutreCommande, Exception, Repondre, varsPair
  <2> QED
    BY <1>3, <1>5, <2>1
<1>6. ASSUME NEW c \in Connexions, LireRUOK(c) \/ DemanderListe(c)
      PROVE  Attente' /\ TypeReg'
  <2>1. UNCHANGED varsReg
    BY <1>6 DEF LireRUOK, DemanderListe
  <2>2. \A x \in Connexions : ligne[x] # Rien => ligne'[x] = ligne[x]
    BY <1>2, <1>6 DEF LireRUOK, PairIMOK, DemanderListe, PairDemande, TypeOK
  <2> QED
    BY <1>3, <2>1, <2>2
<1>7. ASSUME NEW c \in Connexions, Annoncer(c) \/ Interroger(c)
      PROVE  Attente' /\ TypeReg'
  BY <1>2, <1>7 DEF Annoncer, Interroger, PairConnecte, Attente, TypeReg
<1>8. ASSUME NEW c \in Connexions, Demander(c)
      PROVE  Attente' /\ TypeReg'
  <2>1. /\ reg' = [reg EXCEPT ![c] = "attend"] /\ UNCHANGED affiche /\ ligne'[c].cmd = "REGI"
        /\ \A x \in Connexions \ {c} : ligne'[x] = ligne[x]
    BY <1>2, <1>8 DEF Demander, PairDemande, TypeOK
  <2> QED
    BY <1>2, <2>1 DEF Attente, TypeReg
<1>9. ASSUME NEW c \in Connexions, LireReponse(c)
      PROVE  Attente' /\ TypeReg'
  <2>1. PICK a \in {"REOK", "RENO"} : a = Head(envoye[c]).cle
    BY <1>2, <1>9 DEF LireReponse, Attente, Premiere
  <2>2. affiche' = [affiche EXCEPT ![c] = a] /\ reg' = [reg EXCEPT ![c] = "boucle"] /\ UNCHANGED ligne
    BY <1>9, <2>1 DEF LireReponse, vars, varsPair
  <2> QED
    BY <1>2, <2>2 DEF Attente, TypeReg
<1>10. ASSUME NEW c \in Connexions, LireNull(c)
       PROVE  Attente' /\ TypeReg'
  BY <1>2, <1>10 DEF LireNull, vars, varsPair, Attente, TypeReg
<1>11. ASSUME NEW c \in Connexions, Quitter(c)
       PROVE  Attente' /\ TypeReg'
  BY <1>2, <1>11 DEF Quitter, PairPart, Attente, TypeReg
<1>12. Attente' /\ TypeReg'
  BY <1>4, <1>5, <1>6, <1>7, <1>8, <1>9, <1>10, <1>11 DEF NextReg, Registration
<1> QED
  BY <1>1, <1>12 DEF RegInv

(* A Registration thread is in its loop of polls only once it has read     *)
(* REOK or RENO, never another line (Registration.java:34-41).             *)
THEOREM SpecTypeReg == SpecReg => []TypeReg
<1>1. RegInv => TypeReg
  BY DEF RegInv
<1> QED
  BY <1>1, InitRegInv, NextRegInv, PTL DEF SpecReg

(* No entry outlives its poll, with the real programs as peers.            *)
THEOREM SpecRegSurveillee == SpecReg => []EntreeSurveillee
BY SpecRegSpec, SpecEntreeSurveillee, PTL

-----------------------------------------------------------------------------
(* Who reads polls has its entry, or the end of its stream.                *)

(* A thread in its loop has had an answer to its REGI.                     *)
Repondu == \A c \in Connexions : reg[c] = "boucle" => ligne[c].cmd = "REGI" /\ envoye[c] # <<>>

(* A REGI that was answered has its stream closed unless it is polled, and *)
(* is polled only if it was accepted or asked for twice.                   *)
Servi ==
  \A c \in Connexions : ligne[c].cmd = "REGI" /\ envoye[c] # <<>> =>
    /\ ruok[c] \in {"absent", "fini"} => ferme[c]
    /\ ruok[c] # "absent" => Enregistre(c) \/ ~ Seul(c)

(* A request does not change, nor is a line unwritten; and a REGI that was *)
(* just sent is not answered yet.                                          *)
LEMMA LignesGardees ==
  ASSUME IInv, [Next]_vars
  PROVE  \A x \in Connexions :
           /\ ligne[x] # Rien => ligne'[x] = ligne[x]
           /\ envoye[x] # <<>> => envoye'[x] # <<>>
           /\ ligne[x] = Rien /\ ligne'[x].cmd = "REGI" => envoye'[x] = <<>>
<1>1. TypeOK /\ Avant /\ Nature /\ Rien.cmd # "REGI"
  BY DEF IInv, Rien
<1>2. ASSUME UNCHANGED ligne, \A x \in Connexions : envoye'[x] = envoye[x] \/ envoye'[x] # <<>>
      PROVE  \A x \in Connexions :
               /\ ligne[x] # Rien => ligne'[x] = ligne[x]
               /\ envoye[x] # <<>> => envoye'[x] # <<>>
               /\ ligne[x] = Rien /\ ligne'[x].cmd = "REGI" => envoye'[x] = <<>>
  BY <1>1, <1>2
<1>3. ASSUME NEW c \in Connexions, NEW l, envoye' = [envoye EXCEPT ![c] = Append(@, l)]
      PROVE  \A x \in Connexions : envoye'[x] = envoye[x] \/ envoye'[x] # <<>>
  <2>1. envoye \in [Connexions -> Seq(Ligne)] /\ envoye[c] \in Seq(Ligne)
    BY <1>1 DEF TypeOK
  <2>2. Append(envoye[c], l) # <<>>
    BY <2>1
  <2> QED
    BY <1>3, <2>1, <2>2
<1>4. ASSUME NEW c \in Connexions,
             REGIPlein(c) \/ REGIDoublon(c) \/ REGI(c) \/ LIST(c) \/ Suivant(c) \/ AutreCommande(c)
      PROVE  UNCHANGED ligne /\ \E l : envoye' = [envoye EXCEPT ![c] = Append(@, l)]
  BY <1>4 DEF REGIPlein, REGIDoublon, REGI, LIST, Suivant, AutreCommande, Repondre, varsPair
<1>5. ASSUME NEW c \in Connexions,
             \/ Accepter(c) \/ Entrer(c) \/ Iterer(c) \/ Reste(c) \/ FinListe(c) \/ Exception(c)
             \/ Ruok(c) \/ PairConnecte(c) \/ PairIMOK(c) \/ PairPart(c)
      PROVE  UNCHANGED <<ligne, envoye>>
  BY <1>5 DEF Accepter, Entrer, Iterer, Reste, FinListe, Exception, Ruok, RUOK, Vivant, Mort, Retirer, Fermer,
              PairConnecte, PairIMOK, PairPart, varsPair, varsCom
<1>6. ASSUME NEW c \in Connexions, PairDemande(c)
      PROVE  \A x \in Connexions :
               /\ ligne[x] # Rien => ligne'[x] = ligne[x]
               /\ envoye[x] # <<>> => envoye'[x] # <<>>
               /\ ligne[x] = Rien /\ ligne'[x].cmd = "REGI" => envoye'[x] = <<>>
  <2>1. pair[c] = "connecte" /\ ligne[c] = Rien /\ UNCHANGED envoye
    BY <1>6 DEF PairDemande, varsCom
  <2>2. com[c] \notin Liste /\ com[c] # "fini"
    BY <1>1, <2>1 DEF Nature, Rien
  <2>3. envoye[c] = <<>>
    BY <1>1, <2>2 DEF TypeOK, Avant, Liste
  <2>4. \A x \in Connexions \ {c} : ligne'[x] = ligne[x]
    BY <1>1, <1>6 DEF PairDemande, TypeOK
  <2> QED
    BY <1>1, <2>1, <2>3, <2>4
<1>7. CASE Termine \/ UNCHANGED vars
  BY <1>2, <1>7 DEF Termine, vars, varsPair, varsCom
<1> QED
  BY <1>2, <1>3, <1>4, <1>5, <1>6, <1>7 DEF Next, Communication

(* Answers close, polls begin and end as Servi says.                       *)
LEMMA NextServi == IInv /\ EntreeSurveillee /\ Servi /\ [Next]_vars => Servi'
<1> SUFFICES ASSUME IInv, EntreeSurveillee, Servi, [Next]_vars PROVE Servi'
  OBVIOUS
<1>1. TypeOK /\ Avant /\ Nature /\ Rien.cmd # "REGI"
  BY DEF IInv, Rien
<1>2. \A x \in Connexions :
        /\ ligne[x] # Rien => ligne'[x] = ligne[x]
        /\ ligne[x] = Rien /\ ligne'[x].cmd = "REGI" => envoye'[x] = <<>>
  BY LignesGardees
<1>3. \A x \in Connexions : ligne[x].cmd = "REGI" /\ ~ Seul(x) => ~ Seul(x)'
  BY <1>1, <1>2 DEF Seul
<1>4. ASSUME NEW x \in Connexions, envoye'[x] = envoye[x], ruok'[x] = ruok[x], ferme'[x] = ferme[x],
             ligne'[x].cmd = "REGI", envoye'[x] # <<>>
      PROVE  /\ ruok'[x] \in {"absent", "fini"} => ferme'[x]
             /\ ruok'[x] # "absent" => Enregistre(x)' \/ ~ Seul(x)'
  <2>1. ligne[x].cmd = "REGI" /\ envoye[x] # <<>>
    BY <1>2, <1>4
  <2> QED
    BY <1>3, <1>4, <2>1 DEF Servi, Enregistre
<1>5. ASSUME UNCHANGED <<envoye, ruok, ferme>>
      PROVE  Servi'
  BY <1>4, <1>5 DEF Servi
<1>6. ASSUME NEW c \in Connexions,
             \/ ligne'[c].cmd # "REGI"
             \/ /\ ruok'[c] \in {"absent", "fini"} => ferme'[c]
                /\ ruok'[c] # "absent" => Enregistre(c)' \/ ~ Seul(c)',
             \A x \in Connexions \ {c} :
               envoye'[x] = envoye[x] /\ ruok'[x] = ruok[x] /\ ferme'[x] = ferme[x]
      PROVE  Servi'
  BY <1>4, <1>6 DEF Servi
<1>7. ASSUME NEW c \in Connexions, NEW l, NEW b, Lu(c, "REGI"), Repondre(c, l, b)
      PROVE  /\ envoye'[c] = <<l>> /\ ferme'[c] = b /\ ruok[c] = "absent" /\ UNCHANGED ligne
             /\ \A x \in Connexions \ {c} : envoye'[x] = envoye[x] /\ ferme'[x] = ferme[x]
  <2>1. envoye[c] = <<>> /\ ruok[c] = "absent"
    BY <1>1, <1>7 DEF Lu, Avant
  <2>2. Append(<<>>, l) = <<l>>
    OBVIOUS
  <2> QED
    BY <1>1, <1>7, <2>1, <2>2 DEF Repondre, TypeOK, varsPair
<1>8. ASSUME NEW c \in Connexions, REGIPlein(c)
      PROVE  Servi'
  <2>1. Lu(c, "REGI") /\ Repondre(c, RENO, TRUE) /\ UNCHANGED ruok
    BY <1>8 DEF REGIPlein
  <2>2. ferme'[c] = TRUE /\ ruok'[c] = "absent"
    BY <1>7, <2>1
  <2>3. \A x \in Connexions \ {c} : envoye'[x] = envoye[x] /\ ruok'[x] = ruok[x] /\ ferme'[x] = ferme[x]
    BY <1>7, <2>1
  <2> QED
    BY <1>6, <2>2, <2>3
<1>9. ASSUME NEW c \in Connexions, REGIDoublon(c)
      PROVE  Servi'
  <2>1. Lu(c, "REGI") /\ Repondre(c, RENO, FALSE) /\ ruok' = [ruok EXCEPT ![c] = "demande"]
        /\ Inscrit(annuaire, ligne[c].dif)
    BY <1>9 DEF REGIDoublon
  <2>2. ruok[c] = "absent" /\ UNCHANGED ligne
    BY <1>7, <2>1
  <2>3. ruok'[c] = "demande" /\ \A x \in Connexions \ {c} : ruok'[x] = ruok[x]
    BY <1>1, <2>1 DEF TypeOK
  <2>4. \A x \in Connexions \ {c} : envoye'[x] = envoye[x] /\ ferme'[x] = ferme[x]
    BY <1>7, <2>1
  <2>5. PICK c2 \in Connexions : Surveille(c2) /\ Demande(c2, ligne[c].dif)
    <3>1. ligne[c].dif \in ToSet(annuaire)
      BY <2>1 DEF Inscrit, Contains, ToSet
    <3> QED
      BY <3>1 DEF EntreeSurveillee
  <2>6. c2 # c
    BY <2>2, <2>5 DEF Surveille
  <2>7. ligne[c] = [cmd |-> "REGI", dif |-> ligne[c].dif]
    <3>1. ligne[c] \in Requete /\ ligne[c].cmd = "REGI"
      BY <1>1, <2>1 DEF TypeOK, Lu, Rien
    <3>2. ligne[c] \in [cmd : {"REGI"}, dif : Difs]
      BY <3>1 DEF Requete
    <3> QED
      BY <3>2
  <2>8. ~ Seul(c)'
    BY <2>2, <2>5, <2>6, <2>7 DEF Demande, Seul
  <2> QED
    BY <1>6, <2>3, <2>4, <2>8
<1>10. ASSUME NEW c \in Connexions, REGI(c)
       PROVE  Servi'
  <2>1. Lu(c, "REGI") /\ Repondre(c, REOK, FALSE) /\ ruok' = [ruok EXCEPT ![c] = "demande"]
    BY <1>10 DEF REGI
  <2>2. ruok'[c] = "demande" /\ \A x \in Connexions \ {c} : ruok'[x] = ruok[x]
    BY <1>1, <2>1 DEF TypeOK
  <2>3. envoye'[c] = <<REOK>>
        /\ \A x \in Connexions \ {c} : envoye'[x] = envoye[x] /\ ferme'[x] = ferme[x]
    BY <1>7, <2>1
  <2>4. Enregistre(c)'
    <3>1. REOK \in ToSet(<<REOK>>)
      BY DEF ToSet
    <3> QED
      BY <2>3, <3>1 DEF Enregistre
  <2> QED
    BY <1>6, <2>2, <2>3, <2>4
<1>11. ASSUME NEW c \in Connexions, LIST(c) \/ Suivant(c) \/ FinListe(c) \/ AutreCommande(c)
       PROVE  Servi'
  <2>1. ligne[c].cmd # "REGI" /\ UNCHANGED <<ligne, ruok>>
    BY <1>1, <1>11 DEF LIST, Suivant, FinListe, AutreCommande, Repondre, Lu, Nature, Liste, varsPair
  <2>2. \A x \in Connexions \ {c} : envoye'[x] = envoye[x] /\ ferme'[x] = ferme[x]
    BY <1>1, <1>11 DEF LIST, Suivant, FinListe, AutreCommande, Repondre, TypeOK
  <2> QED
    BY <1>6, <2>1, <2>2
<1>12. ASSUME NEW c \in Connexions, Ruok(c)
       PROVE  Servi'
  <2>1. ruok[c] \in {"demande", "attend", "retire", "clot"} /\ UNCHANGED <<envoye, ligne>>
        /\ ruok'[c] # "absent" /\ (ruok'[c] = "fini" => ferme'[c])
        /\ \A x \in Connexions \ {c} : ruok'[x] = ruok[x] /\ ferme'[x] = ferme[x]
    BY <1>1, <1>12 DEF Ruok, RUOK, Vivant, Mort, Retirer, Fermer, TypeOK, varsCom, varsPair
  <2>2. ligne[c].cmd = "REGI"
    BY <1>1, <2>1 DEF Nature
  <2>3. CASE envoye[c] = <<>>
    BY <1>4, <2>1, <2>3 DEF Servi
  <2>4. CASE envoye[c] # <<>>
    <3>1. Enregistre(c)' \/ ~ Seul(c)'
      BY <1>3, <2>1, <2>2, <2>4 DEF Servi, Enregistre
    <3> QED
      BY <1>6, <2>1, <3>1
  <2> QED
    BY <2>3, <2>4
<1>13. ASSUME NEW c \in Connexions,
              \/ Accepter(c) \/ Entrer(c) \/ Iterer(c) \/ Reste(c) \/ Exception(c)
              \/ PairConnecte(c) \/ PairDemande(c) \/ PairIMOK(c) \/ PairPart(c)
       PROVE  UNCHANGED <<envoye, ruok, ferme>>
  BY <1>13 DEF Accepter, Entrer, Iterer, Reste, Exception, PairConnecte, PairDemande, PairIMOK, PairPart,
               varsCom
<1>14. CASE Termine \/ UNCHANGED vars
  BY <1>5, <1>14 DEF Termine, vars, varsCom
<1> QED
  BY <1>5, <1>8, <1>9, <1>10, <1>11, <1>12, <1>13, <1>14 DEF Next, Communication

SuiviInv == RegInv /\ Surveillance /\ Servi /\ Repondu

(* A thread enters its loop with an answer, which it keeps.                *)
LEMMA NextRepondu == RegInv /\ Repondu /\ [NextReg]_varsTout => Repondu'
<1> SUFFICES ASSUME RegInv, Repondu, [NextReg]_varsTout PROVE Repondu'
  OBVIOUS
<1>1. IInv /\ Attente /\ TypeReg /\ Rien.cmd # "REGI"
  BY DEF RegInv, Rien
<1>2. \A x \in Connexions :
        /\ ligne[x] # Rien => ligne'[x] = ligne[x]
        /\ envoye[x] # <<>> => envoye'[x] # <<>>
  BY <1>1, EtapeReg, LignesGardees
<1>3. ASSUME NEW c \in Connexions, reg'[c] = "boucle"
      PROVE  reg[c] = "boucle" \/ (reg[c] = "attend" /\ envoye[c] # <<>>)
  BY <1>1, <1>3 DEF NextReg, TermineReg, Annoncer, Registration, Demander, LireReponse, LireNull, LireRUOK,
                    Interroger, DemanderListe, Quitter, TypeReg, varsReg, varsTout
<1> QED
  BY <1>1, <1>2, <1>3 DEF Repondu, Attente

(* A Registration thread that reads polls has its entry in the directory   *)
(* or the end of its stream to read, at once or when the thread that took  *)
(* the entry out has closed the socket, unless the same registration was   *)
(* asked for twice (Gestionnaire.java:73-88, 107-112,                      *)
(* Registration.java:41-49).                                               *)
THEOREM SpecPrevenu == SpecReg => []Prevenu
<1>1. InitReg => SuiviInv
  <2> SUFFICES ASSUME InitReg PROVE SuiviInv
    OBVIOUS
  <2>1. RegInv
    BY InitRegInv
  <2>2. Surveillance
    BY DEF InitReg, Init, Surveillance, EntreeSurveillee, PresentSaufDoublon, Surveille, ToSet
  <2>3. Servi /\ Repondu
    BY DEF InitReg, Init, Servi, Repondu
  <2> QED
    BY <2>1, <2>2, <2>3 DEF SuiviInv
<1>2. SuiviInv /\ [NextReg]_varsTout => SuiviInv'
  BY NextRegInv, EtapeReg, NextSurveillance, NextServi, NextRepondu DEF SuiviInv, Surveillance, RegInv
<1>3. SuiviInv => Prevenu
  <2> SUFFICES ASSUME SuiviInv, NEW c \in Connexions, reg[c] = "boucle",
                      ruok[c] # "clot", ~ ferme[c], Seul(c)
               PROVE  Contains(annuaire, ligne[c].dif)
    BY DEF Prevenu
  <2>1. ligne[c].cmd = "REGI" /\ envoye[c] # <<>>
    BY DEF SuiviInv, Repondu
  <2>2. ruok[c] \notin {"absent", "clot", "fini"} /\ Enregistre(c)
    BY <2>1 DEF SuiviInv, Servi
  <2>3. Surveille(c)
    BY <2>2 DEF SuiviInv, RegInv, IInv, TypeOK, Surveille
  <2> QED
    BY <2>2, <2>3 DEF SuiviInv, Surveillance, PresentSaufDoublon, Seul
<1> QED
  BY <1>1, <1>2, <1>3, PTL DEF SpecReg

=============================================================================
