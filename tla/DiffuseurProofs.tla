-------------------------- MODULE DiffuseurProofs --------------------------
(***************************************************************************)
(* Proofs about Diffuseur, for every file, every set of clients, every     *)
(* NumMax and every bound: its type invariant, and that no index of the    *)
(* broadcaster ever leaves the list.                                       *)
(***************************************************************************)
EXTENDS Diffuseur, SequenceTheorems, TLAPS

(* A thread that answers LAST owns the monitor, and the number of lines it *)
(* set out to answer is still below the counter.                           *)
Exclusion ==
  \A s \in Services : serv[s] = "envoie" => verrou = s /\ stop[s] <= numMes

(* take() is past its emptiness test only once the list has an entry.      *)
PileVide == pile = <<>> => diff \in {"test", "fini"}

(* The file's pieces keep their distance to the counter: each number given *)
(* out adds an entry.                                                      *)
Marge == Fichier # <<>> => numMes + Len(Fichier) <= Len(pile)

(* Who has not read a line yet holds none.                                 *)
Debut == \A s \in Services : serv[s] \in {"absent", "lit"} => mess[s] = Aucune

IInv == TypeOK /\ Debut /\ Exclusion /\ CurseurDansPile /\ PileVide /\ Marge /\ SansException

-----------------------------------------------------------------------------
(* Lemmas about the operators.                                             *)

(* Inserting one message keeps a list of messages and adds one entry.      *)
LEMMA InsererType ==
  ASSUME NEW S, NEW p \in Seq(S), NEW k \in 0 .. Len(p), NEW m \in S
  PROVE  Inserer(p, k, m) \in Seq(S) /\ Len(Inserer(p, k, m)) = Len(p) + 1
<1> DEFINE a == SubSeq(p, 1, k)
           b == SubSeq(p, k + 1, Len(p))
           c == a \o <<m>>
<1>1. k \in Int /\ Len(p) \in Nat /\ k <= Len(p) /\ \A i \in 1 .. Len(p) : p[i] \in S
  BY ElementOfSeq, LenProperties
<1>2. a \in Seq(S) /\ Len(a) = k
  BY <1>1, SubSeqProperties
<1>3. b \in Seq(S) /\ Len(b) = Len(p) - k
  BY <1>1, SubSeqProperties
<1>4. <<m>> \in Seq(S) /\ Len(<<m>>) = 1
  OBVIOUS
<1>5. c \in Seq(S) /\ Len(c) = k + 1
  BY <1>2, <1>4, ConcatProperties
<1>6. Inserer(p, k, m) = c \o b
  <2>1. (k + 1) - 1 = k
    BY <1>1
  <2> QED
    BY <2>1, Zenon DEF Inserer, InsertAt
<1> HIDE DEF a, b, c
<1>7. c \o b \in Seq(S) /\ Len(c \o b) = Len(c) + Len(b)
  BY <1>3, <1>5, ConcatProperties
<1>8. Len(c) + Len(b) = Len(p) + 1
  BY <1>1, <1>3, <1>5
<1> QED
  BY <1>6, <1>7, <1>8

(* The next number is a number, and at most one more than the last.        *)
LEMMA IncNumMesType ==
  ASSUME NEW n \in Numeros
  PROVE  incNumMes(n) \in Numeros /\ incNumMes(n) <= n + 1
  BY DiffuseurAssumption DEF incNumMes, Numeros

-----------------------------------------------------------------------------
(* IInv holds initially and every step keeps it.                           *)

LEMMA InitIInv == Init => IInv
<1> SUFFICES ASSUME Init PROVE IInv
  OBVIOUS
<1> USE DEF Init
<1>1. Len(Fichier) \in Nat /\ \A i \in 1 .. Len(Fichier) : Fichier[i] \in Textes
  BY DiffuseurAssumption, ElementOfSeq, LenProperties
<1>2. pile \in Seq(Message) /\ Len(pile) = Len(Fichier)
  <2>1. \A i \in 1 .. Len(Fichier) : [num |-> 0, texte |-> Fichier[i]] \in Message
    BY <1>1, DiffuseurAssumption DEF Message, Numeros, Contenus
  <2> QED
    BY <1>1, <2>1, IsASeq DEF setPile
<1>3. TypeOK
  BY <1>2, DiffuseurAssumption DEF TypeOK, Requete, Aucune, Numeros
<1>4. Exclusion /\ PileVide /\ SansException
  BY DEF Exclusion, PileVide, SansException
<1>5. Debut
  BY DEF Debut
<1>6. CurseurDansPile /\ Marge
  BY <1>1, <1>2, EmptySeq DEF CurseurDansPile, Marge
<1> QED
  BY <1>3, <1>4, <1>5, <1>6 DEF IInv

(* A thread's line is its own, and comes with the end of its reading.      *)
LEMMA DebutGarde == TypeOK /\ Debut /\ [Next]_vars => Debut'
<1> SUFFICES ASSUME TypeOK, Debut, [Next]_vars, NEW u \in Services, serv'[u] \in {"absent", "lit"}
             PROVE  mess'[u] = Aucune
  BY DEF Debut
<1>1. serv \in [Services -> {"absent", "lit", "attend", "envoie", "clos", "muet"}]
  BY DEF TypeOK
<1>2. CASE MultiCast \/ UNCHANGED vars
  BY <1>2 DEF MultiCast, Boucle, Prendre, Envoyer, EnvoiEchoue, vars, varsServ, Debut
<1>3. ASSUME NEW s \in Services, Accepter(s) \/ Lire(s) \/ LireEchoue(s) PROVE mess'[u] = Aucune
  BY <1>1, <1>3 DEF Accepter, Lire, LireEchoue, Debut, TypeOK
<1>4. ASSUME NEW s \in Services, put(s) PROVE mess'[u] = Aucune
  <2>1. mess' = mess /\ (serv' = serv \/ \E v \in {"envoie", "clos", "muet"} : serv' = [serv EXCEPT ![s] = v])
    BY <1>4 DEF put, MESS, MESSHorsBornes, LAST, LASTSuivant, LASTHorsBornes, LASTFin, Ignorer, Couper
  <2> QED
    BY <1>1, <2>1 DEF Debut
<1>5. ASSUME NEW s \in Services, ClientLit(s) \/ ClientPart(s) PROVE mess'[u] = Aucune
  BY <1>5 DEF ClientLit, ClientPart, Debut
<1> QED
  BY <1>2, <1>3, <1>4, <1>5 DEF Next, Termine

LEMMA NextIInv == IInv /\ [Next]_vars => IInv'
<1> SUFFICES ASSUME IInv, [Next]_vars PROVE IInv'
  OBVIOUS
<1>0. /\ Len(pile) \in Nat /\ numMes \in Nat /\ numMes <= NumMax
      /\ Len(Fichier) \in Nat /\ Libre \notin Services /\ Nombres \subseteq Int /\ NumMax \in Nat
      /\ pile # <<>> <=> Len(pile) # 0
      /\ Fichier # <<>> <=> Len(Fichier) # 0
  BY DiffuseurAssumption, EmptySeq, LenProperties DEF IInv, TypeOK, Numeros
<1> USE DEF IInv
<1>d. Debut'
  BY DebutGarde
<1> USE <1>d
<1>1. CASE Boucle
  <2>1. TypeOK'
    BY <1>1 DEF Boucle, TypeOK, varsServ
  <2> QED
    BY <1>1, <2>1 DEF Boucle, varsServ, Exclusion, CurseurDansPile, PileVide, Marge, SansException
<1>2. CASE Prendre
  <2> DEFINE msg2 == [num |-> numMes, texte |-> pile[numMes + 1].texte]
  <2>1. numMes < Len(pile)
    BY <1>0, <1>2 DEF Prendre, CurseurDansPile, PileVide
  <2>2. msg2 \in Message
    <3>1. pile[numMes + 1] \in Message
      BY <1>0, <2>1, ElementOfSeq DEF TypeOK
    <3> QED
      BY <3>1 DEF TypeOK, Message
  <2>3. /\ pile' = Append(pile, msg2) /\ data' = <<msg2>> /\ diff' = "envoi"
        /\ numMes' = incNumMes(numMes)
        /\ verrou = Libre /\ UNCHANGED <<verrou, diffuses, varsServ>>
    BY <1>2, <2>1 DEF Prendre, Recopier
  <2>4. pile' \in Seq(Message) /\ Len(pile') = Len(pile) + 1
    BY <2>2, <2>3, AppendProperties DEF TypeOK
  <2>5. numMes' \in Numeros /\ numMes' <= numMes + 1
    BY <2>3, IncNumMesType DEF TypeOK
  <2>6. data' \in Seq(Message)
    BY <2>2, <2>3
  <2>7. TypeOK'
    BY <2>3, <2>4, <2>5, <2>6 DEF TypeOK, varsServ
  <2>8. Exclusion'
    BY <1>0, <2>3 DEF Exclusion, varsServ
  <2>9. CurseurDansPile' /\ Marge'
    BY <1>0, <2>1, <2>4, <2>5 DEF CurseurDansPile, Marge, Numeros
  <2> QED
    BY <2>3, <2>7, <2>8, <2>9 DEF PileVide, SansException, varsServ
<1>3. CASE Envoyer
  <2>1. diffuses' \in Seq(Message)
    BY <1>3, ConcatProperties DEF Envoyer, TypeOK
  <2>2. TypeOK'
    BY <1>3, <2>1, EmptySeq DEF Envoyer, TypeOK, varsServ
  <2> QED
    BY <1>3, <2>2 DEF Envoyer, varsServ, Exclusion, CurseurDansPile, PileVide, Marge, SansException
<1>4. CASE EnvoiEchoue
  <2>1. TypeOK'
    BY <1>4 DEF EnvoiEchoue, TypeOK, varsServ
  <2> QED
    BY <1>4, <2>1 DEF EnvoiEchoue, varsServ, Exclusion, CurseurDansPile, PileVide, Marge, SansException
<1>5. ASSUME NEW s \in Services, Accepter(s) PROVE IInv'
  <2>1. TypeOK'
    BY <1>5 DEF Accepter, TypeOK, varsDiff
  <2> QED
    BY <1>5, <2>1 DEF Accepter, varsDiff, TypeOK, Exclusion, CurseurDansPile, PileVide, Marge, SansException
<1>6. ASSUME NEW s \in Services, Lire(s) \/ LireEchoue(s) PROVE IInv'
  <2>1. TypeOK'
    BY <1>6 DEF Lire, LireEchoue, TypeOK, varsDiff
  <2>2. (Exclusion /\ CurseurDansPile /\ PileVide /\ Marge)'
    BY <1>6 DEF Lire, LireEchoue, varsDiff, TypeOK, Exclusion, CurseurDansPile, PileVide, Marge
  <2>3. SansException'
    <3>1. CASE Lire(s)
      BY <3>1 DEF Lire, varsDiff, TypeOK, SansException
    <3>2. CASE LireEchoue(s)
      BY <3>2 DEF LireEchoue, varsDiff, TypeOK, SansException, Debut, Aucune
    <3> QED
      BY <1>6, <3>1, <3>2
  <2> QED
    BY <2>1, <2>2, <2>3
<1>7. ASSUME NEW s \in Services, MESS(s) PROVE IInv'
  <2> DEFINE m == [num |-> numMes', texte |-> s]
  <2>1. numMes' \in Numeros /\ numMes' <= numMes + 1 /\ numMes' \in 0 .. Len(pile)
    BY <1>0, <1>7, IncNumMesType DEF MESS, TypeOK, Numeros
  <2>2. m \in Message
    BY <2>1 DEF Message, Contenus
  <2>3. pile' \in Seq(Message) /\ Len(pile') = Len(pile) + 1
    BY <1>7, <2>1, <2>2, InsererType DEF MESS, TypeOK
  <2>4. reponse' \in [Services -> Seq(Ligne)]
    <3>1. ACKM \in Ligne
      BY DEF ACKM, Ligne
    <3>2. reponse[s] \in Seq(Ligne)
      BY DEF TypeOK
    <3>3. Append(reponse[s], ACKM) \in Seq(Ligne)
      BY <3>1, <3>2, AppendProperties
    <3> QED
      BY <1>7, <3>3 DEF MESS, TypeOK
  <2>5. TypeOK'
    BY <1>7, <2>1, <2>3, <2>4 DEF MESS, TypeOK, varsDiff
  <2>6. Exclusion'
    BY <1>0, <1>7 DEF MESS, PeutTraiter, Exclusion, TypeOK
  <2>7. CurseurDansPile' /\ Marge'
    BY <1>0, <2>1, <2>3 DEF CurseurDansPile, Marge, Numeros
  <2>8. PileVide' /\ SansException'
    BY <1>7, <2>3, <1>0, EmptySeq DEF MESS, varsDiff, PileVide, SansException, TypeOK
  <2> QED
    BY <2>5, <2>6, <2>7, <2>8
<1>8. ASSUME NEW s \in Services, MESSHorsBornes(s) PROVE IInv'
  <2>1. numMes' \in Numeros /\ numMes' <= numMes + 1 /\ numMes' > Len(pile)
    BY <1>0, <1>8, IncNumMesType DEF MESSHorsBornes, TypeOK, Numeros
  <2>2. pile = <<>> /\ Fichier = <<>>
    BY <1>0, <2>1 DEF CurseurDansPile, Marge, Numeros
  <2>3. TypeOK'
    BY <1>8, <2>1 DEF MESSHorsBornes, TypeOK, varsDiff
  <2>4. Exclusion'
    BY <1>0, <1>8 DEF MESSHorsBornes, PeutTraiter, Exclusion, TypeOK
  <2> QED
    BY <1>8, <2>2, <2>3, <2>4 DEF MESSHorsBornes, varsDiff, CurseurDansPile, PileVide, Marge, SansException
<1>9. ASSUME NEW s \in Services, LAST(s) PROVE IInv'
  <2>1. mess[s].nb \in Int
    <3>1. mess[s] \in Requete
      BY DEF TypeOK
    <3>2. ASSUME NEW r \in Requete PROVE r.nb \in {0} \cup Nombres
      BY DEF Requete
    <3>3. {0} \cup Nombres \subseteq Int
      BY <1>0
    <3> QED
      BY <3>1, <3>2, <3>3, Zenon
  <2>2. MinDe(mess[s].nb, numMes) \in Int /\ MinDe(mess[s].nb, numMes) <= numMes
    BY <1>0, <2>1 DEF MinDe
  <2>3. TypeOK'
    BY <1>9, <2>2 DEF LAST, PrisPar, TypeOK, varsDiff
  <2>4. Exclusion'
    BY <1>0, <1>9, <2>2 DEF LAST, PrisPar, PeutTraiter, Exclusion, TypeOK
  <2> QED
    BY <1>9, <2>3, <2>4 DEF LAST, varsDiff, TypeOK, CurseurDansPile, PileVide, Marge, SansException
<1>10. ASSUME NEW s \in Services, LASTSuivant(s) PROVE IInv'
  <2> DEFINE i == Len(reponse[s])
  <2>1. reponse[s] \in Seq(Ligne) /\ i \in Nat /\ i < Len(pile)
    BY <1>10, LenProperties DEF LASTSuivant, TypeOK
  <2>2. OLDM(pile[Len(pile) - i]) \in Ligne
    <3>1. pile[Len(pile) - i] \in Message
      BY <1>0, <2>1, ElementOfSeq DEF TypeOK
    <3> QED
      BY <3>1 DEF OLDM, Message, Ligne
  <2>3. Append(reponse[s], OLDM(pile[Len(pile) - i])) \in Seq(Ligne)
    BY <2>1, <2>2, AppendProperties
  <2>4. TypeOK'
    BY <1>10, <2>3 DEF LASTSuivant, TypeOK, varsDiff
  <2> QED
    BY <1>10, <2>4 DEF LASTSuivant, varsDiff, Exclusion, CurseurDansPile, PileVide, Marge, SansException
<1>11. ASSUME NEW s \in Services, LASTHorsBornes(s) PROVE IInv'
  <2>1. reponse[s] \in Seq(Ligne) /\ Len(reponse[s]) \in Nat /\ stop[s] \in Int
    BY LenProperties DEF TypeOK
  <2>2. Len(reponse[s]) < stop[s] /\ stop[s] <= numMes /\ Len(pile) <= Len(reponse[s])
    BY <1>0, <1>11, <2>1 DEF LASTHorsBornes, Exclusion
  <2>3. pile = <<>> /\ Fichier = <<>>
    BY <1>0, <2>1, <2>2 DEF CurseurDansPile, Marge
  <2>4. TypeOK'
    BY <1>11 DEF LASTHorsBornes, RenduPar, TypeOK, varsDiff
  <2>5. Exclusion'
    BY <1>0, <1>11 DEF LASTHorsBornes, Exclusion, TypeOK
  <2> QED
    BY <1>11, <2>3, <2>4, <2>5 DEF LASTHorsBornes, varsDiff, CurseurDansPile, PileVide, Marge, SansException
<1>12. ASSUME NEW s \in Services, LASTFin(s) PROVE IInv'
  <2>1. reponse[s] \in Seq(Ligne) /\ ENDM \in Ligne
    BY DEF TypeOK, ENDM, Ligne
  <2>2. Append(reponse[s], ENDM) \in Seq(Ligne)
    BY <2>1, AppendProperties
  <2>3. TypeOK'
    BY <1>12, <2>2 DEF LASTFin, RenduPar, TypeOK, varsDiff
  <2>4. Exclusion'
    BY <1>0, <1>12 DEF LASTFin, Exclusion, TypeOK
  <2> QED
    BY <1>12, <2>3, <2>4 DEF LASTFin, varsDiff, TypeOK, CurseurDansPile, PileVide, Marge, SansException
<1>13. ASSUME NEW s \in Services, Ignorer(s) PROVE IInv'
  <2>1. TypeOK'
    BY <1>13 DEF Ignorer, PeutTraiter, TypeOK, varsDiff
  <2> QED
    BY <1>13, <2>1 DEF Ignorer, PeutTraiter, varsDiff, TypeOK, Exclusion, CurseurDansPile, PileVide, Marge, SansException
<1>14. ASSUME NEW s \in Services, Couper(s) PROVE IInv'
  <2>1. TypeOK'
    BY <1>14 DEF Couper, PeutTraiter, TypeOK, varsDiff
  <2> QED
    BY <1>14, <2>1 DEF Couper, PeutTraiter, varsDiff, TypeOK, Exclusion, CurseurDansPile, PileVide, Marge, SansException
<1>15. ASSUME NEW s \in Services, ClientLit(s) PROVE IInv'
  <2>1. TypeOK'
    BY <1>15 DEF ClientLit, TypeOK, varsDiff
  <2> QED
    BY <1>15, <2>1 DEF ClientLit, varsDiff, Exclusion, CurseurDansPile, PileVide, Marge, SansException
<1>16. ASSUME NEW s \in Services, ClientPart(s) PROVE IInv'
  <2>1. TypeOK'
    BY <1>16 DEF ClientPart, TypeOK, varsDiff
  <2> QED
    BY <1>16, <2>1 DEF ClientPart, varsDiff, Exclusion, CurseurDansPile, PileVide, Marge, SansException
<1>17. CASE UNCHANGED vars
  <2>1. TypeOK'
    BY <1>17 DEF vars, varsDiff, varsServ, TypeOK
  <2> QED
    BY <1>17, <2>1 DEF vars, varsDiff, varsServ, Exclusion, CurseurDansPile, PileVide, Marge, SansException
<1> QED
  BY <1>1, <1>2, <1>3, <1>4, <1>5, <1>6, <1>7, <1>8, <1>9, <1>10, <1>11, <1>12, <1>13,
     <1>14, <1>15, <1>16, <1>17 DEF Next, MultiCast, put, Termine

-----------------------------------------------------------------------------
(* IInv is an invariant of the specification.                              *)
LEMMA SpecIInv == Spec => []IInv
  BY InitIInv, NextIInv, PTL DEF Spec

(* The list, the counter and the threads' variables keep their types; in   *)
(* particular the number stays on the digits incNumMes keeps.              *)
THEOREM SpecTypeOK == Spec => []TypeOK
<1>1. IInv => TypeOK
  BY DEF IInv
<1> QED
  BY <1>1, SpecIInv, PTL

(* Once the list has an entry the cursor of the broadcast is inside it:    *)
(* it grows at least as fast as the counter, through every wrap.           *)
THEOREM SpecCurseurDansPile == Spec => []CurseurDansPile
<1>1. IInv => CurseurDansPile
  BY DEF IInv
<1> QED
  BY <1>1, SpecIInv, PTL

(* No index leaves the list: the broadcast never dies of pile.get and,     *)
(* unless the file was empty, every MESS and every LAST is answered or     *)
(* its socket closed.                                                      *)
THEOREM SpecSansException == Spec => []SansException
<1>1. IInv => SansException
  BY DEF IInv
<1> QED
  BY <1>1, SpecIInv, PTL

=============================================================================
