--------------------------- MODULE HistoireProofs ---------------------------
(***************************************************************************)
(* Proofs about what Diffuseur keeps of its history, for every file, every *)
(* set of clients, every NumMax and every bound: the count of what was     *)
(* given a number, the numbers themselves, the end of the list, what LAST  *)
(* answers, and which acknowledged messages the broadcast can pass.        *)
(***************************************************************************)
EXTENDS DiffuseurProofs, Numerotation, FiniteSetTheorems

-----------------------------------------------------------------------------
(* The inductive invariant.                                                *)

(* a is b after some turns of the counter.                                 *)
Congrus(a, b) == \E q \in Nat : a = b + q * (NumMax + 1)

(* The MESS that moved the counter, whether their message entered or not.  *)
Essais == Cardinality(Acquittes) + Cardinality(Rates)

(* The list has an entry, and the counter a turn, for each message taken   *)
(* or acknowledged.                                                        *)
Compte ==
  /\ IsFiniteSet(Acquittes) /\ IsFiniteSet(Rates)
  /\ Len(pile) = Len(Fichier) + Len(Pris) + Cardinality(Acquittes)
  /\ Congrus(Len(Pris) + Essais, numMes)

(* An entry comes from the file or from an acknowledged MESS.              *)
Provenance == \A k \in 1 .. Len(pile) : pile[k].texte \in Textes \cup Acquittes

(* Nothing is held that was not taken, nor written before it was asked.    *)
Debuts ==
  /\ diff \in {"test", "dort"} => data = <<>>
  /\ \A s \in Services : serv[s] \in {"absent", "lit", "attend"} => reponse[s] = <<>>
  /\ \A s \in Services : serv[s] = "envoie" => mess[s].cmd = "LAST"

HInv ==
  /\ IInv /\ Compte /\ SuffixeRecent /\ ReponseLAST
  /\ Depassement /\ Provenance /\ Debuts

(* What most steps leave as it is.                                         *)
Fixe ==
  /\ pile' = pile /\ numMes' = numMes /\ Pris' = Pris
  /\ Acquittes' = Acquittes /\ Rates' = Rates

-----------------------------------------------------------------------------
(* Lemmas about the operators.                                             *)

(* The entries of a list in which one was inserted.                        *)
LEMMA InsererElements ==
  ASSUME NEW S, NEW p \in Seq(S), NEW k \in 0 .. Len(p), NEW m \in S, NEW i \in 1 .. Len(p) + 1
  PROVE  Inserer(p, k, m)[i] = IF i <= k THEN p[i] ELSE IF i = k + 1 THEN m ELSE p[i - 1]
<1> DEFINE a == SubSeq(p, 1, k)
           b == SubSeq(p, k + 1, Len(p))
           c == a \o <<m>>
<1>1. k \in Int /\ k \in Nat /\ Len(p) \in Nat /\ k <= Len(p) /\ \A j \in 1 .. Len(p) : p[j] \in S
  BY ElementOfSeq, LenProperties
<1>2. a \in Seq(S) /\ Len(a) = k /\ \A j \in 1 .. k : a[j] = p[j]
  BY <1>1, SubSeqProperties
<1>3. b \in Seq(S) /\ Len(b) = Len(p) - k /\ \A j \in 1 .. Len(p) - k : b[j] = p[k + j]
  <2>1. \A j \in k + 1 .. Len(p) : p[j] \in S
    BY <1>1
  <2>2. \A j \in 1 .. Len(p) - (k + 1) + 1 : b[j] = p[k + 1 + j - 1]
    BY <1>1, <2>1, SubSeqProperties
  <2>3. b \in Seq(S) /\ Len(b) = Len(p) - k
    BY <1>1, <2>1, SubSeqProperties
  <2> QED
    BY <1>1, <2>2, <2>3
<1>4. <<m>> \in Seq(S) /\ Len(<<m>>) = 1 /\ <<m>>[1] = m
  OBVIOUS
<1>5. c \in Seq(S) /\ Len(c) = k + 1
      /\ \A j \in 1 .. k + 1 : c[j] = IF j <= k THEN p[j] ELSE m
  <2>1. c \in Seq(S) /\ Len(c) = k + 1
        /\ \A j \in 1 .. k + 1 : c[j] = IF j <= k THEN a[j] ELSE <<m>>[j - k]
    BY <1>1, <1>2, <1>4, ConcatProperties
  <2>2. \A j \in 1 .. k + 1 : ~ (j <= k) => j - k = 1
    BY <1>1
  <2>3. ASSUME NEW j \in 1 .. k + 1 PROVE c[j] = IF j <= k THEN p[j] ELSE m
    <3>1. CASE j <= k
      BY <1>1, <1>2, <2>1, <3>1
    <3>2. CASE ~ (j <= k)
      BY <1>4, <2>1, <2>2, <3>2
    <3> QED
      BY <3>1, <3>2
  <2> QED
    BY <2>1, <2>3
<1>6. Inserer(p, k, m) = c \o b
  <2>1. (k + 1) - 1 = k
    BY <1>1
  <2> QED
    BY <2>1, Zenon DEF Inserer, InsertAt
<1> HIDE DEF a, b, c
<1>7. \A j \in 1 .. Len(p) + 1 : (c \o b)[j] = IF j <= k + 1 THEN c[j] ELSE b[j - (k + 1)]
  <2>1. Len(c) + Len(b) = Len(p) + 1
    BY <1>1, <1>3, <1>5
  <2> QED
    BY <1>3, <1>5, <2>1, ConcatProperties
<1>8. CASE i <= k + 1
  BY <1>1, <1>5, <1>6, <1>7, <1>8
<1>9. CASE ~ (i <= k + 1)
  <2>1. i - (k + 1) \in 1 .. Len(p) - k /\ k + (i - (k + 1)) = i - 1
    BY <1>1, <1>9
  <2>2. b[i - (k + 1)] = p[i - 1]
    BY <1>3, <2>1
  <2>3. Inserer(p, k, m)[i] = p[i - 1]
    BY <1>6, <1>7, <1>9, <2>2
  <2>4. ~ (i <= k) /\ i # k + 1
    BY <1>1, <1>9
  <2> QED
    BY <2>3, <2>4
<1> QED
  BY <1>8, <1>9

(* The counter follows what it counts, through its turns.                  *)
LEMMA CongrusSuivant ==
  ASSUME NEW a \in Int, NEW b \in Numeros, Congrus(a, b)
  PROVE  Congrus(a + 1, incNumMes(b))
<1>1. PICK q \in Nat : a = b + q * (NumMax + 1)
  BY DEF Congrus
<1>2. NumMax \in Nat /\ b \in Nat /\ b <= NumMax
  BY DiffuseurAssumption DEF Numeros
<1>3. CASE b + 1 > NumMax
  <2>1. q + 1 \in Nat /\ (q + 1) * (NumMax + 1) = q * (NumMax + 1) + (NumMax + 1)
    BY <1>1, <1>2
  <2>2. q * (NumMax + 1) \in Nat
    BY <1>1, <1>2
  <2>3. b = NumMax
    BY <1>2, <1>3
  <2>4. a + 1 = 0 + (q + 1) * (NumMax + 1)
    BY <1>1, <1>2, <2>1, <2>2, <2>3
  <2> QED
    BY <1>2, <1>3, <2>1, <2>4 DEF Congrus, incNumMes
<1>4. CASE ~ (b + 1 > NumMax)
  <2>1. q * (NumMax + 1) \in Nat
    BY <1>1, <1>2
  <2>2. a + 1 = (b + 1) + q * (NumMax + 1)
    BY <1>1, <1>2, <2>1
  <2> QED
    BY <1>1, <1>4, <2>2 DEF Congrus, incNumMes
<1> QED
  BY <1>3, <1>4

(* Two counts that leave the counter at one number are a whole number of   *)
(* turns apart.                                                            *)
LEMMA CongrusEgal ==
  ASSUME NEW a \in Int, NEW b \in Int, NEW n \in Int, a < b, Congrus(a, n), Congrus(b, n)
  PROVE  b - a > NumMax
<1>1. PICK q \in Nat : a = n + q * (NumMax + 1)
  BY DEF Congrus
<1>2. PICK r \in Nat : b = n + r * (NumMax + 1)
  BY DEF Congrus
<1>3. NumMax \in Nat
  BY DiffuseurAssumption
<1>4. q < r
  <2> SUFFICES ASSUME ~ (q < r) PROVE FALSE
    OBVIOUS
  <2>1. PICK d \in Nat : q = r + d
    OBVIOUS
  <2>2. q * (NumMax + 1) = r * (NumMax + 1) + d * (NumMax + 1) /\ d * (NumMax + 1) \in Nat
        /\ r * (NumMax + 1) \in Nat
    BY <1>3, <2>1
  <2> QED
    BY <1>1, <1>2, <2>2
<1>5. PICK d \in Nat : r = q + d + 1
  <2>1. r - q - 1 \in Nat /\ r = q + (r - q - 1) + 1
    BY <1>4
  <2> QED
    BY <2>1
<1>6. r * (NumMax + 1) = q * (NumMax + 1) + d * (NumMax + 1) + (NumMax + 1)
      /\ d * (NumMax + 1) \in Nat /\ q * (NumMax + 1) \in Nat
  BY <1>3, <1>5
<1> QED
  BY <1>1, <1>2, <1>3, <1>6

(* The remainder of a count is where the counter is.                       *)
LEMMA CongrusReste ==
  ASSUME NEW a \in Nat, NEW b \in Numeros, Congrus(a, b)
  PROVE  b = a % (NumMax + 1)
<1>1. PICK q \in Nat : a = b + q * (NumMax + 1)
  BY DEF Congrus
<1>2. NumMax \in Nat /\ b \in Nat /\ b <= NumMax
  BY DiffuseurAssumption DEF Numeros
<1> QED
  BY <1>1, <1>2

-----------------------------------------------------------------------------
(* What the variables give.                                                *)

(* What was taken is a list of messages.                                   *)
LEMMA PrisType ==
  ASSUME TypeOK
  PROVE  /\ Pris \in Seq(Message) /\ Len(Pris) \in Nat
         /\ \A i \in 1 .. Len(Pris) : Pris[i].num \in Int /\ Pris[i].texte \in Contenus
<1>1. Pris \in Seq(Message)
  BY ConcatProperties DEF TypeOK, Pris
<1>2. Len(Pris) \in Nat /\ \A i \in 1 .. Len(Pris) : Pris[i] \in Message
  BY <1>1, LenProperties, ElementOfSeq
<1> QED
  BY <1>1, <1>2, DiffuseurAssumption DEF Message, Numeros

(* The pieces of the file, followed by a list of messages.                 *)
LEMMA FilType ==
  ASSUME NEW p \in Seq(Message)
  PROVE  /\ setPile \o p \in Seq(Message) /\ Len(setPile \o p) = Len(Fichier) + Len(p)
         /\ \A i \in 1 .. Len(Fichier) + Len(p) :
              (setPile \o p)[i] = IF i <= Len(Fichier) THEN setPile[i] ELSE p[i - Len(Fichier)]
<1>1. Len(Fichier) \in Nat
  BY DiffuseurAssumption, LenProperties
<1>2. \A i \in 1 .. Len(Fichier) : [num |-> 0, texte |-> Fichier[i]] \in Message
  BY DiffuseurAssumption, ElementOfSeq DEF Message, Numeros, Contenus
<1>3. setPile \in Seq(Message) /\ Len(setPile) = Len(Fichier)
  BY <1>1, <1>2, IsASeq DEF setPile
<1>4. /\ setPile \o p \in Seq(Message) /\ Len(setPile \o p) = Len(setPile) + Len(p)
      /\ \A i \in 1 .. Len(setPile) + Len(p) :
           (setPile \o p)[i] = IF i <= Len(setPile) THEN setPile[i] ELSE p[i - Len(setPile)]
  BY <1>3, ConcatProperties
<1> QED
  BY <1>3, <1>4, Zenon

(* The counts are numbers.                                                 *)
LEMMA CompteType ==
  ASSUME Compte
  PROVE  /\ Cardinality(Acquittes) \in Nat /\ Cardinality(Rates) \in Nat /\ Essais \in Nat
BY FS_CardinalityType DEF Compte, Essais

(* What the constants are, without the file.                               *)
LEMMA Constantes ==
  /\ Len(Fichier) \in Nat /\ NumMax \in Nat /\ Services \cap Textes = {} /\ Libre \notin Services
  /\ Fichier # <<>> <=> Len(Fichier) # 0
BY DiffuseurAssumption, EmptySeq, LenProperties

(* Where nothing is given a number and no MESS is answered, the history    *)
(* stays.                                                                  *)
LEMMA FixeGarde ==
  ASSUME HInv, Fixe
  PROVE  (Compte /\ SuffixeRecent /\ Depassement /\ Provenance)'
<1> USE DEF Fixe, HInv
<1>1. Essais' = Essais /\ Fil' = Fil
  BY DEF Essais, Fil
<1>2. Compte'
  BY <1>1 DEF Compte, Congrus
<1>3. SuffixeRecent'
  BY <1>1 DEF SuffixeRecent, Tranche
<1>4. \A s \in Services : EnAttente(s)' <=> EnAttente(s)
  BY DEF EnAttente
<1>5. Depassement'
  BY <1>4 DEF Depassement
<1>6. Provenance'
  BY DEF Provenance
<1> QED
  BY <1>2, <1>3, <1>5, <1>6

(* Who answers a LAST has the same messages before it.                     *)
LEMMA ReponseGarde ==
  ASSUME HInv, Fixe,
         \A s \in Services : serv'[s] = "envoie" =>
           reponse'[s] = <<>> \/ (serv[s] = "envoie" /\ reponse'[s] = reponse[s])
  PROVE  ReponseLAST'
<1>1. Fil' = Fil
  BY DEF Fixe, Fil
<1> SUFFICES ASSUME NEW s \in Services, serv'[s] = "envoie",
                    NEW i \in 1 .. MinDe(Len(reponse'[s]), Tranche)
             PROVE  reponse'[s][i] = OLDM(Fil[Len(Fil) + 1 - i])
  BY <1>1 DEF ReponseLAST, Tranche
<1>2. CASE reponse'[s] = <<>>
  <2>1. Len(reponse'[s]) = 0
    BY <1>2
  <2>2. Tranche \in Int
    BY Constantes DEF Tranche
  <2> QED
    BY <2>1, <2>2 DEF MinDe
<1>3. CASE serv[s] = "envoie" /\ reponse'[s] = reponse[s]
  BY <1>3 DEF HInv, ReponseLAST
<1> QED
  BY <1>2, <1>3

-----------------------------------------------------------------------------
(* The steps that leave the history as it is.                              *)

(* A thread that is neither taking a message nor answering a MESS: what is *)
(* left to look at of its step.                                            *)
LEMMA CalmeHInv ==
  ASSUME HInv, [Next]_vars,
         pile' = pile, numMes' = numMes, Pris' = Pris,
         diff' \in {"test", "dort"} => data' = <<>>,
         \A s \in Services :
           /\ serv'[s] = "clos" /\ mess'[s].cmd = "MESS" <=> serv[s] = "clos" /\ mess[s].cmd = "MESS"
           /\ serv'[s] = "muet" /\ mess'[s].cmd = "MESS" <=> serv[s] = "muet" /\ mess[s].cmd = "MESS"
           /\ serv'[s] \in {"absent", "lit", "attend"} => reponse'[s] = <<>>
           /\ serv'[s] = "envoie" =>
                /\ mess'[s].cmd = "LAST"
                /\ reponse'[s] = <<>> \/ (serv[s] = "envoie" /\ reponse'[s] = reponse[s])
  PROVE  HInv'
<1>1. Acquittes' = Acquittes /\ Rates' = Rates
  BY DEF Acquittes, Rates
<1>2. Fixe
  BY <1>1 DEF Fixe
<1>3. ReponseLAST'
  BY <1>2, ReponseGarde
<1>4. Debuts'
  BY DEF Debuts
<1> QED
  BY <1>2, <1>3, <1>4, FixeGarde, NextIInv DEF HInv

(* The emptiness test changes nothing that is counted.                     *)
LEMMA BoucleHInv == HInv /\ Boucle => HInv'
<1> SUFFICES ASSUME HInv, Boucle PROVE HInv'
  OBVIOUS
<1>1. [Next]_vars
  BY DEF Next, MultiCast
<1>2. pile' = pile /\ numMes' = numMes /\ Pris' = Pris /\ UNCHANGED varsServ /\ data' = data /\ diff = "test"
  BY DEF Boucle, Pris
<1> QED
  BY <1>1, <1>2, CalmeHInv DEF HInv, Debuts, varsServ

(* A datagram that leaves is still one that was taken.                     *)
LEMMA EnvoyerHInv == HInv /\ (Envoyer \/ EnvoiEchoue) => HInv'
<1> SUFFICES ASSUME HInv, Envoyer \/ EnvoiEchoue PROVE HInv'
  OBVIOUS
<1>1. [Next]_vars
  BY DEF Next, MultiCast
<1>2. pile' = pile /\ numMes' = numMes /\ UNCHANGED varsServ /\ (diff' \in {"test", "dort"} => data' = <<>>)
  BY DEF Envoyer, EnvoiEchoue
<1>3. Pris' = Pris
  <2>1. CASE Envoyer
    <3>1. diffuses \o data \in Seq(Message)
      BY ConcatProperties DEF HInv, IInv, TypeOK
    <3> QED
      BY <2>1, <3>1, ConcatEmptySeq DEF Envoyer, Pris
  <2>2. CASE EnvoiEchoue
    BY <2>2 DEF EnvoiEchoue, Pris
  <2> QED
    BY <2>1, <2>2
<1> QED
  BY <1>1, <1>2, <1>3, CalmeHInv DEF HInv, Debuts, varsServ

(* Connections, requests, and what is neither MESS nor LAST.               *)
LEMMA ConnexionHInv ==
  ASSUME HInv, NEW s \in Services, Accepter(s) \/ Lire(s) \/ LireEchoue(s) \/ Ignorer(s) \/ Couper(s)
  PROVE  HInv'
<1>1. [Next]_vars
  BY DEF Next, put
<1>2. pile' = pile /\ numMes' = numMes /\ UNCHANGED <<varsDiff, reponse>>
  BY DEF Accepter, Lire, LireEchoue, Ignorer, Couper
<1>3. Pris' = Pris /\ (diff' \in {"test", "dort"} => data' = <<>>)
  BY <1>2 DEF Pris, varsDiff, HInv, Debuts
<1>4. serv \in [Services -> {"absent", "lit", "attend", "envoie", "clos", "muet"}] /\ mess \in [Services -> Requete]
  BY DEF HInv, IInv, TypeOK
<1>5. CASE Accepter(s)
  BY <1>1, <1>2, <1>3, <1>4, <1>5, CalmeHInv DEF Accepter, HInv, Debuts
<1>6. CASE Lire(s)
  <2>1. \A u \in Services : u # s => mess'[u] = mess[u] /\ serv'[u] = serv[u]
    BY <1>4, <1>6 DEF Lire
  <2>2. serv[s] = "lit" /\ serv'[s] = "attend"
    BY <1>4, <1>6 DEF Lire
  <2> QED
    BY <1>1, <1>2, <1>3, <2>1, <2>2, CalmeHInv DEF HInv, Debuts
<1>7. CASE Ignorer(s)
  BY <1>1, <1>2, <1>3, <1>4, <1>7, CalmeHInv DEF Ignorer, PeutTraiter, HInv, Debuts
<1>8. CASE Couper(s)
  BY <1>1, <1>2, <1>3, <1>4, <1>8, CalmeHInv DEF Couper, PeutTraiter, HInv, Debuts
<1>9. CASE LireEchoue(s)
  <2>1. mess[s].cmd = "FIN" /\ mess' = mess
    BY <1>9 DEF LireEchoue, HInv, IInv, Debut, Aucune
  <2> QED
    BY <1>1, <1>2, <1>3, <1>4, <1>9, <2>1, CalmeHInv DEF LireEchoue, HInv, Debuts
<1> QED
  BY <1>5, <1>6, <1>7, <1>8, <1>9

(* LAST, but for its lines.                                                *)
LEMMA LASTHInv ==
  ASSUME HInv, NEW s \in Services, LAST(s) \/ LASTHorsBornes(s) \/ LASTFin(s)
  PROVE  HInv'
<1>1. [Next]_vars
  BY DEF Next, put
<1>2. pile' = pile /\ numMes' = numMes /\ UNCHANGED <<varsDiff, mess>>
  BY DEF LAST, LASTHorsBornes, LASTFin
<1>3. Pris' = Pris /\ (diff' \in {"test", "dort"} => data' = <<>>)
  BY <1>2 DEF Pris, varsDiff, HInv, Debuts
<1>4. serv \in [Services -> {"absent", "lit", "attend", "envoie", "clos", "muet"}]
      /\ reponse \in [Services -> Seq(Ligne)]
  BY DEF HInv, IInv, TypeOK
<1>5. CASE LAST(s)
  BY <1>1, <1>2, <1>3, <1>4, <1>5, CalmeHInv DEF LAST, PeutTraiter, HInv, Debuts
<1>6. CASE LASTHorsBornes(s)
  BY <1>1, <1>2, <1>3, <1>4, <1>6, CalmeHInv DEF LASTHorsBornes, HInv, Debuts
<1>7. CASE LASTFin(s)
  BY <1>1, <1>2, <1>3, <1>4, <1>7, CalmeHInv DEF LASTFin, HInv, Debuts
<1> QED
  BY <1>5, <1>6, <1>7

(* A client reads a line or leaves.                                        *)
LEMMA ClientHInv ==
  ASSUME HInv, NEW s \in Services, ClientLit(s) \/ ClientPart(s)
  PROVE  HInv'
<1>1. [Next]_vars
  BY DEF Next
<1>2. pile' = pile /\ numMes' = numMes /\ UNCHANGED <<varsDiff, serv, mess, reponse>>
  BY DEF ClientLit, ClientPart
<1>3. Pris' = Pris /\ (diff' \in {"test", "dort"} => data' = <<>>)
  BY <1>2 DEF Pris, varsDiff, HInv, Debuts
<1> QED
  BY <1>1, <1>2, <1>3, CalmeHInv DEF HInv, Debuts

(* A step of stuttering.                                                   *)
LEMMA BegaieHInv == HInv /\ UNCHANGED vars => HInv'
<1> SUFFICES ASSUME HInv, UNCHANGED vars PROVE HInv'
  OBVIOUS
<1>1. [Next]_vars
  OBVIOUS
<1>2. Pris' = Pris /\ (diff' \in {"test", "dort"} => data' = <<>>)
  BY DEF vars, varsDiff, Pris, HInv, Debuts
<1> QED
  BY <1>1, <1>2, CalmeHInv DEF vars, varsServ, HInv, Debuts

(* Each line of a LAST is the next message from the end of the list, which *)
(* nothing has moved since it began.                                       *)
LEMMA LASTSuivantHInv ==
  ASSUME HInv, NEW s \in Services, LASTSuivant(s)
  PROVE  HInv'
<1>1. [Next]_vars
  BY DEF Next, put
<1>2. /\ pile' = pile /\ numMes' = numMes /\ UNCHANGED <<varsDiff, serv, mess>>
      /\ serv[s] = "envoie"
      /\ reponse' = [reponse EXCEPT ![s] = Append(@, OLDM(pile[Len(pile) - Len(reponse[s])]))]
      /\ Len(reponse[s]) < Len(pile)
  BY DEF LASTSuivant
<1>3. Pris' = Pris
  BY <1>2 DEF Pris, varsDiff
<1>4. Fixe
  BY <1>2, <1>3 DEF Fixe, Acquittes, Rates
<1>5. reponse \in [Services -> Seq(Ligne)] /\ pile \in Seq(Message)
  BY DEF HInv, IInv, TypeOK
<1>6. \A u \in Services : u # s => reponse'[u] = reponse[u]
  BY <1>2, <1>5
<1>7. Debuts'
  BY <1>2, <1>6 DEF Debuts, HInv, varsDiff
<1>8. Fil' = Fil /\ Tranche \in Int
  BY <1>3, Constantes DEF Fil, Tranche
<1>9. ReponseLAST'
  <2> DEFINE n == Len(reponse[s])
             l == OLDM(pile[Len(pile) - n])
  <2>1. reponse[s] \in Seq(Ligne) /\ n \in Nat /\ Len(pile) \in Nat
    BY <1>5, LenProperties
  <2>2. l \in Ligne
    <3>1. pile[Len(pile) - n] \in Message
      BY <1>2, <1>5, <2>1, ElementOfSeq
    <3> QED
      BY <3>1 DEF OLDM, Message, Ligne
  <2>3. /\ reponse'[s] = Append(reponse[s], l) /\ Len(reponse'[s]) = n + 1
        /\ \A i \in 1 .. n : reponse'[s][i] = reponse[s][i]
        /\ reponse'[s][n + 1] = l
    BY <1>2, <1>5, <2>1, <2>2, AppendProperties
  <2> HIDE DEF l
  <2> SUFFICES ASSUME NEW u \in Services, serv[u] = "envoie",
                      NEW i \in 1 .. MinDe(Len(reponse'[u]), Tranche)
               PROVE  reponse'[u][i] = OLDM(Fil[Len(Fil) + 1 - i])
    BY <1>2, <1>8 DEF ReponseLAST, Tranche
  <2>4. CASE u # s
    BY <1>6, <2>4 DEF HInv, ReponseLAST
  <2>5. CASE u = s /\ i <= n
    <3>1. i \in 1 .. MinDe(n, Tranche)
      BY <1>8, <2>1, <2>3, <2>5 DEF MinDe
    <3>2. reponse[s][i] = OLDM(Fil[Len(Fil) + 1 - i])
      BY <1>2, <3>1 DEF HInv, ReponseLAST
    <3>3. i \in 1 .. n
      BY <1>8, <2>1, <2>3, <2>5 DEF MinDe
    <3> QED
      BY <2>3, <2>5, <3>2, <3>3
  <2>6. CASE u = s /\ ~ (i <= n)
    <3>1. i = n + 1 /\ i \in 1 .. Tranche
      BY <1>8, <2>1, <2>3, <2>6 DEF MinDe
    <3>2. pile[Len(pile) + 1 - i] = Fil[Len(Fil) + 1 - i]
      BY <3>1 DEF HInv, SuffixeRecent
    <3>3. Len(pile) + 1 - i = Len(pile) - n
      BY <2>1, <3>1
    <3> QED
      BY <2>3, <2>6, <3>1, <3>2, <3>3 DEF l
  <2> QED
    BY <2>4, <2>5, <2>6
<1> QED
  BY <1>1, <1>4, <1>7, <1>9, FixeGarde, NextIInv DEF HInv

-----------------------------------------------------------------------------
(* The multicast thread takes a message.                                   *)

(* What it takes goes to the end of the list and of what was taken.        *)
LEMMA PrendreEtats ==
  ASSUME HInv, Prendre
  PROVE  /\ numMes \in 0 .. Len(pile) - 1 /\ numMes' = incNumMes(numMes) /\ numMes' \in 0 .. numMes + 1
         /\ UNCHANGED <<verrou, varsServ>> /\ verrou = Libre
         /\ Len(pile) \in Nat /\ Len(pile') = Len(pile) + 1
         /\ \A i \in 1 .. Len(pile) : pile'[i] = pile[i]
         /\ Len(Pris) \in Nat /\ Len(Pris') = Len(Pris) + 1
         /\ \A i \in 1 .. Len(Pris) : Pris'[i] = Pris[i]
         /\ Pris'[Len(Pris) + 1] = [num |-> numMes, texte |-> pile[numMes + 1].texte]
         /\ pile'[Len(pile) + 1] = Pris'[Len(Pris) + 1]
         /\ Acquittes' = Acquittes /\ Rates' = Rates
         /\ diff' = "envoi"
         /\ Pris = diffuses
         /\ Pris' = Append(Pris, [num |-> numMes, texte |-> pile[numMes + 1].texte])
<1> USE DEF HInv, IInv
<1> DEFINE msg2 == [num |-> numMes, texte |-> pile[numMes + 1].texte]
<1>1. pile \in Seq(Message) /\ Len(pile) \in Nat /\ numMes \in Numeros /\ numMes \in Nat
      /\ (pile # <<>> => Len(pile) # 0)
  BY LenProperties, EmptySeq, DiffuseurAssumption DEF TypeOK, Numeros
<1>2. numMes < Len(pile)
  BY <1>1 DEF Prendre, PileVide, CurseurDansPile
<1>3. /\ pile' = Append(pile, msg2) /\ data' = <<msg2>> /\ numMes' = incNumMes(numMes)
      /\ diff = "dort" /\ diff' = "envoi" /\ verrou = Libre /\ UNCHANGED <<verrou, diffuses, varsServ>>
  BY <1>2 DEF Prendre, Recopier
<1>4. msg2 \in Message
  <2>1. pile[numMes + 1] \in Message
    BY <1>1, <1>2, ElementOfSeq
  <2> QED
    BY <1>1, <2>1 DEF Message
<1>5. /\ Len(pile') = Len(pile) + 1 /\ \A i \in 1 .. Len(pile) : pile'[i] = pile[i]
      /\ pile'[Len(pile) + 1] = msg2
  BY <1>1, <1>3, <1>4, AppendProperties
<1>6. diffuses \in Seq(Message) /\ Pris = diffuses
  <2>1. diffuses \in Seq(Message) /\ data = <<>>
    BY <1>3 DEF TypeOK, Debuts
  <2> QED
    BY <2>1, ConcatEmptySeq DEF Pris
<1>7. Pris' = Append(Pris, msg2)
  BY <1>3, <1>4, <1>6, AppendIsConcat DEF Pris
<1>8. /\ Len(Pris) \in Nat /\ Len(Pris') = Len(Pris) + 1 /\ \A i \in 1 .. Len(Pris) : Pris'[i] = Pris[i]
      /\ Pris'[Len(Pris) + 1] = msg2
  BY <1>4, <1>6, <1>7, AppendProperties, LenProperties
<1>9. numMes' \in 0 .. numMes + 1
  BY <1>1, <1>3, IncNumMesType, DiffuseurAssumption DEF Numeros
<1>10. Acquittes' = Acquittes /\ Rates' = Rates
  BY <1>3 DEF Acquittes, Rates, varsServ
<1> QED
  BY <1>1, <1>2, <1>3, <1>5, <1>6, <1>7, <1>8, <1>9, <1>10

(* A message is taken.                                                     *)
LEMMA PrendreHInv == HInv /\ Prendre => HInv'
<1> SUFFICES ASSUME HInv, Prendre PROVE HInv'
  OBVIOUS
<1>0. [Next]_vars
  BY DEF Next, MultiCast
<1>1. /\ numMes \in 0 .. Len(pile) - 1 /\ numMes' = incNumMes(numMes) /\ numMes' \in 0 .. numMes + 1
      /\ UNCHANGED <<verrou, varsServ>> /\ verrou = Libre
      /\ Len(pile) \in Nat /\ Len(pile') = Len(pile) + 1
      /\ \A i \in 1 .. Len(pile) : pile'[i] = pile[i]
      /\ Len(Pris) \in Nat /\ Len(Pris') = Len(Pris) + 1
      /\ \A i \in 1 .. Len(Pris) : Pris'[i] = Pris[i]
      /\ Pris'[Len(Pris) + 1] = [num |-> numMes, texte |-> pile[numMes + 1].texte]
      /\ pile'[Len(pile) + 1] = Pris'[Len(Pris) + 1]
      /\ Acquittes' = Acquittes /\ Rates' = Rates
      /\ diff' = "envoi"
  BY PrendreEtats
<1>2. Compte /\ SuffixeRecent /\ Depassement /\ Provenance /\ numMes \in Numeros
  BY DEF HInv, IInv, TypeOK
<1>3. Essais' = Essais /\ Essais \in Nat /\ Cardinality(Acquittes) \in Nat
  BY <1>1, <1>2, CompteType DEF Essais
<1>4. /\ Len(Fil) = Len(Fichier) + Len(Pris) /\ Len(Fil') = Len(Fil) + 1
      /\ \A i \in 1 .. Len(Fil) : Fil'[i] = Fil[i]
      /\ Fil'[Len(Fil) + 1] = Pris'[Len(Pris) + 1]
  <2>1. Pris \in Seq(Message) /\ Pris' \in Seq(Message)
    <3>1. TypeOK' /\ (TypeOK' => diffuses' \in Seq(Message) /\ data' \in Seq(Message))
      BY <1>0, NextIInv DEF HInv, IInv, TypeOK
    <3> QED
      BY <3>1, PrisType, ConcatProperties DEF HInv, IInv, Pris
  <2>2. /\ Len(Fil) = Len(Fichier) + Len(Pris)
        /\ \A i \in 1 .. Len(Fichier) + Len(Pris) :
             Fil[i] = IF i <= Len(Fichier) THEN setPile[i] ELSE Pris[i - Len(Fichier)]
    BY <2>1, FilType DEF Fil
  <2>3. /\ Len(Fil') = Len(Fichier) + Len(Pris')
        /\ \A i \in 1 .. Len(Fichier) + Len(Pris') :
             Fil'[i] = IF i <= Len(Fichier) THEN setPile[i] ELSE Pris'[i - Len(Fichier)]
    <3>1. Fil' = setPile \o Pris'
      BY DEF Fil, setPile
    <3> QED
      BY <2>1, <3>1, FilType
  <2>4. ASSUME NEW i \in 1 .. Len(Fil) PROVE Fil'[i] = Fil[i]
    <3>1. i \in 1 .. Len(Fichier) + Len(Pris) /\ i \in 1 .. Len(Fichier) + Len(Pris')
      BY <1>1, <2>2, Constantes
    <3>2. i <= Len(Fichier) \/ i - Len(Fichier) \in 1 .. Len(Pris)
      BY <1>1, <3>1, Constantes
    <3> QED
      BY <1>1, <2>2, <2>3, <3>1, <3>2
  <2>5. Fil'[Len(Fil) + 1] = Pris'[Len(Pris) + 1]
    <3>1. /\ Len(Fil) + 1 \in 1 .. Len(Fichier) + Len(Pris') /\ ~ (Len(Fil) + 1 <= Len(Fichier))
          /\ (Len(Fil) + 1) - Len(Fichier) = Len(Pris) + 1
      BY <1>1, <2>2, Constantes
    <3> QED
      BY <2>3, <3>1
  <2> QED
    BY <1>1, <2>2, <2>3, <2>4, <2>5, Constantes
<1>5. Compte'
  <2>1. Congrus(Len(Pris) + Essais + 1, incNumMes(numMes))
    BY <1>1, <1>2, <1>3, CongrusSuivant DEF Compte
  <2>2. Len(Pris) + Essais + 1 = Len(Pris') + Essais'
    BY <1>1, <1>3
  <2>3. Congrus(Len(Pris') + Essais', numMes')
    BY <1>1, <2>1, <2>2
  <2>4. Len(pile') = Len(Fichier) + Len(Pris') + Cardinality(Acquittes)
    BY <1>1, <1>2, <1>3, Constantes DEF Compte
  <2> QED
    BY <1>1, <1>2, <2>3, <2>4 DEF Compte, Congrus
<1>6. SuffixeRecent'
  <2> SUFFICES ASSUME NEW i \in 1 .. Tranche
               PROVE  pile'[Len(pile') + 1 - i] = Fil'[Len(Fil') + 1 - i]
    BY DEF SuffixeRecent, Tranche
  <2>1. CASE i = 1
    <3>1. Len(pile') + 1 - i = Len(pile) + 1 /\ Len(Fil') + 1 - i = Len(Fil) + 1
      BY <1>1, <1>4, <2>1, Constantes
    <3> QED
      BY <1>1, <1>4, <3>1
  <2>2. CASE i # 1
    <3>1. i - 1 \in 1 .. Tranche /\ i <= Len(Fichier)
      BY <2>2, Constantes DEF Tranche
    <3>2. pile[Len(pile) + 1 - (i - 1)] = Fil[Len(Fil) + 1 - (i - 1)]
      BY <1>2, <3>1 DEF SuffixeRecent
    <3>3. Len(Fil) <= Len(pile)
      BY <1>1, <1>2, <1>3, <1>4, Constantes DEF Compte
    <3>4. /\ Len(pile) + 1 - (i - 1) \in 1 .. Len(pile) /\ Len(pile) + 1 - (i - 1) = Len(pile') + 1 - i
          /\ Len(Fil) + 1 - (i - 1) \in 1 .. Len(Fil) /\ Len(Fil) + 1 - (i - 1) = Len(Fil') + 1 - i
      BY <1>1, <1>4, <2>2, <3>1, <3>3, Constantes
    <3> QED
      BY <1>1, <1>4, <3>2, <3>4
  <2> QED
    BY <2>1, <2>2
<1>7. ReponseLAST'
  <2>1. \A s \in Services : serv'[s] # "envoie"
    BY <1>1, Constantes DEF HInv, IInv, Exclusion, varsServ
  <2> QED
    BY <2>1 DEF ReponseLAST
<1>8. Depassement'
  <2> SUFFICES ASSUME NEW s \in Services, EnAttente(s)',
                      NEW k \in 1 .. MinDe(numMes', Len(pile')), pile'[k].texte = s
               PROVE  k < Len(pile') /\ pile'[k + 1].texte \in Services
    BY DEF Depassement
  <2>1. s \in Acquittes /\ \A i \in 1 .. Len(Pris') : Pris'[i].texte # s
    BY <1>1 DEF EnAttente
  <2>2. EnAttente(s)
    BY <1>1, <2>1 DEF EnAttente
  <2>3. k \in 1 .. numMes + 1 /\ k <= Len(pile) /\ pile[k].texte = s
    BY <1>1 DEF MinDe
  <2>4. pile[numMes + 1].texte # s
    BY <1>1, <2>1
  <2>5. k \in 1 .. MinDe(numMes, Len(pile))
    BY <1>1, <2>3, <2>4 DEF MinDe
  <2>6. k < Len(pile) /\ pile[k + 1].texte \in Services
    BY <1>2, <2>2, <2>3, <2>5 DEF Depassement
  <2> QED
    BY <1>1, <2>5, <2>6 DEF MinDe
<1>9. Provenance'
  <2> SUFFICES ASSUME NEW k \in 1 .. Len(pile') PROVE pile'[k].texte \in Textes \cup Acquittes
    BY <1>1 DEF Provenance
  <2>1. CASE k \in 1 .. Len(pile)
    BY <1>1, <1>2, <2>1 DEF Provenance
  <2>2. CASE k = Len(pile) + 1
    <3>1. pile'[k].texte = pile[numMes + 1].texte /\ numMes + 1 \in 1 .. Len(pile)
      BY <1>1, <2>2
    <3> QED
      BY <1>2, <3>1 DEF Provenance
  <2> QED
    BY <1>1, <2>1, <2>2
<1>10. Debuts'
  BY <1>1 DEF Debuts, HInv, varsServ
<1> QED
  BY <1>0, <1>5, <1>6, <1>7, <1>8, <1>9, <1>10, NextIInv DEF HInv

-----------------------------------------------------------------------------
(* A client sends a message.                                               *)

(* Any MESS moves the counter, and is one more of the tries.               *)
LEMMA EssaiGarde ==
  ASSUME HInv, NEW s \in Services, PeutTraiter(s, "MESS"),
         numMes' = incNumMes(numMes), UNCHANGED <<varsDiff, mess>>,
         \/ serv' = [serv EXCEPT ![s] = "clos"] /\ Len(pile') = Len(pile) + 1
         \/ serv' = [serv EXCEPT ![s] = "muet"] /\ pile' = pile
  PROVE  /\ Compte' /\ Pris' = Pris /\ Fil' = Fil
         /\ s \notin Acquittes
         /\ Acquittes' = IF serv'[s] = "clos" THEN Acquittes \cup {s} ELSE Acquittes
<1>1. Compte /\ TypeOK /\ numMes \in Numeros
  BY DEF HInv, IInv, TypeOK
<1>2. serv \in [Services -> {"absent", "lit", "attend", "envoie", "clos", "muet"}]
      /\ serv[s] = "attend" /\ mess[s].cmd = "MESS"
  BY <1>1 DEF TypeOK, PeutTraiter
<1>3. s \notin Acquittes /\ s \notin Rates
  BY <1>2 DEF Acquittes, Rates
<1>4. /\ Acquittes' = IF serv'[s] = "clos" THEN Acquittes \cup {s} ELSE Acquittes
      /\ Rates' = IF serv'[s] = "clos" THEN Rates ELSE Rates \cup {s}
      /\ serv'[s] \in {"clos", "muet"}
  <2>1. CASE serv' = [serv EXCEPT ![s] = "clos"]
    BY <1>2, <2>1 DEF Acquittes, Rates
  <2>2. CASE serv' = [serv EXCEPT ![s] = "muet"]
    BY <1>2, <2>2 DEF Acquittes, Rates
  <2> QED
    BY <2>1, <2>2
<1>5. Pris' = Pris /\ Fil' = Fil
  BY DEF Pris, Fil, varsDiff
<1>6. Cardinality(Acquittes) \in Nat /\ Cardinality(Rates) \in Nat /\ Essais \in Nat
  BY <1>1, CompteType
<1>7. /\ IsFiniteSet(Acquittes') /\ IsFiniteSet(Rates') /\ Essais' = Essais + 1
      /\ Cardinality(Acquittes') = Cardinality(Acquittes) + (IF serv'[s] = "clos" THEN 1 ELSE 0)
  <2>1. /\ IsFiniteSet(Acquittes \cup {s}) /\ Cardinality(Acquittes \cup {s}) = Cardinality(Acquittes) + 1
        /\ IsFiniteSet(Rates \cup {s}) /\ Cardinality(Rates \cup {s}) = Cardinality(Rates) + 1
    BY <1>1, <1>3, FS_AddElement DEF Compte
  <2>2. CASE serv'[s] = "clos"
    BY <1>1, <1>4, <1>6, <2>1, <2>2 DEF Compte, Essais
  <2>3. CASE serv'[s] = "muet"
    BY <1>1, <1>4, <1>6, <2>1, <2>3 DEF Compte, Essais
  <2> QED
    BY <1>4, <2>2, <2>3
<1>8. Len(Pris) \in Nat /\ Len(pile) \in Nat /\ \A i \in 1 .. Len(Pris) : Pris[i].num \in Int
  BY <1>1, PrisType, LenProperties DEF TypeOK
<1>9. Compte'
  <2>1. Congrus(Len(Pris) + Essais + 1, incNumMes(numMes))
    BY <1>1, <1>6, <1>8, CongrusSuivant DEF Compte
  <2>2. Len(Pris) + Essais + 1 = Len(Pris') + Essais'
    BY <1>5, <1>6, <1>7, <1>8
  <2>3. Congrus(Len(Pris') + Essais', numMes')
    BY <2>1, <2>2
  <2>4. Len(pile') = Len(Fichier) + Len(Pris') + Cardinality(Acquittes')
    <3>1. CASE serv' = [serv EXCEPT ![s] = "clos"] /\ Len(pile') = Len(pile) + 1
      BY <1>1, <1>2, <1>5, <1>6, <1>7, <1>8, <3>1, Constantes DEF Compte
    <3>2. CASE serv' = [serv EXCEPT ![s] = "muet"] /\ pile' = pile
      BY <1>1, <1>2, <1>5, <1>6, <1>7, <1>8, <3>2, Constantes DEF Compte
    <3> QED
      BY <3>1, <3>2
  <2> QED
    BY <1>7, <2>3, <2>4 DEF Compte, Congrus
<1> QED
  BY <1>3, <1>4, <1>5, <1>9

(* No number is left for the message: the list is empty.                   *)
LEMMA MESSHorsBornesHInv ==
  ASSUME HInv, NEW s \in Services, MESSHorsBornes(s)
  PROVE  HInv'
<1>1. [Next]_vars
  BY DEF Next, put
<1>2. /\ PeutTraiter(s, "MESS") /\ numMes' = incNumMes(numMes) /\ numMes' > Len(pile)
      /\ serv' = [serv EXCEPT ![s] = "muet"] /\ pile' = pile /\ UNCHANGED <<varsDiff, mess, reponse>>
  BY DEF MESSHorsBornes
<1>3. TypeOK /\ serv \in [Services -> {"absent", "lit", "attend", "envoie", "clos", "muet"}]
      /\ Len(pile) \in Nat
  BY LenProperties DEF HInv, IInv, TypeOK
<1>4. /\ Compte' /\ Pris' = Pris /\ Fil' = Fil
      /\ Acquittes' = Acquittes
  BY <1>2, <1>3, EssaiGarde
<1>5. Len(pile) = 0
  <2>1. numMes \in Numeros /\ numMes \in Nat /\ numMes' \in Nat /\ numMes' <= numMes + 1
    BY <1>2, <1>3, IncNumMesType, DiffuseurAssumption DEF TypeOK, Numeros
  <2>2. pile # <<>> => numMes < Len(pile)
    BY DEF HInv, IInv, CurseurDansPile
  <2>3. Len(pile) # 0 => pile # <<>>
    BY EmptySeq
  <2> QED
    BY <1>2, <1>3, <2>1, <2>2, <2>3
<1>6. SuffixeRecent'
  BY <1>2, <1>4 DEF HInv, SuffixeRecent, Tranche
<1>7. ReponseLAST'
  BY <1>2, <1>3, <1>4 DEF HInv, ReponseLAST, Tranche
<1>8. Depassement' /\ Provenance'
  <2>1. numMes' \in Int
    BY <1>3, <1>2, IncNumMesType, DiffuseurAssumption DEF TypeOK, Numeros
  <2> QED
    BY <1>2, <1>5, <2>1 DEF Depassement, Provenance, MinDe
<1>9. Debuts'
  BY <1>2, <1>3 DEF HInv, Debuts, varsDiff
<1> QED
  BY <1>1, <1>4, <1>6, <1>7, <1>8, <1>9, NextIInv DEF HInv

(* The message enters where the counter has moved to: behind it, at least  *)
(* as many entries as the file had pieces but one are left as they were,   *)
(* and before it everything is.                                            *)
LEMMA MESSHInv ==
  ASSUME HInv, NEW s \in Services, MESS(s)
  PROVE  HInv'
<1> DEFINE k0 == numMes'
           m == [num |-> numMes', texte |-> s]
<1>1. [Next]_vars
  BY DEF Next, put
<1>2. /\ PeutTraiter(s, "MESS") /\ numMes' = incNumMes(numMes) /\ numMes' <= Len(pile)
      /\ pile' = Inserer(pile, k0, m)
      /\ reponse' = [reponse EXCEPT ![s] = Append(@, ACKM)]
      /\ serv' = [serv EXCEPT ![s] = "clos"] /\ UNCHANGED <<verrou, varsDiff, mess>>
  BY DEF MESS
<1>3. TypeOK /\ serv \in [Services -> {"absent", "lit", "attend", "envoie", "clos", "muet"}]
      /\ pile \in Seq(Message) /\ Len(pile) \in Nat /\ numMes \in Numeros /\ numMes \in Nat
      /\ reponse \in [Services -> Seq(Ligne)]
  BY LenProperties, DiffuseurAssumption DEF HInv, IInv, TypeOK, Numeros
<1>4. k0 \in 0 .. Len(pile) /\ k0 <= numMes + 1 /\ (k0 = 0 \/ k0 = numMes + 1) /\ m \in Message
  BY <1>2, <1>3, IncNumMesType, DiffuseurAssumption DEF incNumMes, Numeros, Message, Contenus
<1>5. Len(pile') = Len(pile) + 1
  BY <1>2, <1>3, <1>4, InsererType
<1>6. \A i \in 1 .. Len(pile) + 1 :
        pile'[i] = IF i <= k0 THEN pile[i] ELSE IF i = k0 + 1 THEN m ELSE pile[i - 1]
  BY <1>2, <1>3, <1>4, InsererElements
<1>7. /\ Compte' /\ Pris' = Pris /\ Fil' = Fil
      /\ s \notin Acquittes /\ Acquittes' = Acquittes \cup {s}
  BY <1>2, <1>3, <1>5, EssaiGarde
<1> HIDE DEF k0, m
<1>8. SuffixeRecent'
  <2> SUFFICES ASSUME NEW i \in 1 .. Tranche
               PROVE  pile'[Len(pile') + 1 - i] = Fil[Len(Fil) + 1 - i]
    BY <1>7 DEF SuffixeRecent, Tranche
  <2>2. i <= Len(Fichier) - 1
    BY Constantes DEF Tranche
  <2>3. numMes + Len(Fichier) <= Len(pile)
    BY <2>2, Constantes DEF HInv, IInv, Marge
  <2>4. Len(pile') + 1 - i \in 1 .. Len(pile) + 1 /\ ~ (Len(pile') + 1 - i <= k0) /\ Len(pile') + 1 - i # k0 + 1
    BY <1>3, <1>4, <1>5, <2>2, <2>3, Constantes
  <2>5. pile'[Len(pile') + 1 - i] = pile[(Len(pile') + 1 - i) - 1]
    BY <1>6, <2>4
  <2>6. (Len(pile') + 1 - i) - 1 = Len(pile) + 1 - i
    BY <1>3, <1>5
  <2> QED
    BY <2>5, <2>6 DEF HInv, SuffixeRecent
<1>9. ReponseLAST'
  <2>1. \A u \in Services : serv'[u] = "envoie" => serv[u] = "envoie" /\ reponse'[u] = reponse[u]
    BY <1>2, <1>3
  <2> QED
    BY <1>7, <2>1 DEF HInv, ReponseLAST, Tranche
<1>10. Provenance'
  <2> SUFFICES ASSUME NEW k \in 1 .. Len(pile') PROVE pile'[k].texte \in Textes \cup Acquittes'
    BY DEF Provenance
  <2>1. CASE k <= k0
    BY <1>3, <1>4, <1>5, <1>6, <1>7, <2>1 DEF HInv, Provenance
  <2>2. CASE k = k0 + 1
    <3>1. ~ (k <= k0)
      BY <1>4, <2>2
    <3> QED
      BY <1>5, <1>6, <1>7, <2>2, <3>1 DEF m
  <2>3. CASE k > k0 + 1
    <3>1. ~ (k <= k0) /\ k # k0 + 1 /\ k - 1 \in 1 .. Len(pile)
      BY <1>3, <1>4, <1>5, <2>3
    <3> QED
      BY <1>5, <1>6, <1>7, <3>1 DEF HInv, Provenance
  <2> QED
    BY <1>3, <1>4, <1>5, <2>1, <2>2, <2>3
<1>11. Depassement'
  <2> SUFFICES ASSUME NEW u \in Services, EnAttente(u)',
                      NEW k \in 1 .. MinDe(k0, Len(pile')), pile'[k].texte = u
               PROVE  k < Len(pile') /\ pile'[k + 1].texte \in Services
    BY DEF Depassement, k0
  <2>1. k \in 1 .. k0 /\ k <= Len(pile) /\ k0 = numMes + 1
    BY <1>3, <1>4, <1>5 DEF MinDe
  <2>2. pile[k].texte = u
    BY <1>3, <1>4, <1>5, <1>6, <2>1
  <2>3. u \in Acquittes
    <3>1. pile[k].texte \in Textes \cup Acquittes
      BY <1>3, <2>1 DEF HInv, Provenance
    <3> QED
      BY <2>2, <3>1, Constantes
  <2>4. EnAttente(u)
    BY <1>7, <2>3 DEF EnAttente
  <2>5. CASE k = k0
    <3>1. k + 1 \in 1 .. Len(pile) + 1 /\ ~ (k + 1 <= k0) /\ k + 1 = k0 + 1
      BY <1>3, <1>4, <2>1, <2>5
    <3>2. pile'[k + 1] = m
      BY <1>6, <3>1
    <3> QED
      BY <1>3, <1>5, <2>1, <3>2 DEF m
  <2>6. CASE k # k0
    <3>1. k \in 1 .. MinDe(numMes, Len(pile))
      BY <1>3, <1>4, <2>1, <2>6 DEF MinDe
    <3>2. k < Len(pile) /\ pile[k + 1].texte \in Services
      BY <2>2, <2>4, <3>1 DEF HInv, Depassement
    <3>3. k + 1 \in 1 .. Len(pile) + 1 /\ k + 1 <= k0
      BY <1>3, <1>4, <2>1, <2>6
    <3>4. pile'[k + 1] = pile[k + 1]
      BY <1>6, <3>3
    <3> QED
      BY <1>3, <1>5, <3>2, <3>4
  <2> QED
    BY <2>5, <2>6
<1>12. Debuts'
  BY <1>2, <1>3 DEF HInv, Debuts, varsDiff
<1> QED
  BY <1>1, <1>7, <1>8, <1>9, <1>10, <1>11, <1>12, NextIInv DEF HInv

-----------------------------------------------------------------------------
(* HInv is an invariant of the specification.                              *)

(* The first state is in the invariant.                                    *)
LEMMA InitHInv == Init => HInv
<1> SUFFICES ASSUME Init PROVE HInv
  OBVIOUS
<1>1. IInv
  BY InitIInv
<1>2. Pris = <<>> /\ Len(Pris) = 0
  BY DEF Init, Pris
<1>3. Acquittes = {} /\ Rates = {}
  BY DEF Init, Acquittes, Rates
<1>4. Len(pile) = Len(Fichier) /\ \A k \in 1 .. Len(pile) : pile[k].texte \in Textes
  <2>1. \A k \in 1 .. Len(Fichier) : Fichier[k] \in Textes
    BY DiffuseurAssumption, ElementOfSeq
  <2>2. pile = [i \in 1 .. Len(Fichier) |-> [num |-> 0, texte |-> Fichier[i]]]
    BY DEF Init, setPile
  <2>3. Len(pile) = Len(Fichier)
    BY <2>2, Constantes
  <2> QED
    BY <2>1, <2>2, <2>3
<1>5. Essais = 0 /\ Cardinality(Acquittes) = 0 /\ IsFiniteSet(Acquittes) /\ IsFiniteSet(Rates)
  BY <1>3, FS_EmptySet DEF Essais
<1>6. Compte
  <2>1. Len(Pris) + Essais = 0 + 0 * (NumMax + 1)
    BY <1>2, <1>5, Constantes
  <2>2. Congrus(Len(Pris) + Essais, numMes)
    BY <2>1 DEF Congrus, Init
  <2> QED
    BY <1>2, <1>4, <1>5, <2>2, Constantes DEF Compte
<1>7. SuffixeRecent
  <2>1. Fil = setPile
    <3>1. setPile \in Seq(Message)
      BY <1>1 DEF IInv, TypeOK, Init
    <3> QED
      BY <1>2, <3>1, ConcatEmptySeq DEF Fil
  <2> QED
    BY <2>1 DEF SuffixeRecent, Init
<1>8. ReponseLAST /\ Debuts
  BY DEF ReponseLAST, Debuts, Init
<1>9. Depassement /\ Provenance
  BY <1>3, <1>4 DEF Depassement, EnAttente, Provenance
<1> QED
  BY <1>1, <1>6, <1>7, <1>8, <1>9 DEF HInv

(* Every step keeps it.                                                    *)
LEMMA NextHInv == HInv /\ [Next]_vars => HInv'
BY BoucleHInv, PrendreHInv, EnvoyerHInv, ConnexionHInv, MESSHInv, MESSHorsBornesHInv,
   LASTHInv, LASTSuivantHInv, ClientHInv, BegaieHInv DEF Next, MultiCast, put, Termine

(* The invariant holds in every state.                                     *)
LEMMA SpecHInv == Spec => []HInv
BY InitHInv, NextHInv, PTL DEF Spec

-----------------------------------------------------------------------------
(* The theorems.                                                           *)

(* The counter is what is left, after its turns, of the numbers given.     *)
LEMMA HInvCompteExact == HInv => CompteExact
<1> SUFFICES ASSUME HInv PROVE CompteExact
  OBVIOUS
<1>1. Compte /\ numMes \in Numeros /\ TypeOK
  BY DEF HInv, IInv, TypeOK
<1>2. Len(Pris) \in Nat /\ Cardinality(Acquittes) \in Nat /\ Cardinality(Rates) \in Nat
  BY <1>1, PrisType, CompteType
<1>3. Len(Pris) + Essais \in Nat
      /\ Len(Pris) + Essais = (Len(Pris) + Cardinality(Acquittes)) + Cardinality(Rates)
  BY <1>2 DEF Essais
<1>4. numMes = (Len(Pris) + Essais) % (NumMax + 1)
  BY <1>1, <1>3, CongrusReste DEF Compte
<1>5. Len(pile) = Len(Fichier) + (Len(Pris) + Cardinality(Acquittes))
  BY <1>1, <1>2, Constantes DEF Compte
<1> QED
  BY <1>3, <1>4, <1>5 DEF CompteExact

(* No update of the list or of the counter is lost: one entry for each     *)
(* message taken or acknowledged, one number for each message taken and    *)
(* each MESS, through every turn of the counter (MultiCast.java:51,        *)
(* TcpConnexion.java:57).                                                  *)
THEOREM SpecCompteExact == Spec => []CompteExact
BY HInvCompteExact, SpecHInv, PTL

(* A client's message never enters among the last entries: the end of the  *)
(* list is what was taken last, and before it the last pieces of the file, *)
(* for as many entries as the file had pieces but one                      *)
(* (TcpConnexion.java:57).                                                 *)
THEOREM SpecSuffixeRecent == Spec => []SuffixeRecent
<1>1. HInv => SuffixeRecent
  BY DEF HInv
<1> QED
  BY <1>1, SpecHInv, PTL

(* While LAST answers, its first lines, as many as the file had pieces but *)
(* one, are the latest messages taken, latest first, then the last pieces  *)
(* of the file, however long the client makes it wait.                     *)
THEOREM SpecReponseLAST == Spec => []ReponseLAST
<1>1. HInv => ReponseLAST
  BY DEF HInv
<1> QED
  BY <1>1, SpecHInv, PTL

(* The broadcast passes an acknowledged message only behind that of        *)
(* another client, which then stands right after it.                       *)
THEOREM SpecDepassement == Spec => []Depassement
<1>1. HInv => Depassement
  BY DEF HInv
<1> QED
  BY <1>1, SpecHInv, PTL

-----------------------------------------------------------------------------
(* The numbering.                                                          *)

(* The history holds, for each message taken, a count that leaves the      *)
(* counter at its number; they grow, and none reaches the present one.     *)
Suite ==
  /\ rangs \in Seq(Nat) /\ Len(rangs) = Len(Pris)
  /\ \A i \in 1 .. Len(Pris) : rangs[i] < Donnes /\ Congrus(rangs[i], Pris[i].num)
  /\ \A i, j \in 1 .. Len(Pris) : i < j => rangs[i] < rangs[j]

(* How many numbers were given out is a number, and leaves the counter     *)
(* where it is.                                                            *)
LEMMA DonnesType == HInv => Donnes \in Nat /\ Congrus(Donnes, numMes)
<1> SUFFICES ASSUME HInv PROVE Donnes \in Nat /\ Congrus(Donnes, numMes)
  OBVIOUS
<1>1. Compte /\ Len(Pris) \in Nat
  BY PrisType DEF HInv, IInv
<1>2. Donnes = Len(Pris) + Essais /\ Donnes \in Nat
  BY <1>1, CompteType DEF Donnes, Essais
<1> QED
  BY <1>1, <1>2 DEF Compte

(* A MESS that was tried remains so.                                       *)
LEMMA EssaisCroissent ==
  ASSUME HInv, [Next]_vars
  PROVE  Acquittes \subseteq Acquittes' /\ Rates \subseteq Rates'
<1>1. /\ serv \in [Services -> {"absent", "lit", "attend", "envoie", "clos", "muet"}]
      /\ mess \in [Services -> Requete]
  BY DEF HInv, IInv, TypeOK
<1> SUFFICES \A u \in Services : serv[u] \in {"clos", "muet"} => serv'[u] = serv[u] /\ mess'[u] = mess[u]
  BY DEF Acquittes, Rates
<1> SUFFICES ASSUME NEW u \in Services, serv[u] \in {"clos", "muet"}
             PROVE  serv'[u] = serv[u] /\ mess'[u] = mess[u]
  OBVIOUS
<1>2. CASE MultiCast \/ UNCHANGED vars
  BY <1>2 DEF MultiCast, Boucle, Prendre, Envoyer, EnvoiEchoue, vars, varsServ
<1>3. ASSUME NEW s \in Services, Accepter(s) \/ Lire(s) \/ LireEchoue(s)
      PROVE  serv'[u] = serv[u] /\ mess'[u] = mess[u]
  <2>1. u # s
    BY <1>3 DEF Accepter, Lire, LireEchoue
  <2> QED
    BY <1>1, <1>3, <2>1 DEF Accepter, Lire, LireEchoue
<1>4. ASSUME NEW s \in Services, put(s) PROVE serv'[u] = serv[u] /\ mess'[u] = mess[u]
  <2>1. mess' = mess /\ serv[s] \in {"attend", "envoie"}
        /\ (serv' = serv \/ \E v \in {"envoie", "clos", "muet"} : serv' = [serv EXCEPT ![s] = v])
    BY <1>4 DEF put, MESS, MESSHorsBornes, LAST, LASTSuivant, LASTHorsBornes, LASTFin, Ignorer,
                Couper, PeutTraiter
  <2> QED
    BY <1>1, <2>1
<1>5. ASSUME NEW s \in Services, ClientLit(s) \/ ClientPart(s)
      PROVE  serv'[u] = serv[u] /\ mess'[u] = mess[u]
  BY <1>5 DEF ClientLit, ClientPart
<1> QED
  BY <1>2, <1>3, <1>4, <1>5 DEF Next, Termine

(* Only take() lengthens what was taken.                                   *)
LEMMA PrisFixe ==
  ASSUME HInv, [Next]_vars, ~ Prendre
  PROVE  Pris' = Pris
<1>1. CASE Envoyer
  <2>1. diffuses \o data \in Seq(Message)
    BY ConcatProperties DEF HInv, IInv, TypeOK
  <2> QED
    BY <1>1, <2>1, ConcatEmptySeq DEF Envoyer, Pris
<1>2. CASE ~ Envoyer
  <2>1. data' = data /\ diffuses' = diffuses
    BY <1>2 DEF Next, MultiCast, Boucle, EnvoiEchoue, Accepter, Lire, LireEchoue, put, MESS, MESSHorsBornes,
                LAST, LASTSuivant, LASTHorsBornes, LASTFin, Ignorer, Couper, ClientLit, ClientPart,
                Termine, vars, varsDiff
  <2> QED
    BY <2>1 DEF Pris
<1> QED
  BY <1>1, <1>2

(* A step that takes no message.                                           *)
LEMMA SuiteFixe ==
  ASSUME HInv, HInv', Suite, [Next]_vars, Pris' = Pris, rangs' = rangs
  PROVE  Suite'
<1>1. /\ Cardinality(Acquittes) <= Cardinality(Acquittes') /\ Cardinality(Rates) <= Cardinality(Rates')
  BY EssaisCroissent, FS_Subset DEF HInv, Compte
<1>2. /\ Cardinality(Acquittes) \in Nat /\ Cardinality(Rates) \in Nat /\ Len(Pris) \in Nat
      /\ Cardinality(Acquittes') \in Nat /\ Cardinality(Rates') \in Nat
  BY CompteType, PrisType, FS_CardinalityType DEF HInv, IInv, Compte
<1>3. Donnes \in Nat /\ Donnes' \in Nat /\ Donnes <= Donnes'
  BY <1>1, <1>2 DEF Donnes
<1>4. \A i \in 1 .. Len(Pris) : rangs[i] \in Nat
  BY ElementOfSeq DEF Suite
<1>5. \A i \in 1 .. Len(Pris) : rangs[i] < Donnes'
  BY <1>3, <1>4 DEF Suite
<1> QED
  BY <1>5 DEF Suite, Congrus

(* A message taken has the count of all numbers given out before it.       *)
LEMMA SuitePrendre ==
  ASSUME HInv, HInv', Suite, Prendre, rangs' = Append(rangs, Donnes)
  PROVE  Suite'
<1>1. /\ Len(Pris) \in Nat /\ Len(Pris') = Len(Pris) + 1
      /\ \A i \in 1 .. Len(Pris) : Pris'[i] = Pris[i]
      /\ Pris'[Len(Pris) + 1].num = numMes
      /\ Acquittes' = Acquittes /\ Rates' = Rates
  BY PrendreEtats
<1>2. Donnes \in Nat /\ Congrus(Donnes, numMes) /\ Donnes' = Donnes + 1
  <2>1. Cardinality(Acquittes) \in Nat /\ Cardinality(Rates) \in Nat
    BY CompteType DEF HInv
  <2> QED
    BY <1>1, <2>1, DonnesType DEF Donnes
<1>3. /\ rangs' \in Seq(Nat) /\ Len(rangs') = Len(Pris')
      /\ \A i \in 1 .. Len(Pris) : rangs'[i] = rangs[i] /\ rangs[i] \in Nat
      /\ rangs'[Len(Pris) + 1] = Donnes
  <2>1. rangs \in Seq(Nat) /\ Len(rangs) = Len(Pris)
    BY DEF Suite
  <2> QED
    BY <1>1, <1>2, <2>1, AppendProperties, ElementOfSeq
<1>4. ASSUME NEW i \in 1 .. Len(Pris') PROVE rangs'[i] < Donnes' /\ Congrus(rangs'[i], Pris'[i].num)
  <2>1. CASE i \in 1 .. Len(Pris)
    <3>1. rangs[i] < Donnes /\ Congrus(rangs[i], Pris[i].num) /\ rangs[i] \in Nat
      BY <1>3, <2>1 DEF Suite
    <3> QED
      BY <1>1, <1>2, <1>3, <2>1, <3>1
  <2>2. CASE i = Len(Pris) + 1
    BY <1>1, <1>2, <1>3, <2>2
  <2>3. i \in 1 .. Len(Pris) \/ i = Len(Pris) + 1
    BY <1>1
  <2> QED
    BY <2>1, <2>2, <2>3
<1>5. ASSUME NEW i \in 1 .. Len(Pris'), NEW j \in 1 .. Len(Pris'), i < j PROVE rangs'[i] < rangs'[j]
  <2>1. i \in 1 .. Len(Pris)
    BY <1>1, <1>5
  <2>2. CASE j \in 1 .. Len(Pris)
    BY <1>3, <1>5, <2>1, <2>2 DEF Suite
  <2>3. CASE j = Len(Pris) + 1
    BY <1>3, <2>1, <2>3 DEF Suite
  <2>4. j \in 1 .. Len(Pris) \/ j = Len(Pris) + 1
    BY <1>1
  <2> QED
    BY <2>2, <2>3, <2>4
<1> QED
  BY <1>3, <1>4, <1>5 DEF Suite, Congrus

(* The history follows every step.                                         *)
LEMMA SpecSuite == SpecRangs => [](HInv /\ Suite)
<1>1. InitRangs => HInv /\ Suite
  <2> SUFFICES ASSUME InitRangs PROVE HInv /\ Suite
    OBVIOUS
  <2>1. HInv /\ Len(Pris) = 0
    BY InitHInv DEF InitRangs, Init, Pris
  <2>2. rangs \in Seq(Nat) /\ Len(rangs) = 0
    BY DEF InitRangs
  <2> QED
    BY <2>1, <2>2 DEF Suite
<1>2. HInv /\ Suite /\ [NextRangs]_varsRangs => HInv' /\ Suite'
  <2> SUFFICES ASSUME HInv, Suite, [NextRangs]_varsRangs PROVE HInv' /\ Suite'
    OBVIOUS
  <2>1. [Next]_vars
    BY DEF NextRangs, varsRangs
  <2>2. HInv'
    BY <2>1, NextHInv
  <2>3. Len(Pris) \in Nat
    BY PrisType DEF HInv, IInv
  <2>4. CASE Prendre
    <3>1. Len(Pris') = Len(Pris) + 1
      BY <2>4, PrendreEtats
    <3>2. Pris' # Pris /\ Len(Pris') > Len(Pris)
      BY <2>3, <3>1
    <3>3. ~ UNCHANGED varsRangs
      BY <3>2 DEF varsRangs, vars, varsDiff, Pris
    <3> QED
      BY <2>2, <2>4, <3>2, <3>3, SuitePrendre DEF NextRangs
  <2>5. CASE ~ Prendre
    <3>1. Pris' = Pris
      BY <2>1, <2>5, PrisFixe
    <3>2. rangs' = rangs
      BY <2>3, <3>1 DEF NextRangs, varsRangs
    <3> QED
      BY <2>1, <2>2, <3>1, <3>2, SuiteFixe
  <2> QED
    BY <2>4, <2>5
<1> QED
  BY <1>1, <1>2, PTL DEF SpecRangs

(* Two messages have the same number only when NumMax + 1 numbers at least *)
(* were given out from the one to the other (MultiCast.java:28).           *)
THEOREM SpecNumerosDistincts == SpecRangs => []NumerosDistincts
<1>1. HInv /\ Suite => NumerosDistincts
  <2> SUFFICES ASSUME HInv, Suite, NEW i \in 1 .. Len(Pris), NEW j \in 1 .. Len(Pris),
                      i < j, Pris[i].num = Pris[j].num
               PROVE  rangs[j] - rangs[i] > NumMax
    BY DEF NumerosDistincts
  <2>1. rangs[i] \in Int /\ rangs[j] \in Int /\ Pris[j].num \in Int
    BY ElementOfSeq, PrisType DEF Suite, HInv, IInv
  <2> QED
    BY <2>1, CongrusEgal DEF Suite
<1> QED
  BY <1>1, SpecSuite, PTL

=============================================================================
