--------------------------- MODULE ReceptionProofs ---------------------------
(***************************************************************************)
(* Proofs about Reception, for every number of lines of LAST, every size   *)
(* of the directory that LINB can announce (two digits), every length that *)
(* accents give to texts and every disturbance: who finishes has read      *)
(* everything, and client.c stays on the ends of the lines.                *)
(***************************************************************************)
EXTENDS Reception, SequenceTheorems, TLAPS

(* The programs that read the directory, of which list in client_alt.c is  *)
(* left out: it reads what it finds.                                       *)
Listeur == prog \in {"ListC", "ListJava"}

(* Those that read line by line.                                           *)
Regulier ==
  \/ Java
  \/ prog = "LastC" /\ aleas \cap {"segments", "accents"} = {}
  \/ prog = "ListC" /\ "segments" \notin aleas

(* Lines end one behind the other.                                         *)
Croissance == \A i, j \in 0 .. Len(lignes) : i < j => Fin(i) < Fin(j)

(* The lines are those of the answer, with the lengths of the code.        *)
Tailles ==
  \A i \in 1 .. Len(lignes) :
    IF LAST
      THEN \/ /\ lignes[i].cle = "OLDM" /\ Fin(i) - Fin(i - 1) >= TailleOLDM
              /\ "accents" \notin aleas => Fin(i) - Fin(i - 1) = TailleOLDM
           \/ /\ lignes[i].cle = "ENDM" /\ Fin(i) - Fin(i - 1) = TailleENDM
              /\ i = Len(lignes) /\ srv \in {"fin", "ferme"}
      ELSE Fin(i) - Fin(i - 1) = IF i = 1 THEN TailleLINB ELSE TailleITEM

(* How far the server is.                                                  *)
Avancement ==
  /\ LAST => srv # "entete" /\ srv # "muet"
  /\ ~ LAST => srv # "fin"
  /\ srv = "entete" => lignes = <<>>
  /\ ~ LAST /\ srv = "lignes" => Len(lignes) >= 1
  /\ ~ LAST => Len(lignes) <= nb + 1

(* A regular reader is at the end of the line k; one that reads the        *)
(* directory has as many to read as there are after it, unless the socket  *)
(* was closed and nothing is left.                                         *)
Place(k) ==
  /\ recus = Fin(k)
  /\ Listeur /\ pc = "debut" => k = 0
  /\ Listeur /\ pc \in {"items", "fini"} =>
       \/ k >= 1 /\ reste = nb - (k - 1)
       \/ srv = "ferme" /\ k = Len(lignes)
Position == Regulier => \E k \in 0 .. Len(lignes) : Place(k)

(* How each program ends.                                                  *)
Arrivee ==
  /\ Listeur /\ pc = "fini" => reste = 0
  /\ prog = "LastJava" /\ pc = "fini" => recus = Emis /\ srv = "ferme"
  /\ prog = "LastC" /\ pc = "fini" => recus = Emis /\ srv \in {"fin", "ferme"}
  /\ Listeur => pc # "suite"
  /\ LAST => pc # "items"

IInv == TypeOK /\ Croissance /\ Tailles /\ Avancement /\ Position /\ Arrivee

-----------------------------------------------------------------------------
(* Lines.                                                                  *)

(* LAST sends up to MaxLignes lines, LIST one of the sizes of the          *)
(* directory: in both cases a number.                                      *)
LEMMA NbType ==
  ASSUME TypeOK
  PROVE  nb \in Nat /\ reste \in Nat /\ MaxLignes \in Nat
<1>1. MaxLignes \in Nat /\ Annuaires \subseteq 0 .. 99
  BY ReceptionAssumption
<1>2. CASE LAST
  BY <1>1, <1>2 DEF TypeOK, Dus
<1>3. CASE ~ LAST
  BY <1>1, <1>3 DEF TypeOK, Dus
<1> QED
  BY <1>2, <1>3

(* The ends of lines are positions.                                        *)
LEMMA FinType ==
  ASSUME TypeOK
  PROVE  /\ Len(lignes) \in Nat
         /\ \A i \in 0 .. Len(lignes) : Fin(i) \in Nat
         /\ Emis \in Nat /\ Emis = Fin(Len(lignes)) /\ recus \in Nat /\ recus <= Emis
<1>1. lignes \in Seq([cle : {"LINB", "ITEM", "OLDM", "ENDM"}, fin : Nat]) /\ Len(lignes) \in Nat
  BY LenProperties DEF TypeOK
<1>2. \A i \in 1 .. Len(lignes) : lignes[i].fin \in Nat
  <2>1. \A i \in 1 .. Len(lignes) : lignes[i] \in [cle : {"LINB", "ITEM", "OLDM", "ENDM"}, fin : Nat]
    BY <1>1, ElementOfSeq
  <2> QED
    BY <2>1
<1>3. \A i \in 0 .. Len(lignes) : Fin(i) \in Nat
  BY <1>2 DEF Fin
<1>4. Emis = Fin(Len(lignes)) /\ Emis \in Nat
  BY <1>1, <1>3 DEF Emis
<1> QED
  BY <1>1, <1>3, <1>4 DEF TypeOK

(* The ends of lines do not pass that of the last.                         *)
LEMMA FinEmis ==
  ASSUME TypeOK, Croissance, NEW k \in 0 .. Len(lignes)
  PROVE  Fin(k) <= Emis /\ (Fin(k) = Emis => k = Len(lignes))
BY FinType DEF Croissance

(* Writing a line adds an end and keeps the others.                        *)
LEMMA EcrireFin ==
  ASSUME TypeOK, NEW cle \in {"LINB", "ITEM", "OLDM", "ENDM"}, NEW taille \in Nat, Ecrire(cle, taille)
  PROVE  /\ Len(lignes') = Len(lignes) + 1
         /\ \A i \in 0 .. Len(lignes) : Fin(i)' = Fin(i)
         /\ \A i \in Nat : i = Len(lignes) + 1 => Fin(i)' = Emis + taille
         /\ Emis' = Emis + taille
         /\ \A i \in 1 .. Len(lignes) : lignes'[i] = lignes[i]
         /\ lignes'[Len(lignes) + 1].cle = cle
         /\ lignes' \in Seq([cle : {"LINB", "ITEM", "OLDM", "ENDM"}, fin : Nat])
         /\ UNCHANGED <<prog, aleas, nb, recus, pc, reste>>
<1>1. lignes \in Seq([cle : {"LINB", "ITEM", "OLDM", "ENDM"}, fin : Nat]) /\ Len(lignes) \in Nat /\ Emis \in Nat
  BY FinType DEF TypeOK
<1> DEFINE l == [cle |-> cle, fin |-> Emis + taille]
<1>2. l \in [cle : {"LINB", "ITEM", "OLDM", "ENDM"}, fin : Nat] /\ l.cle = cle /\ l.fin = Emis + taille
  BY <1>1
<1>3. lignes' = Append(lignes, l) /\ UNCHANGED <<prog, aleas, nb, recus, pc, reste>>
  BY DEF Ecrire, varsCli
<1> HIDE DEF l
<1>4. /\ lignes' \in Seq([cle : {"LINB", "ITEM", "OLDM", "ENDM"}, fin : Nat])
      /\ Len(lignes') = Len(lignes) + 1
      /\ \A i \in 1 .. Len(lignes) : lignes'[i] = lignes[i]
      /\ lignes'[Len(lignes) + 1] = l
  BY <1>1, <1>2, <1>3, AppendProperties
<1>5. \A i \in 0 .. Len(lignes) : Fin(i)' = Fin(i)
  BY <1>4 DEF Fin
<1>6. \A i \in Nat : i = Len(lignes) + 1 => Fin(i)' = Emis + taille
  BY <1>1, <1>2, <1>4 DEF Fin
<1>7. Emis' = Emis + taille
  BY <1>1, <1>4, <1>6 DEF Emis
<1> QED
  BY <1>2, <1>3, <1>4, <1>5, <1>6, <1>7

(* A line longer than nothing keeps the order of the ends, the types and   *)
(* the place of a reader.                                                  *)
LEMMA EcrireGarde ==
  ASSUME IInv, NEW cle \in {"LINB", "ITEM", "OLDM", "ENDM"}, NEW taille \in Nat \ {0}, Ecrire(cle, taille),
         srv \in {"entete", "lignes"}, srv' \in {"lignes", "fin"}
  PROVE  TypeOK' /\ Croissance' /\ Position' /\ Arrivee'
<1>1. TypeOK /\ Len(lignes) \in Nat /\ Emis \in Nat /\ recus <= Emis /\ Emis = Fin(Len(lignes))
      /\ \A i \in 0 .. Len(lignes) : Fin(i) \in Nat
  BY FinType DEF IInv
<1>2. /\ Len(lignes') = Len(lignes) + 1
      /\ \A i \in 0 .. Len(lignes) : Fin(i)' = Fin(i)
      /\ \A i \in Nat : i = Len(lignes) + 1 => Fin(i)' = Emis + taille
      /\ Emis' = Emis + taille
      /\ lignes' \in Seq([cle : {"LINB", "ITEM", "OLDM", "ENDM"}, fin : Nat])
      /\ UNCHANGED <<prog, aleas, nb, recus, pc, reste>>
  BY <1>1, EcrireFin
<1>3. TypeOK'
  BY <1>1, <1>2 DEF TypeOK, Dus, LAST
<1>4. Croissance'
  <2>1. \A i \in 0 .. Len(lignes) : Fin(i) <= Emis
    BY <1>1, FinEmis DEF IInv
  <2>2. ASSUME NEW i \in 0 .. Len(lignes) + 1, NEW j \in 0 .. Len(lignes) + 1, i < j
        PROVE  Fin(i)' < Fin(j)'
    <3>1. CASE j = Len(lignes) + 1
      <4>1. i \in 0 .. Len(lignes)
        BY <1>1, <2>2, <3>1
      <4>2. Fin(i)' = Fin(i) /\ Fin(i) \in Nat /\ Fin(i) <= Emis
        BY <1>1, <1>2, <2>1, <4>1
      <4> QED
        BY <1>1, <1>2, <3>1, <4>2
    <3>2. CASE j # Len(lignes) + 1
      <4>1. i \in 0 .. Len(lignes) /\ j \in 0 .. Len(lignes)
        BY <1>1, <2>2, <3>2
      <4> QED
        BY <1>2, <2>2, <4>1 DEF IInv, Croissance
    <3> QED
      BY <3>1, <3>2
  <2> QED
    BY <1>2, <2>2 DEF Croissance
<1>5. Position'
  <2> SUFFICES ASSUME Regulier' PROVE Position'
    BY DEF Position
  <2>1. Regulier
    BY <1>2 DEF Regulier, Java
  <2>2. PICK k \in 0 .. Len(lignes) : Place(k)
    BY <2>1 DEF IInv, Position
  <2>3. k \in 0 .. Len(lignes') /\ Fin(k)' = Fin(k)
    BY <1>1, <1>2
  <2>4. Place(k)'
    BY <1>2, <2>2, <2>3 DEF Place, Listeur
  <2> QED
    BY <2>3, <2>4 DEF Position
<1>6. Arrivee'
  BY <1>2 DEF IInv, Arrivee, Listeur, LAST
<1> QED
  BY <1>3, <1>4, <1>5, <1>6

-----------------------------------------------------------------------------
(* The server.                                                             *)

(* The header is the first line, and sets how many follow.                 *)
LEMMA EcrireLINBIInv == IInv /\ EcrireLINB => IInv'
<1> SUFFICES ASSUME IInv, EcrireLINB PROVE IInv'
  OBVIOUS
<1>1. Ecrire("LINB", TailleLINB) /\ TailleLINB \in Nat \ {0} /\ srv = "entete" /\ srv' = "lignes"
  BY DEF EcrireLINB, TailleLINB
<1>2. TypeOK /\ ~ LAST /\ lignes = <<>> /\ nb \in Nat
  <2>1. nb \in Nat
    BY NbType DEF IInv
  <2> QED
    BY <1>1, <2>1 DEF IInv, Avancement
<1>3. TypeOK' /\ Croissance' /\ Position' /\ Arrivee'
  BY <1>1, EcrireGarde
<1>4. /\ Len(lignes') = Len(lignes) + 1
      /\ \A i \in 0 .. Len(lignes) : Fin(i)' = Fin(i)
      /\ \A i \in Nat : i = Len(lignes) + 1 => Fin(i)' = Emis + TailleLINB
      /\ UNCHANGED <<prog, aleas, nb, recus, pc, reste>>
  BY <1>1, <1>2, EcrireFin
<1>5. Len(lignes) = 0 /\ Emis = 0 /\ Fin(0) = 0
  BY <1>2 DEF Emis, Fin
<1>6. Fin(0)' = 0 /\ Fin(1)' = TailleLINB /\ Len(lignes') = 1 /\ ~ LAST'
  BY <1>2, <1>4, <1>5 DEF TailleLINB, LAST
<1>7. Tailles'
  BY <1>6 DEF Tailles, TailleLINB, LAST
<1>8. Avancement'
  BY <1>1, <1>2, <1>4, <1>6 DEF Avancement, LAST
<1> QED
  BY <1>3, <1>7, <1>8 DEF IInv

(* An entry has its length, and there are no more than LINB announced.     *)
LEMMA EcrireITEMIInv == IInv /\ EcrireITEM => IInv'
<1> SUFFICES ASSUME IInv, EcrireITEM PROVE IInv'
  OBVIOUS
<1>1. Ecrire("ITEM", TailleITEM) /\ TailleITEM \in Nat \ {0} /\ srv = "lignes" /\ srv' = "lignes" /\ ~ LAST
      /\ Ecrites < nb
  BY DEF EcrireITEM, TailleITEM
<1>2. TypeOK /\ nb \in Nat /\ Len(lignes) \in Nat /\ Len(lignes) >= 1 /\ Len(lignes) < nb + 1
  <2>1. nb \in Nat
    BY NbType DEF IInv
  <2>2. Len(lignes) \in Nat
    BY FinType DEF IInv
  <2> QED
    BY <1>1, <2>1, <2>2 DEF IInv, Avancement, Ecrites
<1>3. TypeOK' /\ Croissance' /\ Position' /\ Arrivee'
  BY <1>1, EcrireGarde
<1>4. /\ Len(lignes') = Len(lignes) + 1
      /\ \A i \in 0 .. Len(lignes) : Fin(i)' = Fin(i)
      /\ \A i \in Nat : i = Len(lignes) + 1 => Fin(i)' = Emis + TailleITEM
      /\ UNCHANGED <<prog, aleas, nb, recus, pc, reste>>
  BY <1>1, <1>2, EcrireFin
<1>5. Emis = Fin(Len(lignes)) /\ Emis \in Nat
  BY <1>2, FinType
<1>6. ASSUME NEW i \in 1 .. Len(lignes')
      PROVE  Fin(i)' - Fin(i - 1)' = IF i = 1 THEN TailleLINB ELSE TailleITEM
  <2>1. CASE i = Len(lignes) + 1
    BY <1>2, <1>4, <1>5, <2>1 DEF TailleITEM
  <2>2. CASE i \in 1 .. Len(lignes)
    <3>1. Fin(i)' = Fin(i) /\ Fin(i - 1)' = Fin(i - 1)
      BY <1>2, <1>4, <2>2
    <3> QED
      BY <1>1, <2>2, <3>1 DEF IInv, Tailles
  <2> QED
    BY <1>2, <1>4, <2>1, <2>2
<1>7. Tailles'
  BY <1>1, <1>4, <1>6 DEF Tailles, LAST, TailleLINB, TailleITEM
<1>8. Avancement'
  <2>1. lignes' # <<>> /\ Len(lignes') <= nb' + 1
    BY <1>2, <1>4
  <2> QED
    BY <1>1, <1>2, <1>4, <2>1 DEF IInv, Avancement, LAST
<1> QED
  BY <1>3, <1>7, <1>8 DEF IInv

(* OLDM and ENDM differ by the length, and ENDM is the last.               *)
LEMMA EcrireLASTIInv ==
  ASSUME IInv, LAST, srv = "lignes", NEW cle \in {"OLDM", "ENDM"}, NEW taille \in Nat, Ecrire(cle, taille),
         \/ /\ cle = "OLDM" /\ srv' = srv /\ taille >= TailleOLDM
            /\ "accents" \notin aleas => taille = TailleOLDM
         \/ cle = "ENDM" /\ srv' = "fin" /\ taille = TailleENDM
  PROVE  IInv'
<1>1. taille \in Nat \ {0} /\ srv' \in {"lignes", "fin"}
  BY DEF TailleOLDM, TailleENDM
<1>2. TypeOK /\ Len(lignes) \in Nat /\ Emis \in Nat /\ Emis = Fin(Len(lignes))
  BY FinType DEF IInv
<1>3. TypeOK' /\ Croissance' /\ Position' /\ Arrivee'
  BY <1>1, EcrireGarde
<1>4. /\ Len(lignes') = Len(lignes) + 1
      /\ \A i \in 0 .. Len(lignes) : Fin(i)' = Fin(i)
      /\ \A i \in Nat : i = Len(lignes) + 1 => Fin(i)' = Emis + taille
      /\ \A i \in 1 .. Len(lignes) : lignes'[i] = lignes[i]
      /\ lignes'[Len(lignes) + 1].cle = cle
      /\ UNCHANGED <<prog, aleas, nb, recus, pc, reste>>
  BY <1>2, EcrireFin
<1>5. LAST' /\ UNCHANGED aleas
  BY <1>4 DEF LAST
<1>6. ASSUME NEW i \in 1 .. Len(lignes')
      PROVE  \/ /\ lignes'[i].cle = "OLDM" /\ Fin(i)' - Fin(i - 1)' >= TailleOLDM
                /\ "accents" \notin aleas => Fin(i)' - Fin(i - 1)' = TailleOLDM
             \/ /\ lignes'[i].cle = "ENDM" /\ Fin(i)' - Fin(i - 1)' = TailleENDM
                /\ i = Len(lignes') /\ srv' \in {"fin", "ferme"}
  <2>1. CASE i = Len(lignes) + 1
    <3>1. Fin(i)' - Fin(i - 1)' = taille /\ lignes'[i].cle = cle
      BY <1>2, <1>4, <2>1
    <3> QED
      BY <1>4, <2>1, <3>1 DEF TailleOLDM, TailleENDM
  <2>2. CASE i \in 1 .. Len(lignes)
    <3>1. Fin(i)' = Fin(i) /\ Fin(i - 1)' = Fin(i - 1) /\ lignes'[i] = lignes[i]
      BY <1>2, <1>4, <2>2
    <3> QED
      BY <2>2, <3>1 DEF IInv, Tailles
  <2> QED
    BY <1>2, <1>4, <2>1, <2>2
<1>7. Tailles'
  BY <1>5, <1>6 DEF Tailles, TailleOLDM, TailleENDM
<1>8. Avancement'
  BY <1>1, <1>5 DEF Avancement
<1> QED
  BY <1>3, <1>7, <1>8 DEF IInv

(* The socket is closed, or left open: nothing more is written.            *)
LEMMA FermerIInv == IInv /\ (Fermer \/ Exception) => IInv'
<1> SUFFICES ASSUME IInv, Fermer \/ Exception PROVE IInv'
  OBVIOUS
<1>1. UNCHANGED <<prog, aleas, nb, lignes, recus, pc, reste>>
  BY DEF Fermer, Exception, varsCli
<1>2. srv' = "ferme" \/ (srv' = "muet" /\ ~ LAST)
  BY DEF Fermer, Exception
<1>3. /\ LAST' = LAST /\ Java' = Java /\ Listeur' = Listeur /\ Regulier' = Regulier /\ Emis' = Emis
      /\ Len(lignes') = Len(lignes) /\ \A i \in 0 .. Len(lignes) : Fin(i)' = Fin(i)
  BY <1>1 DEF LAST, Java, Listeur, Regulier, Emis, Fin
<1>4. TypeOK'
  BY <1>1, <1>2, <1>3 DEF IInv, TypeOK, Dus
<1>5. Croissance'
  BY <1>3 DEF IInv, Croissance
<1>6. Tailles'
  <2>1. ASSUME NEW i \in 1 .. Len(lignes)
        PROVE  Fin(i)' = Fin(i) /\ Fin(i - 1)' = Fin(i - 1)
    <3>1. Len(lignes) \in Nat
      BY FinType DEF IInv
    <3> QED
      BY <1>3, <3>1
  <2> QED
    BY <1>1, <1>2, <1>3, <2>1 DEF IInv, Tailles
<1>7. Avancement'
  BY <1>1, <1>2, <1>3 DEF IInv, Avancement
<1>8. Position'
  <2>0. srv # "ferme"
    BY DEF Fermer, Exception
  <2> SUFFICES ASSUME Regulier PROVE \E k \in 0 .. Len(lignes) : Place(k)'
    BY <1>3 DEF Position
  <2>1. PICK k \in 0 .. Len(lignes) : Place(k)
    BY DEF IInv, Position
  <2>2. Place(k)'
    BY <1>1, <1>3, <2>0, <2>1 DEF Place
  <2> QED
    BY <2>2
<1>9. Arrivee'
  <2>1. prog \in {"LastC", "LastJava"} => srv' = "ferme"
    BY <1>2 DEF LAST
  <2> QED
    BY <1>1, <1>3, <2>1 DEF IInv, Arrivee
<1> QED
  BY <1>4, <1>5, <1>6, <1>7, <1>8, <1>9 DEF IInv

(* Every step of the server.                                               *)
LEMMA ServeurIInv == IInv /\ Serveur => IInv'
<1> SUFFICES ASSUME IInv, Serveur PROVE IInv'
  OBVIOUS
<1>1. ASSUME EcrireOLDM PROVE IInv'
  <2>1. PICK a \in 0 .. MaxAccents : (a # 0 => "accents" \in aleas) /\ Ecrire("OLDM", TailleOLDM + a)
    BY <1>1 DEF EcrireOLDM
  <2>2. PICK t \in Nat : /\ t >= TailleOLDM /\ Ecrire("OLDM", t)
                         /\ "accents" \notin aleas => t = TailleOLDM
    <3>1. TailleOLDM + a \in Nat /\ TailleOLDM + a >= TailleOLDM /\ (a = 0 => TailleOLDM + a = TailleOLDM)
      BY ReceptionAssumption DEF TailleOLDM
    <3> QED
      BY <2>1, <3>1
  <2>3. LAST /\ srv = "lignes" /\ srv' = srv
    BY <1>1 DEF EcrireOLDM
  <2> QED
    BY <2>2, <2>3, EcrireLASTIInv
<1>2. ASSUME EcrireENDM PROVE IInv'
  <2>1. PICK t \in Nat : t = TailleENDM /\ Ecrire("ENDM", t)
    BY <1>2 DEF EcrireENDM, TailleENDM
  <2>2. LAST /\ srv = "lignes" /\ srv' = "fin"
    BY <1>2 DEF EcrireENDM
  <2> QED
    BY <2>1, <2>2, EcrireLASTIInv
<1> QED
  BY <1>1, <1>2, EcrireLINBIInv, EcrireITEMIInv, FermerIInv DEF Serveur

-----------------------------------------------------------------------------
(* The clients.                                                            *)

(* A client only moves itself.                                             *)
LEMMA LireGarde ==
  ASSUME IInv, UNCHANGED varsSrv
  PROVE  /\ Croissance' /\ Tailles' /\ Avancement'
         /\ LAST' = LAST /\ Java' = Java /\ Listeur' = Listeur /\ Regulier' = Regulier /\ Emis' = Emis
         /\ \A i \in 0 .. Len(lignes) : Fin(i)' = Fin(i)
         /\ UNCHANGED <<prog, aleas, nb, lignes, srv>>
<1>1. UNCHANGED <<prog, aleas, nb, lignes, srv>>
  BY DEF varsSrv
<1>2. /\ LAST' = LAST /\ Java' = Java /\ Listeur' = Listeur /\ Regulier' = Regulier /\ Emis' = Emis
      /\ \A i \in 0 .. Len(lignes) : Fin(i)' = Fin(i)
  BY <1>1 DEF LAST, Java, Listeur, Regulier, Emis, Fin
<1>3. Croissance'
  BY <1>1, <1>2 DEF IInv, Croissance
<1>4. Tailles'
  <2>1. Len(lignes) \in Nat
    BY FinType DEF IInv
  <2>2. ASSUME NEW i \in 1 .. Len(lignes)
        PROVE  Fin(i)' = Fin(i) /\ Fin(i - 1)' = Fin(i - 1)
    BY <1>2, <2>1
  <2> QED
    BY <1>1, <1>2, <2>2 DEF IInv, Tailles
<1>5. Avancement'
  BY <1>1, <1>2 DEF IInv, Avancement
<1> QED
  BY <1>1, <1>2, <1>3, <1>4, <1>5

(* What is left to show of a step of a client.                             *)
LEMMA LireIInv ==
  ASSUME IInv, UNCHANGED varsSrv, recus' \in 0 .. Emis, reste' \in Nat,
         pc' \in {"debut", "suite", "items", "fini", "mort"}, Position', Arrivee'
  PROVE  IInv'
<1>1. TypeOK'
  BY LireGarde DEF IInv, TypeOK, Dus
<1> QED
  BY <1>1, LireGarde DEF IInv

(* recv() gives no more than there is, and nothing only at the end.        *)
LEMMA RecvType ==
  ASSUME TypeOK, NEW taille \in Nat \ {0}, NEW n \in Recv(taille)
  PROVE  /\ n \in Nat /\ n <= taille /\ recus + n \in 0 .. Emis
         /\ n = 0 <=> Emis = recus
         /\ n = 0 => srv = "ferme"
         /\ "segments" \notin aleas => n = IF Emis - recus < taille THEN Emis - recus ELSE taille
<1>1. Emis \in Nat /\ recus \in Nat /\ recus <= Emis
  BY FinType
<1>2. CASE Emis - recus = 0
  BY <1>1, <1>2 DEF Recv
<1>3. CASE Emis - recus # 0
  BY <1>1, <1>3 DEF Recv
<1> QED
  BY <1>2, <1>3

(* One that asks for the length of the next line, or for more when it is   *)
(* the last one, gets this line.                                           *)
LEMMA RecvLigne ==
  ASSUME IInv, NEW k \in 0 .. Len(lignes), recus = Fin(k), "segments" \notin aleas,
         NEW taille \in Nat \ {0}, NEW n \in Recv(taille),
         k < Len(lignes) =>
           \/ Fin(k + 1) - Fin(k) = taille
           \/ Fin(k + 1) - Fin(k) <= taille /\ k + 1 = Len(lignes)
  PROVE  \/ k < Len(lignes) /\ n > 0 /\ recus + n = Fin(k + 1)
         \/ k = Len(lignes) /\ n = 0 /\ srv = "ferme"
<1>1. /\ Len(lignes) \in Nat /\ Emis \in Nat /\ Emis = Fin(Len(lignes)) /\ recus \in Nat
      /\ \A i \in 0 .. Len(lignes) : Fin(i) \in Nat
  BY FinType DEF IInv
<1>2. /\ n \in Nat /\ (n = 0 <=> Emis = recus) /\ (n = 0 => srv = "ferme")
      /\ n = IF Emis - recus < taille THEN Emis - recus ELSE taille
  BY RecvType DEF IInv
<1>3. CASE k = Len(lignes)
  BY <1>1, <1>2, <1>3
<1>4. CASE k < Len(lignes)
  <2>1. k + 1 \in 0 .. Len(lignes) /\ Fin(k + 1) \in Nat /\ Fin(k) \in Nat
    BY <1>1, <1>4
  <2>2. Fin(k) < Fin(k + 1) /\ Fin(k + 1) <= Emis
    BY <1>1, <1>4, <2>1, FinEmis DEF IInv, Croissance
  <2>3. CASE Fin(k + 1) - Fin(k) = taille
    BY <1>1, <1>2, <1>4, <2>1, <2>2, <2>3
  <2>4. CASE Fin(k + 1) - Fin(k) <= taille /\ k + 1 = Len(lignes)
    BY <1>1, <1>2, <1>4, <2>1, <2>2, <2>4
  <2> QED
    BY <1>4, <2>3, <2>4
<1> QED
  BY <1>1, <1>3, <1>4

(* readLine() gives the line that follows the place of the reader.         *)
LEMMA ReadLineSuivante ==
  ASSUME IInv, NEW k \in 0 .. Len(lignes), recus = Fin(k)
  PROVE  /\ \A i \in ReadLine : i = k + 1
         /\ ReadLine = {} => k = Len(lignes)
<1>1. Len(lignes) \in Nat /\ \A i \in 0 .. Len(lignes) : Fin(i) \in Nat
  BY FinType DEF IInv
<1>2. ASSUME NEW i \in 1 .. Len(lignes), Fin(i - 1) = Fin(k)
      PROVE  i = k + 1
  <2>1. i - 1 \in 0 .. Len(lignes)
    BY <1>1
  <2>2. ~ (i - 1 < k) /\ ~ (k < i - 1)
    BY <1>1, <1>2, <2>1 DEF IInv, Croissance
  <2> QED
    BY <1>1, <2>2
<1>3. ASSUME k < Len(lignes)
      PROVE  k + 1 \in ReadLine
  BY <1>1, <1>3 DEF ReadLine
<1>4. \A i \in ReadLine : i = k + 1
  <2> SUFFICES ASSUME NEW i \in ReadLine PROVE i = k + 1
    OBVIOUS
  <2>1. i \in 1 .. Len(lignes) /\ Fin(i - 1) = Fin(k)
    BY DEF ReadLine
  <2> QED
    BY <1>2, <2>1
<1>5. ASSUME ReadLine = {}
      PROVE  k = Len(lignes)
  <2>1. ~ (k < Len(lignes))
    BY <1>3, <1>5
  <2> QED
    BY <1>1, <2>1
<1> QED
  BY <1>4, <1>5

-----------------------------------------------------------------------------
(* The C programs.                                                         *)

(* One recv of last takes one line when the lines have its length.         *)
LEMMA LastCIInv == IInv /\ LastC => IInv'
<1> SUFFICES ASSUME IInv, LastC PROVE IInv'
  OBVIOUS
<1>1. PICK n \in Recv(TamponLast) :
        recus' = recus + n /\ pc' = IF Reconnu(recus, recus + n) THEN "fini" ELSE "suite"
  BY DEF LastC
<1>2. prog = "LastC" /\ LAST /\ ~ Listeur /\ ~ Java /\ UNCHANGED <<varsSrv, reste>> /\ TamponLast \in Nat \ {0}
  BY DEF LastC, LAST, Listeur, Java, TamponLast
<1>3. recus' \in 0 .. Emis
  BY <1>1, <1>2, RecvType DEF IInv
<1>4. /\ LAST' = LAST /\ Listeur' = Listeur /\ Regulier' = Regulier /\ Emis' = Emis /\ prog' = prog /\ srv' = srv
      /\ lignes' = lignes /\ \A i \in 0 .. Len(lignes) : Fin(i)' = Fin(i)
  BY <1>2, LireGarde
<1>5. Len(lignes) \in Nat /\ Emis = Fin(Len(lignes))
  BY FinType DEF IInv
<1>6. Arrivee'
  <2>1. ASSUME Reconnu(recus, recus + n)
        PROVE  recus' = Emis /\ srv \in {"fin", "ferme"}
    <3>1. PICK i \in 1 .. Len(lignes) : lignes[i].cle = "ENDM" /\ recus + n = Fin(i)
      BY <2>1 DEF Reconnu
    <3>2. i = Len(lignes) /\ srv \in {"fin", "ferme"}
      BY <1>2, <3>1 DEF IInv, Tailles
    <3> QED
      BY <1>1, <1>5, <3>1, <3>2
  <2> QED
    BY <1>1, <1>2, <1>4, <2>1 DEF Arrivee
<1>7. Position'
  <2> SUFFICES ASSUME Regulier PROVE \E k \in 0 .. Len(lignes) : recus' = Fin(k)
    BY <1>2, <1>4 DEF Position, Place
  <2>1. aleas \cap {"segments", "accents"} = {}
    BY <1>2 DEF Regulier
  <2>2. PICK k \in 0 .. Len(lignes) : recus = Fin(k)
    BY DEF IInv, Position, Place
  <2>3. ASSUME k < Len(lignes)
        PROVE  \/ Fin(k + 1) - Fin(k) = TamponLast
               \/ Fin(k + 1) - Fin(k) <= TamponLast /\ k + 1 = Len(lignes)
    <3>1. k + 1 \in 1 .. Len(lignes) /\ (k + 1) - 1 = k
      BY <1>5, <2>3
    <3>2. \/ Fin(k + 1) - Fin(k) = TailleOLDM
          \/ Fin(k + 1) - Fin(k) = TailleENDM /\ k + 1 = Len(lignes)
      BY <1>2, <2>1, <3>1 DEF IInv, Tailles
    <3> QED
      BY <3>2 DEF TailleOLDM, TailleENDM, TamponLast
  <2>4. \/ k < Len(lignes) /\ recus + n = Fin(k + 1)
        \/ k = Len(lignes) /\ n = 0
    BY <1>2, <2>1, <2>2, <2>3, RecvLigne
  <2>5. CASE k < Len(lignes)
    <3>1. k + 1 \in 0 .. Len(lignes)
      BY <1>5, <2>5
    <3> QED
      BY <1>1, <2>4, <2>5, <3>1
  <2>6. CASE n = 0
    <3>1. recus \in Nat
      BY FinType DEF IInv
    <3> QED
      BY <1>1, <2>2, <2>6, <3>1
  <2> QED
    BY <2>4, <2>5, <2>6
<1> QED
  BY <1>1, <1>2, <1>3, <1>6, <1>7, LireIInv, NbType DEF IInv

(* The header of list, and the number it gives to the loop.                *)
LEMMA ListCEnteteIInv == IInv /\ ListCEntete => IInv'
<1> SUFFICES ASSUME IInv, ListCEntete PROVE IInv'
  OBVIOUS
<1>1. PICK n \in Recv(TailleLINB) : recus' = recus + n /\ reste' = IF n < 6 THEN 0 ELSE IF n = 6 THEN nb \div 10 ELSE nb
  BY DEF ListCEntete
<1>2. /\ prog = "ListC" /\ ~ LAST /\ Listeur /\ ~ Java /\ UNCHANGED varsSrv /\ TailleLINB \in Nat \ {0}
      /\ pc = "debut" /\ pc' = "items"
  BY DEF ListCEntete, LAST, Listeur, Java, TailleLINB
<1>3. recus' \in 0 .. Emis /\ nb \in Nat
  BY <1>1, <1>2, RecvType, NbType DEF IInv
<1>4. /\ LAST' = LAST /\ Listeur' = Listeur /\ Regulier' = Regulier /\ Emis' = Emis /\ prog' = prog /\ srv' = srv
      /\ nb' = nb /\ lignes' = lignes /\ \A i \in 0 .. Len(lignes) : Fin(i)' = Fin(i)
  BY <1>2, LireGarde
<1>5. Len(lignes) \in Nat /\ recus \in Nat
  BY FinType DEF IInv
<1>6. Arrivee'
  BY <1>2, <1>4 DEF Arrivee, LAST
<1>7. Position'
  <2> SUFFICES ASSUME Regulier PROVE \E k \in 0 .. Len(lignes) : Place(k)'
    BY <1>4 DEF Position
  <2>1. "segments" \notin aleas /\ recus = Fin(0) /\ 0 \in 0 .. Len(lignes)
    BY <1>2, <1>5 DEF Regulier, IInv, Position, Place
  <2>2. 0 < Len(lignes) => Fin(0 + 1) - Fin(0) = TailleLINB
    <3>1. 0 < Len(lignes) => 1 \in 1 .. Len(lignes) /\ 1 - 1 = 0 /\ 0 + 1 = 1
      BY <1>5
    <3> QED
      BY <1>2, <3>1 DEF IInv, Tailles
  <2>3. \/ 0 < Len(lignes) /\ n > 0 /\ recus + n = Fin(0 + 1)
        \/ 0 = Len(lignes) /\ n = 0 /\ srv = "ferme"
    BY <1>2, <2>1, <2>2, RecvLigne
  <2>4. CASE 0 < Len(lignes) /\ n > 0 /\ recus + n = Fin(0 + 1)
    <3>1. 1 \in 0 .. Len(lignes) /\ 0 + 1 = 1
      BY <1>5, <2>4
    <3>2. n = TailleLINB
      <4>1. Fin(0) = 0 /\ n \in Nat /\ Fin(1) - 0 = TailleLINB
        BY <1>2, <2>2, <2>4, RecvType DEF Fin, IInv
      <4>2. 0 + n = Fin(1)
        BY <2>1, <2>4, <4>1
      <4> QED
        BY <4>1, <4>2 DEF TailleLINB
    <3>3. reste' = nb /\ nb - (1 - 1) = nb
      BY <1>1, <1>3, <3>2 DEF TailleLINB
    <3>4. Place(1)'
      BY <1>1, <1>2, <1>4, <2>4, <3>1, <3>3 DEF Place
    <3> QED
      BY <3>1, <3>4
  <2>5. CASE 0 = Len(lignes) /\ n = 0 /\ srv = "ferme"
    <3>1. Place(0)'
      BY <1>1, <1>2, <1>4, <1>5, <2>1, <2>5 DEF Place
    <3> QED
      BY <2>1, <3>1
  <2> QED
    BY <2>3, <2>4, <2>5
<1> QED
  <2>1. reste' \in Nat
    BY <1>1, <1>3
  <2> QED
    BY <1>2, <1>3, <1>6, <1>7, <2>1, LireIInv

(* client_alt.c is at no place in particular.                              *)
LEMMA ListAltEnteteIInv == IInv /\ ListAltEntete => IInv'
<1> SUFFICES ASSUME IInv, ListAltEntete PROVE IInv'
  OBVIOUS
<1>1. PICK n \in Recv(56) : recus' = recus + n
  BY DEF ListAltEntete
<1>2. prog = "ListAlt" /\ UNCHANGED varsSrv /\ pc' = "items" /\ reste' \in 0 .. MaxLignes
  BY DEF ListAltEntete
<1>3. recus' \in 0 .. Emis /\ reste' \in Nat
  BY <1>1, <1>2, RecvType, NbType DEF IInv
<1>4. prog' = prog /\ ~ Regulier' /\ ~ Listeur' /\ ~ LAST'
  BY <1>2, LireGarde DEF Regulier, Listeur, LAST, Java
<1>5. Arrivee' /\ Position'
  BY <1>2, <1>4 DEF Arrivee, Position
<1> QED
  BY <1>2, <1>3, <1>5, LireIInv

(* Each turn of the loop of list takes one entry.                          *)
LEMMA ListCItemIInv == IInv /\ ListCItem => IInv'
<1> SUFFICES ASSUME IInv, ListCItem PROVE IInv'
  OBVIOUS
<1>0. PICK taille \in {55, 57} : /\ prog = "ListC" => taille = TamponList
                                /\ \E n \in Recv(taille) : recus' = recus + n
  BY DEF ListCItem, TamponList
<1>1. PICK n \in Recv(taille) : recus' = recus + n
  BY <1>0
<1>2. /\ prog \in {"ListC", "ListAlt"} /\ ~ LAST /\ ~ Java /\ UNCHANGED <<varsSrv, pc>>
      /\ taille \in Nat \ {0} /\ pc = "items" /\ reste' = reste - 1 /\ reste > 0
  BY DEF ListCItem, LAST, Java
<1>3. recus' \in 0 .. Emis /\ reste \in Nat /\ nb \in Nat
  BY <1>1, <1>2, RecvType, NbType DEF IInv
<1>4. /\ LAST' = LAST /\ Listeur' = Listeur /\ Regulier' = Regulier /\ Emis' = Emis /\ prog' = prog /\ srv' = srv
      /\ nb' = nb /\ lignes' = lignes /\ \A i \in 0 .. Len(lignes) : Fin(i)' = Fin(i)
  BY <1>2, LireGarde
<1>5. Len(lignes) \in Nat /\ recus \in Nat
  BY FinType DEF IInv
<1>6. Arrivee'
  BY <1>2, <1>4 DEF Arrivee, LAST
<1>7. Position'
  <2> SUFFICES ASSUME Regulier PROVE \E k \in 0 .. Len(lignes) : Place(k)'
    BY <1>4 DEF Position
  <2>1. prog = "ListC" /\ Listeur /\ "segments" \notin aleas /\ taille = TailleITEM
    BY <1>0, <1>2 DEF Regulier, Listeur, TamponList, TailleITEM
  <2>2. PICK k \in 0 .. Len(lignes) : Place(k)
    BY DEF IInv, Position
  <2>3. /\ recus = Fin(k)
        /\ \/ k >= 1 /\ reste = nb - (k - 1)
           \/ srv = "ferme" /\ k = Len(lignes)
    BY <1>2, <2>1, <2>2 DEF Place
  <2>4. k < Len(lignes) => k >= 1 /\ reste = nb - (k - 1) /\ Fin(k + 1) - Fin(k) = taille
    <3>1. ASSUME k < Len(lignes)
          PROVE  k + 1 \in 1 .. Len(lignes) /\ (k + 1) - 1 = k /\ k >= 1
      BY <1>5, <2>3, <3>1
    <3>2. ASSUME k < Len(lignes)
          PROVE  Fin(k + 1) - Fin(k) = taille
      <4>1. k + 1 # 1
        BY <1>5, <3>1, <3>2
      <4> QED
        BY <1>2, <2>1, <3>1, <3>2, <4>1 DEF IInv, Tailles
    <3> QED
      BY <1>5, <2>3, <3>1, <3>2
  <2>5. \/ k < Len(lignes) /\ n > 0 /\ recus + n = Fin(k + 1)
        \/ k = Len(lignes) /\ n = 0 /\ srv = "ferme"
    BY <1>2, <2>1, <2>3, <2>4, RecvLigne
  <2>6. CASE k < Len(lignes) /\ n > 0 /\ recus + n = Fin(k + 1)
    <3>1. k + 1 \in 0 .. Len(lignes) /\ k + 1 >= 1 /\ reste' = nb - ((k + 1) - 1)
      BY <1>2, <1>3, <1>5, <2>4, <2>6
    <3>2. Place(k + 1)'
      <4>1. PICK j \in 0 .. Len(lignes) : j = k + 1
        BY <3>1
      <4>2. Place(j)'
        BY <1>1, <1>2, <1>4, <2>6, <3>1, <4>1 DEF Place
      <4> QED
        BY <4>1, <4>2
    <3> QED
      BY <3>1, <3>2
  <2>7. CASE k = Len(lignes) /\ n = 0 /\ srv = "ferme"
    <3>1. Place(k)'
      BY <1>1, <1>2, <1>4, <1>5, <2>3, <2>7 DEF Place
    <3> QED
      BY <3>1
  <2> QED
    BY <2>5, <2>6, <2>7
<1>8. reste' \in Nat
  BY <1>2, <1>3
<1> QED
  BY <1>2, <1>3, <1>6, <1>7, <1>8, LireIInv

-----------------------------------------------------------------------------
(* All programs, and the Java ones.                                        *)

(* list ends when there is nothing left to read.                           *)
LEMMA ListFinIInv == IInv /\ ListFin => IInv'
<1> SUFFICES ASSUME IInv, ListFin PROVE IInv'
  OBVIOUS
<1>1. UNCHANGED <<varsSrv, recus, reste>> /\ pc = "items" /\ pc' = "fini" /\ reste = 0
  BY DEF ListFin
<1>2. /\ LAST' = LAST /\ Listeur' = Listeur /\ Regulier' = Regulier /\ Emis' = Emis /\ prog' = prog /\ srv' = srv
      /\ nb' = nb /\ lignes' = lignes /\ \A i \in 0 .. Len(lignes) : Fin(i)' = Fin(i)
  BY <1>1, LireGarde
<1>3. Arrivee'
  BY <1>1, <1>2 DEF IInv, Arrivee, LAST
<1>4. Position'
  <2> SUFFICES ASSUME Regulier PROVE \E k \in 0 .. Len(lignes) : Place(k)'
    BY <1>2 DEF Position
  <2>1. PICK k \in 0 .. Len(lignes) : Place(k)
    BY DEF IInv, Position
  <2>2. Place(k)'
    BY <1>1, <1>2, <2>1 DEF Place
  <2> QED
    BY <2>2
<1> QED
  BY <1>1, <1>3, <1>4, LireIInv DEF IInv, TypeOK

(* A null header kills the Java program: nothing is read.                  *)
LEMMA JavaMeurtIInv == IInv /\ JavaMeurt => IInv'
<1> SUFFICES ASSUME IInv, JavaMeurt PROVE IInv'
  OBVIOUS
<1>1. UNCHANGED <<varsSrv, recus, reste>> /\ pc' = "mort" /\ Java
  BY DEF JavaMeurt
<1>2. /\ LAST' = LAST /\ Listeur' = Listeur /\ Regulier' = Regulier /\ Emis' = Emis /\ prog' = prog /\ srv' = srv
      /\ nb' = nb /\ lignes' = lignes /\ \A i \in 0 .. Len(lignes) : Fin(i)' = Fin(i)
  BY <1>1, LireGarde
<1>3. Arrivee'
  BY <1>1, <1>2 DEF IInv, Arrivee, LAST
<1>4. Position'
  <2>1. PICK k \in 0 .. Len(lignes) : Place(k)
    BY <1>1 DEF IInv, Position, Regulier
  <2>2. Place(k)'
    BY <1>1, <1>2, <2>1 DEF Place
  <2> QED
    BY <1>2, <2>2 DEF Position
<1> QED
  BY <1>1, <1>3, <1>4, LireIInv DEF IInv, TypeOK

(* A line that readLine() gives is the next one.                           *)
LEMMA JavaLitIInv ==
  ASSUME IInv, Java, NEW suite, NEW n \in Nat, JavaLit(suite, n),
         \/ prog = "LastJava" /\ suite = "suite"
         \/ prog = "ListJava" /\ suite = "items" /\ pc = "debut" /\ n = nb
         \/ prog = "ListJava" /\ suite = "items" /\ pc = "items" /\ n = reste - 1
  PROVE  IInv'
<1>1. UNCHANGED varsSrv /\ pc' = suite /\ reste' = n
  BY DEF JavaLit
<1>2. /\ LAST' = LAST /\ Listeur' = Listeur /\ Regulier' = Regulier /\ Emis' = Emis /\ prog' = prog /\ srv' = srv
      /\ nb' = nb /\ lignes' = lignes /\ \A i \in 0 .. Len(lignes) : Fin(i)' = Fin(i)
  BY <1>1, LireGarde
<1>3. Len(lignes) \in Nat /\ nb \in Nat /\ reste \in Nat
  BY FinType, NbType DEF IInv
<1>4. PICK k \in 0 .. Len(lignes) : Place(k)
  BY DEF IInv, Position, Regulier
<1>5. PICK i \in 1 .. Len(lignes) : i \in ReadLine /\ recus' = Fin(i)
  BY DEF JavaLit, ReadLine
<1>6. i = k + 1 /\ i \in 0 .. Len(lignes)
  BY <1>3, <1>4, <1>5, ReadLineSuivante DEF Place
<1>7. recus' \in 0 .. Emis
  BY <1>6, <1>5, FinEmis, FinType DEF IInv
<1>8. Arrivee'
  BY <1>1, <1>2 DEF Arrivee, LAST, Listeur
<1>9. prog = "ListJava" => reste' = nb - (i - 1)
  <2>1. CASE prog = "ListJava" /\ pc = "debut" /\ n = nb
    <3>1. k = 0
      BY <1>4, <2>1 DEF Place, Listeur
    <3> QED
      BY <1>1, <1>3, <1>6, <2>1, <3>1
  <2>2. CASE prog = "ListJava" /\ pc = "items" /\ n = reste - 1
    <3>1. k # Len(lignes)
      BY <1>3, <1>6
    <3>2. reste = nb - (k - 1)
      BY <1>4, <2>2, <3>1 DEF Place, Listeur
    <3> QED
      BY <1>1, <1>3, <1>6, <2>2, <3>2
  <2> QED
    BY <2>1, <2>2
<1>10. Position'
  <2>1. Place(i)'
    BY <1>1, <1>2, <1>5, <1>6, <1>9 DEF Place, Listeur
  <2> QED
    BY <1>2, <1>6, <2>1 DEF Position
<1> QED
  BY <1>1, <1>7, <1>8, <1>10, LireIInv

(* At the end of the stream a Java program has read everything.            *)
LEMMA NullFin ==
  ASSUME IInv, Java, Null
  PROVE  srv = "ferme" /\ recus = Emis /\ Place(Len(lignes)) /\ Len(lignes) \in 0 .. Len(lignes)
<1>1. PICK k \in 0 .. Len(lignes) : Place(k)
  BY DEF IInv, Position, Regulier
<1>2. k = Len(lignes) /\ srv = "ferme"
  BY <1>1, ReadLineSuivante DEF Null, Place
<1> QED
  BY <1>1, <1>2, FinType DEF IInv, Place

(* The null of LAST comes at the end of the answer.                        *)
LEMMA LastJavaFinIInv == IInv /\ LastJavaFin => IInv'
<1> SUFFICES ASSUME IInv, LastJavaFin PROVE IInv'
  OBVIOUS
<1>1. UNCHANGED <<varsSrv, recus, reste>> /\ pc' = "fini" /\ prog = "LastJava" /\ Java /\ Null /\ ~ Listeur
  BY DEF LastJavaFin, FinDeFlux, Java, Listeur
<1>2. /\ LAST' = LAST /\ Listeur' = Listeur /\ Regulier' = Regulier /\ Emis' = Emis /\ prog' = prog /\ srv' = srv
      /\ nb' = nb /\ lignes' = lignes /\ \A i \in 0 .. Len(lignes) : Fin(i)' = Fin(i)
  BY <1>1, LireGarde
<1>3. srv = "ferme" /\ recus = Emis
  BY <1>1, NullFin
<1>4. Arrivee'
  BY <1>1, <1>2, <1>3 DEF Arrivee
<1>5. Position'
  <2>1. PICK k \in 0 .. Len(lignes) : Place(k)
    BY <1>1 DEF IInv, Position, Regulier
  <2>2. Place(k)'
    BY <1>1, <1>2, <2>1 DEF Place
  <2> QED
    BY <1>2, <2>2 DEF Position
<1> QED
  BY <1>1, <1>4, <1>5, LireIInv DEF IInv, TypeOK

(* Each turn of the Java loop takes one entry, or a null.                  *)
LEMMA ListJavaItemIInv == IInv /\ ListJavaItem => IInv'
<1> SUFFICES ASSUME IInv, ListJavaItem PROVE IInv'
  OBVIOUS
<1>1. prog = "ListJava" /\ Java /\ Listeur /\ pc = "items" /\ reste > 0 /\ ~ LAST
  BY DEF ListJavaItem, Java, Listeur, LAST
<1>2. reste \in Nat
  BY NbType DEF IInv
<1>3. reste - 1 \in Nat
  BY <1>1, <1>2
<1>4. CASE JavaLit("items", reste - 1)
  <2>1. PICK n \in Nat : n = reste - 1 /\ JavaLit("items", n)
    BY <1>3, <1>4
  <2> QED
    BY <1>1, <2>1, JavaLitIInv
<1>5. CASE Null /\ reste' = reste - 1 /\ UNCHANGED <<varsSrv, recus, pc>>
  <2>1. /\ LAST' = LAST /\ Listeur' = Listeur /\ Regulier' = Regulier /\ Emis' = Emis /\ prog' = prog /\ srv' = srv
        /\ nb' = nb /\ lignes' = lignes /\ \A i \in 0 .. Len(lignes) : Fin(i)' = Fin(i)
    BY <1>5, LireGarde
  <2>2. srv = "ferme" /\ Place(Len(lignes)) /\ Len(lignes) \in 0 .. Len(lignes)
    BY <1>1, <1>5, NullFin
  <2>3. Arrivee'
    BY <1>1, <1>5, <2>1 DEF Arrivee, LAST
  <2>4. Position'
    <3>1. PICK k \in 0 .. Len(lignes) : k = Len(lignes) /\ Place(k)
      BY <2>2
    <3>2. Place(k)'
      BY <1>1, <1>5, <2>1, <2>2, <3>1 DEF Place
    <3> QED
      BY <2>1, <3>2 DEF Position
  <2> QED
    BY <1>1, <1>3, <1>5, <2>3, <2>4, LireIInv DEF IInv, TypeOK
<1> QED
  BY <1>4, <1>5 DEF ListJavaItem

(* Every step of a client.                                                 *)
LEMMA ClientIInv == IInv /\ Client => IInv'
<1> SUFFICES ASSUME IInv, Client PROVE IInv'
  OBVIOUS
<1>1. nb \in Nat /\ reste \in Nat
  BY NbType DEF IInv
<1>2. CASE LastJava
  <2>1. PICK n \in Nat : JavaLit("suite", n)
    BY <1>1, <1>2 DEF LastJava
  <2>2. prog = "LastJava" /\ Java
    BY <1>2 DEF LastJava, Java
  <2> QED
    BY <2>1, <2>2, JavaLitIInv
<1>3. CASE ListJavaEntete
  <2>1. PICK n \in Nat : n = nb /\ JavaLit("items", n)
    BY <1>1, <1>3 DEF ListJavaEntete
  <2>2. prog = "ListJava" /\ Java /\ pc = "debut"
    BY <1>3 DEF ListJavaEntete, Java
  <2> QED
    BY <2>1, <2>2, JavaLitIInv
<1> QED
  BY <1>2, <1>3, LastCIInv, ListCEnteteIInv, ListAltEnteteIInv, ListCItemIInv, ListFinIInv, JavaMeurtIInv,
     LastJavaFinIInv, ListJavaItemIInv DEF Client

-----------------------------------------------------------------------------
(* The theorems.                                                           *)

(* The invariant holds at the start.                                       *)
LEMMA InitIInv == Init => IInv
<1> SUFFICES ASSUME Init PROVE IInv
  OBVIOUS
<1>1. lignes = <<>> /\ Len(lignes) = 0 /\ recus = 0 /\ pc = "debut" /\ reste = 0
  BY DEF Init
<1>2. nb \in Dus /\ nb \in Nat
  <2>1. MaxLignes \in Nat /\ Annuaires \subseteq 0 .. 99
    BY ReceptionAssumption
  <2> QED
    BY <2>1 DEF Init, Dus
<1>3. Emis = 0 /\ Fin(0) = 0
  BY <1>1 DEF Emis, Fin
<1>4. TypeOK
  BY <1>1, <1>2, <1>3, EmptySeq DEF Init, TypeOK
<1>5. Croissance /\ Tailles
  BY <1>1 DEF Croissance, Tailles
<1>6. Avancement
  BY <1>1, <1>2 DEF Init, Avancement
<1>7. Position
  <2>1. Place(0) /\ 0 \in 0 .. Len(lignes)
    BY <1>1, <1>3 DEF Place
  <2> QED
    BY <2>1 DEF Position
<1>8. Arrivee
  BY <1>1 DEF Arrivee
<1> QED
  BY <1>4, <1>5, <1>6, <1>7, <1>8 DEF IInv

(* Every step keeps the invariant.                                         *)
LEMMA NextIInv == IInv /\ [Next]_vars => IInv'
<1> SUFFICES ASSUME IInv, [Next]_vars PROVE IInv'
  OBVIOUS
<1>1. CASE UNCHANGED vars
  <2>1. UNCHANGED <<varsSrv, recus, pc, reste>>
    BY <1>1 DEF vars, varsCli
  <2>2. /\ LAST' = LAST /\ Listeur' = Listeur /\ Regulier' = Regulier /\ Emis' = Emis /\ prog' = prog /\ srv' = srv
        /\ nb' = nb /\ lignes' = lignes /\ \A i \in 0 .. Len(lignes) : Fin(i)' = Fin(i)
    BY <2>1, LireGarde
  <2>3. Arrivee'
    BY <2>1, <2>2 DEF IInv, Arrivee
  <2>4. \A k \in 0 .. Len(lignes) : Place(k) => Place(k)'
    BY <2>1, <2>2 DEF Place
  <2>5. Position'
    BY <2>2, <2>4 DEF IInv, Position
  <2> QED
    BY <2>1, <2>3, <2>5, LireIInv DEF IInv, TypeOK
<1> QED
  BY <1>1, ServeurIInv, ClientIInv DEF Next, Termine

(* The invariant holds in every state.                                     *)
LEMMA SpecIInv == Spec => []IInv
BY InitIInv, NextIInv, PTL DEF Spec

(* Every variable keeps the values the programs can give it; in particular *)
(* no program reads what was not written.                                  *)
THEOREM SpecTypeOK == Spec => []TypeOK
<1>1. IInv => TypeOK
  BY DEF IInv
<1> QED
  BY <1>1, SpecIInv, PTL

(* A client that closes its socket has read the whole answer, for any      *)
(* number of lines of LAST and any directory of at most 99 entries,        *)
(* whatever removals and stops of the server do, and but for list of       *)
(* client.c whatever the network does; list of client_alt.c is left out    *)
(* (client.c:104-112, Client.java:80-86, Client.java:143).                 *)
THEOREM SpecRienNonLu == Spec => []RienNonLu
<1>1. IInv => RienNonLu
  <2> SUFFICES ASSUME IInv, pc = "fini", prog # "ListAlt", prog = "ListC" => "segments" \notin aleas
               PROVE  recus = Emis
    BY DEF RienNonLu
  <2>1. CASE prog \in {"LastC", "LastJava"}
    BY <2>1 DEF IInv, Arrivee
  <2>2. CASE prog \in {"ListC", "ListJava"}
    <3>1. Listeur /\ Regulier /\ ~ LAST
      BY <2>2 DEF Listeur, Regulier, Java, LAST
    <3>2. PICK k \in 0 .. Len(lignes) : Place(k)
      BY <3>1 DEF IInv, Position
    <3>3. nb \in Nat /\ Len(lignes) \in Nat /\ Emis = Fin(Len(lignes))
      BY FinType, NbType DEF IInv
    <3>4. Len(lignes) <= nb + 1 /\ reste = 0
      BY <3>1 DEF IInv, Avancement, Arrivee
    <3>5. k = Len(lignes)
      BY <3>1, <3>2, <3>3, <3>4 DEF Place
    <3> QED
      BY <3>2, <3>3, <3>5 DEF Place
  <2>3. prog \in {"LastC", "LastJava", "ListC", "ListJava"}
    BY ReceptionAssumption DEF IInv, TypeOK
  <2> QED
    BY <2>1, <2>2, <2>3
<1> QED
  BY <1>1, SpecIInv, PTL

(* Each recv() of client.c ends where a line ends when lines have the      *)
(* lengths of its buffers and come whole, however late it is               *)
(* (client.c:104-112, client.c:138-146).                                   *)
THEOREM SpecFinDeLigne == Spec => []FinDeLigne
<1>1. IInv => FinDeLigne
  <2> SUFFICES ASSUME IInv, prog \in {"LastC", "ListC"}, aleas \cap {"segments", "accents"} = {}
               PROVE  \E i \in 0 .. Len(lignes) : recus = Fin(i)
    BY DEF FinDeLigne
  <2>1. Regulier
    BY DEF Regulier
  <2> QED
    BY <2>1 DEF IInv, Position, Place
<1> QED
  BY <1>1, SpecIInv, PTL

=============================================================================
