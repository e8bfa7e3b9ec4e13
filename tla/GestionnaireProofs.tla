------------------------- MODULE GestionnaireProofs -------------------------
(***************************************************************************)
(* Proofs about Gestionnaire, for every set of registrations and of        *)
(* connections and every maxDiff: the directory stays without duplicate    *)
(* and within its bound, and keeps the promise of Annuaire.                *)
(***************************************************************************)
EXTENDS Gestionnaire, SequenceTheorems, FiniteSetTheorems, TLAPS

(* What remove() leaves of a list without duplicates.                      *)
LEMMA OterProprietes ==
  ASSUME NEW S, NEW p \in Seq(S), NEW d, SansDoublon(p)
  PROVE  /\ Oter(p, d) \in Seq(S) /\ SansDoublon(Oter(p, d))
         /\ ToSet(Oter(p, d)) = ToSet(p) \ {d}
         /\ Oter(p, d) = p \/ Len(Oter(p, d)) < Len(p)
<1>0. Len(p) \in Nat /\ DOMAIN p = 1 .. Len(p) /\ \A j \in 1 .. Len(p) : p[j] \in S
  BY ElementOfSeq, LenProperties
<1>1. CASE ~ \E i \in 1 .. Len(p) : p[i] = d
  <2>1. Oter(p, d) = p
    BY <1>1 DEF Oter, RemoveFirst
  <2>2. d \notin ToSet(p)
    BY <1>0, <1>1 DEF ToSet
  <2> QED
    BY <2>1, <2>2
<1>2. CASE \E i \in 1 .. Len(p) : p[i] = d
  <2>1. PICK i \in 1 .. Len(p) : p[i] = d
    BY <1>2
  <2>2. {j \in 1 .. Len(p) : p[j] = d} = {i}
    BY <2>1 DEF SansDoublon
  <2>3. SelectInSeq(p, LAMBDA v : v = d) = i
    BY <2>2, <1>0, <2>1 DEF SelectInSeq, Min
  <2>4. Oter(p, d) = SubSeq(p, 1, i - 1) \o SubSeq(p, i + 1, Len(p))
    BY <1>2, <2>3 DEF Oter, RemoveFirst, RemoveAt
  <2> DEFINE a == SubSeq(p, 1, i - 1)
             b == SubSeq(p, i + 1, Len(p))
  <2>5. a \in Seq(S) /\ Len(a) = i - 1 /\ \A j \in 1 .. i - 1 : a[j] = p[j]
    BY <1>0, SubSeqProperties
  <2>6. b \in Seq(S) /\ Len(b) = Len(p) - i /\ \A j \in 1 .. Len(p) - i : b[j] = p[i + j]
    <3>1. /\ b \in Seq(S)
          /\ Len(b) = IF i + 1 <= Len(p) THEN Len(p) - (i + 1) + 1 ELSE 0
          /\ \A j \in 1 .. Len(p) - (i + 1) + 1 : b[j] = p[(i + 1) + j - 1]
      <4>1. i + 1 \in Int /\ Len(p) \in Int /\ \A j \in i + 1 .. Len(p) : p[j] \in S
        BY <1>0
      <4> QED
        BY <4>1, SubSeqProperties
    <3>2. \A j \in 1 .. Len(p) - i : (i + 1) + j - 1 = i + j
      OBVIOUS
    <3>3. Len(p) - (i + 1) + 1 = Len(p) - i
      BY <1>0
    <3> HIDE DEF b
    <3>4. Len(b) = Len(p) - i
      <4>1. CASE i + 1 <= Len(p)
        BY <3>1, <3>3, <4>1
      <4>2. CASE ~ (i + 1 <= Len(p))
        <5>1. Len(b) = 0
          BY <3>1, <4>2, Zenon
        <5>2. Len(p) - i = 0
          <6>1. Len(p) \in Int /\ i \in Int /\ i <= Len(p)
            BY <1>0
          <6> QED
            BY <4>2, <6>1
        <5> QED
          BY <5>1, <5>2
      <4> QED
        BY <4>1, <4>2
    <3> QED
      BY <3>1, <3>2, <3>3, <3>4
  <2> HIDE DEF a, b
  <2>7. /\ a \o b \in Seq(S) /\ Len(a \o b) = Len(a) + Len(b)
        /\ \A j \in 1 .. Len(a) + Len(b) : (a \o b)[j] = IF j <= Len(a) THEN a[j] ELSE b[j - Len(a)]
    BY <2>5, <2>6, ConcatProperties
  <2>8. PICK r : r = a \o b
    OBVIOUS
  <2>9. r \in Seq(S) /\ Len(r) = Len(p) - 1 /\ DOMAIN r = 1 .. Len(p) - 1
    <3>1. r \in Seq(S) /\ Len(r) = Len(a) + Len(b)
      BY <2>7, <2>8
    <3>2. Len(a) + Len(b) = Len(p) - 1
      BY <1>0, <2>5, <2>6
    <3> QED
      BY <3>1, <3>2, LenProperties
  <2>10. \A j \in 1 .. Len(p) - 1 : r[j] = IF j < i THEN p[j] ELSE p[j + 1]
    BY <1>0, <2>5, <2>6, <2>7, <2>8
  <2>11. SansDoublon(r)
    BY <1>0, <2>9, <2>10 DEF SansDoublon
  <2>12. ToSet(r) = ToSet(p) \ {d}
    <3>1. ASSUME NEW j \in 1 .. Len(p) - 1 PROVE r[j] \in ToSet(p) \ {d}
      BY <1>0, <2>1, <2>10 DEF ToSet, SansDoublon
    <3>2. ASSUME NEW j \in 1 .. Len(p), p[j] # d PROVE p[j] \in ToSet(r)
      <4>1. CASE j < i
        BY <1>0, <2>9, <2>10, <4>1 DEF ToSet
      <4>2. CASE i < j
        <5>1. j - 1 \in 1 .. Len(p) - 1 /\ r[j - 1] = p[j]
          BY <1>0, <2>10, <4>2
        <5> QED
          BY <2>9, <5>1 DEF ToSet
      <4> QED
        BY <2>1, <3>2, <4>1, <4>2
    <3> QED
      BY <1>0, <2>9, <3>1, <3>2 DEF ToSet
  <2>13. Oter(p, d) = r
    BY <2>4, <2>8 DEF a, b
  <2> QED
    BY <1>0, <2>9, <2>11, <2>12, <2>13
<1> QED
  BY <1>1, <1>2

(* A list shows no more registrations than it has cells.                   *)
LEMMA CardinaliteListe ==
  ASSUME NEW S, NEW p \in Seq(S)
  PROVE  IsFiniteSet(ToSet(p)) /\ Cardinality(ToSet(p)) <= Len(p)
<1> DEFINE f == [i \in 1 .. Len(p) |-> p[i]]
<1>1. Len(p) \in Nat /\ DOMAIN p = 1 .. Len(p)
  BY LenProperties
<1>2. f \in Surjection(1 .. Len(p), ToSet(p))
  BY <1>1 DEF Surjection, ToSet
<1>3. IsFiniteSet(1 .. Len(p)) /\ Cardinality(1 .. Len(p)) = Len(p)
  <2>1. /\ IsFiniteSet(1 .. Len(p))
        /\ Cardinality(1 .. Len(p)) = IF 1 > Len(p) THEN 0 ELSE Len(p) - 1 + 1
    BY <1>1, FS_Interval
  <2> QED
    BY <1>1, <2>1
<1> HIDE DEF f
<1> QED
  BY <1>2, <1>3, FS_Surjection

-----------------------------------------------------------------------------
(* The inductive invariant.                                                *)

Liste == {"linb", "items", "suivant"}

(* A thread in its critical section owns the monitor.                      *)
Exclusion == \A c \in Connexions : com[c] \in Liste \cup {"lit"} => verrou = c

(* Nothing is written, nobody polled, before the request is served.        *)
Avant ==
  \A c \in Connexions :
    com[c] \in {"absent", "pret", "lit"} => envoye[c] = <<>> /\ ruok[c] = "absent"

(* The request a thread serves is the one its state is about, and it will  *)
(* not change.                                                             *)
Nature ==
  \A c \in Connexions :
    /\ ruok[c] # "absent" => ligne[c].cmd = "REGI"
    /\ com[c] \in Liste => ligne[c].cmd = "LIST"
    /\ com[c] = "fini" /\ ligne[c] = Rien => pair[c] = "parti"

(* LIST starts with its header, and the list only shrinks meanwhile.       *)
Entete ==
  \A c \in Connexions :
    /\ com[c] = "linb" => Len(envoye[c]) = 1 /\ Len(annuaire) <= envoye[c][1].nb
    /\ ligne[c].cmd = "LIST" /\ com[c] \in Liste \cup {"fini"} =>
         /\ Len(envoye[c]) >= 1
         /\ envoye[c][1] \in [cle : {"LINB"}, nb : Nat]

(* While the iterator is open the list is at most its view, and next() is  *)
(* called on an unchanged list only if an entry is left.                   *)
Parcours ==
  \A c \in Connexions : com[c] \in {"items", "suivant"} =>
    /\ Len(annuaire) <= Len(vue[c]) /\ SansDoublon(vue[c])
    /\ com[c] = "suivant" /\ annuaire = vue[c] => Curseur(c) < Len(vue[c])

IInv ==
  /\ TypeOK /\ AnnuaireSain /\ Exclusion /\ Avant /\ Nature
  /\ Entete /\ Parcours /\ ItemsDUneVue

-----------------------------------------------------------------------------
(* IInv holds initially and every step keeps it.                           *)

LEMMA InitIInv == Init => IInv
<1> SUFFICES ASSUME Init PROVE IInv
  OBVIOUS
<1> USE DEF Init
<1>1. <<>> \in Seq(Difs) /\ <<>> \in Seq(Ligne) /\ Len(annuaire) = 0
  BY EmptySeq
<1>2. TypeOK
  BY <1>1 DEF TypeOK
<1>3. AnnuaireSain
  BY <1>1, GestionnaireAssumption DEF AnnuaireSain, SansDoublon
<1> QED
  BY <1>2, <1>3 DEF IInv, Exclusion, Avant, Nature, Entete, Parcours, ItemsDUneVue, Liste, Rien

(* What a line may be.                                                     *)
LEMMA LignesType ==
  /\ RENO \in Ligne /\ REOK \in Ligne /\ ERREUR \in Ligne
  /\ \A n \in Nat : LINB(n) \in Ligne /\ LINB(n) \in [cle : {"LINB"}, nb : Nat] /\ LINB(n).nb = n
  /\ \A d \in Difs : ITEM(d) \in Ligne
BY DEF RENO, REOK, ERREUR, LINB, ITEM, Ligne

(* A request to register names a registration, and no request is Rien.     *)
LEMMA RequetesType ==
  /\ \A r \in Requete \cup {Rien} : r.cmd = "REGI" => r.dif \in Difs
  /\ \A r \in Requete : r # Rien
BY DEF Requete, Rien

(* A thread that answers, other than to LIST, leaves the invariant to the  *)
(* directory it leaves behind.                                             *)
LEMMA RepondreIInv ==
  ASSUME IInv, NEW c \in Connexions, NEW cmd \in {"REGI", "AUTRE"}, Lu(c, cmd),
         NEW l \in Ligne, NEW b \in BOOLEAN, Repondre(c, l, b),
         annuaire' \in Seq(Difs), AnnuaireSain',
         \/ ruok' = ruok
         \/ cmd = "REGI" /\ ruok' = [ruok EXCEPT ![c] = "demande"]
  PROVE  IInv'
<1> USE DEF IInv, Lu, Repondre, Rendre, varsPair
<1>1. Append(envoye[c], l) \in Seq(Ligne)
  BY AppendProperties DEF TypeOK
<1>2. TypeOK'
  BY <1>1 DEF TypeOK
<1>3. ligne[c] # Rien /\ ligne[c].cmd # "LIST"
  BY DEF Rien
<1>4. \A x \in Connexions : com'[x] \notin Liste \cup {"lit"}
  BY GestionnaireAssumption DEF TypeOK, Exclusion, Liste
<1>5. \A x \in Connexions \ {c} : envoye'[x] = envoye[x] /\ ruok'[x] = ruok[x] /\ com'[x] = com[x]
  BY DEF TypeOK
<1>6. com'[c] = "fini" /\ ligne' = ligne /\ pair' = pair /\ vue' = vue
  BY DEF TypeOK
<1>7. Exclusion' /\ Parcours'
  BY <1>4 DEF Exclusion, Parcours, Liste
<1>8. Avant' /\ Nature'
  BY <1>3, <1>4, <1>5, <1>6 DEF Avant, Nature, Liste, TypeOK
<1>9. Entete'
  BY <1>3, <1>4, <1>5, <1>6 DEF Entete, Liste
<1>10. ItemsDUneVue'
  BY <1>3, <1>5, <1>6 DEF ItemsDUneVue, Curseur
<1> QED
  BY <1>2, <1>7, <1>8, <1>9, <1>10

(* A thread that leaves the monitor with no more lines.                    *)
LEMMA SortirIInv ==
  ASSUME IInv, NEW c \in Connexions, Rendre(c),
         \/ com[c] = "lit" /\ ligne[c] = Rien /\ pair[c] = "parti"
         \/ Lu(c, "COURT")
         \/ com[c] \in {"items", "suivant"},
         com' = [com EXCEPT ![c] = "fini"],
         ferme' \in [Connexions -> BOOLEAN],
         UNCHANGED <<annuaire, ruok, vue, envoye, varsPair>>
  PROVE  IInv'
<1> USE DEF IInv, Lu, Rendre, varsPair
<1>1. TypeOK' /\ AnnuaireSain'
  BY DEF TypeOK, AnnuaireSain
<1>2. \A x \in Connexions : com'[x] \notin Liste \cup {"lit"}
  BY GestionnaireAssumption DEF TypeOK, Exclusion, Liste
<1>3. com'[c] = "fini" /\ \A x \in Connexions \ {c} : com'[x] = com[x]
  BY DEF TypeOK
<1>4. Exclusion' /\ Parcours'
  BY <1>2 DEF Exclusion, Parcours, Liste
<1>5. Avant' /\ Nature'
  BY <1>2, <1>3 DEF Avant, Nature, Liste, Rien
<1>6. ligne[c].cmd # "LIST" \/ com[c] \in {"items", "suivant"}
  BY DEF Rien
<1>7. Entete'
  BY <1>2, <1>3, <1>6 DEF Entete, Liste
<1>8. ItemsDUneVue'
  BY <1>3, <1>6 DEF ItemsDUneVue, Curseur
<1> QED
  BY <1>1, <1>4, <1>5, <1>7, <1>8

LEMMA NextIInv == IInv /\ [Next]_vars => IInv'
<1> SUFFICES ASSUME IInv, [Next]_vars PROVE IInv'
  OBVIOUS
<1>0. Len(annuaire) \in Nat /\ maxDiff \in Nat \ {0} /\ Libre \notin Connexions
  BY GestionnaireAssumption, LenProperties DEF IInv, TypeOK
<1> USE DEF IInv
<1>1. ASSUME NEW c \in Connexions, Accepter(c) PROVE IInv'
  <2>1. TypeOK' /\ AnnuaireSain'
    BY <1>1 DEF Accepter, TypeOK, AnnuaireSain, varsPair
  <2> QED
    BY <1>1, <2>1 DEF Accepter, varsPair, TypeOK, Exclusion, Avant, Nature, Entete, Parcours, ItemsDUneVue, Liste, Curseur
<1>2. ASSUME NEW c \in Connexions, Entrer(c) PROVE IInv'
  <2>1. TypeOK' /\ AnnuaireSain'
    BY <1>2 DEF Entrer, TypeOK, AnnuaireSain, varsPair
  <2>2. Exclusion'
    BY <1>0, <1>2 DEF Entrer, TypeOK, Exclusion, Liste
  <2> QED
    BY <1>2, <2>1, <2>2 DEF Entrer, varsPair, TypeOK, Avant, Nature, Entete, Parcours, ItemsDUneVue, Liste, Curseur
<1>3. ASSUME NEW c \in Connexions, REGIPlein(c) PROVE IInv'
  <2>1. AnnuaireSain' /\ annuaire' \in Seq(Difs)
    BY <1>3 DEF REGIPlein, AnnuaireSain, TypeOK
  <2> QED
    BY <1>3, <2>1, LignesType, RepondreIInv DEF REGIPlein
<1>4. ASSUME NEW c \in Connexions, REGIDoublon(c) PROVE IInv'
  <2>1. AnnuaireSain' /\ annuaire' \in Seq(Difs)
    BY <1>4 DEF REGIDoublon, AnnuaireSain, TypeOK
  <2> QED
    BY <1>4, <2>1, LignesType, RepondreIInv DEF REGIDoublon
<1>5. ASSUME NEW c \in Connexions, REGI(c) PROVE IInv'
  <2> DEFINE d == ligne[c].dif
  <2>1. d \in Difs /\ annuaire' = Append(annuaire, d) /\ Len(annuaire) # maxDiff
    BY <1>5, RequetesType DEF REGI, Lu, TypeOK, Plein
  <2>2. \A i \in 1 .. Len(annuaire) : annuaire[i] # d
    BY <1>5 DEF REGI, Inscrit, Contains
  <2>3. /\ annuaire' \in Seq(Difs) /\ Len(annuaire') = Len(annuaire) + 1
        /\ \A i \in 1 .. Len(annuaire) : annuaire'[i] = annuaire[i]
        /\ annuaire'[Len(annuaire) + 1] = d
    BY <2>1, AppendProperties DEF TypeOK
  <2>4. AnnuaireSain'
    <3>1. Len(annuaire') <= maxDiff
      BY <1>0, <2>1, <2>3 DEF AnnuaireSain
    <3>2. SansDoublon(annuaire')
      BY <1>0, <2>2, <2>3 DEF SansDoublon, AnnuaireSain
    <3> QED
      BY <3>1, <3>2 DEF AnnuaireSain, SansDoublon
  <2> QED
    BY <1>5, <2>3, <2>4, LignesType, RepondreIInv DEF REGI
<1>6. ASSUME NEW c \in Connexions, LIST(c) PROVE IInv'
  <2> DEFINE l == LINB(Len(annuaire))
  <2>1. l \in Ligne /\ l \in [cle : {"LINB"}, nb : Nat] /\ l.nb = Len(annuaire)
    BY <1>0, LignesType
  <2>2. com[c] = "lit" /\ ligne[c].cmd = "LIST" /\ envoye[c] = <<>> /\ ruok[c] = "absent"
    BY <1>6 DEF LIST, Lu, Avant
  <2>3. /\ envoye'[c] = Append(<<>>, l) /\ com'[c] = "linb"
        /\ \A x \in Connexions \ {c} : envoye'[x] = envoye[x] /\ com'[x] = com[x]
        /\ UNCHANGED <<annuaire, ruok, ferme, verrou, vue, pair, ligne, imok>>
    BY <1>6, <2>2 DEF LIST, TypeOK, varsPair
  <2> HIDE DEF l
  <2>4. envoye'[c] \in Seq(Ligne) /\ Len(envoye'[c]) = 1 /\ envoye'[c][1] = l
    BY <2>1, <2>3
  <2>5. TypeOK' /\ AnnuaireSain'
    <3>1. envoye' \in [Connexions -> Seq(Ligne)] /\ com' \in [Connexions -> {"absent", "pret", "lit", "linb", "items", "suivant", "fini"}]
      BY <1>6, <2>3, <2>4 DEF LIST, TypeOK
    <3> QED
      BY <2>3, <3>1 DEF TypeOK, AnnuaireSain
  <2>6. Exclusion' /\ Avant' /\ Nature' /\ Parcours'
    BY <2>2, <2>3 DEF Exclusion, Avant, Nature, Parcours, Liste, Curseur
  <2>7. Entete'
    <3>1. Len(envoye'[c]) = 1 /\ Len(annuaire') <= envoye'[c][1].nb /\ envoye'[c][1] \in [cle : {"LINB"}, nb : Nat]
      BY <1>0, <2>1, <2>3, <2>4
    <3>2. ASSUME NEW x \in Connexions \ {c}
          PROVE  /\ com'[x] = "linb" => Len(envoye'[x]) = 1 /\ Len(annuaire') <= envoye'[x][1].nb
                 /\ ligne'[x].cmd = "LIST" /\ com'[x] \in Liste \cup {"fini"} =>
                      Len(envoye'[x]) >= 1 /\ envoye'[x][1] \in [cle : {"LINB"}, nb : Nat]
      BY <2>3 DEF Entete
    <3>3. Len(envoye'[c]) >= 1
      BY <3>1
    <3> QED
      BY <3>1, <3>2, <3>3 DEF Entete
  <2>8. ItemsDUneVue'
    BY <2>3 DEF ItemsDUneVue, Curseur
  <2> QED
    BY <2>5, <2>6, <2>7, <2>8
<1>7. ASSUME NEW c \in Connexions, Iterer(c) PROVE IInv'
  <2>1. /\ com[c] = "linb" /\ com'[c] = "items" /\ vue'[c] = annuaire
        /\ \A x \in Connexions \ {c} : vue'[x] = vue[x] /\ com'[x] = com[x]
        /\ UNCHANGED <<annuaire, ruok, ferme, verrou, envoye, pair, ligne, imok>>
    BY <1>7 DEF Iterer, TypeOK, varsPair
  <2>2. TypeOK' /\ AnnuaireSain'
    BY <1>7 DEF Iterer, TypeOK, AnnuaireSain, varsPair
  <2>3. Exclusion' /\ Avant' /\ Nature' /\ Entete'
    BY <2>1 DEF Exclusion, Avant, Nature, Entete, Liste
  <2>4. Parcours'
    BY <1>0, <2>1 DEF Parcours, AnnuaireSain, Curseur
  <2>5. Curseur(c)' = 0 /\ Len(annuaire) <= envoye[c][1].nb
    BY <2>1 DEF Entete, Curseur
  <2>6. ItemsDUneVue'
    <3>1. Curseur(c)' <= Len(vue'[c]) /\ Len(vue'[c]) <= envoye'[c][1].nb /\ 1 .. Curseur(c)' = {}
      BY <1>0, <2>1, <2>5
    <3>2. \A x \in Connexions \ {c} : Curseur(x)' = Curseur(x)
      BY <2>1 DEF Curseur
    <3> QED
      BY <2>1, <3>1, <3>2 DEF ItemsDUneVue
  <2> QED
    BY <2>2, <2>3, <2>4, <2>6
<1>8. ASSUME NEW c \in Connexions, Reste(c) PROVE IInv'
  <2>1. /\ com[c] = "items" /\ com'[c] = "suivant" /\ Curseur(c) # Len(annuaire)
        /\ \A x \in Connexions \ {c} : com'[x] = com[x]
        /\ UNCHANGED <<annuaire, ruok, ferme, verrou, vue, envoye, pair, ligne, imok>>
    BY <1>8 DEF Reste, TypeOK, varsPair
  <2>2. TypeOK' /\ AnnuaireSain'
    BY <1>8 DEF Reste, TypeOK, AnnuaireSain, varsPair
  <2>3. Exclusion' /\ Avant' /\ Nature' /\ Entete'
    BY <2>1 DEF Exclusion, Avant, Nature, Entete, Liste
  <2>4. Curseur(c) <= Len(vue[c]) /\ Curseur(c) \in Int /\ Len(vue[c]) \in Nat
    BY <2>1, LenProperties DEF ItemsDUneVue, Nature, Liste, Curseur, TypeOK
  <2>5. Parcours'
    BY <2>1, <2>4 DEF Parcours, Curseur
  <2>6. ItemsDUneVue'
    BY <2>1 DEF ItemsDUneVue, Curseur
  <2> QED
    BY <2>2, <2>3, <2>5, <2>6
<1>9. ASSUME NEW c \in Connexions, Suivant(c) PROVE IInv'
  <2> DEFINE n == Len(envoye[c])
             l == ITEM(annuaire[Curseur(c) + 1])
  <2>1. /\ com[c] = "suivant" /\ com'[c] = "items" /\ annuaire = vue[c]
        /\ envoye'[c] = Append(envoye[c], l)
        /\ \A x \in Connexions \ {c} : com'[x] = com[x] /\ envoye'[x] = envoye[x]
        /\ UNCHANGED <<annuaire, ruok, ferme, verrou, vue, pair, ligne, imok>>
    BY <1>9 DEF Suivant, Intact, TypeOK, varsPair
  <2>2. n \in Nat /\ n >= 1 /\ Curseur(c) = n - 1 /\ n <= Len(annuaire) /\ ligne[c].cmd = "LIST"
    BY <1>0, <2>1, LenProperties DEF TypeOK, Parcours, Nature, Entete, Liste, Curseur
  <2>3. l = ITEM(annuaire[n]) /\ annuaire[n] \in Difs
    BY <2>2, <1>0, ElementOfSeq DEF TypeOK
  <2> HIDE DEF l
  <2>4. /\ envoye'[c] \in Seq(Ligne) /\ Len(envoye'[c]) = n + 1
        /\ \A i \in 1 .. n : envoye'[c][i] = envoye[c][i]
        /\ envoye'[c][n + 1] = l
    BY <2>1, <2>3, LignesType, AppendProperties DEF TypeOK
  <2>5. TypeOK' /\ AnnuaireSain'
    <3>1. envoye' \in [Connexions -> Seq(Ligne)]
      BY <1>9, <2>4, <2>1 DEF Suivant, TypeOK
    <3> QED
      BY <1>9, <2>1, <3>1 DEF Suivant, TypeOK, AnnuaireSain
  <2>6. Exclusion' /\ Avant' /\ Nature'
    BY <2>1 DEF Exclusion, Avant, Nature, Liste
  <2>7. envoye'[c][1] = envoye[c][1]
    BY <2>2, <2>4
  <2>8. Entete'
    BY <2>1, <2>2, <2>4, <2>7 DEF Entete, Liste
  <2>9. Parcours'
    BY <2>1 DEF Parcours, Curseur
  <2>10. ItemsDUneVue'
    <3>1. Curseur(c)' = n /\ n <= Len(vue'[c]) /\ Len(vue'[c]) <= envoye'[c][1].nb
      BY <2>1, <2>2, <2>4, <2>7 DEF Curseur, ItemsDUneVue
    <3>2. ASSUME NEW i \in 1 .. n PROVE envoye'[c][i + 1] = ITEM(vue'[c][i])
      <4>1. CASE i = n
        BY <2>1, <2>3, <2>4, <4>1
      <4>2. CASE i < n
        <5>1. \A j \in 1 .. n - 1 : envoye[c][j + 1] = ITEM(vue[c][j])
          BY <2>1, <2>2 DEF ItemsDUneVue
        <5>2. i \in 1 .. n - 1 /\ i + 1 \in 1 .. n
          BY <2>2, <4>2
        <5> QED
          BY <2>1, <2>4, <5>1, <5>2
      <4> QED
        BY <2>2, <4>1, <4>2
    <3>3. ASSUME NEW x \in Connexions \ {c}, com'[x] \in {"items", "suivant", "fini"}, ligne'[x].cmd = "LIST"
          PROVE  /\ Curseur(x)' <= Len(vue'[x])
                 /\ \A i \in 1 .. Curseur(x)' : envoye'[x][i + 1] = ITEM(vue'[x][i])
                 /\ Len(vue'[x]) <= envoye'[x][1].nb
      BY <2>1, <3>3 DEF ItemsDUneVue, Curseur
    <3> QED
      BY <3>1, <3>2, <3>3 DEF ItemsDUneVue
  <2> QED
    BY <2>5, <2>6, <2>8, <2>9, <2>10
<1>10. ASSUME NEW c \in Connexions, FinListe(c) PROVE IInv'
  <2>1. ferme' \in [Connexions -> BOOLEAN]
    BY <1>10 DEF FinListe, TypeOK
  <2> QED
    BY <1>10, <2>1, SortirIInv DEF FinListe
<1>11. ASSUME NEW c \in Connexions, AutreCommande(c) PROVE IInv'
  <2>1. AnnuaireSain' /\ annuaire' \in Seq(Difs)
    BY <1>11 DEF AutreCommande, AnnuaireSain, TypeOK
  <2> QED
    BY <1>11, <2>1, LignesType, RepondreIInv DEF AutreCommande
<1>12. ASSUME NEW c \in Connexions, Exception(c) PROVE IInv'
  <2>1. ferme' \in [Connexions -> BOOLEAN]
    BY <1>12 DEF Exception, TypeOK
  <2> QED
    BY <1>12, <2>1, SortirIInv DEF Exception
<1>13. ASSUME NEW c \in Connexions, RUOK(c) \/ Vivant(c) \/ Mort(c) \/ Fermer(c) PROVE IInv'
  <2>1. TypeOK' /\ AnnuaireSain'
    BY <1>13 DEF RUOK, Vivant, Mort, Fermer, TypeOK, AnnuaireSain, varsCom, varsPair
  <2> QED
    BY <1>13, <2>1 DEF RUOK, Vivant, Mort, Fermer, varsCom, varsPair, TypeOK, Exclusion, Avant, Nature, Entete, Parcours, ItemsDUneVue, Liste, Curseur
<1>14. ASSUME NEW c \in Connexions, Retirer(c) PROVE IInv'
  <2>1. /\ annuaire' = Oter(annuaire, ligne[c].dif)
        /\ ruok[c] = "retire" /\ ruok'[c] = "clot"
        /\ \A x \in Connexions \ {c} : ruok'[x] = ruok[x]
        /\ UNCHANGED <<verrou, com, vue, envoye, pair, ligne, imok>>
    BY <1>14 DEF Retirer, varsCom, varsPair, TypeOK
  <2>2. /\ annuaire' \in Seq(Difs) /\ SansDoublon(annuaire')
        /\ annuaire' = annuaire \/ Len(annuaire') < Len(annuaire)
    BY <2>1, OterProprietes DEF TypeOK, AnnuaireSain
  <2>3. Len(annuaire') \in Nat /\ Len(annuaire') <= Len(annuaire)
    BY <1>0, <2>2, LenProperties
  <2>4. TypeOK'
    BY <1>14, <2>2 DEF Retirer, varsCom, varsPair, TypeOK
  <2>5. AnnuaireSain'
    BY <1>0, <2>2, <2>3 DEF AnnuaireSain, SansDoublon
  <2>6. Exclusion' /\ Avant' /\ Nature'
    BY <2>1 DEF Exclusion, Avant, Nature, Liste
  <2>7. Entete'
    <3>1. ASSUME NEW x \in Connexions, com[x] = "linb" PROVE Len(annuaire') <= envoye[x][1].nb
      <4>1. envoye[x][1].nb \in Nat
        BY <3>1 DEF Entete, Nature, Liste
      <4> QED
        BY <1>0, <2>3, <3>1, <4>1 DEF Entete
    <3> QED
      BY <2>1, <3>1 DEF Entete
  <2>8. Parcours'
    <3>1. ASSUME NEW x \in Connexions, com[x] \in {"items", "suivant"}
          PROVE  /\ Len(annuaire') <= Len(vue[x]) /\ SansDoublon(vue[x])
                 /\ annuaire' = vue[x] => annuaire = vue[x]
      <4>1. Len(vue[x]) \in Nat /\ Len(annuaire) <= Len(vue[x])
        BY <3>1, LenProperties DEF TypeOK, Parcours
      <4> QED
        BY <1>0, <2>2, <2>3, <3>1, <4>1 DEF Parcours
    <3> QED
      BY <2>1, <3>1 DEF Parcours, Curseur
  <2>9. ItemsDUneVue'
    BY <2>1 DEF ItemsDUneVue, Curseur
  <2> QED
    BY <2>4, <2>5, <2>6, <2>7, <2>8, <2>9
<1>15. ASSUME NEW c \in Connexions, PairConnecte(c) \/ PairIMOK(c) \/ PairPart(c) PROVE IInv'
  <2>1. TypeOK' /\ AnnuaireSain'
    BY <1>15 DEF PairConnecte, PairIMOK, PairPart, TypeOK, AnnuaireSain, varsCom
  <2>2. /\ UNCHANGED <<annuaire, ruok, verrou, com, vue, envoye, ligne>>
        /\ \A x \in Connexions : pair[x] = "parti" => pair'[x] = "parti"
    BY <1>15 DEF PairConnecte, PairIMOK, PairPart, varsCom, TypeOK
  <2>3. Exclusion' /\ Avant' /\ Nature'
    BY <2>2 DEF Exclusion, Avant, Nature, Liste
  <2>4. Entete' /\ Parcours' /\ ItemsDUneVue'
    BY <2>2 DEF Entete, Parcours, ItemsDUneVue, Curseur
  <2> QED
    BY <2>1, <2>3, <2>4
<1>16. ASSUME NEW c \in Connexions, PairDemande(c) PROVE IInv'
  <2>1. PICK r \in Requete : ligne' = [ligne EXCEPT ![c] = r]
    BY <1>16 DEF PairDemande
  <2>2. TypeOK' /\ AnnuaireSain'
    BY <1>16, <2>1 DEF PairDemande, TypeOK, AnnuaireSain, varsCom
  <2>3. /\ ligne[c] = Rien /\ pair[c] = "connecte" /\ ligne'[c] = r
        /\ \A x \in Connexions \ {c} : ligne'[x] = ligne[x]
        /\ UNCHANGED <<annuaire, ruok, verrou, com, vue, envoye, pair>>
    BY <1>16, <2>1 DEF PairDemande, TypeOK, varsCom
  <2>4. com[c] \notin Liste \cup {"fini"} /\ ruok[c] = "absent"
    BY <2>3 DEF Nature, Rien
  <2>5. Exclusion' /\ Avant' /\ Parcours'
    BY <2>3 DEF Exclusion, Avant, Parcours, Curseur
  <2>6. Nature' /\ Entete' /\ ItemsDUneVue'
    BY <2>3, <2>4 DEF Nature, Entete, ItemsDUneVue, Curseur, Liste
  <2> QED
    BY <2>2, <2>5, <2>6
<1>17. CASE UNCHANGED vars
  BY <1>17 DEF vars, varsCom, varsPair, TypeOK, AnnuaireSain, Exclusion, Avant, Nature, Entete, Parcours, ItemsDUneVue, Curseur
<1> QED
  BY <1>1, <1>2, <1>3, <1>4, <1>5, <1>6, <1>7, <1>8, <1>9, <1>10, <1>11, <1>12, <1>13, <1>14, <1>15, <1>16, <1>17
     DEF Next, Communication, Ruok, Termine

-----------------------------------------------------------------------------

LEMMA SpecIInv == Spec => []IInv
<1>1. Init => IInv
  BY InitIInv
<1>2. IInv /\ [Next]_vars => IInv'
  BY NextIInv
<1> QED
  BY <1>1, <1>2, PTL DEF Spec

(* Every variable keeps its type.                                          *)
THEOREM SpecTypeOK == Spec => []TypeOK
<1>1. IInv => TypeOK
  BY DEF IInv
<1> QED
  BY <1>1, SpecIInv, PTL

(* The directory never exceeds maxDiff nor registers anyone twice, however *)
(* registrations and removals interleave.                                  *)
THEOREM SpecAnnuaireSain == Spec => []AnnuaireSain
<1>1. IInv => AnnuaireSain
  BY DEF IInv
<1> QED
  BY <1>1, SpecIInv, PTL

(* A listing shows the beginning of one state of the directory.            *)
THEOREM SpecItemsDUneVue == Spec => []ItemsDUneVue
<1>1. IInv => ItemsDUneVue
  BY DEF IInv
<1> QED
  BY <1>1, SpecIInv, PTL

-----------------------------------------------------------------------------
(* Gestionnaire implements Annuaire.                                       *)

Suivi(c)  == IF Surveille(c) THEN {ligne[c].dif} ELSE {}
Montre(c) == {d \in Difs : ITEM(d) \in ToSet(envoye[c])}

LEMMA AjouterVu ==
  ASSUME NEW S, NEW p \in Seq(S), NEW e \in S
  PROVE  ToSet(Append(p, e)) = ToSet(p) \cup {e}
<1>1. Len(p) \in Nat /\ DOMAIN p = 1 .. Len(p)
  BY LenProperties
<1>2. PICK q : q = Append(p, e)
  OBVIOUS
<1>3. /\ Len(q) = Len(p) + 1 /\ q \in Seq(S)
      /\ \A i \in 1 .. Len(p) : q[i] = p[i]
      /\ q[Len(p) + 1] = e
  BY <1>2, AppendProperties
<1>4. DOMAIN q = 1 .. Len(p) + 1
  BY <1>3, LenProperties
<1>5. 1 .. Len(p) + 1 = (1 .. Len(p)) \cup {Len(p) + 1}
  BY <1>1
<1> QED
  BY <1>1, <1>2, <1>3, <1>4, <1>5 DEF ToSet

(* Only an ITEM shows a registration, and it shows its own.                *)
LEMMA LignesDistinctes ==
  /\ \A d : ITEM(d) \notin {RENO, REOK, ERREUR}
  /\ \A d : ITEM(d) \notin [cle : {"LINB"}, nb : Nat]
  /\ \A d, e : ITEM(d) = ITEM(e) => d = e
  /\ REOK \notin {RENO, ERREUR} /\ REOK \notin [cle : {"LINB"}, nb : Nat]
BY DEF ITEM, RENO, REOK, ERREUR

(* A step that changes nothing the promise speaks of.                      *)
LEMMA Begaiement ==
  ASSUME UNCHANGED <<annuaire, vue>>,
         \A x \in Connexions : Suivi(x)' = Suivi(x) /\ Montre(x)' = Montre(x)
  PROVE  UNCHANGED Promesse!vars
BY DEF Promesse!vars, Suivi, Montre

(* A thread that answers shows nothing.                                    *)
LEMMA RepondreMontre ==
  ASSUME TypeOK, NEW c \in Connexions, NEW l \in Ligne, NEW b, Repondre(c, l, b),
         l \in {RENO, REOK, ERREUR}
  PROVE  /\ vue' = vue /\ ligne' = ligne
         /\ \A x \in Connexions : Montre(x)' = Montre(x)
<1>1. envoye' = [envoye EXCEPT ![c] = Append(@, l)] /\ vue' = vue /\ ligne' = ligne
  BY DEF Repondre, varsPair
<1>2. ToSet(Append(envoye[c], l)) = ToSet(envoye[c]) \cup {l}
  BY AjouterVu DEF TypeOK
<1>3. \A d \in Difs : ITEM(d) # l
  BY LignesDistinctes
<1> QED
  BY <1>1, <1>2, <1>3 DEF TypeOK, Montre

LEMMA Etape == IInv /\ [Next]_vars => [Promesse!Next]_(Promesse!vars)
<1> SUFFICES ASSUME IInv, [Next]_vars PROVE Promesse!Next \/ UNCHANGED Promesse!vars
  OBVIOUS
<1> USE DEF IInv
<1>0. Len(annuaire) \in Nat /\ DOMAIN annuaire = 1 .. Len(annuaire) /\ maxDiff \in Nat
  BY GestionnaireAssumption, LenProperties DEF TypeOK
<1>1. ASSUME NEW c \in Connexions, REGIPlein(c) \/ AutreCommande(c) PROVE UNCHANGED Promesse!vars
  <2>1. /\ UNCHANGED <<annuaire, ruok>> /\ vue' = vue /\ ligne' = ligne
        /\ \A x \in Connexions : Montre(x)' = Montre(x)
    BY <1>1, LignesType, RepondreMontre DEF REGIPlein, AutreCommande
  <2>2. \A x \in Connexions : Suivi(x)' = Suivi(x)
    BY <2>1 DEF Suivi, Surveille
  <2> QED
    BY <2>1, <2>2, Begaiement
<1>2. ASSUME NEW c \in Connexions, REGI(c) \/ REGIDoublon(c) PROVE Promesse!Next
  <2>0. PICK d : d = ligne[c].dif
    OBVIOUS
  <2>1. d \in Difs /\ com[c] = "lit" /\ ruok[c] = "absent"
    BY <1>2, <2>0, RequetesType DEF REGI, REGIDoublon, Lu, TypeOK, Avant
  <2>2. /\ vue' = vue /\ ligne' = ligne /\ ruok' = [ruok EXCEPT ![c] = "demande"]
        /\ \A x \in Connexions : Montre(x)' = Montre(x)
    BY <1>2, LignesType, RepondreMontre DEF REGI, REGIDoublon
  <2>3. /\ Suivi(c) = {} /\ Suivi(c)' = {d}
        /\ \A x \in Connexions \ {c} : Suivi(x)' = Suivi(x)
    BY <2>0, <2>1, <2>2 DEF Suivi, Surveille, TypeOK
  <2>4. [x \in Connexions |-> Suivi(x)'] = [[x \in Connexions |-> Suivi(x)] EXCEPT ![c] = {d}]
    BY <2>3
  <2>5. [x \in Connexions |-> Montre(x)'] = [x \in Connexions |-> Montre(x)]
    BY <2>2
  <2>6. CASE REGI(c)
    <3>1. d \notin ToSet(annuaire)
      BY <1>0, <2>0, <2>6 DEF REGI, Inscrit, Contains, ToSet
    <3>2. Cardinality(ToSet(annuaire)) < maxDiff
      <4>1. Len(annuaire) < maxDiff
        <5>1. Len(annuaire) # maxDiff /\ Len(annuaire) <= maxDiff
          BY <2>6 DEF REGI, Plein, AnnuaireSain
        <5>2. Len(annuaire) \in Int /\ maxDiff \in Int
          BY <1>0
        <5> QED
          BY <5>1, <5>2
      <4>2. IsFiniteSet(ToSet(annuaire)) /\ Cardinality(ToSet(annuaire)) <= Len(annuaire)
        BY CardinaliteListe DEF TypeOK
      <4>3. Cardinality(ToSet(annuaire)) \in Nat
        BY <4>2, FS_CardinalityType
      <4> HIDE DEF IInv
      <4> QED
        BY <1>0, <4>1, <4>2, <4>3
    <3>3. ToSet(annuaire') = ToSet(annuaire) \cup {d}
      BY <2>0, <2>1, <2>6, AjouterVu DEF REGI, TypeOK
    <3>4. Promesse!Cardinality(ToSet(annuaire)) = Cardinality(ToSet(annuaire))
      BY DEF Promesse!Cardinality, Cardinality
    <3>5. Promesse!Inscrire(c, d)
      BY <2>2, <2>3, <2>4, <2>5, <3>1, <3>2, <3>3, <3>4 DEF Promesse!Inscrire, Suivi, Montre
    <3> QED
      BY <2>1, <3>5 DEF Promesse!Next
  <2>7. CASE REGIDoublon(c)
    <3>1. d \in ToSet(annuaire) /\ annuaire' = annuaire
      BY <1>0, <2>0, <2>7 DEF REGIDoublon, Inscrit, Contains, ToSet
    <3>2. Promesse!Refuser(c, d)
      BY <2>2, <2>3, <2>4, <2>5, <3>1 DEF Promesse!Refuser, Suivi, Montre
    <3> QED
      BY <2>1, <3>2 DEF Promesse!Next
  <2> QED
    BY <1>2, <2>6, <2>7
<1>3. ASSUME NEW c \in Connexions, LIST(c) PROVE UNCHANGED Promesse!vars
  <2> DEFINE l == LINB(Len(annuaire))
  <2>1. l \in Ligne /\ \A d \in Difs : ITEM(d) # l
    BY <1>0, LignesType, LignesDistinctes
  <2>2. envoye' = [envoye EXCEPT ![c] = Append(@, l)] /\ UNCHANGED <<annuaire, ruok, ligne, vue>>
    BY <1>3 DEF LIST, varsPair
  <2> HIDE DEF l
  <2>3. ToSet(Append(envoye[c], l)) = ToSet(envoye[c]) \cup {l}
    BY <2>1, AjouterVu DEF TypeOK
  <2>4. \A x \in Connexions : Montre(x)' = Montre(x)
    BY <2>1, <2>2, <2>3 DEF Montre, TypeOK
  <2>5. \A x \in Connexions : Suivi(x)' = Suivi(x)
    BY <2>2 DEF Suivi, Surveille
  <2> QED
    BY <2>2, <2>4, <2>5, Begaiement
<1>4. ASSUME NEW c \in Connexions, Iterer(c) PROVE Promesse!Next
  <2>1. /\ com[c] = "linb" /\ vue' = [vue EXCEPT ![c] = annuaire]
        /\ UNCHANGED <<annuaire, ruok, ligne, envoye>>
    BY <1>4 DEF Iterer, varsPair
  <2>2. Len(envoye[c]) = 1 /\ envoye[c][1] \in [cle : {"LINB"}, nb : Nat]
    BY <2>1 DEF Entete, Nature, Liste
  <2>3. DOMAIN envoye[c] = 1 .. 1
    BY <2>2, LenProperties DEF TypeOK
  <2>4. Montre(c) = {}
    BY <2>2, <2>3, LignesDistinctes DEF Montre, ToSet
  <2>5. [x \in Connexions |-> ToSet(vue'[x])] = [[x \in Connexions |-> ToSet(vue[x])] EXCEPT ![c] = ToSet(annuaire)]
    BY <2>1 DEF TypeOK
  <2>6. [x \in Connexions |-> Suivi(x)'] = [x \in Connexions |-> Suivi(x)]
    BY <2>1 DEF Suivi, Surveille
  <2>7. [x \in Connexions |-> Montre(x)'] = [x \in Connexions |-> Montre(x)]
    BY <2>1 DEF Montre
  <2>8. Promesse!Lister(c)
    BY <2>1, <2>4, <2>5, <2>6, <2>7 DEF Promesse!Lister, Suivi, Montre
  <2> QED
    BY <2>8 DEF Promesse!Next
<1>5. ASSUME NEW c \in Connexions, Suivant(c) PROVE Promesse!Next
  <2> DEFINE n == Len(envoye[c])
             d == annuaire[n]
  <2>1. /\ com[c] = "suivant" /\ annuaire = vue[c]
        /\ envoye' = [envoye EXCEPT ![c] = Append(@, ITEM(annuaire[Curseur(c) + 1]))]
        /\ UNCHANGED <<annuaire, ruok, ligne, vue>>
    BY <1>5 DEF Suivant, Intact, varsPair
  <2>2. n \in Nat /\ n >= 1 /\ Curseur(c) = n - 1 /\ n <= Len(annuaire) /\ ligne[c].cmd = "LIST"
    BY <1>0, <2>1, LenProperties DEF TypeOK, Parcours, Nature, Entete, Liste, Curseur
  <2>3. Curseur(c) + 1 = n /\ d \in Difs /\ d \in ToSet(annuaire)
    <3>1. Curseur(c) + 1 = n /\ n \in 1 .. Len(annuaire)
      BY <1>0, <2>2
    <3>2. DOMAIN annuaire = 1 .. Len(annuaire)
      BY LenProperties DEF TypeOK
    <3>3. d \in Difs
      BY <3>1, ElementOfSeq DEF TypeOK
    <3> QED
      BY <3>1, <3>2, <3>3 DEF ToSet
  <2>4. DOMAIN envoye[c] = 1 .. n
    BY LenProperties DEF TypeOK
  <2>5. ITEM(d) # envoye[c][1]
    BY <2>1, <2>2, LignesDistinctes DEF Entete, Liste
  <2>6. ASSUME NEW j \in 1 .. n - 1 PROVE ITEM(d) # envoye[c][j + 1]
    <3>1. envoye[c][j + 1] = ITEM(annuaire[j])
      BY <2>1, <2>2 DEF ItemsDUneVue
    <3>2. annuaire[j] # d
      BY <1>0, <2>2 DEF AnnuaireSain, SansDoublon
    <3> QED
      BY <3>1, <3>2, LignesDistinctes
  <2>7. d \notin Montre(c)
    <3>1. \A i \in 1 .. n : i = 1 \/ (i - 1 \in 1 .. n - 1 /\ (i - 1) + 1 = i)
      BY <2>2
    <3>2. \A i \in 1 .. n : ITEM(d) # envoye[c][i]
      BY <2>5, <2>6, <3>1
    <3> QED
      BY <2>4, <3>2 DEF Montre, ToSet
  <2> HIDE DEF n, d
  <2>8. envoye' = [envoye EXCEPT ![c] = Append(@, ITEM(d))]
    BY <2>1, <2>3 DEF d
  <2>9. ToSet(Append(envoye[c], ITEM(d))) = ToSet(envoye[c]) \cup {ITEM(d)}
    BY <2>3, LignesType, AjouterVu DEF TypeOK
  <2>10. Montre(c)' = Montre(c) \cup {d} /\ \A x \in Connexions \ {c} : Montre(x)' = Montre(x)
    BY <2>3, <2>8, <2>9, LignesDistinctes DEF Montre, TypeOK
  <2>11. [x \in Connexions |-> Montre(x)'] = [[x \in Connexions |-> Montre(x)] EXCEPT ![c] = @ \cup {d}]
    BY <2>10
  <2>12. [x \in Connexions |-> Suivi(x)'] = [x \in Connexions |-> Suivi(x)]
    BY <2>1 DEF Suivi, Surveille
  <2>13. Promesse!Montrer(c, d)
    BY <2>1, <2>3, <2>7, <2>11, <2>12 DEF Promesse!Montrer, Suivi, Montre
  <2> QED
    BY <2>3, <2>13 DEF Promesse!Next
<1>6. ASSUME NEW c \in Connexions, Accepter(c) \/ Entrer(c) \/ Reste(c) \/ FinListe(c) \/ Exception(c)
      PROVE UNCHANGED Promesse!vars
  <2>1. UNCHANGED <<annuaire, ruok, ligne, vue, envoye>>
    BY <1>6 DEF Accepter, Entrer, Reste, FinListe, Exception, varsPair
  <2> QED
    BY <2>1, Begaiement DEF Suivi, Surveille, Montre
<1>7. ASSUME NEW c \in Connexions, RUOK(c) \/ Vivant(c) \/ Mort(c) \/ Fermer(c) PROVE UNCHANGED Promesse!vars
  <2>1. /\ UNCHANGED <<annuaire, ligne, vue, envoye>>
        /\ \A x \in Connexions : Surveille(x)' = Surveille(x)
    BY <1>7 DEF RUOK, Vivant, Mort, Fermer, varsCom, varsPair, Surveille, TypeOK
  <2> QED
    BY <2>1, Begaiement DEF Suivi, Montre
<1>8. ASSUME NEW c \in Connexions, Retirer(c) PROVE Promesse!Next
  <2>1. /\ annuaire' = Oter(annuaire, ligne[c].dif) /\ ruok[c] = "retire"
        /\ ruok' = [ruok EXCEPT ![c] = "clot"] /\ UNCHANGED <<ligne, vue, envoye>>
    BY <1>8 DEF Retirer, varsCom, varsPair
  <2>2. ToSet(annuaire') = ToSet(annuaire) \ {ligne[c].dif}
    BY <2>1, OterProprietes DEF TypeOK, AnnuaireSain
  <2>3. /\ Suivi(c) = {ligne[c].dif} /\ Suivi(c)' = {}
        /\ \A x \in Connexions \ {c} : Suivi(x)' = Suivi(x)
    BY <2>1 DEF Suivi, Surveille, TypeOK
  <2>4. [x \in Connexions |-> Suivi(x)'] = [[x \in Connexions |-> Suivi(x)] EXCEPT ![c] = {}]
    BY <2>3
  <2>5. [x \in Connexions |-> Montre(x)'] = [x \in Connexions |-> Montre(x)]
    BY <2>1 DEF Montre
  <2>6. Promesse!Desinscrire(c)
    BY <2>1, <2>2, <2>3, <2>4, <2>5 DEF Promesse!Desinscrire, Suivi, Montre
  <2> QED
    BY <2>6 DEF Promesse!Next
<1>9. ASSUME NEW c \in Connexions, PairConnecte(c) \/ PairIMOK(c) \/ PairPart(c) \/ PairDemande(c)
      PROVE UNCHANGED Promesse!vars
  <2>1. UNCHANGED <<annuaire, ruok, vue, envoye>>
    BY <1>9 DEF PairConnecte, PairIMOK, PairPart, PairDemande, varsCom
  <2>2. \A x \in Connexions : ligne'[x] = ligne[x] \/ ruok[x] = "absent"
    BY <1>9 DEF PairConnecte, PairIMOK, PairPart, PairDemande, Nature, TypeOK, Rien
  <2>3. \A x \in Connexions : Suivi(x)' = Suivi(x) /\ Montre(x)' = Montre(x)
    BY <2>1, <2>2 DEF Suivi, Surveille, Montre
  <2> QED
    BY <2>1, <2>3, Begaiement
<1>10. CASE UNCHANGED vars
  BY <1>10, Begaiement DEF vars, varsCom, varsPair, Suivi, Surveille, Montre
<1> QED
  BY <1>1, <1>2, <1>3, <1>4, <1>5, <1>6, <1>7, <1>8, <1>9, <1>10 DEF Next, Communication, Ruok, Termine

(* The manager keeps the promise of Annuaire.                              *)
THEOREM SpecPromesse == Spec => PromesseSpec
<1>1. Init => Promesse!Init
  BY DEF Init, Promesse!Init, ToSet, Surveille
<1>2. IInv /\ [Next]_vars => [Promesse!Next]_(Promesse!vars)
  BY Etape
<1> QED
  BY <1>1, <1>2, SpecIInv, PTL DEF Spec, PromesseSpec, Promesse!Spec

-----------------------------------------------------------------------------
(* The entries and the polls that will remove them.                        *)

(* A request to register is known by its registration.                     *)
LEMMA DemandesEgales ==
  \A r \in Requete \cup {Rien} : r.cmd = "REGI" => r = [cmd |-> "REGI", dif |-> r.dif]
BY DEF Requete, Rien

(* Only REGI tells a peer that it is registered.                           *)
LEMMA NouvelEnregistre ==
  ASSUME IInv, [Next]_vars, NEW x \in Connexions, ~ REGI(x)
  PROVE  Enregistre(x)' = Enregistre(x)
<1> USE DEF IInv, Enregistre
<1>1. ASSUME NEW c \in Connexions, NEW l \in Ligne, l # REOK, envoye' = [envoye EXCEPT ![c] = Append(@, l)]
      PROVE  Enregistre(x)' = Enregistre(x)
  <2>1. ToSet(Append(envoye[c], l)) = ToSet(envoye[c]) \cup {l}
    BY AjouterVu DEF TypeOK
  <2> QED
    BY <1>1, <2>1 DEF TypeOK
<1>2. ASSUME NEW c \in Connexions, REGI(c) PROVE Enregistre(x)' = Enregistre(x)
  BY <1>2 DEF REGI, Repondre, TypeOK
<1>3. ASSUME NEW c \in Connexions, REGIPlein(c) \/ REGIDoublon(c) \/ AutreCommande(c)
      PROVE  Enregistre(x)' = Enregistre(x)
  <2>1. PICK l \in {RENO, ERREUR} : envoye' = [envoye EXCEPT ![c] = Append(@, l)]
    BY <1>3 DEF REGIPlein, REGIDoublon, AutreCommande, Repondre
  <2>2. l \in Ligne /\ l # REOK
    BY LignesType, LignesDistinctes
  <2> QED
    BY <1>1, <2>1, <2>2
<1>4. ASSUME NEW c \in Connexions, LIST(c) PROVE Enregistre(x)' = Enregistre(x)
  <2>1. Len(annuaire) \in Nat
    BY LenProperties DEF TypeOK
  <2>2. LINB(Len(annuaire)) \in Ligne /\ LINB(Len(annuaire)) # REOK
    BY <2>1, LignesType, LignesDistinctes
  <2> QED
    BY <1>1, <1>4, <2>2 DEF LIST
<1>5. ASSUME NEW c \in Connexions, Suivant(c) PROVE Enregistre(x)' = Enregistre(x)
  <2>1. annuaire = vue[c] /\ com[c] = "suivant"
    BY <1>5 DEF Suivant, Intact
  <2>2. Curseur(c) + 1 \in 1 .. Len(annuaire)
    <3>1. /\ Len(envoye[c]) \in Nat /\ Len(annuaire) \in Nat
          /\ Len(envoye[c]) >= 1 /\ Len(envoye[c]) - 1 < Len(annuaire)
      BY <2>1, LenProperties DEF TypeOK, Parcours, Nature, Entete, Liste, Curseur
    <3> QED
      BY <3>1 DEF Curseur
  <2>3. ITEM(annuaire[Curseur(c) + 1]) \in Ligne /\ ITEM(annuaire[Curseur(c) + 1]) # REOK
    BY <2>2, ElementOfSeq, LignesType, LignesDistinctes DEF TypeOK
  <2> QED
    BY <1>1, <1>5, <2>3 DEF Suivant
<1>6. CASE UNCHANGED envoye
  BY <1>6
<1> QED
  BY <1>2, <1>3, <1>4, <1>5, <1>6
     DEF Next, Communication, Ruok, Termine, vars, varsCom, varsPair, Accepter, Entrer, Iterer, Reste, FinListe,
         Exception, RUOK, Vivant, Mort, Retirer, Fermer, PairConnecte, PairDemande, PairIMOK, PairPart

Surveillance == EntreeSurveillee /\ PresentSaufDoublon

LEMMA NextSurveillance == IInv /\ Surveillance /\ [Next]_vars => Surveillance'
<1> SUFFICES ASSUME IInv, Surveillance, [Next]_vars PROVE Surveillance'
  OBVIOUS
<1> USE DEF IInv, Surveillance
<1>0. DOMAIN annuaire = 1 .. Len(annuaire) /\ \A d : Contains(annuaire, d) <=> d \in ToSet(annuaire)
  BY LenProperties DEF TypeOK, Contains, ToSet
<1>1. ASSUME NEW c \in Connexions, REGI(c) PROVE Surveillance'
  <2>0. PICK d : d = ligne[c].dif
    OBVIOUS
  <2>1. /\ annuaire' = Append(annuaire, d) /\ ligne' = ligne
        /\ ruok' = [ruok EXCEPT ![c] = "demande"] /\ envoye' = [envoye EXCEPT ![c] = Append(@, REOK)]
        /\ com[c] = "lit" /\ ligne[c].cmd = "REGI"
    BY <1>1, <2>0 DEF REGI, Lu, Repondre, varsPair
  <2>2. d \in Difs /\ Demande(c, d) /\ ruok[c] = "absent"
    BY <2>0, <2>1, RequetesType, DemandesEgales DEF TypeOK, Demande, Avant
  <2>3. ToSet(annuaire') = ToSet(annuaire) \cup {d} /\ annuaire' \in Seq(Difs)
    BY <2>1, <2>2, AjouterVu, AppendProperties DEF TypeOK
  <2>4. \A e : Contains(annuaire', e) <=> e \in ToSet(annuaire')
    <3>1. DOMAIN annuaire' = 1 .. Len(annuaire')
      BY <2>3, LenProperties
    <3> QED
      BY <3>1 DEF Contains, ToSet
  <2>5. Surveille(c)' /\ Enregistre(c)'
    <3>1. ToSet(Append(envoye[c], REOK)) = ToSet(envoye[c]) \cup {REOK}
      BY LignesType, AjouterVu DEF TypeOK
    <3> QED
      BY <2>1, <3>1 DEF Surveille, Enregistre, TypeOK
  <2>6. \A x \in Connexions \ {c} : Surveille(x)' = Surveille(x) /\ Enregistre(x)' = Enregistre(x) /\ ruok'[x] = ruok[x]
    BY <2>1 DEF Surveille, Enregistre, TypeOK
  <2>7. EntreeSurveillee'
    <3>1. ASSUME NEW e \in ToSet(annuaire)
          PROVE  \E x \in Connexions \ {c} : Surveille(x) /\ Enregistre(x) /\ Demande(x, e)
      BY <2>2 DEF EntreeSurveillee, Surveille
    <3> QED
      BY <2>1, <2>2, <2>3, <2>5, <2>6, <3>1 DEF EntreeSurveillee, Demande
  <2>8. PresentSaufDoublon'
    <3>1. ASSUME NEW x \in Connexions, (Enregistre(x) /\ Surveille(x))'
          PROVE  \/ Contains(annuaire', ligne[x].dif)
                 \/ \E c2 \in Connexions \ {x} : ligne[c2] = ligne[x] /\ ruok'[c2] \in {"clot", "fini"}
      <4>1. CASE x = c
        BY <2>0, <2>3, <2>4, <4>1
      <4>2. CASE x # c
        <5>1. \/ ligne[x].dif \in ToSet(annuaire)
              \/ \E c2 \in Connexions \ {x} : ligne[c2] = ligne[x] /\ ruok[c2] \in {"clot", "fini"}
          BY <1>0, <2>6, <3>1, <4>2 DEF PresentSaufDoublon
        <5> QED
          BY <2>2, <2>3, <2>4, <2>6, <5>1
      <4> QED
        BY <4>1, <4>2
    <3> QED
      BY <2>1, <3>1 DEF PresentSaufDoublon
  <2> QED
    BY <2>7, <2>8
<1>2. ASSUME NEW c \in Connexions, Retirer(c) PROVE Surveillance'
  <2>0. PICK d : d = ligne[c].dif
    OBVIOUS
  <2>1. /\ annuaire' = Oter(annuaire, d) /\ ligne' = ligne /\ envoye' = envoye
        /\ ruok' = [ruok EXCEPT ![c] = "clot"] /\ ruok[c] = "retire" /\ ligne[c].cmd = "REGI"
    BY <1>2, <2>0 DEF Retirer, varsCom, varsPair, Nature
  <2>2. ToSet(annuaire') = ToSet(annuaire) \ {d} /\ annuaire' \in Seq(Difs)
    BY <2>1, OterProprietes DEF TypeOK, AnnuaireSain
  <2>3. \A e : Contains(annuaire', e) <=> e \in ToSet(annuaire')
    <3>1. DOMAIN annuaire' = 1 .. Len(annuaire')
      BY <2>2, LenProperties
    <3> QED
      BY <3>1 DEF Contains, ToSet
  <2>4. /\ ruok'[c] = "clot" /\ ~ Surveille(c)'
        /\ \A x \in Connexions : Enregistre(x)' = Enregistre(x)
        /\ \A x \in Connexions \ {c} : Surveille(x)' = Surveille(x) /\ ruok'[x] = ruok[x]
    BY <2>1 DEF Surveille, Enregistre, TypeOK
  <2>5. EntreeSurveillee'
    <3>1. ASSUME NEW e \in ToSet(annuaire) \ {d}
          PROVE  \E x \in Connexions \ {c} : Surveille(x) /\ Enregistre(x) /\ Demande(x, e)
      <4>1. ~ Demande(c, e)
        BY <2>0, <3>1 DEF Demande
      <4> QED
        BY <4>1 DEF EntreeSurveillee
    <3> QED
      BY <2>1, <2>2, <2>4, <3>1 DEF EntreeSurveillee, Demande
  <2>6. PresentSaufDoublon'
    <3>1. ASSUME NEW x \in Connexions, (Enregistre(x) /\ Surveille(x))'
          PROVE  \/ Contains(annuaire', ligne[x].dif)
                 \/ \E c2 \in Connexions \ {x} : ligne[c2] = ligne[x] /\ ruok'[c2] \in {"clot", "fini"}
      <4>1. x # c /\ Enregistre(x) /\ Surveille(x)
        BY <2>4, <3>1
      <4>2. CASE ligne[x].dif = d
        <5>1. ligne[x].cmd = "REGI" /\ ligne[x] \in Requete \cup {Rien} /\ ligne[c] \in Requete \cup {Rien}
          BY <4>1 DEF Nature, TypeOK, Surveille
        <5>2. ligne[x] = ligne[c]
          BY <2>0, <2>1, <4>2, <5>1, DemandesEgales
        <5> QED
          BY <2>4, <4>1, <5>2
      <4>3. CASE ligne[x].dif # d
        BY <1>0, <2>2, <2>3, <2>4, <4>1, <4>3 DEF PresentSaufDoublon
      <4> QED
        BY <4>2, <4>3
    <3> QED
      BY <2>1, <3>1 DEF PresentSaufDoublon
  <2> QED
    BY <2>5, <2>6
<1>3. ASSUME NEW c \in Connexions, REGIDoublon(c) PROVE Surveillance'
  <2>1. /\ UNCHANGED <<annuaire, ligne>> /\ ruok' = [ruok EXCEPT ![c] = "demande"]
        /\ com[c] = "lit" /\ envoye' = [envoye EXCEPT ![c] = Append(@, RENO)]
    BY <1>3 DEF REGIDoublon, Lu, Repondre, varsPair
  <2>2. ~ Enregistre(c)' /\ ~ Surveille(c) /\ ruok[c] = "absent"
    <3>1. envoye[c] = <<>> /\ ruok[c] = "absent"
      BY <2>1 DEF Avant
    <3>2. ToSet(<<>>) = {}
      BY DEF ToSet
    <3>3. ToSet(Append(envoye[c], RENO)) = ToSet(envoye[c]) \cup {RENO}
      BY LignesType, AjouterVu DEF TypeOK
    <3> QED
      BY <2>1, <3>1, <3>2, <3>3, LignesDistinctes DEF Enregistre, Surveille, TypeOK
  <2>3. \A x \in Connexions \ {c} : Surveille(x)' = Surveille(x) /\ Enregistre(x)' = Enregistre(x) /\ ruok'[x] = ruok[x]
    BY <2>1 DEF Surveille, Enregistre, TypeOK
  <2>4. EntreeSurveillee'
    BY <2>1, <2>2, <2>3 DEF EntreeSurveillee, Demande
  <2>5. PresentSaufDoublon'
    BY <2>1, <2>2, <2>3 DEF PresentSaufDoublon
  <2> QED
    BY <2>4, <2>5
<1>4. ASSUME UNCHANGED annuaire, \A x \in Connexions : ~ REGI(x),
             \A x \in Connexions : /\ Surveille(x)' = Surveille(x) /\ (ruok[x] \in {"clot", "fini"} => ruok'[x] \in {"clot", "fini"})
                                   /\ ligne'[x] = ligne[x] \/ ruok[x] = "absent"
      PROVE  Surveillance'
  <2>1. \A x \in Connexions : Enregistre(x)' = Enregistre(x)
    BY <1>4, NouvelEnregistre
  <2>2. \A x \in Connexions : Surveille(x) \/ ruok[x] \in {"clot", "fini"} => ligne'[x] = ligne[x]
    BY <1>4 DEF Surveille
  <2>3. EntreeSurveillee'
    BY <1>4, <2>1, <2>2 DEF EntreeSurveillee, Demande
  <2>4. PresentSaufDoublon'
    BY <1>4, <2>1, <2>2 DEF PresentSaufDoublon
  <2> QED
    BY <2>3, <2>4
<1>5. ASSUME ~ \E c \in Connexions : REGI(c) \/ REGIDoublon(c) \/ Retirer(c) PROVE Surveillance'
  <2>1. UNCHANGED annuaire
    BY <1>5 DEF Next, Communication, Ruok, Termine, vars, varsCom, varsPair, Accepter, Entrer, Iterer, Reste, FinListe,
         Exception, RUOK, Vivant, Mort, Fermer, PairConnecte, PairDemande, PairIMOK, PairPart, REGIPlein, AutreCommande, LIST, Suivant
  <2>2. CASE UNCHANGED <<ruok, ligne>>
    BY <1>4, <1>5, <2>1, <2>2 DEF Surveille
  <2>3. ASSUME NEW c \in Connexions, RUOK(c) \/ Vivant(c) \/ Mort(c) \/ Fermer(c) PROVE Surveillance'
    <3>1. /\ ligne' = ligne
          /\ \A x \in Connexions : Surveille(x)' = Surveille(x) /\ (ruok[x] \in {"clot", "fini"} => ruok'[x] \in {"clot", "fini"})
      BY <2>3 DEF RUOK, Vivant, Mort, Fermer, varsCom, varsPair, Surveille, TypeOK
    <3> QED
      BY <1>4, <1>5, <2>1, <3>1
  <2>4. ASSUME NEW c \in Connexions, PairDemande(c) PROVE Surveillance'
    <3>1. ruok' = ruok /\ \A x \in Connexions : ligne'[x] = ligne[x] \/ ruok[x] = "absent"
      BY <2>4 DEF PairDemande, varsCom, Nature, TypeOK, Rien
    <3> QED
      BY <1>4, <1>5, <2>1, <3>1 DEF Surveille
  <2> QED
    BY <1>5, <2>2, <2>3, <2>4
       DEF Next, Communication, Ruok, Termine, vars, varsCom, varsPair, Accepter, Entrer, Iterer, Reste, FinListe,
         Exception, PairConnecte, PairIMOK, PairPart, REGIPlein, AutreCommande, Repondre, LIST, Suivant
<1> QED
  BY <1>1, <1>2, <1>3, <1>5

LEMMA SpecSurveillance == Spec => []Surveillance
<1>1. Init => Surveillance
  BY DEF Init, Surveillance, EntreeSurveillee, PresentSaufDoublon, Surveille, ToSet
<1>2. IInv /\ Surveillance /\ [Next]_vars => Surveillance'
  BY NextSurveillance
<1> QED
  BY <1>1, <1>2, SpecIInv, PTL DEF Spec

(* No entry outlives the poll that will remove it.                         *)
THEOREM SpecEntreeSurveillee == Spec => []EntreeSurveillee
<1>1. Surveillance => EntreeSurveillee
  BY DEF Surveillance
<1> QED
  BY <1>1, SpecSurveillance, PTL

(* Only a poll of the same registration removes an entry.                  *)
THEOREM SpecPresentSaufDoublon == Spec => []PresentSaufDoublon
<1>1. Surveillance => PresentSaufDoublon
  BY DEF Surveillance
<1> QED
  BY <1>1, SpecSurveillance, PTL

=============================================================================
