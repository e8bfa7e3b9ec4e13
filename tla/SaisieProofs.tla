---------------------------- MODULE SaisieProofs ----------------------------
(***************************************************************************)
(* Proofs about what the C clients take from their user, for every set of  *)
(* lines: which line runs into another question in client_alt.c, and which *)
(* number LAST is sent with in client.c and in client_alt.c.               *)
(***************************************************************************)
EXTENDS ProgrammesCProofs

-----------------------------------------------------------------------------
(* The inductive invariant.                                                *)

(* client_alt.c.  What is left in either buffer comes from a line that had *)
(* too much, but for a line that was just typed.  Once a number was        *)
(* refused, tmp is full and the line is longer than it.                    *)
ResteAlt ==
  prog = "client_alt" =>
    /\ tmp \in Seq(0 .. 11)
    /\ \/ Fini(tty) \/ TropAlt(tty)
       \/ tty.lu = 0 /\ tty.role = Role /\ (pc \in {"cmd", "texte"} => Fini(stdio))
    /\ Fini(stdio) \/ TropAlt(stdio)
    /\ Fini(tty) \/ Len(tty.chiffres) <= tty.n
    /\ tmp # <<>> => pc \in {"nb", "reponse", "plante", "sorti", "boucle"}
    /\ pc = "nb" /\ tmp # <<>> => Len(tmp) = 4 /\ ~ Fini(tty) /\ TropAlt(tty)

(* client.c.  Nothing of a number is left where another one is asked for,  *)
(* and the first turn of last begins with a line that is not touched.      *)
ResteNb ==
  prog = "client" =>
    /\ tty.role = "nb" => Fini(tty) \/ (pc = "nb" /\ tty.lu = 0 /\ Blanc(stdio))
    /\ pc \in {"port", "connect"} \/ (pc = "nb" /\ pris.voulu # "nb") =>
         Blanc(stdio) \/ stdio.role # "nb"

(* LAST is sent only where its answer is waited for.                       *)
Dernier == req.cle = "LAST" => pc \in {"reponse", "plante", "boucle"}

Saisie == AccordAlt /\ NumeroTape /\ ResteAlt /\ ResteNb /\ Dernier

SInv == IInv /\ Saisie

-----------------------------------------------------------------------------
(* The bytes of a number.                                                  *)

(* The greatest of a set.                                                  *)
LEMMA MaxBorne ==
  ASSUME NEW T \in SUBSET Int, NEW k \in T, \A i \in T : i <= k
  PROVE  Max(T) = k
<1>1. \A y \in T : k >= y
  OBVIOUS
<1>2. Max(T) \in T /\ \A y \in T : Max(T) >= y
  BY <1>1 DEF Max
<1>3. Max(T) \in Int /\ k \in Int /\ Max(T) >= k /\ k >= Max(T)
  BY <1>1, <1>2
<1> HIDE DEF Max
<1> QED
  BY <1>3

(* One more digit.                                                         *)
LEMMA Dizaine ==
  ASSUME NEW a, NEW b \in 0 .. 9, NEW c, c = 10 * a + b
  PROVE  /\ a \in 0 .. 99 => c \in 0 .. 999
         /\ a \in 0 .. 9 => c \in 0 .. 99
OBVIOUS

(* The fold of at most three digits, by the equation of its recursion.     *)
LEMMA Pliage ==
  ASSUME NEW s, NEW n \in 0 .. 3, DOMAIN s = 1 .. n, \A i \in 1 .. n : s[i] \in 0 .. 9
  PROVE  Valeur(s) \in 0 .. 999
<1> DEFINE D == DOMAIN s
           Corps(f) == [T \in SUBSET D |-> IF T = {} THEN 0 ELSE 10 * f[T \ {Max(T)}] + s[Max(T)]]
           F == CHOOSE f : f = Corps(f)
           v1(T) == IF 1 \in T THEN s[1] ELSE 0
           v2(T) == IF 2 \in T THEN 10 * v1(T) + s[2] ELSE v1(T)
           v3(T) == IF 3 \in T THEN 10 * v2(T) + s[3] ELSE v2(T)
           G == [T \in SUBSET D |-> v3(T)]
<1>1. Valeur(s) = F[D]
  BY DEF Valeur, FoldLeft, MapThenFoldSet
<1>2. \A T \in SUBSET D : T \subseteq 1 .. 3 /\ T \subseteq Int /\ \A i \in T : s[i] \in 0 .. 9
  OBVIOUS
<1>3. ASSUME NEW T \in SUBSET D, T # {}
      PROVE  v3(T) = 10 * v3(T \ {Max(T)}) + s[Max(T)]
  <2>1. T \subseteq 1 .. 3 /\ T \subseteq Int /\ \A i \in T : s[i] \in 0 .. 9
    BY <1>2
  <2>2. CASE 3 \in T
    <3>1. Max(T) = 3
      BY <2>1, <2>2, MaxBorne
    <3> QED
      BY <2>2, <3>1
  <2>3. CASE 3 \notin T /\ 2 \in T
    <3>1. Max(T) = 2
      BY <2>1, <2>3, MaxBorne
    <3> QED
      BY <2>3, <3>1
  <2>4. CASE 3 \notin T /\ 2 \notin T
    <3>1. T = {1}
      BY <1>3, <2>1, <2>4
    <3>2. Max(T) = 1
      BY <3>1, MaxBorne
    <3>3. v3(T \ {1}) = 0 /\ v3(T) = s[1] /\ s[1] \in 0 .. 9
      BY <2>1, <3>1
    <3> QED
      BY <3>2, <3>3
  <2> QED
    BY <2>2, <2>3, <2>4
<1>4. G = Corps(G)
  <2> HIDE DEF v3
  <2>1. \A T \in SUBSET D : T # {} => v3(T) = 10 * G[T \ {Max(T)}] + s[Max(T)]
    BY <1>3
  <2>2. v3({}) = 0
    BY DEF v3
  <2> HIDE DEF G
  <2>3. G = [T \in SUBSET D |-> v3(T)]
    BY DEF G
  <2> QED
    BY <2>1, <2>2, <2>3
<1>5. F = Corps(F)
  <2> HIDE DEF G, Corps
  <2> QED
    BY <1>4, Zenon
<1> HIDE DEF F, G, v1, v2, v3
<1>6. ASSUME NEW k \in 1 .. n
      PROVE  F[1 .. k] = 10 * F[1 .. k - 1] + s[k]
  <2>0. k \in Int /\ n \in Int /\ 1 <= k /\ k <= n
    OBVIOUS
  <2>1. 1 .. k \in SUBSET D /\ k \in 1 .. k
    <3> HIDE DEF Corps
    <3>1. 1 .. k \subseteq 1 .. n /\ k \in 1 .. k
      BY <2>0
    <3> QED
      BY <3>1
  <2>2. Max(1 .. k) = k
    <3> HIDE DEF D, Corps
    <3>1. 1 .. k \in SUBSET Int /\ \A i \in 1 .. k : i <= k
      BY <2>0
    <3> QED
      BY MaxBorne, <2>1, <3>1
  <2>3. (1 .. k) \ {k} = 1 .. k - 1
    OBVIOUS
  <2>4. F[1 .. k] = 10 * F[(1 .. k) \ {Max(1 .. k)}] + s[Max(1 .. k)]
    BY <1>5, <2>1
  <2> QED
    BY <2>2, <2>3, <2>4
<1>7. F[1 .. 0] = 0
  <2>1. {} \in SUBSET D /\ 1 .. 0 = {}
    OBVIOUS
  <2> QED
    BY <1>5, <2>1
<1> HIDE DEF D, Corps
<1>8. Valeur(s) = F[1 .. n]
  BY <1>1 DEF D
<1>9. n >= 1 => F[1 .. 1] = 10 * F[1 .. 0] + s[1]
  <2>1. n >= 1 => 1 \in 1 .. n
    OBVIOUS
  <2>2. 1 - 1 = 0
    OBVIOUS
  <2>3. n >= 1 => F[1 .. 1] = 10 * F[1 .. 1 - 1] + s[1]
    BY <1>6, <2>1
  <2> QED
    BY <2>2, <2>3
<1>10. n >= 2 => F[1 .. 2] = 10 * F[1 .. 1] + s[2]
  <2>1. n >= 2 => 2 \in 1 .. n
    OBVIOUS
  <2>2. 2 - 1 = 1
    OBVIOUS
  <2>3. n >= 2 => F[1 .. 2] = 10 * F[1 .. 2 - 1] + s[2]
    BY <1>6, <2>1
  <2> QED
    BY <2>2, <2>3
<1>11. n >= 3 => F[1 .. 3] = 10 * F[1 .. 2] + s[3]
  <2>1. n >= 3 => 3 \in 1 .. n
    OBVIOUS
  <2>2. 3 - 1 = 2
    OBVIOUS
  <2>3. n >= 3 => F[1 .. 3] = 10 * F[1 .. 3 - 1] + s[3]
    BY <1>6, <2>1
  <2> QED
    BY <2>2, <2>3
<1>12. n \in {0, 1, 2, 3}
  OBVIOUS
<1>13. (n >= 1 => s[1] \in 0 .. 9) /\ (n >= 2 => s[2] \in 0 .. 9) /\ (n >= 3 => s[3] \in 0 .. 9)
  OBVIOUS
<1>14. n >= 1 => F[1 .. 1] \in 0 .. 9
  BY <1>7, <1>9, <1>13
<1>15. ASSUME n >= 2 PROVE F[1 .. 2] \in 0 .. 99
  <2> DEFINE a == F[1 .. 1]
             b == s[2]
             c == F[1 .. 2]
  <2>1. a \in 0 .. 9 /\ b \in 0 .. 9 /\ c = 10 * a + b
    BY <1>10, <1>12, <1>13, <1>14, <1>15
  <2> HIDE DEF a, b, c
  <2>2. c \in 0 .. 99
    BY <2>1, Dizaine
  <2> QED
    BY <2>2 DEF c
<1>16. ASSUME n >= 3 PROVE F[1 .. 3] \in 0 .. 999
  <2> DEFINE a == F[1 .. 2]
             b == s[3]
             c == F[1 .. 3]
  <2>1. a \in 0 .. 99 /\ b \in 0 .. 9 /\ c = 10 * a + b
    BY <1>11, <1>12, <1>13, <1>15, <1>16
  <2> HIDE DEF a, b, c
  <2>2. c \in 0 .. 999
    BY <2>1, Dizaine
  <2> QED
    BY <2>2 DEF c
<1>17. F[1 .. n] \in 0 .. 999
  <2>0. CASE n = 0
    BY <1>7, <2>0
  <2>1. CASE n = 1
    <3>1. F[1 .. 1] \in 0 .. 9
      BY <1>14, <2>1
    <3> QED
      BY <2>1, <3>1
  <2>2. CASE n = 2
    <3>1. F[1 .. 2] \in 0 .. 99
      BY <1>15, <2>2
    <3> QED
      BY <2>2, <3>1
  <2>3. CASE n = 3
    <3>1. F[1 .. 3] \in 0 .. 999
      BY <1>16, <2>3
    <3> QED
      BY <2>3, <3>1
  <2> QED
    BY <1>12, <2>0, <2>1, <2>2, <2>3
<1> QED
  BY <1>8, <1>17

(* The least of a few positions, if there is one.                          *)
LEMMA MinBorne ==
  ASSUME NEW T \in SUBSET (1 .. 4)
  PROVE  LET k == IF T # {} THEN Min(T) ELSE 0
         IN  /\ k \in 0 .. 4 /\ \A i \in 1 .. k - 1 : i \notin T
             /\ k = 0 => T = {}
             /\ k # 0 => k \in T
<1>1. CASE T = {}
  BY <1>1
<1>2. CASE T # {}
  <2>1. \A y \in T : y \in {1, 2, 3, 4}
    OBVIOUS
  <2>2. \E x \in T : \A y \in T : x <= y
    <3>1. CASE 1 \in T
      BY <2>1, <3>1
    <3>2. CASE 1 \notin T /\ 2 \in T
      BY <2>1, <3>2
    <3>3. CASE 1 \notin T /\ 2 \notin T /\ 3 \in T
      BY <2>1, <3>3
    <3>4. CASE 1 \notin T /\ 2 \notin T /\ 3 \notin T
      <4>1. 4 \in T /\ \A y \in T : y = 4
        BY <1>2, <2>1, <3>4
      <4> QED
        BY <4>1
    <3> QED
      BY <3>1, <3>2, <3>3, <3>4
  <2> DEFINE k == Min(T)
  <2>3. k \in T /\ \A y \in T : k <= y
    BY <2>2 DEF Min
  <2> HIDE DEF k
  <2>4. k \in 1 .. 4 /\ \A i \in 1 .. k - 1 : i \notin T
    BY <2>1, <2>3
  <2>5. (IF T # {} THEN Min(T) ELSE 0) = k
    BY <1>2 DEF k
  <2> QED
    BY <2>3, <2>4, <2>5
<1> QED
  BY <1>1, <1>2

(* The blanks atoi() skips.                                                *)
LEMMA DebutMot ==
  ASSUME NEW s, Len(s) \in 0 .. 4
  PROVE  LET k == SelectInSeq(s, LAMBDA x : x # Saut)
         IN  /\ k \in 0 .. Len(s)
             /\ k = 0 => \A i \in 1 .. Len(s) : s[i] = Saut
             /\ k # 0 => s[k] # Saut
             /\ \A i \in 1 .. k - 1 : s[i] = Saut
<1> DEFINE I == {i \in 1 .. Len(s) : s[i] # Saut}
           k == IF I # {} THEN Min(I) ELSE 0
<1>1. SelectInSeq(s, LAMBDA x : x # Saut) = k
  BY DEF SelectInSeq
<1>2. I \in SUBSET (1 .. 4)
  OBVIOUS
<1> HIDE DEF I
<1>3. k \in 0 .. 4 /\ (\A i \in 1 .. k - 1 : i \notin I) /\ (k = 0 => I = {}) /\ (k # 0 => k \in I)
  BY <1>2, MinBorne
<1> HIDE DEF k
<1>4. k \in 0 .. Len(s) /\ (k # 0 => s[k] # Saut)
  BY <1>3 DEF I
<1>5. \A i \in 1 .. k - 1 : s[i] = Saut
  BY <1>3, <1>4 DEF I
<1> QED
  BY <1>1, <1>3, <1>4, <1>5 DEF I

(* The digits atoi() takes.                                                *)
LEMMA FinNombre ==
  ASSUME NEW s, Len(s) \in 0 .. 4
  PROVE  LET k == SelectInSeq(s, LAMBDA x : x \in {Lettre, Saut})
         IN  /\ k \in 0 .. Len(s)
             /\ k = 0 => \A i \in 1 .. Len(s) : s[i] \notin {Lettre, Saut}
             /\ k # 0 => s[k] \in {Lettre, Saut}
             /\ \A i \in 1 .. k - 1 : s[i] \notin {Lettre, Saut}
<1> DEFINE I == {i \in 1 .. Len(s) : s[i] \in {Lettre, Saut}}
           k == IF I # {} THEN Min(I) ELSE 0
<1>1. SelectInSeq(s, LAMBDA x : x \in {Lettre, Saut}) = k
  BY DEF SelectInSeq
<1>2. I \in SUBSET (1 .. 4)
  OBVIOUS
<1> HIDE DEF I
<1>3. k \in 0 .. 4 /\ (\A i \in 1 .. k - 1 : i \notin I) /\ (k = 0 => I = {}) /\ (k # 0 => k \in I)
  BY <1>2, MinBorne
<1> HIDE DEF k
<1>4. k \in 0 .. Len(s) /\ (k # 0 => s[k] \in {Lettre, Saut})
  BY <1>3 DEF I
<1>5. \A i \in 1 .. k - 1 : s[i] \notin {Lettre, Saut}
  BY <1>3, <1>4 DEF I
<1> QED
  BY <1>1, <1>3, <1>4, <1>5 DEF I

(* A number below a bound.                                                 *)
LEMMA Borne ==
  ASSUME NEW m \in Nat, NEW k \in Nat, m <= k
  PROVE  m \in 0 .. k
OBVIOUS

(* A part of a sequence.                                                   *)
LEMMA Partie ==
  ASSUME NEW S, NEW s \in Seq(S), NEW a \in 1 .. Len(s) + 1, NEW b \in 0 .. Len(s), a <= b + 1
  PROVE  /\ SubSeq(s, a, b) \in Seq(S)
         /\ Len(SubSeq(s, a, b)) = b - a + 1
         /\ \A i \in 1 .. b - a + 1 : SubSeq(s, a, b)[i] = s[a + i - 1]
<1>1. a \in Int /\ b \in Int /\ Len(s) \in Nat
  BY LenProperties
<1>2. \A i \in a .. b : s[i] \in S
  BY <1>1, ElementOfSeq
<1>3. (IF a <= b THEN b - a + 1 ELSE 0) = b - a + 1
  BY <1>1
<1> QED
  BY <1>1, <1>2, <1>3, SubSeqProperties

(* Four bytes of which one is the end of a line hold a number below 1000.  *)
LEMMA AtoiBorne ==
  ASSUME NEW s \in Seq(0 .. 11), Len(s) <= 4, NEW j \in 1 .. Len(s), s[j] = Saut
  PROVE  Atoi(s) \in 0 .. 999
<1> DEFINE m == Len(s)
           d == SelectInSeq(s, LAMBDA x : x # Saut)
           mot == IF d = 0 THEN <<>> ELSE SubSeq(s, d, m)
           f == SelectInSeq(mot, LAMBDA x : x \in {Lettre, Saut})
           t == IF f = 0 THEN mot ELSE SubSeq(mot, 1, f - 1)
<1>1. Atoi(s) = Valeur(t)
  BY DEF Atoi
<1> HIDE DEF t, f, mot
<1>2. m \in 0 .. 4 /\ \A i \in 1 .. m : s[i] \in 0 .. 11
  <2>1. Len(s) \in Nat
    BY LenProperties
  <2>2. \A i \in 1 .. Len(s) : s[i] \in 0 .. 11
    BY ElementOfSeq
  <2> QED
    BY <2>1, <2>2, Borne
<1>3. d \in 0 .. m
  BY <1>2, DebutMot
<1> HIDE DEF d
<1> USE DEF mot
<1>4. mot \in Seq(0 .. 11) /\ Len(mot) = (IF d = 0 THEN 0 ELSE m - d + 1)
      /\ (d # 0 => \A i \in 1 .. Len(mot) : mot[i] = s[d + i - 1])
  <2>1. CASE d = 0
    BY <2>1
  <2>2. CASE d # 0
    <3>1. d \in 1 .. Len(s) + 1 /\ m \in 0 .. Len(s) /\ d <= m + 1
      BY <1>2, <1>3, <2>2
    <3> HIDE DEF m
    <3>2. SubSeq(s, d, m) \in Seq(0 .. 11) /\ Len(SubSeq(s, d, m)) = m - d + 1
          /\ \A i \in 1 .. m - d + 1 : SubSeq(s, d, m)[i] = s[d + i - 1]
      BY <3>1, Partie
    <3> QED
      BY <2>2, <3>2
  <2> QED
    BY <2>1, <2>2
<1> HIDE DEF mot
<1>5. Len(mot) \in 0 .. 4
  BY <1>2, <1>3, <1>4
<1>6. f \in 0 .. Len(mot)
      /\ (f = 0 => \A i \in 1 .. Len(mot) : mot[i] \notin {Lettre, Saut})
      /\ \A i \in 1 .. f - 1 : mot[i] \notin {Lettre, Saut}
  BY <1>5, FinNombre DEF f
<1>7. \A i \in 1 .. Len(mot) : mot[i] \in 0 .. 11
  BY <1>4, ElementOfSeq
<1>8. \A x \in 0 .. 11 : x \notin {Lettre, Saut} => x \in 0 .. 9
  BY DEF Lettre, Saut
<1>9. CASE f = 0
  <2>1. Len(mot) <= 3
    <3>1. CASE d # 0 /\ Len(mot) = 4
      <4>1. d = 1 /\ m = 4
        BY <1>2, <1>3, <1>4, <3>1
      <4>2. mot[j] = s[j] /\ j \in 1 .. Len(mot)
        BY <1>2, <1>4, <3>1, <4>1
      <4> QED
        BY <1>6, <1>9, <4>2
    <3> QED
      BY <1>4, <1>5, <3>1
  <2>2. DOMAIN mot = 1 .. Len(mot) /\ \A i \in 1 .. Len(mot) : mot[i] \in 0 .. 9
    BY <1>4, <1>6, <1>7, <1>8, <1>9, LenProperties
  <2>3. Len(mot) \in 0 .. 3
    BY <1>4, <2>1, LenProperties, Borne
  <2>4. Valeur(mot) \in 0 .. 999
    BY <2>2, <2>3, Pliage
  <2> QED
    BY <1>1, <1>9, <2>4 DEF t
<1>10. CASE f # 0
  <2> DEFINE u == SubSeq(mot, 1, f - 1)
  <2>1. f - 1 \in 0 .. 3 /\ f - 1 \in Int /\ f \in Int /\ Len(mot) \in Int
    <3> DEFINE q == Len(mot)
    <3>1. q \in 0 .. 4 /\ f \in 0 .. q
      BY <1>5, <1>6
    <3> HIDE DEF q
    <3>2. f - 1 \in 0 .. 3 /\ f - 1 \in Int /\ f \in Int /\ q \in Int
      BY <1>10, <3>1
    <3> QED
      BY <3>2 DEF q
  <2>2. u \in Seq(0 .. 11) /\ Len(u) = f - 1 /\ \A i \in 1 .. f - 1 : u[i] = mot[i]
    <3>1. 1 \in 1 .. Len(mot) + 1 /\ f - 1 \in 0 .. Len(mot) /\ 1 <= (f - 1) + 1 /\ (f - 1) - 1 + 1 = f - 1
      BY <1>6, <2>1, <1>10
    <3>2. \A i \in 1 .. f - 1 : 1 + i - 1 = i
      BY <2>1
    <3> QED
      BY <1>4, <3>1, <3>2, Partie
  <2> HIDE DEF u
  <2>3. DOMAIN u = 1 .. f - 1 /\ \A i \in 1 .. f - 1 : u[i] \in 0 .. 9
    BY <1>6, <1>7, <1>8, <2>1, <2>2, LenProperties
  <2>4. Valeur(u) \in 0 .. 999
    BY <2>1, <2>3, Pliage
  <2> QED
    BY <1>1, <1>10, <2>4 DEF t, u
<1> QED
  BY <1>9, <1>10

(* A function on the first numbers is a sequence.                          *)
LEMMA FonctionSeq ==
  ASSUME NEW S, NEW n \in Nat, NEW f \in [1 .. n -> S]
  PROVE  f \in Seq(S) /\ Len(f) = n
BY SeqDef, LenProperties

(* What read() gives in tmp: bytes of the line, of which the last is its   *)
(* end when the line is finished.                                          *)
LEMMA LusType ==
  ASSUME tty \in Ligne, ~ Fini(tty), Len(tty.chiffres) <= tty.n
  PROVE  /\ Lus \in Seq(0 .. 11)
         /\ Len(Lus) = Moindre(4, tty.n + 1 - tty.lu)
         /\ Len(Lus) \in 1 .. 4
         /\ tty.lu + Len(Lus) = tty.n + 1 => Lus[Len(Lus)] = Saut
<1> DEFINE m == Moindre(4, tty.n + 1 - tty.lu)
           c == tty.chiffres
           e(i) == IF tty.lu + i <= Len(c) THEN c[tty.lu + i]
                   ELSE IF tty.lu + i <= tty.n THEN Lettre ELSE Saut
<1>1. tty.n \in Nat /\ tty.lu \in Nat /\ Len(c) \in Nat /\ c \in Seq(0 .. 9) /\ Len(c) <= tty.n
  BY LigneType
<1>2. m \in 1 .. 4 /\ m <= tty.n + 1 - tty.lu
  BY <1>1 DEF Moindre, Fini
<1>3. Lus = [i \in 1 .. m |-> e(i)]
  BY DEF Lus, TailleTmp
<1>4. ASSUME NEW i \in 1 .. m PROVE e(i) \in 0 .. 11
  <2>1. CASE tty.lu + i <= Len(c)
    <3>1. tty.lu + i \in 1 .. Len(c)
      BY <1>1, <1>2, <2>1
    <3>2. c[tty.lu + i] \in 0 .. 9
      BY <1>1, <3>1, ElementOfSeq
    <3> QED
      BY <2>1, <3>2
  <2>2. CASE ~ (tty.lu + i <= Len(c))
    BY <2>2 DEF Lettre, Saut
  <2> QED
    BY <2>1, <2>2
<1>5. ASSUME tty.lu + m = tty.n + 1 PROVE e(m) = Saut
  BY <1>1, <1>5
<1> HIDE DEF m, e
<1>6. Lus \in [1 .. m -> 0 .. 11] /\ \A i \in 1 .. m : Lus[i] = e(i)
  BY <1>3, <1>4
<1>7. m \in Nat
  BY <1>2
<1>8. Lus \in Seq(0 .. 11) /\ Len(Lus) = m
  BY <1>6, <1>7, FonctionSeq
<1> QED
  BY <1>2, <1>5, <1>6, <1>8 DEF m

(* A number that fits tmp is read as it was typed.                         *)
LEMMA AtoiNombre ==
  ASSUME tty \in Ligne, Nombre(tty), Len(tty.chiffres) <= tty.n, tty.n <= 3
  PROVE  Atoi(Lus) = Valeur(tty.chiffres)
<1> DEFINE c == tty.chiffres
           q == Len(c)
           m == tty.n + 1
           s == Lus
           d == SelectInSeq(s, LAMBDA x : x # Saut)
           mot == IF d = 0 THEN <<>> ELSE SubSeq(s, d, Len(s))
           f == SelectInSeq(mot, LAMBDA x : x \in {Lettre, Saut})
           t == IF f = 0 THEN mot ELSE SubSeq(mot, 1, f - 1)
<1>1. Atoi(s) = Valeur(t)
  BY DEF Atoi
<1> HIDE DEF d, mot, f, t
<1>2. /\ c \in Seq(0 .. 9) /\ q \in 1 .. 3 /\ tty.n \in 1 .. 3 /\ q <= tty.n
      /\ tty.lu = 0 /\ m \in 2 .. 4 /\ q + 1 \in 1 .. m
  <2>1. c \in Seq(0 .. 9) /\ c # <<>> /\ q \in Nat /\ tty.n \in Nat /\ tty.lu = 0
    BY LigneType DEF Nombre
  <2>2. q # 0
    BY <2>1, EmptySeq
  <2> HIDE DEF q
  <2>3. q <= tty.n
    BY DEF q
  <2> QED
    BY <2>1, <2>2, <2>3
<1>3. s \in Seq(0 .. 11) /\ Len(s) = m
  BY <1>2, LusType DEF Fini, Moindre
<1>4. \A i \in 1 .. m : s[i] = IF i <= q THEN c[i] ELSE IF i <= tty.n THEN Lettre ELSE Saut
  BY <1>2 DEF Lus, TailleTmp, Moindre
<1>5. \A i \in 1 .. q : i \in 1 .. m /\ s[i] = c[i] /\ s[i] \in 0 .. 9
  <2> HIDE DEF s
  <2>1. \A i \in 1 .. q : c[i] \in 0 .. 9
    BY <1>2, ElementOfSeq
  <2> HIDE DEF q, c, m
  <2>2. \A i \in 1 .. q : i \in 1 .. m /\ i <= q
    BY <1>2
  <2> QED
    BY <1>4, <2>1, <2>2
<1> HIDE DEF s
<1>6. s[q + 1] \in {Lettre, Saut}
  <2> HIDE DEF q, m, c
  <2>1. ~ (q + 1 <= q)
    BY <1>2
  <2> QED
    BY <1>2, <1>4, <2>1
<1> HIDE DEF q, m, c
<1>7. \A x \in 0 .. 9 : x # Saut /\ x \notin {Lettre, Saut}
  BY DEF Lettre, Saut
<1>8. Len(s) \in 0 .. 4
  BY <1>2, <1>3
<1>9. d = 1
  <2>1. /\ d \in 0 .. Len(s)
        /\ d = 0 => \A i \in 1 .. Len(s) : s[i] = Saut
        /\ \A i \in 1 .. d - 1 : s[i] = Saut
    BY <1>8, DebutMot DEF d
  <2>2. 1 \in 1 .. q /\ 1 \in 1 .. m
    BY <1>2
  <2>3. s[1] # Saut
    BY <1>5, <1>7, <2>2
  <2>4. d # 0
    BY <1>3, <2>1, <2>2, <2>3
  <2>5. d \in Int /\ ~ (1 \in 1 .. d - 1) /\ d >= 0
    BY <1>2, <1>3, <2>1, <2>3
  <2> QED
    BY <2>4, <2>5
<1>10. mot \in Seq(0 .. 11) /\ Len(mot) = m /\ \A i \in 1 .. m : mot[i] = s[i]
  <2>1. mot = SubSeq(s, 1, m)
    BY <1>3, <1>9 DEF mot
  <2>2. 1 \in 1 .. m + 1 /\ m \in 0 .. m /\ 1 <= m + 1 /\ m - 1 + 1 = m /\ \A i \in 1 .. m : 1 + i - 1 = i
    BY <1>2
  <2> QED
    BY <1>3, <2>1, <2>2, Partie
<1>11. f = q + 1
  <2>1. Len(mot) \in 0 .. 4
    BY <1>2, <1>10
  <2>2. /\ f \in 0 .. Len(mot)
        /\ f = 0 => \A i \in 1 .. Len(mot) : mot[i] \notin {Lettre, Saut}
        /\ f # 0 => mot[f] \in {Lettre, Saut}
        /\ \A i \in 1 .. f - 1 : mot[i] \notin {Lettre, Saut}
    BY <2>1, FinNombre DEF f
  <2>3. f \in 0 .. m /\ mot[q + 1] \in {Lettre, Saut} /\ f # 0
    BY <1>2, <1>6, <1>10, <2>2
  <2>4. \A i \in 1 .. q : mot[i] \notin {Lettre, Saut}
    BY <1>5, <1>7, <1>10
  <2>5. f \notin 1 .. q
    BY <2>2, <2>3, <2>4
  <2>6. q + 1 \notin 1 .. f - 1
    BY <2>2, <2>3
  <2> QED
    BY <1>2, <2>3, <2>5, <2>6
<1>12. t = c
  <2>1. t = SubSeq(mot, 1, q)
    BY <1>2, <1>11 DEF t
  <2>2. 1 \in 1 .. m + 1 /\ q \in 0 .. m /\ 1 <= q + 1 /\ q - 1 + 1 = q /\ \A i \in 1 .. q : 1 + i - 1 = i
    BY <1>2
  <2>3. t \in Seq(0 .. 11) /\ Len(t) = q /\ \A i \in 1 .. q : t[i] = mot[i]
    BY <1>10, <2>1, <2>2, Partie
  <2>4. c \in Seq(0 .. 11)
    BY <1>2, SeqDef
  <2>5. Len(c) = q /\ \A i \in 1 .. Len(t) : t[i] = c[i]
    BY <1>5, <1>10, <2>3 DEF q
  <2> QED
    BY <2>3, <2>4, <2>5, SeqEqual
<1> QED
  BY <1>1, <1>12 DEF c, s

-----------------------------------------------------------------------------
(* Lines.                                                                  *)

(* Taking bytes of a line does not make it too long.                       *)
LEMMA TropAltLu ==
  ASSUME NEW l \in Ligne, NEW k \in Nat
  PROVE  TropAlt([l EXCEPT !.lu = k]) <=> TropAlt(l)
BY LigneLu DEF TropAlt

(* read() in client_alt.c: what is left comes from a line that was longer  *)
(* than the array.                                                         *)
LEMMA ReadAlt ==
  ASSUME SInv, prog = "client_alt", NEW k \in Nat, Read(k),
         \/ pc = "ip" /\ k = 33
         \/ pc = "portlist"
         \/ pc = "nb" /\ k = 4
  PROVE  /\ pris'.ligne.role # pris'.voulu => TropAlt(pris'.ligne)
         /\ Fini(stdio') \/ TropAlt(stdio')
         /\ Fini(tty') \/ TropAlt(tty')
         /\ Fini(tty') \/ Len(tty'.chiffres) <= tty'.n
<1>1. TypeOK /\ ResteAlt /\ Role \in Invites /\ (pc = "portlist" => Role = "port") /\ (pc # "portlist" => Role = pc)
  BY DEF SInv, Saisie, IInv, Role, Invites
<1>2. /\ tty' = [tty EXCEPT !.lu = Moindre(tty.lu + k, tty.n + 1)]
      /\ Moindre(tty.lu + k, tty.n + 1) \in Nat
      /\ ~ Fini(tty) /\ stdio' = stdio
      /\ pris'.voulu = Role /\ pris'.ligne = [tty EXCEPT !.lu = 0]
  BY <1>1, ReadType
<1>3. tty \in Ligne /\ tty.n \in Nat
  BY <1>1, LigneType DEF TypeOK, TypeEntree
<1>4. TropAlt(tty) \/ (tty.lu = 0 /\ tty.role = Role)
  BY <1>1, <1>2 DEF ResteAlt
<1>5. pris'.ligne.role = tty.role /\ (TropAlt(pris'.ligne) <=> TropAlt(tty))
  BY <1>2, <1>3, LigneLu, TropAltLu
<1>6. /\ tty'.n = tty.n /\ tty'.lu = Moindre(tty.lu + k, tty.n + 1) /\ tty'.chiffres = tty.chiffres
      /\ TropAlt(tty') <=> TropAlt(tty)
  BY <1>2, <1>3, LigneLu, TropAltLu
<1>7. ASSUME ~ TropAlt(tty) PROVE Fini(tty')
  <2>1. tty.lu = 0 /\ tty.role = Role
    BY <1>4, <1>7
  <2>2. tty.n + 1 <= k
    BY <1>1, <1>3, <1>7, <2>1 DEF TropAlt
  <2> QED
    BY <1>3, <1>6, <2>1, <2>2 DEF Moindre, Fini
<1>8. Fini(stdio') \/ TropAlt(stdio')
  BY <1>1, <1>2 DEF ResteAlt
<1>9. Len(tty'.chiffres) <= tty'.n
  BY <1>1, <1>2, <1>6 DEF ResteAlt
<1> QED
  BY <1>2, <1>4, <1>5, <1>6, <1>7, <1>8, <1>9

(* getline() in client_alt.c.                                              *)
LEMMA GetlineAlt ==
  ASSUME SInv, prog = "client_alt", Getline, pc \in {"cmd", "texte"}
  PROVE  /\ pris'.ligne.role # pris'.voulu => TropAlt(pris'.ligne)
         /\ Fini(stdio')
         /\ Fini(tty') \/ TropAlt(tty')
         /\ Fini(tty') \/ Len(tty'.chiffres) <= tty'.n
<1>1. TypeOK /\ ResteAlt /\ Role = pc
  BY DEF SInv, Saisie, IInv, Role
<1>2. tty \in Ligne /\ stdio \in Ligne
  BY <1>1 DEF TypeOK, TypeEntree
<1>3. pris' = [voulu |-> Role, ligne |-> [SourceGetline EXCEPT !.lu = 0]] /\ ~ Fini(SourceGetline)
  BY DEF Getline, Prendre
<1>4. SourceGetline \in Ligne /\ (TropAlt(SourceGetline) \/ SourceGetline.role = pc)
  BY <1>1, <1>2, <1>3 DEF SourceGetline, ResteAlt
<1>5. pris'.ligne.role = SourceGetline.role /\ (TropAlt(pris'.ligne) <=> TropAlt(SourceGetline))
  BY <1>3, <1>4, LigneLu, TropAltLu
<1>6. stdio' = Vide /\ (tty' = Vide \/ (~ Fini(stdio) /\ tty' = tty))
  BY DEF Getline
<1>7. Fini(tty') \/ (TropAlt(tty') /\ Len(tty'.chiffres) <= tty'.n)
  <2>1. CASE tty' = Vide
    BY <2>1, VideType
  <2>2. CASE ~ Fini(stdio) /\ tty' = tty
    BY <1>1, <2>2 DEF ResteAlt
  <2> QED
    BY <1>6, <2>1, <2>2
<1> QED
  BY <1>1, <1>3, <1>4, <1>5, <1>6, <1>7, VideType

(* scanf() in client_alt.c, where a port is asked for.                     *)
LEMMA ScanfAlt ==
  ASSUME SInv, prog = "client_alt", NEW a \in Nat, Scanf(a), pc = "port"
  PROVE  /\ TropAlt(pris'.ligne) /\ TropAlt(stdio')
         /\ Fini(tty') \/ TropAlt(tty')
         /\ Fini(tty') \/ Len(tty'.chiffres) <= tty'.n
<1>1. TypeOK /\ ResteAlt /\ Role \in Invites /\ Role = pc
  BY DEF SInv, Saisie, IInv, Role, Invites
<1>2. /\ stdio' = [Source EXCEPT !.lu = a] /\ ~ Blanc(Source) /\ Source \in Ligne
      /\ pris'.ligne = [Source EXCEPT !.lu = 0]
      /\ \/ Blanc(stdio) /\ Source = tty /\ tty' = Vide
         \/ ~ Blanc(stdio) /\ Source = stdio /\ tty' = tty
  BY <1>1, ScanfType
<1>3. Source.n \in Nat /\ Source.lu \in Nat
  BY <1>2, LigneType
<1>4. ~ Fini(Source)
  BY <1>2, <1>3 DEF Fini, Blanc
<1>5. TropAlt(Source)
  <2>1. CASE Source = tty
    <3>1. TropAlt(tty) \/ tty.role = "port"
      BY <1>1, <1>4, <2>1 DEF ResteAlt
    <3> QED
      BY <2>1, <3>1 DEF TropAlt
  <2>2. CASE Source = stdio
    BY <1>1, <1>4, <2>2 DEF ResteAlt
  <2> QED
    BY <1>2, <2>1, <2>2
<1>6. TropAlt(pris'.ligne) /\ TropAlt(stdio')
  BY <1>2, <1>5, TropAltLu
<1>7. CASE tty' = Vide
  BY <1>6, <1>7, VideType
<1>8. CASE tty' = tty
  <2>1. Fini(tty) \/ TropAlt(tty) \/ tty.role = "port"
    BY <1>1 DEF ResteAlt
  <2>2. Fini(tty) \/ TropAlt(tty)
    BY <2>1 DEF TropAlt
  <2>3. Fini(tty) \/ Len(tty.chiffres) <= tty.n
    BY <1>1 DEF ResteAlt
  <2> QED
    BY <1>6, <1>8, <2>2, <2>3
<1> QED
  BY <1>2, <1>7, <1>8

-----------------------------------------------------------------------------
(* The steps.                                                              *)

(* A step that takes nothing from the user.                                *)
LEMMA SansLecture ==
  ASSUME SInv, UNCHANGED <<prog, varsEntree>>,
         pc' = pc \/ (Role \notin Invites /\ pc' \notin {"port", "connect"} /\ (pc' = "nb" => pc = "connect")),
         tmp' = <<>> \/ (tmp' = tmp /\ (\/ pc' = pc
                                        \/ pc' \in {"reponse", "plante", "sorti", "boucle"}
                                        \/ pc \notin {"nb", "reponse", "plante", "sorti", "boucle"})),
         \/ req'.cle # "LAST"
         \/ req' = req /\ (pc' = pc \/ pc' \in {"plante", "boucle"} \/ pc \notin {"reponse", "plante", "boucle"})
  PROVE  Saisie'
<1> USE DEF SInv, Saisie, varsEntree
<1>1. AccordAlt'
  BY DEF AccordAlt
<1>2. NumeroTape'
  BY DEF NumeroTape
<1>3. tty.role \in Invites
  BY LigneType DEF IInv, TypeOK, TypeEntree
<1>4. ResteAlt'
  <2> SUFFICES ASSUME prog = "client_alt" PROVE ResteAlt'
    BY DEF ResteAlt
  <2>1. tmp' \in Seq(0 .. 11)
    BY EmptySeq DEF ResteAlt
  <2>2. \/ Fini(tty) \/ TropAlt(tty)
        \/ pc' = pc /\ tty.lu = 0 /\ tty.role = Role /\ (pc \in {"cmd", "texte"} => Fini(stdio))
    BY <1>3 DEF ResteAlt
  <2>3. pc' = pc => Role' = Role
    BY DEF Role
  <2>4. tmp' # <<>> => tmp' = tmp /\ pc' \in {"nb", "reponse", "plante", "sorti", "boucle"} /\ (pc' = "nb" => pc = "nb")
    BY DEF ResteAlt
  <2>5. (Fini(tty)' <=> Fini(tty)) /\ (TropAlt(tty)' <=> TropAlt(tty))
        /\ (Fini(stdio)' <=> Fini(stdio)) /\ (TropAlt(stdio)' <=> TropAlt(stdio))
    BY DEF Fini, TropAlt
  <2> QED
    BY <2>1, <2>2, <2>3, <2>4, <2>5 DEF ResteAlt
<1>5. ResteNb'
  <2> SUFFICES ASSUME prog = "client" PROVE ResteNb'
    BY DEF ResteNb
  <2>1. pc' = pc \/ (pc # "nb" /\ pc' \notin {"port", "connect"} /\ (pc' = "nb" => pc = "connect"))
    BY DEF Role, Invites
  <2> QED
    BY <2>1 DEF ResteNb, Fini, Blanc
<1>6. Dernier'
  BY DEF Dernier
<1> QED
  BY <1>1, <1>2, <1>4, <1>5, <1>6

(* What is read in client.c leaves nothing of a number, but at the prompt  *)
(* of a number.                                                            *)
LEMMA ReadNb ==
  ASSUME SInv, prog = "client", NEW k \in Nat, Read(k), pc \in {"cmd", "texte"}
  PROVE  tty'.role # "nb"
<1>1. TypeOK /\ ResteNb /\ Role \in Invites
  BY DEF SInv, Saisie, IInv, Role, Invites
<1>2. /\ tty' = [tty EXCEPT !.lu = Moindre(tty.lu + k, tty.n + 1)]
      /\ Moindre(tty.lu + k, tty.n + 1) \in Nat /\ ~ Fini(tty)
  BY <1>1, ReadType
<1>3. tty \in Ligne
  BY <1>1 DEF TypeOK, TypeEntree
<1>4. tty.role # "nb"
  BY <1>1, <1>2 DEF ResteNb
<1> QED
  BY <1>2, <1>3, <1>4, LigneLu

(* What scanf() of client.c takes and leaves at a question that has a      *)
(* number for an answer: never a number that was not read to its end.      *)
LEMMA ScanfNb ==
  ASSUME SInv, prog = "client", NEW a \in Nat, Scanf(a), pc \in {"ip", "port", "nb"}
  PROVE  /\ tty'.role # "nb" \/ Fini(tty')
         /\ pc = "port" => stdio'.role # "nb"
         /\ pc = "nb" /\ pris.voulu # "nb" /\ Source.role = "nb" => Source.lu = 0
         /\ pris'.voulu = pc /\ pris'.ligne.role = Source.role /\ pris'.ligne.chiffres = Source.chiffres
         /\ Source \in Ligne
<1>1. TypeOK /\ ResteNb /\ Role \in Invites /\ Role = pc
  BY DEF SInv, Saisie, IInv, Role, Invites
<1>2. /\ stdio' = [Source EXCEPT !.lu = a] /\ ~ Blanc(Source) /\ Source \in Ligne
      /\ pris'.voulu = Role /\ pris'.ligne = [Source EXCEPT !.lu = 0]
      /\ \/ Blanc(stdio) /\ Source = tty /\ tty' = Vide
         \/ ~ Blanc(stdio) /\ Source = stdio /\ tty' = tty
  BY <1>1, ScanfType
<1>3. Source.n \in Nat /\ Source.lu \in Nat
  BY <1>2, LigneType
<1>4. ~ Fini(Source)
  BY <1>2, <1>3 DEF Fini, Blanc
<1>5. tty'.role # "nb" \/ Fini(tty')
  BY <1>1, <1>2, VideType DEF ResteNb
<1>6. pc = "port" => Source.role # "nb"
  BY <1>1, <1>2, <1>4 DEF ResteNb
<1>7. pc = "nb" /\ pris.voulu # "nb" /\ Source.role = "nb" => Source.lu = 0
  BY <1>1, <1>2, <1>4 DEF ResteNb
<1>8. stdio'.role = Source.role /\ pris'.ligne.role = Source.role /\ pris'.ligne.chiffres = Source.chiffres
  BY <1>2, LigneLu
<1> QED
  BY <1>1, <1>2, <1>5, <1>6, <1>7, <1>8

(* %d stores a number that fits an int, and is not cut to a negative one,  *)
(* as it is.                                                               *)
LEMMA EntierExact ==
  ASSUME NEW v \in 0 .. Modulo - 1, Entier(v) \in 0 .. 999
  PROVE  Entier(v) = v
<1>1. Modulo \in Nat /\ LongMax \in Nat /\ 2 * 9999 < Modulo /\ Modulo <= LongMax
  BY TerminalAssumption
<1>2. Moindre(v, LongMax) = v
  BY <1>1 DEF Moindre
<1>3. v % Modulo = v
  BY <1>1
<1>4. Entier(v) \in {v, v - Modulo}
  BY <1>2, <1>3 DEF Entier
<1> QED
  BY <1>1, <1>4

(* The number of LAST in client.c is written without loss, and the first   *)
(* turn, which may send what res held, is not one of a line with a number. *)
LEMMA LireNbSaisie ==
  ASSUME SInv, LireNb
  PROVE  Saisie'
<1>1. prog = "client" /\ prog' = "client" /\ pc = "nb" /\ req.cle # "LAST"
  BY DEF LireNb, Client, SInv, Saisie, Dernier
<1>2. Source \in Ligne
  BY DEF SInv, IInv, TypeOK, TypeEntree, Source
<1>3. PICK a \in Nat : Scanf(a)
  BY <1>2, LigneType DEF LireNb
<1>4. /\ tty'.role # "nb" \/ Fini(tty')
      /\ pris.voulu # "nb" /\ Source.role = "nb" => Source.lu = 0
      /\ pris'.voulu = "nb" /\ pris'.ligne.role = Source.role /\ pris'.ligne.chiffres = Source.chiffres
  BY <1>1, <1>3, ScanfNb
<1>5. pc' \in {"reponse", "nb", "boucle"} /\ (req' # req => pc' = "reponse")
  BY DEF LireNb
<1>6. NumeroTape'
  <2>1. CASE req' = req
    BY <1>1, <2>1 DEF NumeroTape
  <2>2. CASE /\ Nombre(Source) /\ Entier(Valeur(Source.chiffres)) \in 0 .. 999
             /\ req' = LAST(resStr(Entier(Valeur(Source.chiffres))))
    <3> DEFINE v == Valeur(Source.chiffres)
    <3>1. /\ Entier(v) \in 0 .. 999 /\ req' = LAST(resStr(Entier(v)))
          /\ v = Valeur(pris'.ligne.chiffres)
      BY <1>4, <2>2
    <3> HIDE DEF v
    <3>2. req'.nb = Entier(v)
      BY <3>1 DEF resStr, LAST, Envoi
    <3>3. v \in 0 .. Modulo - 1 => Entier(v) = v
      BY <3>1, EntierExact
    <3> QED
      BY <1>1, <3>1, <3>2, <3>3 DEF NumeroTape
  <2>3. CASE ~ Nombre(Source) /\ pris.voulu # "nb"
    <3>1. pris'.ligne.role = "nb" => pris'.ligne.chiffres = <<>>
      BY <1>4, <2>3 DEF Nombre
    <3> QED
      BY <3>1 DEF NumeroTape, Nombre
  <2> QED
    BY <2>1, <2>2, <2>3 DEF LireNb
<1>7. AccordAlt' /\ ResteAlt'
  BY <1>1 DEF AccordAlt, ResteAlt
<1>8. ResteNb'
  BY <1>4, <1>5 DEF ResteNb
<1>9. Dernier'
  BY <1>1, <1>5 DEF Dernier
<1> QED
  BY <1>6, <1>7, <1>8, <1>9 DEF Saisie

(* The readings of client.c.                                               *)
LEMMA LectureSaisie ==
  ASSUME SInv, LireCmd \/ LireIP \/ LirePort \/ LireNb \/ LireTexte
  PROVE  Saisie'
<1>1. Source \in Ligne
  BY DEF SInv, IInv, TypeOK, TypeEntree, Source
<1>2. req.cle # "LAST" \/ pc \in {"reponse", "plante", "boucle"}
  BY DEF SInv, Saisie, Dernier
<1>3. ASSUME prog = "client", prog' = "client", req'.cle # "LAST",
             tty'.role # "nb" \/ Fini(tty'), pc' # "nb",
             pc' \in {"port", "connect"} => Blanc(stdio') \/ stdio'.role # "nb"
      PROVE  Saisie'
  BY <1>3 DEF Saisie, AccordAlt, NumeroTape, ResteAlt, ResteNb, Dernier
<1>4. CASE LireCmd
  <2>1. /\ prog = "client" /\ prog' = "client" /\ Read(5) /\ pc = "cmd" /\ req' = req
        /\ pc' \in {"list", "ip", "cmd"}
    BY <1>4 DEF LireCmd, Client, varsSock
  <2>2. tty'.role # "nb"
    BY <2>1, ReadNb
  <2> QED
    BY <1>2, <1>3, <2>1, <2>2
<1>5. CASE LireIP
  <2>1. /\ prog = "client" /\ prog' = "client" /\ Scanf(Source.n) /\ pc = "ip" /\ req' = req
        /\ pc' \in {"port", "ip"}
    BY <1>5 DEF LireIP, Client, varsSock
  <2>2. Source.n \in Nat
    BY <1>1, LigneType
  <2>3. tty'.role # "nb" \/ Fini(tty')
    BY <2>1, <2>2, ScanfNb
  <2>4. Blanc(stdio')
    BY <2>1, <2>2, ScanfReste DEF SInv
  <2> QED
    BY <1>2, <1>3, <2>1, <2>3, <2>4
<1>6. CASE LirePort
  <2>1. /\ prog = "client" /\ prog' = "client" /\ pc = "port" /\ req' = req
        /\ pc' \in {"port", "connect", "boucle"}
    BY <1>6 DEF LirePort, Client, varsSock
  <2>2. PICK a \in Nat : Scanf(a)
    <3>1. Len(Source.chiffres) \in Nat /\ Source.lu \in Nat
      BY <1>1, LigneType
    <3>2. Scanf(Len(Source.chiffres)) \/ Scanf(Source.lu)
      BY <1>6 DEF LirePort
    <3> QED
      BY <3>1, <3>2
  <2>3. (tty'.role # "nb" \/ Fini(tty')) /\ stdio'.role # "nb"
    BY <2>1, <2>2, ScanfNb
  <2> QED
    BY <1>2, <1>3, <2>1, <2>3
<1>7. CASE LireTexte
  <2>1. /\ prog = "client" /\ prog' = "client" /\ Read(140) /\ pc = "texte" /\ req'.cle = "MESS"
        /\ pc' = "ackm"
    BY <1>7 DEF LireTexte, LireInput, Client, MESS, Envoi
  <2>2. tty'.role # "nb"
    BY <2>1, ReadNb
  <2> QED
    BY <1>3, <2>1, <2>2
<1> QED
  BY <1>4, <1>5, <1>6, <1>7, LireNbSaisie

(* The steps of client.c.                                                  *)
LEMMA ClientSaisie == SInv /\ NextClient => Saisie'
<1> SUFFICES ASSUME SInv, NextClient PROVE Saisie'
  OBVIOUS
<1>1. req.cle # "LAST" \/ pc \in {"reponse", "plante", "boucle"}
  BY DEF SInv, Saisie, Dernier
<1>2. Rien.cle # "LAST" /\ LIST.cle # "LAST"
  BY RequeteType
<1>3. CASE Demarrer
  <2>1. /\ Role \notin Invites /\ pc = "debut" /\ pc' \in {"sorti", "cmd", "plante"}
        /\ UNCHANGED <<prog, tmp, req, varsEntree>>
    BY <1>3 DEF Demarrer, Sortir, varsSock, varsEntree, Role, Invites
  <2> QED
    BY <2>1, SansLecture
<1>4. CASE Connecter
  <2>1. /\ Role \notin Invites /\ pc = "connect" /\ pc' \in {"sorti", "texte", "nb"}
        /\ UNCHANGED <<prog, tmp, varsEntree>> /\ req' \in {req, Rien}
    BY <1>4 DEF Connecter, Connecte, Sortir, varsSock, varsEntree, Role, Invites
  <2> QED
    BY <1>2, <2>1, SansLecture
<1>5. CASE List
  <2>1. /\ Role \notin Invites /\ pc = "list" /\ pc' \in {"reponse", "cmd"}
        /\ UNCHANGED <<prog, tmp, varsEntree>> /\ req' \in {req, LIST}
    BY <1>5 DEF List, Connecte, varsSock, varsEntree, Role, Invites
  <2> QED
    BY <1>2, <2>1, SansLecture
<1>6. CASE Ackm
  <2>1. /\ Role \notin Invites /\ pc = "ackm" /\ UNCHANGED <<prog, varsEntree>>
        /\ \/ pc' = "cmd" /\ tmp' = <<>> /\ req' = Rien
           \/ pc' = "plante" /\ tmp' = tmp /\ req' = req
    BY <1>6 DEF Ackm, Retour, varsSock, varsEntree, Role, Invites
  <2> QED
    BY <1>2, <2>1, SansLecture
<1>7. CASE Reponse
  <2>1. /\ Role \notin Invites /\ pc = "reponse" /\ UNCHANGED <<prog, varsEntree>>
        /\ pc' = "cmd" /\ tmp' = <<>> /\ req' = Rien
    BY <1>7 DEF Reponse, Retour, varsSock, varsEntree, Role, Invites
  <2> QED
    BY <1>2, <2>1, SansLecture
<1>8. CASE ReponseSansFin
  <2>1. /\ Role \notin Invites /\ pc = "reponse" /\ pc' = "boucle"
        /\ UNCHANGED <<prog, tmp, req, varsEntree>>
    BY <1>8 DEF ReponseSansFin, varsSock, varsEntree, Role, Invites
  <2> QED
    BY <2>1, SansLecture
<1>9. CASE LireCmd \/ LireIP \/ LirePort \/ LireNb \/ LireTexte
  BY <1>9, LectureSaisie
<1> QED
  BY <1>3, <1>4, <1>5, <1>6, <1>7, <1>8, <1>9 DEF NextClient

(* What read() takes of a number in client_alt.c: LAST is sent with the    *)
(* number of the line if it fits tmp, and a number that is refused leaves  *)
(* tmp full and a part of its line, which is longer.                       *)
LEMMA LireNbAltSaisie ==
  ASSUME SInv, LireNbAlt
  PROVE  Saisie'
<1>1. /\ prog = "client_alt" /\ prog' = "client_alt" /\ pc = "nb" /\ req.cle # "LAST" /\ Role = "nb"
      /\ Read(4) /\ tmp' = Relire(Lus) /\ TypeOK /\ ResteAlt /\ Role \in Invites
  BY DEF LireNbAlt, ClientAlt, TailleTmp, SInv, Saisie, IInv, Dernier, Role, Invites
<1>2. \/ Atoi(tmp') \in 0 .. 999 /\ req' = LAST(Atoi(tmp')) /\ pc' = "reponse"
      \/ Atoi(tmp') \notin 0 .. 999 /\ req' = req /\ pc' = "nb"
  BY <1>1 DEF LireNbAlt
<1>3. /\ pris'.ligne.role # pris'.voulu => TropAlt(pris'.ligne)
      /\ Fini(stdio') \/ TropAlt(stdio')
      /\ Fini(tty') \/ TropAlt(tty')
      /\ Fini(tty') \/ Len(tty'.chiffres) <= tty'.n
  BY <1>1, ReadAlt
<1>4. /\ tty' = [tty EXCEPT !.lu = Moindre(tty.lu + 4, tty.n + 1)]
      /\ Moindre(tty.lu + 4, tty.n + 1) \in Nat
      /\ ~ Fini(tty) /\ pris'.ligne = [tty EXCEPT !.lu = 0]
  BY <1>1, ReadType
<1>5. tty \in Ligne /\ tty.n \in Nat /\ tty.lu \in Nat /\ Len(tty.chiffres) <= tty.n
  BY <1>1, <1>4, LigneType DEF TypeOK, TypeEntree, ResteAlt
<1>6. tty'.n = tty.n /\ tty'.lu = Moindre(tty.lu + 4, tty.n + 1)
  BY <1>4, <1>5, LigneLu
<1>7. /\ Lus \in Seq(0 .. 11)
      /\ Len(Lus) = Moindre(4, tty.n + 1 - tty.lu)
      /\ Len(Lus) \in 1 .. 4
      /\ tty.lu + Len(Lus) = tty.n + 1 => Lus[Len(Lus)] = Saut
  BY <1>4, <1>5, LusType
<1>8. tmp \in Seq(0 .. 11) /\ (tmp # <<>> => Len(tmp) = 4 /\ TropAlt(tty))
  BY <1>1 DEF ResteAlt
<1>9. /\ tmp' \in Seq(0 .. 11) /\ tmp' # <<>>
      /\ tmp = <<>> => tmp' = Lus
      /\ tmp # <<>> => Len(tmp') = 4 /\ \A i \in 1 .. Len(Lus) : tmp'[i] = Lus[i]
  <2>1. CASE tmp = <<>>
    <3>1. tmp' = Lus
      BY <1>1, <2>1 DEF Relire
    <3>2. Lus # <<>>
      BY <1>7
    <3> QED
      BY <1>7, <2>1, <3>1, <3>2
  <2>2. CASE tmp # <<>>
    <3> DEFINE e(i) == IF i <= Len(Lus) THEN Lus[i] ELSE tmp[i]
    <3>1. tmp' = [i \in 1 .. 4 |-> e(i)]
      BY <1>1, <1>8, <2>2 DEF Relire
    <3>2. ASSUME NEW i \in 1 .. 4 PROVE e(i) \in 0 .. 11
      <4>1. CASE i <= Len(Lus)
        <5>1. i \in 1 .. Len(Lus)
          BY <1>7, <4>1
        <5>2. Lus[i] \in 0 .. 11
          BY <1>7, <5>1, ElementOfSeq
        <5> QED
          BY <4>1, <5>2
      <4>2. CASE ~ (i <= Len(Lus))
        <5>1. tmp[i] \in 0 .. 11
          BY <1>8, <2>2, ElementOfSeq
        <5> QED
          BY <4>2, <5>1
      <4> QED
        BY <4>1, <4>2
    <3>3. \A i \in 1 .. Len(Lus) : i \in 1 .. 4 /\ e(i) = Lus[i]
      <4> DEFINE q == Len(Lus)
      <4>1. q \in 1 .. 4 /\ \A i \in 1 .. 4 : e(i) = IF i <= q THEN Lus[i] ELSE tmp[i]
        BY <1>7
      <4> HIDE DEF e, q
      <4>2. \A i \in 1 .. q : i \in 1 .. 4 /\ i <= q
        BY <4>1
      <4>3. \A i \in 1 .. q : i \in 1 .. 4 /\ e(i) = Lus[i]
        BY <4>1, <4>2
      <4> QED
        BY <4>3 DEF q
    <3> HIDE DEF e
    <3>4. tmp' \in [1 .. 4 -> 0 .. 11] /\ \A i \in 1 .. 4 : tmp'[i] = e(i)
      BY <3>1, <3>2
    <3>5. tmp' \in Seq(0 .. 11) /\ Len(tmp') = 4
      <4> DEFINE g == tmp'
                 S == 0 .. 11
      <4>1. 4 \in Nat /\ g \in [1 .. 4 -> S]
        BY <3>4
      <4> HIDE DEF g, S
      <4>2. g \in Seq(S) /\ Len(g) = 4
        BY <4>1, FonctionSeq
      <4> QED
        BY <4>2 DEF g, S
    <3>6. tmp' # <<>>
      BY <3>5
    <3> QED
      BY <2>2, <3>3, <3>4, <3>5, <3>6
  <2> QED
    BY <2>1, <2>2
<1>10. ASSUME Atoi(tmp') \notin 0 .. 999
       PROVE  Len(tmp') = 4 /\ ~ Fini(tty')
  <2> DEFINE q == Len(Lus)
  <2>1. q \in 1 .. 4 /\ q <= 4 /\ q = Moindre(4, tty.n + 1 - tty.lu) /\ (tty.lu + q = tty.n + 1 => Lus[q] = Saut)
    BY <1>7
  <2>2. q <= Len(tmp') /\ Len(tmp') <= 4 /\ tmp'[q] = Lus[q] /\ Len(tmp') \in Nat
        /\ (q = 4 => Len(tmp') = 4)
    <3>1. CASE tmp = <<>>
      BY <1>9, <2>1, <3>1
    <3>2. CASE tmp # <<>>
      <4>1. q \in 1 .. Len(Lus)
        BY <2>1
      <4>2. tmp'[q] = Lus[q] /\ Len(tmp') = 4
        BY <1>9, <3>2, <4>1
      <4> HIDE DEF q
      <4>3. q <= 4 /\ 4 <= 4 /\ 4 \in Nat
        BY <2>1
      <4> QED
        BY <4>2, <4>3
    <3> QED
      BY <3>1, <3>2
  <2> HIDE DEF q
  <2>3. tmp'[q] # Saut
    <3> DEFINE k == Len(tmp')
    <3>1. q \in 1 .. 4 /\ k \in Nat /\ q <= k
      BY <2>1, <2>2
    <3> HIDE DEF k
    <3>2. q \in 1 .. k
      BY <3>1
    <3> QED
      BY <1>9, <1>10, <2>2, <3>2, AtoiBorne DEF k
  <2>4. tty.lu + q # tty.n + 1
    BY <2>1, <2>2, <2>3
  <2>5. tty.lu <= tty.n
    BY <1>4, <1>5 DEF Fini
  <2>6. q = 4 /\ tty.lu + 4 < tty.n + 1
    BY <1>5, <2>1, <2>4, <2>5 DEF Moindre
  <2>7. tty'.lu = tty.lu + 4
    BY <1>5, <1>6, <2>6 DEF Moindre
  <2> QED
    BY <1>5, <1>6, <2>2, <2>6, <2>7 DEF Fini
<1>11. AccordAlt'
  BY <1>3 DEF AccordAlt
<1>12. NumeroTape'
  <2> SUFFICES ASSUME req'.cle = "LAST", pris'.ligne.role = "nb", Nombre(pris'.ligne), pris'.ligne.n <= 3
               PROVE  req'.nb = Valeur(pris'.ligne.chiffres)
    BY <1>1 DEF NumeroTape
  <2>1. pris'.ligne.role = tty.role /\ pris'.ligne.n = tty.n /\ pris'.ligne.chiffres = tty.chiffres
    BY <1>4, <1>5, LigneLu
  <2>2. ~ TropAlt(tty)
    BY <1>5, <2>1 DEF TropAlt
  <2>3. tmp' = Lus /\ Nombre(tty)
    <3>1. tty.lu = 0
      BY <1>1, <1>4, <2>2 DEF ResteAlt
    <3> QED
      BY <1>8, <1>9, <2>1, <2>2, <3>1 DEF Nombre
  <2>4. Atoi(tmp') = Valeur(tty.chiffres)
    BY <1>5, <2>1, <2>3, AtoiNombre
  <2>5. req'.nb = Atoi(tmp')
    BY <1>1, <1>2 DEF LAST, Envoi
  <2> QED
    BY <2>1, <2>4, <2>5
<1>13. ResteAlt'
  <2>1. pc' = "nb" => Len(tmp') = 4 /\ ~ Fini(tty') /\ TropAlt(tty')
    BY <1>2, <1>3, <1>10
  <2>2. pc' \in {"nb", "reponse"}
    BY <1>2
  <2>3. (Fini(tty)' <=> Fini(tty')) /\ (TropAlt(tty)' <=> TropAlt(tty'))
        /\ (Fini(stdio)' <=> Fini(stdio')) /\ (TropAlt(stdio)' <=> TropAlt(stdio'))
    BY DEF Fini, TropAlt
  <2> QED
    BY <1>3, <1>9, <2>1, <2>2, <2>3 DEF ResteAlt
<1>14. ResteNb'
  BY <1>1 DEF ResteNb
<1>15. Dernier'
  BY <1>1, <1>2 DEF Dernier
<1> QED
  BY <1>11, <1>12, <1>13, <1>14, <1>15 DEF Saisie

(* The readings of client_alt.c.                                           *)
LEMMA LectureAltSaisie ==
  ASSUME SInv, LireCmdAlt \/ LirePortAlt \/ LireAdr \/ LirePortList \/ LireNbAlt \/ LireTexteAlt
  PROVE  Saisie'
<1>1. req.cle # "LAST" \/ pc \in {"reponse", "plante", "boucle"}
  BY DEF SInv, Saisie, Dernier
<1>2. ASSUME prog = "client_alt", prog' = "client_alt", req'.cle # "LAST",
             pc \notin {"nb", "reponse", "plante", "sorti", "boucle"}, tmp' = tmp,
             pris'.ligne.role # pris'.voulu => TropAlt(pris'.ligne),
             Fini(stdio') \/ TropAlt(stdio'),
             Fini(tty') \/ TropAlt(tty'),
             Fini(tty') \/ Len(tty'.chiffres) <= tty'.n
      PROVE  Saisie'
  <2>1. tmp \in Seq(0 .. 11) /\ tmp = <<>>
    BY <1>2 DEF SInv, Saisie, ResteAlt
  <2> QED
    BY <1>2, <2>1 DEF Saisie, AccordAlt, NumeroTape, ResteAlt, ResteNb, Dernier
<1>3. CASE LireCmdAlt
  <2>1. /\ prog = "client_alt" /\ prog' = "client_alt" /\ Getline /\ pc = "cmd" /\ req' = req /\ tmp' = tmp
    BY <1>3 DEF LireCmdAlt, ClientAlt, Planter, varsSock
  <2> QED
    BY <1>1, <1>2, <2>1, GetlineAlt
<1>4. CASE LirePortAlt
  <2>1. /\ prog = "client_alt" /\ prog' = "client_alt" /\ pc = "port" /\ req' = req /\ tmp' = tmp
    BY <1>4 DEF LirePortAlt, ClientAlt, varsSock
  <2>2. Source \in Ligne
    BY DEF SInv, IInv, TypeOK, TypeEntree, Source
  <2>3. PICK a \in Nat : Scanf(a)
    BY <1>4, <2>2, LigneType DEF LirePortAlt
  <2> QED
    BY <1>1, <1>2, <2>1, <2>3, ScanfAlt
<1>5. CASE LireAdr
  <2>1. /\ prog = "client_alt" /\ prog' = "client_alt" /\ Read(33) /\ pc = "ip" /\ req' = req /\ tmp' = tmp
    BY <1>5 DEF LireAdr, ClientAlt, varsSock
  <2> QED
    BY <1>1, <1>2, <2>1, ReadAlt
<1>6. CASE LirePortList
  <2>1. /\ prog = "client_alt" /\ prog' = "client_alt" /\ Read(5) /\ pc = "portlist" /\ req' = req /\ tmp' = tmp
    BY <1>6 DEF LirePortList, ClientAlt, varsSock
  <2> QED
    BY <1>1, <1>2, <2>1, ReadAlt
<1>7. CASE LireTexteAlt
  <2>1. /\ prog = "client_alt" /\ prog' = "client_alt" /\ Getline /\ pc = "texte" /\ tmp' = tmp
        /\ req' = req \/ req'.cle = "MESS"
    BY <1>7 DEF LireTexteAlt, ClientAlt, Planter, MESS, Envoi
  <2> QED
    BY <1>1, <1>2, <2>1, GetlineAlt
<1> QED
  BY <1>3, <1>4, <1>5, <1>6, <1>7, LireNbAltSaisie

(* The steps of client_alt.c.                                              *)
LEMMA AltSaisie == SInv /\ NextAlt => Saisie'
<1> SUFFICES ASSUME SInv, NextAlt PROVE Saisie'
  OBVIOUS
<1>1. Rien.cle # "LAST" /\ LIST.cle # "LAST"
  BY RequeteType
<1>2. CASE DemarrerAlt
  <2>1. /\ Role \notin Invites /\ pc = "debut" /\ pc' \in {"sorti", "cmd", "plante"}
        /\ UNCHANGED <<prog, tmp, req, varsEntree>>
    BY <1>2 DEF DemarrerAlt, Sortir, varsSock, varsEntree, Role, Invites
  <2> QED
    BY <2>1, SansLecture
<1>3. CASE ConnecterAlt
  <2>1. /\ Role \notin Invites /\ pc = "connect" /\ pc' \in {"sorti", "texte", "nb"}
        /\ UNCHANGED <<prog, tmp, varsEntree>> /\ req' \in {req, Rien}
    BY <1>3 DEF ConnecterAlt, Connecte, Sortir, varsSock, varsEntree, Role, Invites
  <2> QED
    BY <1>1, <2>1, SansLecture
<1>4. CASE ListAlt
  <2>1. /\ Role \notin Invites /\ pc = "list" /\ pc' \in {"reponse", "sorti"}
        /\ UNCHANGED <<prog, tmp, varsEntree>> /\ req' \in {req, LIST}
    BY <1>4 DEF ListAlt, Connecte, Sortir, varsSock, varsEntree, Role, Invites
  <2> QED
    BY <1>1, <2>1, SansLecture
<1>5. CASE ReponseListAlt
  <2>1. /\ Role \notin Invites /\ pc = "reponse" /\ pc' = "plante"
        /\ UNCHANGED <<prog, tmp, req, varsEntree>>
    BY <1>5 DEF ReponseListAlt, Planter, varsEntree, Role, Invites
  <2> QED
    BY <2>1, SansLecture
<1>6. CASE LireCmdAlt \/ LirePortAlt \/ LireAdr \/ LirePortList \/ LireNbAlt \/ LireTexteAlt
  BY <1>6, LectureAltSaisie
<1> QED
  BY <1>2, <1>3, <1>4, <1>5, <1>6 DEF NextAlt

(* The steps of client1.c.                                                 *)
LEMMA Client1Saisie == SInv /\ NextClient1 => Saisie'
<1> SUFFICES ASSUME SInv, NextClient1 PROVE Saisie'
  OBVIOUS
<1>1. prog = "client1" /\ prog' = "client1" /\ pc \notin {"reponse", "plante", "boucle"}
  BY DEF NextClient1, Connecter1, Abonner, Datagramme, LireTouche, Connecte, Sortir, Client1
<1>2. req' \in {req, Rien} \/ req'.cle = "MESS"
  BY DEF NextClient1, Connecter1, Abonner, Datagramme, LireTouche, Connecte, Sortir, varsSock, MESS, Envoi
<1>3. req'.cle # "LAST"
  BY <1>1, <1>2, RequeteType DEF SInv, Saisie, Dernier
<1> QED
  BY <1>1, <1>3 DEF Saisie, AccordAlt, NumeroTape, ResteAlt, ResteNb, Dernier

(* The user types a line where the program waits for one.                  *)
LEMMA UtilisateurSaisie == SInv /\ Utilisateur => Saisie'
<1> SUFFICES ASSUME SInv, Utilisateur PROVE Saisie'
  OBVIOUS
<1> USE DEF SInv, Saisie, Utilisateur, Taper, Attend, varsSock
<1>1. tty'.role = Role /\ tty'.lu = 0 /\ Len(tty'.chiffres) <= tty'.n
  BY TerminalAssumption
<1>2. UNCHANGED <<prog, pc, tmp, stdio, pris, req>>
  OBVIOUS
<1>3. AccordAlt' /\ NumeroTape' /\ Dernier'
  BY <1>2 DEF AccordAlt, NumeroTape, Dernier
<1>4. ResteAlt'
  <2> SUFFICES ASSUME prog = "client_alt" PROVE ResteAlt'
    BY <1>2 DEF ResteAlt
  <2>1. pc \in {"cmd", "texte"} => Fini(stdio)
    BY DEF LecteurScanf, LecteurGetline, SourceGetline
  <2>2. pc = "nb" => tmp = <<>>
    BY DEF LecteurScanf, LecteurGetline, ResteAlt
  <2>3. Role' = Role
    BY <1>2 DEF Role
  <2>4. (Fini(stdio)' <=> Fini(stdio)) /\ (TropAlt(stdio)' <=> TropAlt(stdio))
    BY <1>2 DEF Fini, TropAlt
  <2> QED
    BY <1>1, <1>2, <2>1, <2>2, <2>3, <2>4 DEF ResteAlt
<1>5. ResteNb'
  <2> SUFFICES ASSUME prog = "client" PROVE ResteNb'
    BY <1>2 DEF ResteNb
  <2>1. pc = "nb" => Blanc(stdio)
    BY DEF LecteurScanf, Source
  <2>2. Blanc(stdio)' <=> Blanc(stdio)
    BY <1>2 DEF Blanc
  <2>3. tty'.role = "nb" => pc = "nb"
    BY <1>1 DEF Role
  <2> QED
    BY <1>1, <1>2, <2>1, <2>2, <2>3 DEF ResteNb
<1> QED
  BY <1>3, <1>4, <1>5

(* What is around the programs, or no step at all.                         *)
LEMMA AutourSaisie == SInv /\ (NextDir \/ Servir \/ UNCHANGED vars) => Saisie'
<1> SUFFICES ASSUME SInv, NextDir \/ Servir \/ UNCHANGED vars PROVE Saisie'
  OBVIOUS
<1>1. UNCHANGED <<prog, pc, tmp, req, varsEntree>>
  BY DEF NextDir, Ecouter, Tourner, Communication, Finir, Servir, vars, varsSock, varsEntree
<1> QED
  BY <1>1, SansLecture

-----------------------------------------------------------------------------
(* The theorems.                                                           *)

(* The first state is in the invariant.                                    *)
LEMMA DepartSInv == Depart => SInv
<1> SUFFICES ASSUME Depart PROVE SInv
  OBVIOUS
<1>1. IInv
  BY DepartIInv
<1>2. Saisie
  <2>1. /\ tmp = <<>> /\ tty = Vide /\ stdio = Vide /\ pris.voulu = pris.ligne.role /\ req = Rien
    BY DEF Depart, Init, Vide
  <2>2. req.cle # "LAST" /\ tty.role # "nb" /\ tmp \in Seq(0 .. 11)
    BY <2>1, RequeteType, EmptySeq DEF Vide
  <2> QED
    BY <2>1, <2>2, VideType DEF Saisie, AccordAlt, NumeroTape, ResteAlt, ResteNb, Dernier
<1> QED
  BY <1>1, <1>2 DEF SInv

(* Every step keeps it.                                                    *)
LEMMA EtapeSInv == SInv /\ [Next]_varsTout => SInv'
<1> SUFFICES ASSUME SInv, [Next]_varsTout PROVE SInv'
  OBVIOUS
<1>1. IInv'
  BY Etape DEF SInv
<1>2. Saisie'
  <2>1. \/ NextClient \/ NextAlt \/ NextClient1 \/ Utilisateur
        \/ NextDir \/ Servir \/ UNCHANGED vars
    BY DEF Next, Programme, Termine, SansReponse, varsTout
  <2> QED
    BY <2>1, ClientSaisie, AltSaisie, Client1Saisie, UtilisateurSaisie, AutourSaisie
<1> QED
  BY <1>1, <1>2 DEF SInv

(* The invariant holds in every state.                                     *)
LEMMA SpecSInv == Spec => []SInv
BY DepartSInv, EtapeSInv, PTL DEF Spec

(* client_alt.c takes a line as the answer to another question only when   *)
(* it is what its scanf() leaves behind a port, or longer than its array   *)
(* (client_alt.c:78-160).                                                  *)
THEOREM SpecAccordAlt == Spec => []AccordAlt
<1>1. SInv => AccordAlt
  BY DEF SInv, Saisie
<1> QED
  BY <1>1, SpecSInv, PTL

(* LAST is sent with the number of the line taken last, unless this line   *)
(* is a word, has a number that is 2^32 or more (client.c:125), or does    *)
(* not fit the array of client_alt.c (line 117).                           *)
THEOREM SpecNumeroTape == Spec => []NumeroTape
<1>1. SInv => NumeroTape
  BY DEF SInv, Saisie
<1> QED
  BY <1>1, SpecSInv, PTL

=============================================================================
