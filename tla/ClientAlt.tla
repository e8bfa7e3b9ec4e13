------------------------------ MODULE ClientAlt ------------------------------
(***************************************************************************)
(* client_alt.c: its commands and its texts come through getline() and     *)
(* strtok(), the port through scanf(), the rest through read().            *)
(***************************************************************************)
EXTENDS Terminal

ClientAlt == prog = "client_alt"

(* A null pointer or a length below zero.                                  *)
Planter ==
  /\ pc' = "plante" /\ ouverts' = 0
  /\ UNCHANGED <<cmd, refuse, req, srv, dir>>

DemarrerAlt ==
  /\ ClientAlt /\ pc = "debut"
  /\ \/ Sortir
     \/ \E n \in Ids :
          /\ IF n <= 8 THEN id' = n + (8 - n) /\ pc' = "cmd" ELSE pc' = "plante" /\ UNCHANGED id
          /\ UNCHANGED <<prog, cmd, tmp, varsEntree, varsSock>>

(* What is left of a line whose first bytes scanf() took may spell a       *)
(* command too.                                                            *)
EpelleAlt(l) ==
  IF l.n - l.lu # 4 THEN {"autre"}
  ELSE IF l.lu = 0 THEN {l.mot} ELSE {"LIST", "LAST", "MESS", "autre"}

(* strtok() gives NULL when the line is only its end, and strcmp() takes   *)
(* it; the end of a line is also what scanf() leaves behind.               *)
LireCmdAlt ==
  /\ ClientAlt /\ pc = "cmd"
  /\ Getline
  /\ IF Blanc(SourceGetline) THEN Planter
     ELSE /\ cmd' \in EpelleAlt(SourceGetline)
          /\ pc' = CASE cmd' = "LIST" -> "ip"
                     [] cmd' \in {"LAST", "MESS"} -> "port"
                     [] OTHER -> "cmd"
          /\ UNCHANGED varsSock
  /\ UNCHANGED <<prog, id, tmp>>

(* scanf("%d", &port); without a number the port is not initialised and    *)
(* the word stays in the buffer.                                           *)
LirePortAlt ==
  /\ ClientAlt /\ pc = "port"
  /\ Scanf(IF Nombre(Source) THEN Len(Source.chiffres) ELSE Source.lu)
  /\ pc' = "connect"
  /\ UNCHANGED <<prog, id, cmd, tmp, varsSock>>

ConnecterAlt ==
  /\ ClientAlt /\ pc = "connect"
  /\ \/ Connecte(IF cmd = "MESS" THEN "texte" ELSE "nb", Rien) /\ UNCHANGED tmp
     \/ Sortir

-----------------------------------------------------------------------------
(* list                                                                    *)

LireAdr ==
  /\ ClientAlt /\ pc = "ip"
  /\ Read(33)
  /\ pc' = "portlist"
  /\ UNCHANGED <<prog, id, cmd, tmp, varsSock>>

LirePortList ==
  /\ ClientAlt /\ pc = "portlist"
  /\ Read(5)
  /\ pc' = "list"
  /\ UNCHANGED <<prog, id, cmd, tmp, varsSock>>

ListAlt ==
  /\ ClientAlt /\ pc = "list"
  /\ \/ dir \in {"java", "ecoute"} /\ Connecte("reponse", LIST) /\ UNCHANGED tmp
     \/ Sortir

(* maxStr is not initialised when strncat() looks for its end, nor is rec  *)
(* when recv() fails; the thread has written the number of entries.        *)
ReponseListAlt ==
  /\ ClientAlt /\ cmd = "LIST" /\ pc = "reponse" /\ srv \in {"repond", "muet", "mort"}
  /\ Planter
  /\ UNCHANGED <<prog, id, tmp, varsEntree>>

-----------------------------------------------------------------------------
(* last                                                                    *)

Lettre == 10
Saut   == 11

(* The bytes read(0, tmp, 4) gives.                                        *)
TailleTmpBug == 3
TailleTmp    == 4
Lus ==
  [i \in 1 .. Moindre(TailleTmp, tty.n + 1 - tty.lu) |->
     LET p == tty.lu + i
     IN  IF p <= Len(tty.chiffres) THEN tty.chiffres[p]
         ELSE IF p <= tty.n THEN Lettre ELSE Saut]

(* Only the first read() sets the length r of the string: a shorter one    *)
(* leaves the bytes of the last, a longer one is cut.                      *)
RelireBug(s) ==
  IF tmp = <<>> THEN s
  ELSE [i \in 1 .. Len(tmp) |->
          IF i + Len(s) <= Len(tmp) THEN tmp[i] ELSE s[i + Len(s) - Len(tmp)]]
Relire(s) ==
  IF tmp = <<>> THEN s
  ELSE [i \in 1 .. Len(tmp) |-> IF i <= Len(s) THEN s[i] ELSE tmp[i]]

(* atoi() skips blanks and stops at the first byte that is not a digit.    *)
Atoi(s) ==
  LET debut == SelectInSeq(s, LAMBDA x : x # Saut)
      mot   == IF debut = 0 THEN <<>> ELSE SubSeq(s, debut, Len(s))
      fin   == SelectInSeq(mot, LAMBDA x : x \in {Lettre, Saut})
  IN  Valeur(IF fin = 0 THEN mot ELSE SubSeq(mot, 1, fin - 1))

LireNbAlt ==
  /\ ClientAlt /\ pc = "nb"
  /\ Read(TailleTmp)
  /\ tmp' = Relire(Lus)
  /\ IF Atoi(tmp') \in 0 .. 999
       THEN req' = LAST(Atoi(tmp')) /\ pc' = "reponse"
       ELSE UNCHANGED <<req, pc>>
  /\ UNCHANGED <<prog, id, cmd, ouverts, refuse, srv, dir>>

-----------------------------------------------------------------------------
(* msg                                                                     *)

(* The space after the text is taken away again.  The padding is two short *)
(* of 140, and one byte of it is not initialised: NUL, or one more.        *)
LongueurAlt(t, g) == 5 + id + 1 + t + (140 - t - 2) + g

LireTexteAlt ==
  /\ ClientAlt /\ pc = "texte"
  /\ Getline
  /\ LET l == SourceGetline
         t == l.n - l.lu
     IN  IF Blanc(l) \/ t > 138 THEN Planter
         ELSE /\ \E g \in 0 .. 1 : req' = MESS(LongueurAlt(t, g) - l.acc, g, t, TRUE)
              /\ pc' = "ackm"
              /\ UNCHANGED <<cmd, ouverts, refuse, srv, dir>>
  /\ UNCHANGED <<prog, id, tmp>>

NextAlt ==
  \/ DemarrerAlt \/ LireCmdAlt \/ LirePortAlt \/ ConnecterAlt \/ LireAdr \/ LirePortList \/ ListAlt
  \/ ReponseListAlt \/ LireNbAlt \/ LireTexteAlt

=============================================================================
