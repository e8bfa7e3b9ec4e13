------------------------------ MODULE Reception ------------------------------
(***************************************************************************)
(* How the clients read the answer to LAST and to LIST.  The server writes *)
(* lines and flushes each; TCP delivers their bytes in order, cut anywhere *)
(* when the network splits them.  The C programs take one recv() for one   *)
(* line, the Java programs call readLine().                                *)
(*                                                                         *)
(* A byte is its position in the answer: what was written and what was     *)
(* received are counts.  The lengths are the real ones.  No text ends like *)
(* the line ENDM.                                                          *)
(***************************************************************************)
EXTENDS Integers, Sequences

CONSTANTS
  Programmes,  \* the client programs
  MaxLignes,   \* most OLDM lines of LAST, and most ITEM lines that the
               \* array of list in client_alt.c asks for
  Annuaires,   \* the sizes of the directory: LINB has two digits
  MaxAccents,  \* bytes a text may take above its 140 characters
  Aleas        \* what an exchange may be exposed to, see aleas

ASSUME ReceptionAssumption ==
  /\ Programmes \subseteq {"LastC", "ListC", "ListAlt", "LastJava", "ListJava"}
  /\ MaxLignes \in Nat /\ Annuaires \subseteq 0 .. 99 /\ MaxAccents \in Nat
  /\ Aleas \subseteq SUBSET {"segments", "accents", "retraits", "pannes"}

VARIABLES
  prog,    \* the program
  aleas,   \* whether the network splits lines, texts have accents, the
           \* directory changes during LIST, the server process may stop
  nb,      \* OLDM lines due, or size of the directory when LIST is read
  lignes,  \* the lines written: what each is, and the position of its end
  srv,     \* "entete", "lignes", "fin", "ferme"; "muet": left open
  recus,   \* bytes received
  pc,      \* program counter of the client
  reste    \* ITEM lines it has still to read

varsSrv == <<prog, aleas, nb, lignes, srv>>
varsCli == <<recus, pc, reste>>
vars == <<varsSrv, varsCli>>

LAST == prog \in {"LastC", "LastJava"}
Java == prog \in {"LastJava", "ListJava"}
Dus  == IF LAST THEN 0 .. MaxLignes ELSE Annuaires

Init ==
  /\ prog \in Programmes /\ aleas \in Aleas /\ nb \in Dus
  /\ lignes = <<>>
  /\ srv = IF LAST THEN "lignes" ELSE "entete"
  /\ recus = 0 /\ pc = "debut" /\ reste = 0

(* As elsewhere, a definition named ...Bug is a slip that no run uses.     *)
TailleENDM == 6
TailleLINB == 9
TailleITEM == 57
TailleOLDM == 161

Fin(i)   == IF i = 0 THEN 0 ELSE lignes[i].fin
Emis     == Fin(Len(lignes))
Ecrites  == IF LAST THEN Len(lignes) ELSE Len(lignes) - 1

-----------------------------------------------------------------------------
(* The server: ServiceMess.put, LAST, and Communication.run, LIST.         *)

Ecrire(cle, taille) ==
  /\ lignes' = Append(lignes, [cle |-> cle, fin |-> Emis + taille])
  /\ UNCHANGED <<prog, aleas, nb, varsCli>>

EcrireLINB ==
  /\ srv = "entete"
  /\ Ecrire("LINB", TailleLINB) /\ srv' = "lignes"

EcrireITEM ==
  /\ ~ LAST /\ srv = "lignes" /\ Ecrites < nb
  /\ Ecrire("ITEM", TailleITEM) /\ UNCHANGED srv

EcrireOLDM ==
  /\ LAST /\ srv = "lignes" /\ Ecrites < nb
  /\ \E a \in 0 .. MaxAccents : (a # 0 => "accents" \in aleas) /\ Ecrire("OLDM", TailleOLDM + a)
  /\ UNCHANGED srv

EcrireENDM ==
  /\ LAST /\ srv = "lignes" /\ Ecrites = nb
  /\ Ecrire("ENDM", TailleENDM) /\ srv' = "fin"

(* The socket is closed after ENDM; after the last ITEM; early, when a     *)
(* removal brings the size down to the cursor; or the process stops.       *)
Fermer ==
  /\ \/ srv = "fin"
     \/ ~ LAST /\ srv = "lignes" /\ (Ecrites = nb \/ "retraits" \in aleas)
     \/ "pannes" \in aleas /\ srv \in {"entete", "lignes", "fin"}
  /\ srv' = "ferme"
  /\ UNCHANGED <<prog, aleas, nb, lignes, varsCli>>

(* next() raises, even after the last ITEM, since hasNext() is true when   *)
(* the size is below the cursor: the socket stays open.                    *)
Exception ==
  /\ "retraits" \in aleas /\ ~ LAST /\ srv = "lignes" /\ nb > 0
  /\ srv' = "muet"
  /\ UNCHANGED <<prog, aleas, nb, lignes, varsCli>>

Serveur == EcrireLINB \/ EcrireITEM \/ EcrireOLDM \/ EcrireENDM \/ Fermer \/ Exception

-----------------------------------------------------------------------------
(* What a client can read.                                                 *)

(* recv(taille) gives what there is, 0 when the server has closed, and     *)
(* waits otherwise.                                                        *)
RecvBug(taille) == {taille}
Recv(taille) ==
  LET dispo == Emis - recus
      plein == IF dispo < taille THEN dispo ELSE taille
  IN  IF dispo = 0 THEN {n \in {0} : srv = "ferme"}
      ELSE IF "segments" \in aleas THEN 1 .. plein ELSE {plein}

(* The end of the line that readLine() gives.                              *)
ReadLine == {i \in 1 .. Len(lignes) : Fin(i - 1) = recus}
Null     == ReadLine = {} /\ srv = "ferme"

TamponLastBug == 160
TamponLast == 161
TamponList == 57

-----------------------------------------------------------------------------
(* last in client.c and client_alt.c                                       *)

(* strcmp: the last recv() holds the line ENDM and no more.                *)
ReconnuBug(de, a) == \E i \in 1 .. Len(lignes) : lignes[i].cle = "ENDM" /\ de = Fin(i - 1)
Reconnu(de, a) ==
  \E i \in 1 .. Len(lignes) : lignes[i].cle = "ENDM" /\ de = Fin(i - 1) /\ a = Fin(i)

(* The result of recv() is not tested: at the end of the answer the loop   *)
(* goes on with an empty line.                                             *)
LastC ==
  /\ prog = "LastC" /\ pc \in {"debut", "suite"}
  /\ \E n \in Recv(TamponLast) :
       /\ recus' = recus + n
       /\ pc' = IF Reconnu(recus, recus + n) THEN "fini" ELSE "suite"
  /\ UNCHANGED <<varsSrv, reste>>

-----------------------------------------------------------------------------
(* list in client.c and client_alt.c                                       *)

(* The two digits are the sixth and seventh bytes of LINB: a piece of six  *)
(* bytes holds the first, a shorter one none.                              *)
ListCEntete ==
  /\ prog = "ListC" /\ pc = "debut"
  /\ \E n \in Recv(TailleLINB) :
       /\ recus' = recus + n
       /\ reste' = IF n < 6 THEN 0 ELSE IF n = 6 THEN nb \div 10 ELSE nb
  /\ pc' = "items"
  /\ UNCHANGED varsSrv

(* client_alt.c takes its number from an array it has not initialised.     *)
ListAltEntete ==
  /\ prog = "ListAlt" /\ pc = "debut"
  /\ \E n \in Recv(56) : recus' = recus + n
  /\ reste' \in 0 .. MaxLignes
  /\ pc' = "items"
  /\ UNCHANGED varsSrv

ListCItem ==
  /\ prog \in {"ListC", "ListAlt"} /\ pc = "items" /\ reste > 0
  /\ \E n \in Recv(IF prog = "ListC" THEN TamponList ELSE 55) : recus' = recus + n
  /\ reste' = reste - 1
  /\ UNCHANGED <<varsSrv, pc>>

(* Client.list and Diffuseur.list end the same way.                        *)
ListFin ==
  /\ pc = "items" /\ reste = 0
  /\ pc' = "fini"
  /\ UNCHANGED <<varsSrv, recus, reste>>

-----------------------------------------------------------------------------
(* Client.last, Client.list and Diffuseur.list                             *)

JavaLit(suite, n) ==
  /\ \E i \in ReadLine : recus' = Fin(i)
  /\ pc' = suite /\ reste' = n
  /\ UNCHANGED varsSrv

(* A null first line raises.                                               *)
JavaMeurt ==
  /\ Java /\ pc = "debut" /\ Null
  /\ pc' = "mort"
  /\ UNCHANGED <<varsSrv, recus, reste>>

(* The line is compared with "ENDM\r\n", and readLine() drops the end of   *)
(* the line: only null ends the loop.                                      *)
LastJava ==
  /\ prog = "LastJava" /\ pc \in {"debut", "suite"}
  /\ JavaLit("suite", reste)

FinDeFluxBug == FALSE
FinDeFlux == Null

LastJavaFin ==
  /\ prog = "LastJava" /\ pc = "suite" /\ FinDeFlux
  /\ pc' = "fini"
  /\ UNCHANGED <<varsSrv, recus, reste>>

ListJavaEntete ==
  /\ prog = "ListJava" /\ pc = "debut"
  /\ JavaLit("items", nb)

ListJavaItem ==
  /\ prog = "ListJava" /\ pc = "items" /\ reste > 0
  /\ \/ JavaLit("items", reste - 1)
     \/ Null /\ reste' = reste - 1 /\ UNCHANGED <<varsSrv, recus, pc>>

Client ==
  \/ LastC \/ ListCEntete \/ ListAltEntete \/ ListCItem \/ ListFin
  \/ JavaMeurt \/ LastJava \/ LastJavaFin \/ ListJavaEntete \/ ListJavaItem

Termine == pc \in {"fini", "mort"} /\ srv \in {"ferme", "muet"} /\ UNCHANGED vars

Next == Serveur \/ Client \/ Termine

Spec == Init /\ [][Next]_vars

(* Both processes run.  Nothing makes a silent server speak.               *)
SpecEquitable == Spec /\ WF_vars(Serveur) /\ WF_vars(Client)

-----------------------------------------------------------------------------

(* Every variable keeps the values the programs can give it.               *)
TypeOK ==
  /\ prog \in Programmes /\ aleas \in Aleas /\ nb \in Dus
  /\ lignes \in Seq([cle : {"LINB", "ITEM", "OLDM", "ENDM"}, fin : Nat])
  /\ srv \in {"entete", "lignes", "fin", "ferme", "muet"}
  /\ recus \in 0 .. Emis
  /\ pc \in {"debut", "suite", "items", "fini", "mort"}
  /\ reste \in Nat

(* A client that has finished leaves nothing unread: the socket is not     *)
(* closed on an answer that is still coming.  list in client_alt.c does    *)
(* so, and list in client.c when lines come in pieces.                     *)
RienNonLu ==
  pc = "fini" /\ prog # "ListAlt" /\ (prog = "ListC" => "segments" \notin aleas) => recus = Emis

(* Every recv() of client.c ends where a line ends, although the client    *)
(* may be late by several lines: the sizes of its buffers are those of the *)
(* lines, if the network and the texts leave the lines as they are.        *)
FinDeLigne ==
  prog \in {"LastC", "ListC"} /\ aleas \cap {"segments", "accents"} = {} =>
    \E i \in 0 .. Len(lignes) : recus = Fin(i)

(* Then every client comes to the end of its answer.                       *)
LectureFinit == aleas = {} ~> pc = "fini"

(* The Java programs come to an end whatever the network and the server    *)
(* process do, unless the server leaves the socket open.                   *)
JavaFinit == Java ~> (pc \in {"fini", "mort"} \/ srv = "muet")

-----------------------------------------------------------------------------
(* What the code says of itself, and does not do.                          *)

(* "LAST - demander a voir les derniers messages" (client.c:80): the user  *)
(* sees them and gets back to the prompt.                                  *)
LastAcheve == prog = "LastC" ~> pc = "fini"

=============================================================================
