------------------------------ MODULE Terminal ------------------------------
(***************************************************************************)
(* What the C programs share: the terminal their user types on, the buffer *)
(* of the C library in front of it, and the service thread at the other    *)
(* end of their TCP connection (TcpConnexion.java, Gestionnaire.java).     *)
(*                                                                         *)
(* read() takes bytes of the line from the terminal; scanf() and getline() *)
(* take a whole line into a buffer of their own and give it piece by       *)
(* piece.  A text is known by its counts: bytes, bytes of accents.  The    *)
(* user types a line when the program waits for one, and types on.         *)
(***************************************************************************)
EXTENDS Integers, Sequences, SequencesExt

CONSTANTS
  Programmes, \* the programs that may run
  Ids,        \* lengths of the identifiers given on the command line
  Lignes,     \* the lines the user may type at each prompt
  Modulo,     \* how many values an int has, 2^32
  LongMax,    \* the greatest long, 2^63 - 1
  MaxDescr,   \* sockets a process may hold
  MaxBruit    \* most bytes that follow an array left without its NUL

Invites == {"cmd", "ip", "port", "nb", "texte", "touche"}
Mots    == {"LIST", "LAST", "MESS", "M", "autre"}

(* mot: how the line begins.  chiffres: the number it begins with.  n: its *)
(* bytes without the end of line, of which acc are the second byte of an   *)
(* accent.  lu: the bytes already taken, its end included.                 *)
Ligne == [role : Invites, mot : Mots, chiffres : Seq(0 .. 9), n : Nat, acc : Nat, lu : Nat]

ASSUME TerminalAssumption ==
  /\ Programmes \subseteq {"client", "client_alt", "client1"}
  /\ Ids \subseteq Nat
  /\ DOMAIN Lignes = Invites
  /\ \A r \in Invites : \A l \in Lignes[r] :
       /\ l \in Ligne /\ l.role = r /\ l.lu = 0
       /\ Len(l.chiffres) <= l.n /\ l.acc <= l.n
       /\ r # "texte" => l.acc = 0
  /\ Modulo \in Nat /\ LongMax \in Nat /\ 2 * 9999 < Modulo /\ Modulo <= LongMax
  /\ MaxDescr \in Nat \ {0} /\ MaxBruit \in Nat

VARIABLES
  prog,    \* the program
  pc,      \* its program counter
  id,      \* the length of id_client
  cmd,     \* the command being executed
  tty,     \* what is left of the line typed, in the terminal
  stdio,   \* what is left of a line in the buffer of the C library
  pris,    \* the prompt and the line of the last thing taken
  tmp,     \* the array tmp of last in client_alt.c
  ouverts, \* sockets the process holds
  refuse,  \* how often LIST found no directory
  req,     \* the request it has sent
  srv,     \* its service thread: "sans", "lit", "repond", "acquitte",
           \* "trouble" (no recv() will give ENDM alone), "muet" (nothing
           \* more will come, the socket stays open), "mort" (its process)
  dir      \* the directory: "java", or gestionnaire.c: "debut", "ecoute", "fin"

varsEntree == <<tty, stdio, pris>>
varsSock   == <<ouverts, refuse, req, srv, dir>>
vars == <<prog, pc, id, cmd, tmp, varsEntree, varsSock>>

Vide == [role |-> "cmd", mot |-> "autre", chiffres |-> <<>>, n |-> 0, acc |-> 0, lu |-> 1]

(* car: the characters of the line, of which the last bruit are no one's.  *)
(* texte: the bytes of the text it carries.  fin: whether it is ended.     *)
Requete == [cle : {"rien", "LIST", "LAST", "MESS"}, nb : Nat,
            car : Int, bruit : Nat, texte : Int, fin : BOOLEAN]
Envoi(cle, nb, car, bruit, texte, fin) ==
  [cle |-> cle, nb |-> nb, car |-> car, bruit |-> bruit, texte |-> texte, fin |-> fin]
Rien    == Envoi("rien", 0, 0, 0, 0, FALSE)
LIST    == Envoi("LIST", 0, 0, 0, 0, TRUE)
LAST(k) == Envoi("LAST", k, 0, 0, 0, TRUE)
MESS(car, bruit, texte, fin) == Envoi("MESS", 0, car, bruit, texte, fin)

Init ==
  /\ prog \in Programmes
  /\ pc = IF prog = "client1" THEN "connect" ELSE "debut"
  /\ id = 0 /\ cmd = "autre" /\ tmp = <<>>
  /\ tty = Vide /\ stdio = Vide /\ pris = [voulu |-> "cmd", ligne |-> Vide]
  /\ ouverts = 0 /\ refuse = 0 /\ req = Rien /\ srv = "sans"
  /\ dir \in {"java", "debut"}

Moindre(a, b) == IF a < b THEN a ELSE b
Valeur(s) == FoldLeft(LAMBDA v, c : 10 * v + c, 0, s)

(* What %d stores for the number v: a long at most, cut to an int.         *)
Entier(v) ==
  LET w == Moindre(v, LongMax) % Modulo
  IN  IF w < Modulo \div 2 THEN w ELSE w - Modulo

-----------------------------------------------------------------------------
(* Reading.                                                                *)

Fini(l)  == l.lu > l.n    \* nothing is left
Blanc(l) == l.lu >= l.n   \* nothing but the end of the line

(* The prompt a program counter stands for: port is also asked by list.    *)
Role == IF pc = "portlist" THEN "port" ELSE pc

Prendre(l) == pris' = [voulu |-> Role, ligne |-> [l EXCEPT !.lu = 0]]

(* read(0, b, k) gives up to k bytes of the line in the terminal, whatever *)
(* the library holds.                                                      *)
Read(k) ==
  /\ ~ Fini(tty)
  /\ tty' = [tty EXCEPT !.lu = Moindre(tty.lu + k, tty.n + 1)]
  /\ Prendre(tty)
  /\ UNCHANGED stdio

(* The line scanf() reads from: it skips blanks.  It leaves in the buffer  *)
(* what follows the first `a` bytes of it.                                 *)
Source == IF Blanc(stdio) THEN tty ELSE stdio
Scanf(a) ==
  /\ ~ Blanc(Source)
  /\ stdio' = [Source EXCEPT !.lu = a]
  /\ tty' = IF Blanc(stdio) THEN Vide ELSE tty
  /\ Prendre(Source)

(* The line getline() gives: what is left in the buffer, be it the end of  *)
(* a line.                                                                 *)
SourceGetline == IF Fini(stdio) THEN tty ELSE stdio
Getline ==
  /\ ~ Fini(SourceGetline)
  /\ stdio' = Vide
  /\ tty' = IF Fini(stdio) THEN Vide ELSE tty
  /\ Prendre(SourceGetline)

(* A number is at the head of the line; %d gives nothing otherwise.        *)
Nombre(l) == l.chiffres # <<>> /\ l.lu = 0

(* The program waits for a line.                                           *)
LecteurScanf   == pc = "port" \/ (prog = "client" /\ pc \in {"ip", "nb"})
LecteurGetline == prog = "client_alt" /\ pc \in {"cmd", "texte"}
Attend ==
  /\ Role \in Invites
  /\ IF LecteurScanf THEN Blanc(Source)
     ELSE IF LecteurGetline THEN Fini(SourceGetline) ELSE Fini(tty)

Taper(l) ==
  /\ tty' = l
  /\ UNCHANGED <<prog, id, pc, cmd, tmp, stdio, pris, varsSock>>

Utilisateur == Attend /\ \E l \in Lignes[Role] : Taper(l)

-----------------------------------------------------------------------------
(* The connection.                                                         *)

(* socket() and connect(): what the program does when they succeed.        *)
Connecte(suite, r) ==
  /\ ouverts < MaxDescr
  /\ ouverts' = ouverts + 1
  /\ pc' = suite /\ srv' = "lit" /\ req' = r
  /\ UNCHANGED <<prog, id, cmd, refuse, dir, varsEntree>>

(* When either fails the program ends.                                     *)
Sortir ==
  /\ pc' = "sorti" /\ ouverts' = 0
  /\ UNCHANGED <<prog, id, cmd, tmp, refuse, req, srv, dir, varsEntree>>

FermerBug  == ouverts' = ouverts
FermerBug2 == ouverts' = ouverts - 2
Fermer == ouverts' = ouverts - 1

(* The request is answered or not, the socket is closed, and the program   *)
(* goes back to its prompt.                                                *)
Retour ==
  /\ Fermer
  /\ pc' = "cmd" /\ srv' = "sans" /\ req' = Rien /\ tmp' = <<>>
  /\ UNCHANGED <<prog, id, cmd, refuse, dir, varsEntree>>

(* substring(14, 154)                                                      *)
FinTexte == 154

(* What the thread makes of a request.  An exception leaves the socket     *)
(* open, without the end of the answer: a MESS that is too short or met an *)
(* empty list of messages, a LAST for more messages than there are, a LIST *)
(* whose entries are removed.  Lines longer than the program takes them    *)
(* for, or cut on the way, hide ENDM.                                      *)
Issues(r) ==
  CASE r.cle = "MESS" -> IF r.car >= FinTexte THEN {"acquitte", "muet"} ELSE {"muet"}
    [] r.cle = "LAST" -> {"repond", "trouble", "muet"}
    [] OTHER -> {"repond", "muet"}

(* A service thread reads one line, which must have an end.                *)
(* gestionnaire.c gives no answer to LIST.                                 *)
Servir ==
  /\ srv = "lit" /\ req.fin /\ (req.cle = "LIST" => dir = "java")
  /\ srv' \in Issues(req)
  /\ UNCHANGED <<prog, id, pc, cmd, tmp, varsEntree, ouverts, refuse, req, dir>>

=============================================================================
