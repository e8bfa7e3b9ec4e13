----------------------------- MODULE ProgrammesC -----------------------------
(***************************************************************************)
(* One of the C clients, its user and what answers it: a service thread of *)
(* the Java programs, or gestionnaire.c for LIST.                          *)
(***************************************************************************)
EXTENDS ClientC, ClientAlt, Client1, GestionnaireC

varsTout == <<vars, varsDir>>
Depart == Init /\ InitDir

Termine == pc \in {"sorti", "plante", "boucle", "sourd"} /\ UNCHANGED varsTout

(* The program waits for an answer that nobody will write.                 *)
SansReponse ==
  /\ pc \in {"ackm", "reponse"} /\ (srv = "muet" \/ ~ req.fin)
  /\ UNCHANGED varsTout

Programme == (NextClient \/ NextAlt \/ NextClient1) /\ UNCHANGED varsDir

Next ==
  \/ Programme \/ NextDir \/ Termine \/ SansReponse
  \/ (Utilisateur \/ Servir) /\ UNCHANGED varsDir

Spec == Depart /\ [][Next]_varsTout

(* What the question asks for: an address of 15 characters, a port of four *)
(* digits, a number of messages below 1000.                                *)
Attendu(l) ==
  CASE l.role = "ip"   -> l.n = 15
    [] l.role = "port" -> Nombre(l) /\ l.n = 4
    [] l.role = "nb"   -> Nombre(l) /\ l.n <= 3
    [] OTHER -> TRUE

(* The programs and the thread run, and the user, asked again and again,    *)
(* ends by giving what the question asks for.                              *)
SpecEquitable ==
  /\ Spec
  /\ WF_varsTout(Programme) /\ WF_varsTout(NextDir)
  /\ WF_varsTout(Servir /\ UNCHANGED varsDir)
  /\ SF_varsTout(UNCHANGED varsDir /\ Attend /\ \E l \in Lignes[Role] : Attendu(l) /\ Taper(l))

-----------------------------------------------------------------------------
(* Safety.                                                                 *)

Etapes == Invites \cup {"debut", "portlist", "connect", "list", "reponse", "ackm", "abonne", "datagramme",
                        "sourd", "sorti", "plante", "boucle"}

TypeProg ==
  /\ prog \in Programmes /\ pc \in Etapes
  /\ cmd \in Mots /\ id \in Nat /\ tmp \in Seq(Nat)
TypeEntree == tty \in Ligne /\ stdio \in Ligne /\ pris \in [voulu : Invites, ligne : Ligne]
TypeSock ==
  /\ ouverts \in 0 .. MaxDescr /\ refuse \in 0 .. MaxDescr
  /\ req \in Requete
  /\ srv \in {"sans", "lit", "repond", "acquitte", "trouble", "muet", "mort"}
TypeDir == dir \in {"java", "debut", "ecoute", "fin"} /\ blocs \in 0 .. MaxBlocs /\ fils \in 0 .. blocs

(* Every variable keeps the values the programs can give it.               *)
TypeOK == TypeProg /\ TypeEntree /\ TypeSock /\ TypeDir

(* A line that has more than the prompt of client.c it answers can take.   *)
Trop(l) ==
  CASE l.role = "cmd"   -> l.n > 4
    [] l.role = "texte" -> l.n > 139
    [] l.role \in {"port", "nb"} -> l.n > Len(l.chiffres)
    [] OTHER -> FALSE

(* client.c takes each line as the answer to the question it was typed at, *)
(* although read() and scanf() do not see the same bytes: only a line that *)
(* is too long, or a word after a number or instead of it, runs into       *)
(* another question.                                                       *)
Accord == prog = "client" /\ pris.ligne.role # pris.voulu => Trop(pris.ligne)

(* What scanf() or read() of client_alt.c leaves of a line: all that       *)
(* follows the number of a port, a number or an address that is longer     *)
(* than its array.                                                         *)
TropAlt(l) ==
  \/ l.role = "port"
  \/ l.role = "nb" /\ l.n > 3
  \/ l.role = "ip" /\ l.n > 32

(* In client_alt.c only such a line runs into another question.            *)
AccordAlt == prog = "client_alt" /\ pris.ligne.role # pris.voulu => TropAlt(pris.ligne)

(* The number LAST is sent with is the one on the line taken last, unless  *)
(* that line is a word, has a number that no int holds, or is longer than  *)
(* the array of client_alt.c: then it may be a number nobody typed.        *)
NumeroTape ==
  /\ req.cle = "LAST" /\ pris.ligne.role = "nb" /\ Nombre(pris.ligne)
  /\ IF prog = "client_alt" THEN pris.ligne.n <= 3
     ELSE Valeur(pris.ligne.chiffres) \in 0 .. Modulo - 1
  => req.nb = Valeur(pris.ligne.chiffres)

(* Even so, what client_alt.c sends is 0 or digits that follow one another *)
(* in that one line: bytes that tmp holds from two reads never make a      *)
(* number together.                                                        *)
NumeroBloc ==
  prog = "client_alt" /\ req.cle = "LAST" =>
    LET s == pris.ligne.chiffres
    IN  /\ pris.ligne.role = "nb"
        /\ \/ req.nb = 0
           \/ \E i, j \in 1 .. Len(s) : req.nb = Valeur(SubSeq(s, i, j))

(* ACKM is given for a text that is stored as it was typed, up to its 139  *)
(* first bytes, with nothing else in its 140 characters: the bytes that    *)
(* are no one's are behind it, unless accents leave room for them.         *)
AcquitteFidele ==
  srv = "acquitte" =>
    /\ prog = "client"
    /\ pris.ligne.role = "texte" /\ req.texte = Moindre(pris.ligne.n, 139)
    /\ req.car - req.bruit >= FinTexte \/ pris.ligne.acc > 0

(* Back at its prompt a client has closed every socket it opened, whatever *)
(* way it went through, but those of the LIST of client.c that were        *)
(* refused: these are never closed.                                        *)
SansFuite == pc = "cmd" => ouverts = refuse /\ (refuse # 0 => prog = "client")

-----------------------------------------------------------------------------
(* Liveness.                                                               *)

(* A command comes to an end, the prompt again or the end of the program,  *)
(* but in four cases.  scanf() finds a word, or what is behind a number,   *)
(* again and again.  recv() gives 0 for ever, LAST having missed ENDM      *)
(* (client.c:142).  An exception has left the socket open: a MESS or a     *)
(* LAST, TcpConnexion.java:103; a LIST, Gestionnaire.java:160.  A MESS was *)
(* sent without its end of line.                                           *)
CommandeFinit ==
  prog # "client1" ~>
    \/ pc \in {"cmd", "sorti", "plante"}
    \/ pc = "boucle" /\ (Trop(pris.ligne) \/ srv = "trouble")
    \/ pc \in {"ackm", "reponse"} /\ srv = "muet"
    \/ pc = "ackm" /\ ~ req.fin

-----------------------------------------------------------------------------
(* What the code says of itself, and does not do.                          *)

(* "MESS - envoyer un message a diffuser" (client_alt.c:70): the user is   *)
(* asked for a text and it is sent.                                        *)
MessEnvoye == prog = "client_alt" /\ cmd = "MESS" => pc # "plante"

=============================================================================
