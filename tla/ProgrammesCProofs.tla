-------------------------- MODULE ProgrammesCProofs --------------------------
(***************************************************************************)
(* Proofs about ProgrammesC, for every set of lines, of identifiers and    *)
(* every bound: which line answers which question in client.c, what an     *)
(* acknowledged MESS stores, which sockets stay open.                      *)
(***************************************************************************)
EXTENDS ProgrammesC, SequenceTheorems, TLAPS

-----------------------------------------------------------------------------
(* The inductive invariant.                                                *)

(* client.c.  What is left in the buffer of the library, and in the        *)
(* terminal but for a line that was just typed, comes from a line that was *)
(* too long; nothing is left where a text is asked for.                    *)
Reste ==
  prog = "client" =>
    /\ pc # "portlist"
    /\ Blanc(stdio) \/ Trop(stdio)
    /\ \/ Fini(tty) \/ Trop(tty)
       \/ tty.lu = 0 /\ tty.role = pc /\ (pc \in {"ip", "port", "nb"} => Blanc(stdio))
    /\ pc = "port" => Blanc(stdio) \/ Fini(tty)
    /\ pc = "connect" => Fini(tty)
    /\ pc = "texte" => Fini(tty) \/ (tty.lu = 0 /\ tty.role = "texte")

(* A MESS that is long enough is one of client.c, and what it was made     *)
(* from has not been replaced.                                             *)
Messages ==
  /\ prog \in {"client", "client_alt"} /\ pc \notin {"debut", "sorti", "plante"} => id = 8
  /\ req.cle = "MESS" =>
       IF prog = "client"
         THEN /\ pc \in {"ackm", "plante"}
              /\ pris.ligne.role = "texte" /\ req.texte = Moindre(pris.ligne.n, 139)
              /\ req.car - req.bruit >= FinTexte \/ pris.ligne.acc > 0
         ELSE req.car < FinTexte
  /\ srv = "acquitte" => req.cle = "MESS" /\ req.car >= FinTexte

(* Sockets are opened one at a time and closed where they were opened.     *)
Sockets ==
  /\ refuse # 0 => prog = "client"
  /\ pc \in {"debut", "cmd", "ip", "port", "portlist", "connect", "list"} => ouverts = refuse
  /\ pc \in {"nb", "texte", "reponse", "ackm"} => ouverts = refuse + 1

IInv == TypeOK /\ Accord /\ Reste /\ Messages /\ Sockets

-----------------------------------------------------------------------------
(* Lines and requests.                                                     *)

(* Taking bytes of a line changes nothing else of it.                      *)
LEMMA LigneLu ==
  ASSUME NEW l \in Ligne, NEW k \in Nat
  PROVE  /\ [l EXCEPT !.lu = k] \in Ligne
         /\ [l EXCEPT !.lu = k].lu = k
         /\ [l EXCEPT !.lu = k].role = l.role
         /\ [l EXCEPT !.lu = k].chiffres = l.chiffres
         /\ [l EXCEPT !.lu = k].n = l.n
         /\ [l EXCEPT !.lu = k].acc = l.acc
         /\ Trop([l EXCEPT !.lu = k]) <=> Trop(l)
BY DEF Ligne, Trop

(* The parts of a line.                                                    *)
LEMMA LigneType ==
  ASSUME NEW l \in Ligne
  PROVE  /\ l.role \in Invites /\ l.mot \in Mots /\ l.chiffres \in Seq(0 .. 9)
         /\ l.n \in Nat /\ l.acc \in Nat /\ l.lu \in Nat /\ Len(l.chiffres) \in Nat
BY DEF Ligne

(* The empty line, of which nothing is left.                               *)
LEMMA VideType == Vide \in Ligne /\ Fini(Vide) /\ Blanc(Vide)
BY DEF Vide, Ligne, Fini, Blanc, Invites, Mots

(* What the programs send are requests.                                    *)
LEMMA RequeteType ==
  /\ Rien \in Requete /\ LIST \in Requete /\ Rien.cle = "rien" /\ LIST.cle = "LIST"
  /\ \A k \in Nat : LAST(k) \in Requete /\ LAST(k).cle = "LAST"
BY DEF Envoi, Rien, LIST, LAST, Requete

(* So is MESS, whatever its length and its bytes.                          *)
LEMMA MessType ==
  ASSUME NEW car \in Int, NEW bruit \in Nat, NEW texte \in Int, NEW fin \in BOOLEAN
  PROVE  LET r == MESS(car, bruit, texte, fin)
         IN  r \in Requete /\ r.cle = "MESS" /\ r.car = car /\ r.bruit = bruit /\ r.texte = texte
BY DEF Envoi, MESS, Requete

-----------------------------------------------------------------------------
(* Reading.                                                                *)

(* read() keeps the types, and takes from the line in the terminal.        *)
LEMMA ReadType ==
  ASSUME TypeOK, NEW k \in Nat, Read(k), Role \in Invites
  PROVE  /\ tty' \in Ligne /\ stdio' \in Ligne /\ pris' \in [voulu : Invites, ligne : Ligne]
         /\ tty' = [tty EXCEPT !.lu = Moindre(tty.lu + k, tty.n + 1)]
         /\ Moindre(tty.lu + k, tty.n + 1) \in Nat
         /\ ~ Fini(tty) /\ stdio' = stdio
         /\ pris'.voulu = Role /\ pris'.ligne = [tty EXCEPT !.lu = 0]
<1>1. tty \in Ligne /\ stdio \in Ligne
  BY DEF TypeOK, TypeEntree
<1>2. Moindre(tty.lu + k, tty.n + 1) \in Nat
  BY <1>1, LigneType DEF Moindre
<1>3. [tty EXCEPT !.lu = 0] \in Ligne
  BY <1>1, LigneLu
<1>4. [tty EXCEPT !.lu = Moindre(tty.lu + k, tty.n + 1)] \in Ligne
  BY <1>1, <1>2, LigneLu
<1>5. pris' = [voulu |-> Role, ligne |-> [tty EXCEPT !.lu = 0]]
  BY DEF Read, Prendre
<1>6. /\ tty' = [tty EXCEPT !.lu = Moindre(tty.lu + k, tty.n + 1)]
      /\ ~ Fini(tty) /\ stdio' = stdio
  BY DEF Read
<1> QED
  BY <1>1, <1>2, <1>3, <1>4, <1>5, <1>6

(* scanf() keeps the types, and takes from its source.                     *)
LEMMA ScanfType ==
  ASSUME TypeOK, NEW a \in Nat, Scanf(a), Role \in Invites
  PROVE  /\ tty' \in Ligne /\ stdio' \in Ligne /\ pris' \in [voulu : Invites, ligne : Ligne]
         /\ stdio' = [Source EXCEPT !.lu = a] /\ ~ Blanc(Source) /\ Source \in Ligne
         /\ pris'.voulu = Role /\ pris'.ligne = [Source EXCEPT !.lu = 0]
         /\ \/ Blanc(stdio) /\ Source = tty /\ tty' = Vide
            \/ ~ Blanc(stdio) /\ Source = stdio /\ tty' = tty
<1>1. tty \in Ligne /\ stdio \in Ligne
  BY DEF TypeOK, TypeEntree
<1>2. Source \in Ligne
  BY <1>1 DEF Source
<1>3. [Source EXCEPT !.lu = 0] \in Ligne /\ [Source EXCEPT !.lu = a] \in Ligne
  BY <1>2, LigneLu
<1>4. pris' = [voulu |-> Role, ligne |-> [Source EXCEPT !.lu = 0]]
  BY DEF Scanf, Prendre
<1>5. stdio' = [Source EXCEPT !.lu = a] /\ ~ Blanc(Source)
  BY DEF Scanf
<1>6. \/ Blanc(stdio) /\ Source = tty /\ tty' = Vide
      \/ ~ Blanc(stdio) /\ Source = stdio /\ tty' = tty
  BY DEF Scanf, Source
<1> QED
  BY <1>1, <1>2, <1>3, <1>4, <1>5, <1>6, VideType

(* getline() keeps the types.                                              *)
LEMMA GetlineType ==
  ASSUME TypeOK, Getline, Role \in Invites
  PROVE  /\ tty' \in Ligne /\ stdio' \in Ligne /\ pris' \in [voulu : Invites, ligne : Ligne]
         /\ SourceGetline \in Ligne
<1>1. tty \in Ligne /\ stdio \in Ligne
  BY DEF TypeOK, TypeEntree
<1>2. SourceGetline \in Ligne
  BY <1>1 DEF SourceGetline
<1>3. [SourceGetline EXCEPT !.lu = 0] \in Ligne
  BY <1>2, LigneLu
<1>4. pris' = [voulu |-> Role, ligne |-> [SourceGetline EXCEPT !.lu = 0]]
  BY DEF Getline, Prendre
<1>5. stdio' = Vide /\ tty' \in {Vide, tty}
  BY DEF Getline
<1> QED
  BY <1>1, <1>2, <1>3, <1>4, <1>5, VideType

-----------------------------------------------------------------------------
(* client.c                                                                *)

(* What the constants are, without the lines.                              *)
LEMMA Constantes ==
  /\ Programmes \subseteq {"client", "client_alt", "client1"} /\ Ids \subseteq Nat
  /\ MaxDescr \in Nat \ {0} /\ MaxBruit \in Nat /\ MaxBlocs \in Nat
BY TerminalAssumption, GestionnaireCAssumption

(* read() in client.c: the arrays hold a command, and a text of 139 bytes, *)
(* with the end of the line.                                               *)
LEMMA ReadReste ==
  ASSUME IInv, prog = "client", NEW k \in Nat, Read(k),
         (pc = "cmd" /\ k = 5) \/ (pc = "texte" /\ k = 140)
  PROVE  /\ pris'.ligne.role # pris'.voulu => Trop(pris'.ligne)
         /\ Blanc(stdio') \/ Trop(stdio')
         /\ Fini(tty') \/ Trop(tty')
<1>1. TypeOK /\ Role \in Invites /\ Role = pc
  BY DEF IInv, Role, Invites
<1>2. /\ tty' = [tty EXCEPT !.lu = Moindre(tty.lu + k, tty.n + 1)]
      /\ Moindre(tty.lu + k, tty.n + 1) \in Nat
      /\ ~ Fini(tty) /\ stdio' = stdio
      /\ pris'.voulu = Role /\ pris'.ligne = [tty EXCEPT !.lu = 0]
  BY <1>1, ReadType
<1>3. tty \in Ligne /\ stdio \in Ligne
  BY <1>1 DEF TypeOK, TypeEntree
<1>4. Trop(tty) \/ (tty.lu = 0 /\ tty.role = pc)
  BY <1>2 DEF IInv, Reste
<1>5. pris'.ligne.role = tty.role /\ (Trop(pris'.ligne) <=> Trop(tty))
  BY <1>2, <1>3, LigneLu
<1>6. tty'.n = tty.n /\ tty'.lu = Moindre(tty.lu + k, tty.n + 1) /\ (Trop(tty') <=> Trop(tty))
  BY <1>2, <1>3, LigneLu
<1>7. tty.n \in Nat
  BY <1>3, LigneType
<1>8. ASSUME ~ Trop(tty) PROVE Fini(tty')
  <2>1. tty.lu = 0 /\ tty.role = pc
    BY <1>4, <1>8
  <2>2. tty.n + 1 <= k
    BY <1>7, <1>8, <2>1 DEF Trop
  <2> QED
    BY <1>6, <1>7, <2>1, <2>2 DEF Moindre, Fini
<1>9. Blanc(stdio') \/ Trop(stdio')
  BY <1>2 DEF IInv, Reste
<1> QED
  BY <1>1, <1>2, <1>4, <1>5, <1>6, <1>8, <1>9

(* scanf() in client.c: %s takes a word, %d a number or nothing.           *)
LEMMA ScanfReste ==
  ASSUME IInv, prog = "client", NEW a \in Nat, Scanf(a),
         \/ pc = "ip" /\ a = Source.n
         \/ pc \in {"port", "nb"} /\ Nombre(Source) /\ a = Len(Source.chiffres)
         \/ pc \in {"port", "nb"} /\ ~ Nombre(Source) /\ a = Source.lu
  PROVE  /\ pris'.ligne.role # pris'.voulu => Trop(pris'.ligne)
         /\ Blanc(stdio') \/ Trop(stdio')
         /\ Fini(tty') \/ Trop(tty')
         /\ pc = "ip" => Blanc(stdio')
         /\ pc = "port" => Fini(tty')
<1>1. TypeOK /\ Role \in Invites /\ Role = pc
  BY DEF IInv, Role, Invites
<1>2. /\ stdio' = [Source EXCEPT !.lu = a] /\ ~ Blanc(Source) /\ Source \in Ligne
      /\ pris'.voulu = Role /\ pris'.ligne = [Source EXCEPT !.lu = 0]
      /\ \/ Blanc(stdio) /\ Source = tty /\ tty' = Vide
         \/ ~ Blanc(stdio) /\ Source = stdio /\ tty' = tty
  BY <1>1, ScanfType
<1>3. Trop(Source) \/ (Source.lu = 0 /\ Source.role = pc)
  <2>1. CASE Blanc(stdio) /\ Source = tty
    <3>1. tty.n \in Nat /\ tty.lu \in Nat /\ ~ Blanc(tty)
      BY <1>2, <2>1, LigneType
    <3>2. ~ Fini(tty)
      BY <3>1 DEF Fini, Blanc
    <3>3. Trop(tty) \/ (tty.lu = 0 /\ tty.role = pc)
      BY <3>2 DEF IInv, Reste
    <3> QED
      BY <2>1, <3>3
  <2>2. CASE ~ Blanc(stdio) /\ Source = stdio
    BY <2>2 DEF IInv, Reste
  <2> QED
    BY <1>2, <2>1, <2>2
<1>4. pris'.ligne.role = Source.role /\ (Trop(pris'.ligne) <=> Trop(Source))
  BY <1>2, LigneLu
<1>5. stdio'.n = Source.n /\ stdio'.lu = a /\ (Trop(stdio') <=> Trop(Source))
  BY <1>2, LigneLu
<1>6. Source.n \in Nat /\ Source.lu \in Nat /\ Len(Source.chiffres) \in Nat
  BY <1>2, LigneType
<1>7. ASSUME ~ Trop(Source) PROVE Blanc(stdio')
  <2>1. Source.lu = 0 /\ Source.role = pc /\ 0 < Source.n
    BY <1>2, <1>3, <1>6, <1>7 DEF Blanc
  <2>2. CASE pc = "ip"
    BY <1>5, <1>6, <2>2 DEF Blanc
  <2>3. CASE pc \in {"port", "nb"}
    <3>1. Source.n <= Len(Source.chiffres)
      BY <1>6, <1>7, <2>1, <2>3 DEF Trop
    <3>2. Source.chiffres # <<>>
      BY <1>6, <2>1, <3>1, EmptySeq
    <3>3. Nombre(Source)
      BY <2>1, <3>2 DEF Nombre
    <3> QED
      BY <1>5, <1>6, <2>3, <3>1, <3>3 DEF Blanc
  <2> QED
    BY <2>2, <2>3
<1>8. Fini(tty') \/ Trop(tty')
  <2>1. CASE tty' = Vide
    BY <2>1, VideType
  <2>2. CASE ~ Blanc(stdio) /\ tty' = tty
    BY <2>2 DEF IInv, Reste
  <2> QED
    BY <1>2, <2>1, <2>2
<1>9. pc = "ip" => Blanc(stdio')
  BY <1>5, <1>6 DEF Blanc
<1>10. pc = "port" => Fini(tty')
  BY <1>2, VideType DEF IInv, Reste
<1> QED
  BY <1>1, <1>2, <1>3, <1>4, <1>5, <1>7, <1>8, <1>9, <1>10

(* The beginning of client.c.                                              *)
LEMMA DemarrerIInv == IInv /\ Demarrer /\ UNCHANGED varsDir => IInv'
<1> SUFFICES ASSUME IInv, Demarrer, UNCHANGED varsDir PROVE IInv'
  OBVIOUS
<1> USE DEF IInv, Demarrer, Client, Sortir, varsDir, varsEntree, varsSock
<1>1. TypeProg'
  BY Constantes DEF TypeOK, TypeProg, Etapes, Invites, Completer
<1>2. TypeEntree'
  BY DEF TypeOK, TypeEntree
<1>3. TypeSock'
  BY Constantes DEF TypeOK, TypeSock
<1>4. TypeDir'
  BY DEF TypeOK, TypeDir
<1>5. Accord'
  BY DEF Accord, Trop
<1>6. Reste'
  BY DEF Reste, Trop, Fini, Blanc, TypeOK, TypeEntree, Ligne, Invites
<1>7. Messages'
  BY Constantes DEF Messages, Completer
<1>8. Sockets'
  BY DEF Sockets
<1> QED
  BY <1>1, <1>2, <1>3, <1>4, <1>5, <1>6, <1>7, <1>8 DEF TypeOK

(* A command of client.c.                                                  *)
LEMMA LireCmdIInv == IInv /\ LireCmd /\ UNCHANGED varsDir => IInv'
<1> SUFFICES ASSUME IInv, LireCmd, UNCHANGED varsDir PROVE IInv'
  OBVIOUS
<1> USE DEF IInv, varsDir, varsEntree, varsSock
<1>1. Role \in Invites
  BY DEF LireCmd, Role, Invites
<1>2. /\ tty' \in Ligne /\ stdio' \in Ligne /\ pris' \in [voulu : Invites, ligne : Ligne]
  BY <1>1, ReadType DEF LireCmd
<1>3. /\ pris'.ligne.role # pris'.voulu => Trop(pris'.ligne)
      /\ Blanc(stdio') \/ Trop(stdio')
      /\ Fini(tty') \/ Trop(tty')
  BY ReadReste DEF LireCmd, Client
<1>4. cmd' \in Mots /\ pc' \in {"list", "ip", "cmd"} /\ UNCHANGED <<prog, id, tmp>>
  <2>1. Epelle \subseteq Mots
    BY LigneType DEF Epelle, Mots, TypeOK, TypeEntree
  <2> QED
    BY <2>1 DEF LireCmd
<1>5. pc = "cmd" /\ UNCHANGED varsSock
  BY DEF LireCmd
<1>6. TypeProg'
  BY <1>4 DEF TypeOK, TypeProg, Etapes, Invites
<1>7. TypeEntree'
  BY <1>2 DEF TypeEntree
<1>8. TypeSock'
  BY <1>5 DEF TypeOK, TypeSock
<1>9. TypeDir'
  BY <1>5 DEF TypeOK, TypeDir
<1>10. Accord'
  BY <1>3 DEF Accord
<1>11. Reste'
  BY <1>3, <1>4 DEF Reste
<1>12. Messages'
  BY <1>4, <1>5 DEF Messages
<1>13. Sockets'
  BY <1>4, <1>5 DEF Sockets
<1> QED
  BY <1>6, <1>7, <1>8, <1>9, <1>10, <1>11, <1>12, <1>13 DEF TypeOK

(* The address.                                                            *)
LEMMA LireIPIInv == IInv /\ LireIP /\ UNCHANGED varsDir => IInv'
<1> SUFFICES ASSUME IInv, LireIP, UNCHANGED varsDir PROVE IInv'
  OBVIOUS
<1> USE DEF IInv, LireIP, Client, varsDir, varsEntree, varsSock
<1>1. Role \in Invites
  BY DEF LireIP, Role, Invites
<1>2. Source.n \in Nat
  BY LigneType DEF Source, TypeOK, TypeEntree
<1>3. /\ tty' \in Ligne /\ stdio' \in Ligne /\ pris' \in [voulu : Invites, ligne : Ligne]
  BY <1>1, <1>2, ScanfType
<1>4. /\ pris'.ligne.role # pris'.voulu => Trop(pris'.ligne)
      /\ Blanc(stdio') \/ Trop(stdio')
      /\ Fini(tty') \/ Trop(tty')
      /\ Blanc(stdio')
  BY <1>2, ScanfReste
<1>5. TypeProg'
  BY DEF TypeOK, TypeProg, Etapes, Invites
<1>6. TypeEntree'
  BY <1>3 DEF TypeEntree
<1>7. TypeSock'
  BY DEF TypeOK, TypeSock
<1>8. TypeDir'
  BY DEF TypeOK, TypeDir
<1>9. Accord'
  BY <1>4 DEF Accord
<1>10. Reste'
  BY <1>4 DEF Reste
<1>11. Messages'
  BY DEF Messages
<1>12. Sockets'
  BY DEF Sockets
<1> QED
  BY <1>5, <1>6, <1>7, <1>8, <1>9, <1>10, <1>11, <1>12 DEF TypeOK

(* The port.                                                               *)
LEMMA LirePortIInv == IInv /\ LirePort /\ UNCHANGED varsDir => IInv'
<1> SUFFICES ASSUME IInv, LirePort, UNCHANGED varsDir PROVE IInv'
  OBVIOUS
<1> USE DEF IInv, varsDir, varsEntree, varsSock
<1>1. Role \in Invites
  BY DEF LirePort, Role, Invites
<1>2. PICK a \in Nat : Scanf(a) /\ ((Nombre(Source) /\ a = Len(Source.chiffres)) \/ (~ Nombre(Source) /\ a = Source.lu))
  <2>1. Source \in Ligne
    BY DEF Source, TypeOK, TypeEntree
  <2>2. Source.lu \in Nat /\ Len(Source.chiffres) \in Nat
    BY <2>1, LigneType
  <2>3. CASE Nombre(Source)
    BY <2>2, <2>3 DEF LirePort
  <2>4. CASE ~ Nombre(Source)
    BY <2>2, <2>4 DEF LirePort
  <2> QED
    BY <2>3, <2>4
<1>3. pc = "port" /\ prog = "client"
  BY DEF LirePort, Client
<1>4. /\ tty' \in Ligne /\ stdio' \in Ligne /\ pris' \in [voulu : Invites, ligne : Ligne]
  BY <1>1, <1>2, ScanfType
<1>5. /\ pris'.ligne.role # pris'.voulu => Trop(pris'.ligne)
      /\ Blanc(stdio') \/ Trop(stdio')
      /\ Fini(tty') \/ Trop(tty')
      /\ Fini(tty')
  BY <1>2, <1>3, ScanfReste
<1>6. pc' \in {"connect", "port", "boucle"} /\ UNCHANGED <<prog, id, cmd, tmp, varsSock>>
  BY DEF LirePort
<1>7. TypeProg'
  BY <1>6 DEF TypeOK, TypeProg, Etapes, Invites
<1>8. TypeEntree'
  BY <1>4 DEF TypeEntree
<1>9. TypeSock'
  BY <1>6 DEF TypeOK, TypeSock
<1>10. TypeDir'
  BY <1>6 DEF TypeOK, TypeDir
<1>11. Accord'
  BY <1>5 DEF Accord
<1>12. Reste'
  BY <1>5, <1>6 DEF Reste
<1>13. Messages'
  BY <1>3, <1>6 DEF Messages
<1>14. Sockets'
  BY <1>3, <1>6 DEF Sockets
<1> QED
  BY <1>7, <1>8, <1>9, <1>10, <1>11, <1>12, <1>13, <1>14 DEF TypeOK

(* The connection to a broadcaster.                                        *)
LEMMA ConnecterIInv == IInv /\ Connecter /\ UNCHANGED varsDir => IInv'
<1> SUFFICES ASSUME IInv, Connecter, UNCHANGED varsDir PROVE IInv'
  OBVIOUS
<1> USE DEF IInv, Connecter, Client, Connecte, Sortir, varsDir, varsEntree, varsSock
<1>1. TypeProg'
  BY DEF TypeOK, TypeProg, Etapes, Invites
<1>2. TypeEntree'
  BY DEF TypeOK, TypeEntree
<1>3. TypeSock'
  BY Constantes, RequeteType DEF TypeOK, TypeSock
<1>4. TypeDir'
  BY DEF TypeOK, TypeDir
<1>5. Accord'
  BY DEF Accord, Trop
<1>6. Reste'
  BY DEF Reste, Trop, Fini, Blanc, TypeOK, TypeEntree, Ligne, Invites
<1>7. Messages'
  BY RequeteType DEF Messages
<1>8. Sockets'
  BY DEF Sockets, TypeOK, TypeSock
<1> QED
  BY <1>1, <1>2, <1>3, <1>4, <1>5, <1>6, <1>7, <1>8 DEF TypeOK

(* The connection to the directory, refused or not.                        *)
LEMMA ListIInv == IInv /\ List /\ UNCHANGED varsDir => IInv'
<1> SUFFICES ASSUME IInv, List, UNCHANGED varsDir PROVE IInv'
  OBVIOUS
<1> USE DEF IInv, List, Client, Connecte, varsDir, varsEntree, varsSock
<1>1. TypeProg'
  BY DEF TypeOK, TypeProg, Etapes, Invites
<1>2. TypeEntree'
  BY DEF TypeOK, TypeEntree
<1>3. TypeSock'
  BY Constantes, RequeteType DEF TypeOK, TypeSock, Moindre
<1>4. TypeDir'
  BY DEF TypeOK, TypeDir
<1>5. Accord'
  BY DEF Accord, Trop
<1>6. Reste'
  BY DEF Reste, Trop, Fini, Blanc, TypeOK, TypeEntree, Ligne, Invites
<1>7. Messages'
  BY RequeteType DEF Messages
<1>8. Sockets'
  BY DEF Sockets, TypeOK, TypeSock, Moindre
<1> QED
  BY <1>1, <1>2, <1>3, <1>4, <1>5, <1>6, <1>7, <1>8 DEF TypeOK

(* The number of messages.                                                 *)
LEMMA LireNbIInv == IInv /\ LireNb /\ UNCHANGED varsDir => IInv'
<1> SUFFICES ASSUME IInv, LireNb, UNCHANGED varsDir PROVE IInv'
  OBVIOUS
<1> USE DEF IInv, varsDir, varsEntree, varsSock
<1>1. Role \in Invites
  BY DEF LireNb, Role, Invites
<1>2. PICK a \in Nat : Scanf(a) /\ ((Nombre(Source) /\ a = Len(Source.chiffres)) \/ (~ Nombre(Source) /\ a = Source.lu))
  <2>1. Source \in Ligne
    BY DEF Source, TypeOK, TypeEntree
  <2>2. Source.lu \in Nat /\ Len(Source.chiffres) \in Nat
    BY <2>1, LigneType
  <2>3. CASE Nombre(Source)
    BY <2>2, <2>3 DEF LireNb
  <2>4. CASE ~ Nombre(Source)
    BY <2>2, <2>4 DEF LireNb
  <2> QED
    BY <2>3, <2>4
<1>3. pc = "nb" /\ prog = "client"
  BY DEF LireNb, Client
<1>4. /\ tty' \in Ligne /\ stdio' \in Ligne /\ pris' \in [voulu : Invites, ligne : Ligne]
  BY <1>1, <1>2, ScanfType
<1>5. /\ pris'.ligne.role # pris'.voulu => Trop(pris'.ligne)
      /\ Blanc(stdio') \/ Trop(stdio')
      /\ Fini(tty') \/ Trop(tty')
  BY <1>2, <1>3, ScanfReste
<1>6. pc' \in {"reponse", "nb", "boucle"} /\ UNCHANGED <<prog, id, cmd, tmp, ouverts, refuse, srv, dir>>
  BY DEF LireNb
<1>7. req' = req \/ (req' \in Requete /\ req'.cle = "LAST")
  <2>1. \A v \in 0 .. 999 : resStr(v) \in Nat
    BY DEF resStr
  <2>2. req' = req \/ (\E k \in Nat : req' = LAST(k))
    BY <2>1 DEF LireNb
  <2> QED
    BY <2>2, RequeteType
<1>8. TypeProg'
  BY <1>6 DEF TypeOK, TypeProg, Etapes, Invites
<1>9. TypeEntree'
  BY <1>4 DEF TypeEntree
<1>10. TypeSock'
  BY <1>6, <1>7 DEF TypeOK, TypeSock
<1>11. TypeDir'
  BY <1>6 DEF TypeOK, TypeDir
<1>12. Accord'
  BY <1>5, <1>6 DEF Accord
<1>13. Reste'
  BY <1>5, <1>6 DEF Reste
<1>14. Messages'
  BY <1>3, <1>6, <1>7 DEF Messages
<1>15. Sockets'
  BY <1>3, <1>6 DEF Sockets
<1> QED
  BY <1>8, <1>9, <1>10, <1>11, <1>12, <1>13, <1>14, <1>15 DEF TypeOK

(* The text: what is sent is made of the line that was just typed.         *)
LEMMA LireTexteIInv == IInv /\ LireTexte /\ UNCHANGED varsDir => IInv'
<1> SUFFICES ASSUME IInv, LireTexte, UNCHANGED varsDir PROVE IInv'
  OBVIOUS
<1> USE DEF IInv, varsDir, varsEntree, varsSock
<1>1. Role \in Invites
  BY DEF LireTexte, Role, Invites
<1>2. /\ tty' \in Ligne /\ stdio' \in Ligne /\ pris' \in [voulu : Invites, ligne : Ligne]
      /\ ~ Fini(tty) /\ pris'.ligne = [tty EXCEPT !.lu = 0]
  BY <1>1, ReadType DEF LireTexte, LireInput
<1>3. /\ pris'.ligne.role # pris'.voulu => Trop(pris'.ligne)
      /\ Blanc(stdio') \/ Trop(stdio')
      /\ Fini(tty') \/ Trop(tty')
  BY ReadReste DEF LireTexte, LireInput, Client
<1>4. tty.lu = 0 /\ tty.role = "texte" /\ tty.n \in Nat /\ tty.acc \in Nat /\ tty \in Ligne
  BY <1>2, LigneType DEF LireTexte, Client, Reste, TypeOK, TypeEntree
<1>5. pris'.ligne.role = "texte" /\ pris'.ligne.n = tty.n /\ pris'.ligne.acc = tty.acc
  BY <1>2, <1>4, LigneLu
<1>6. pc = "texte" /\ prog = "client" /\ pc' = "ackm" /\ UNCHANGED <<prog, id, cmd, tmp, ouverts, refuse, srv, dir>>
  BY DEF LireTexte, Client
<1>7. id = 8 /\ srv # "acquitte"
  BY <1>6 DEF Messages
<1>8. /\ req' \in Requete /\ req'.cle = "MESS" /\ req'.texte = Moindre(pris'.ligne.n, 139)
      /\ req'.car - req'.bruit >= 154 \/ pris'.ligne.acc > 0
  <2>1. PICK g \in 0 .. MaxBruit :
          req' = MESS(Longueur(Octets - 1, g) - Accents, g, Octets - 1, g <= 2)
    BY DEF LireTexte
  <2>2. g \in Nat
    BY Constantes
  <2>3. Octets - 1 = Moindre(tty.n, 139) /\ Octets \in Nat /\ Accents = tty.acc
    BY <1>4 DEF Octets, Moindre, Accents
  <2>4. Longueur(Octets - 1, g) - Accents = 154 + g - tty.acc
    BY <1>4, <1>7, <2>2, <2>3 DEF Longueur
  <2>5. /\ req' \in Requete /\ req'.cle = "MESS" /\ req'.texte = Octets - 1
        /\ req'.car = 154 + g - tty.acc /\ req'.bruit = g
    <3>1. 154 + g - tty.acc \in Int /\ Octets - 1 \in Int /\ (g <= 2) \in BOOLEAN
      BY <1>4, <2>2, <2>3
    <3>2. req' = MESS(154 + g - tty.acc, g, Octets - 1, g <= 2)
      BY <2>1, <2>4
    <3>3. ASSUME NEW car \in Int, NEW texte \in Int, NEW fin \in BOOLEAN, req' = MESS(car, g, texte, fin)
          PROVE  req' \in Requete /\ req'.cle = "MESS" /\ req'.texte = texte /\ req'.car = car /\ req'.bruit = g
      BY <2>2, <3>3, MessType
    <3> QED
      BY <3>1, <3>2, <3>3
  <2> QED
    BY <1>4, <1>5, <2>2, <2>3, <2>5
<1>9. TypeProg'
  BY <1>6 DEF TypeOK, TypeProg, Etapes
<1>10. TypeEntree'
  BY <1>2 DEF TypeEntree
<1>11. TypeSock'
  BY <1>6, <1>8 DEF TypeOK, TypeSock
<1>12. TypeDir'
  BY <1>6 DEF TypeOK, TypeDir
<1>13. Accord'
  BY <1>3 DEF Accord
<1>14. Reste'
  BY <1>3, <1>6 DEF Reste
<1>15. Messages'
  BY <1>5, <1>6, <1>7, <1>8 DEF Messages, FinTexte
<1>16. Sockets'
  BY <1>6 DEF Sockets
<1> QED
  BY <1>9, <1>10, <1>11, <1>12, <1>13, <1>14, <1>15, <1>16 DEF TypeOK

(* The answer to a MESS.                                                   *)
LEMMA AckmIInv == IInv /\ Ackm /\ UNCHANGED varsDir => IInv'
<1> SUFFICES ASSUME IInv, Ackm, UNCHANGED varsDir PROVE IInv'
  OBVIOUS
<1> USE DEF IInv, Ackm, Retour, Fermer, varsDir, varsEntree, varsSock
<1>1. TypeProg'
  BY EmptySeq DEF TypeOK, TypeProg, Etapes, Invites, Mots
<1>2. TypeEntree'
  BY DEF TypeOK, TypeEntree
<1>3. TypeSock'
  BY Constantes, RequeteType DEF TypeOK, TypeSock, Sockets
<1>4. TypeDir'
  BY DEF TypeOK, TypeDir
<1>5. Accord'
  BY DEF Accord, Trop
<1>6. Reste'
  BY DEF Reste, Trop, Fini, Blanc, TypeOK, TypeEntree, Ligne, Invites
<1>7. Messages'
  BY RequeteType DEF Messages
<1>8. Sockets'
  BY DEF Sockets, TypeOK, TypeSock
<1> QED
  BY <1>1, <1>2, <1>3, <1>4, <1>5, <1>6, <1>7, <1>8 DEF TypeOK

(* The end of a LAST or of a LIST.                                         *)
LEMMA ReponseIInv == IInv /\ Reponse /\ UNCHANGED varsDir => IInv'
<1> SUFFICES ASSUME IInv, Reponse, UNCHANGED varsDir PROVE IInv'
  OBVIOUS
<1> USE DEF IInv, Reponse, Retour, Fermer, varsDir, varsEntree, varsSock
<1>1. TypeProg'
  BY EmptySeq DEF TypeOK, TypeProg, Etapes, Invites, Mots
<1>2. TypeEntree'
  BY DEF TypeOK, TypeEntree
<1>3. TypeSock'
  BY Constantes, RequeteType DEF TypeOK, TypeSock, Sockets
<1>4. TypeDir'
  BY DEF TypeOK, TypeDir
<1>5. Accord'
  BY DEF Accord, Trop
<1>6. Reste'
  BY DEF Reste, Trop, Fini, Blanc, TypeOK, TypeEntree, Ligne, Invites
<1>7. Messages'
  BY RequeteType DEF Messages
<1>8. Sockets'
  BY DEF Sockets, TypeOK, TypeSock
<1> QED
  BY <1>1, <1>2, <1>3, <1>4, <1>5, <1>6, <1>7, <1>8 DEF TypeOK

(* A LAST that missed ENDM.                                                *)
LEMMA ReponseSansFinIInv == IInv /\ ReponseSansFin /\ UNCHANGED varsDir => IInv'
<1> SUFFICES ASSUME IInv, ReponseSansFin, UNCHANGED varsDir PROVE IInv'
  OBVIOUS
<1> USE DEF IInv, ReponseSansFin, varsDir, varsEntree, varsSock
<1>1. TypeProg'
  BY DEF TypeOK, TypeProg, Etapes
<1>2. TypeEntree'
  BY DEF TypeOK, TypeEntree
<1>3. TypeSock' /\ TypeDir'
  BY DEF TypeOK, TypeSock, TypeDir
<1>4. Accord'
  BY DEF Accord
<1>5. Reste'
  BY DEF Reste, Trop, Fini, Blanc, TypeOK, TypeEntree, Ligne, Invites
<1>6. Messages'
  BY DEF Messages
<1>7. Sockets'
  BY DEF Sockets
<1> QED
  BY <1>1, <1>2, <1>3, <1>4, <1>5, <1>6, <1>7 DEF TypeOK

-----------------------------------------------------------------------------
(* client_alt.c                                                            *)

(* The beginning of client_alt.c.                                          *)
LEMMA DemarrerAltIInv == IInv /\ DemarrerAlt /\ UNCHANGED varsDir => IInv'
<1> SUFFICES ASSUME IInv, DemarrerAlt, UNCHANGED varsDir PROVE IInv'
  OBVIOUS
<1> USE DEF IInv, DemarrerAlt, Sortir, ClientAlt, varsDir, varsEntree, varsSock
<1>1. TypeProg'
  BY Constantes DEF TypeOK, TypeProg, Etapes, Invites
<1>2. TypeEntree'
  BY DEF TypeOK, TypeEntree
<1>3. TypeSock'
  BY Constantes DEF TypeOK, TypeSock
<1>4. TypeDir'
  BY DEF TypeOK, TypeDir
<1>5. Accord'
  BY DEF Accord
<1>6. Reste'
  BY DEF Reste
<1>7. Messages'
  BY Constantes DEF Messages
<1>8. Sockets'
  BY DEF Sockets
<1> QED
  BY <1>1, <1>2, <1>3, <1>4, <1>5, <1>6, <1>7, <1>8 DEF TypeOK

(* A command, or an empty line.                                            *)
LEMMA LireCmdAltIInv == IInv /\ LireCmdAlt /\ UNCHANGED varsDir => IInv'
<1> SUFFICES ASSUME IInv, LireCmdAlt, UNCHANGED varsDir PROVE IInv'
  OBVIOUS
<1> USE DEF IInv, LireCmdAlt, Planter, ClientAlt, varsDir, varsEntree, varsSock
<1>1. Role \in Invites
  BY DEF LireCmdAlt, Role, Invites
<1>2. /\ tty' \in Ligne /\ stdio' \in Ligne /\ pris' \in [voulu : Invites, ligne : Ligne]
  BY <1>1, GetlineType
<1>3. SourceGetline \in Ligne
  BY <1>1, GetlineType
<1>4. TypeProg'
  <2>1. EpelleAlt(SourceGetline) \subseteq Mots
    BY <1>3, LigneType DEF EpelleAlt, Mots
  <2>2. cmd' \in Mots /\ pc' \in {"plante", "ip", "port", "cmd"} /\ UNCHANGED <<prog, id, tmp>>
    BY <2>1 DEF TypeOK, TypeProg
  <2> QED
    BY <2>2 DEF TypeOK, TypeProg, Etapes, Invites
<1>5. TypeEntree'
  BY <1>2 DEF TypeEntree
<1>6. TypeSock'
  BY Constantes DEF TypeOK, TypeSock
<1>7. TypeDir'
  BY DEF TypeOK, TypeDir
<1>8. Accord'
  BY DEF Accord
<1>9. Reste'
  BY DEF Reste
<1>10. Messages'
  BY DEF Messages
<1>11. Sockets'
  BY DEF Sockets
<1> QED
  BY <1>4, <1>5, <1>6, <1>7, <1>8, <1>9, <1>10, <1>11 DEF TypeOK

(* The port, or what the array held.                                       *)
LEMMA LirePortAltIInv == IInv /\ LirePortAlt /\ UNCHANGED varsDir => IInv'
<1> SUFFICES ASSUME IInv, LirePortAlt, UNCHANGED varsDir PROVE IInv'
  OBVIOUS
<1> USE DEF IInv, LirePortAlt, ClientAlt, varsDir, varsEntree, varsSock
<1>1. Role \in Invites
  BY DEF LirePortAlt, Role, Invites
<1>2. PICK a \in Nat : Scanf(a)
  BY LigneType DEF Source, TypeOK, TypeEntree
<1>3. /\ tty' \in Ligne /\ stdio' \in Ligne /\ pris' \in [voulu : Invites, ligne : Ligne]
  BY <1>1, <1>2, ScanfType
<1>4. TypeProg'
  BY DEF TypeOK, TypeProg, Etapes, Invites, Mots
<1>5. TypeEntree'
  BY <1>3 DEF TypeEntree
<1>6. TypeSock'
  BY DEF TypeOK, TypeSock
<1>7. TypeDir'
  BY DEF TypeOK, TypeDir
<1>8. Accord'
  BY DEF Accord
<1>9. Reste'
  BY DEF Reste
<1>10. Messages'
  BY DEF Messages
<1>11. Sockets'
  BY DEF Sockets
<1> QED
  BY <1>4, <1>5, <1>6, <1>7, <1>8, <1>9, <1>10, <1>11 DEF TypeOK

(* The connection to a broadcaster.                                        *)
LEMMA ConnecterAltIInv == IInv /\ ConnecterAlt /\ UNCHANGED varsDir => IInv'
<1> SUFFICES ASSUME IInv, ConnecterAlt, UNCHANGED varsDir PROVE IInv'
  OBVIOUS
<1> USE DEF IInv, ConnecterAlt, Connecte, Sortir, ClientAlt, varsDir, varsEntree, varsSock
<1>1. TypeProg'
  BY DEF TypeOK, TypeProg, Etapes, Invites, Mots
<1>2. TypeEntree'
  BY DEF TypeOK, TypeEntree
<1>3. TypeSock'
  BY Constantes, RequeteType DEF TypeOK, TypeSock
<1>4. TypeDir'
  BY DEF TypeOK, TypeDir
<1>5. Accord'
  BY DEF Accord
<1>6. Reste'
  BY DEF Reste
<1>7. Messages'
  BY RequeteType DEF Messages
<1>8. Sockets'
  BY DEF Sockets, TypeOK, TypeSock
<1> QED
  BY <1>1, <1>2, <1>3, <1>4, <1>5, <1>6, <1>7, <1>8 DEF TypeOK

(* The address of the directory.                                           *)
LEMMA LireAdrIInv == IInv /\ LireAdr /\ UNCHANGED varsDir => IInv'
<1> SUFFICES ASSUME IInv, LireAdr, UNCHANGED varsDir PROVE IInv'
  OBVIOUS
<1> USE DEF IInv, LireAdr, ClientAlt, varsDir, varsEntree, varsSock
<1>1. Role \in Invites
  BY DEF LireAdr, Role, Invites
<1>2. /\ tty' \in Ligne /\ stdio' \in Ligne /\ pris' \in [voulu : Invites, ligne : Ligne]
  BY <1>1, ReadType
<1>3. TypeProg'
  BY DEF TypeOK, TypeProg, Etapes, Invites, Mots
<1>4. TypeEntree'
  BY <1>2 DEF TypeEntree
<1>5. TypeSock'
  BY DEF TypeOK, TypeSock
<1>6. TypeDir'
  BY DEF TypeOK, TypeDir
<1>7. Accord'
  BY DEF Accord
<1>8. Reste'
  BY DEF Reste
<1>9. Messages'
  BY DEF Messages
<1>10. Sockets'
  BY DEF Sockets
<1> QED
  BY <1>3, <1>4, <1>5, <1>6, <1>7, <1>8, <1>9, <1>10 DEF TypeOK

(* Its port.                                                               *)
LEMMA LirePortListIInv == IInv /\ LirePortList /\ UNCHANGED varsDir => IInv'
<1> SUFFICES ASSUME IInv, LirePortList, UNCHANGED varsDir PROVE IInv'
  OBVIOUS
<1> USE DEF IInv, LirePortList, ClientAlt, varsDir, varsEntree, varsSock
<1>1. Role \in Invites
  BY DEF LirePortList, Role, Invites
<1>2. /\ tty' \in Ligne /\ stdio' \in Ligne /\ pris' \in [voulu : Invites, ligne : Ligne]
  BY <1>1, ReadType
<1>3. TypeProg'
  BY DEF TypeOK, TypeProg, Etapes, Invites, Mots
<1>4. TypeEntree'
  BY <1>2 DEF TypeEntree
<1>5. TypeSock'
  BY DEF TypeOK, TypeSock
<1>6. TypeDir'
  BY DEF TypeOK, TypeDir
<1>7. Accord'
  BY DEF Accord
<1>8. Reste'
  BY DEF Reste
<1>9. Messages'
  BY DEF Messages
<1>10. Sockets'
  BY DEF Sockets
<1> QED
  BY <1>3, <1>4, <1>5, <1>6, <1>7, <1>8, <1>9, <1>10 DEF TypeOK

(* The connection to the directory.                                        *)
LEMMA ListAltIInv == IInv /\ ListAlt /\ UNCHANGED varsDir => IInv'
<1> SUFFICES ASSUME IInv, ListAlt, UNCHANGED varsDir PROVE IInv'
  OBVIOUS
<1> USE DEF IInv, ListAlt, Connecte, Sortir, ClientAlt, varsDir, varsEntree, varsSock
<1>1. TypeProg'
  BY DEF TypeOK, TypeProg, Etapes, Invites, Mots
<1>2. TypeEntree'
  BY DEF TypeOK, TypeEntree
<1>3. TypeSock'
  BY Constantes, RequeteType DEF TypeOK, TypeSock
<1>4. TypeDir'
  BY DEF TypeOK, TypeDir
<1>5. Accord'
  BY DEF Accord
<1>6. Reste'
  BY DEF Reste
<1>7. Messages'
  BY RequeteType DEF Messages
<1>8. Sockets'
  BY DEF Sockets, TypeOK, TypeSock
<1> QED
  BY <1>1, <1>2, <1>3, <1>4, <1>5, <1>6, <1>7, <1>8 DEF TypeOK

(* The array of the number of entries is not initialised.                  *)
LEMMA ReponseListAltIInv == IInv /\ ReponseListAlt /\ UNCHANGED varsDir => IInv'
<1> SUFFICES ASSUME IInv, ReponseListAlt, UNCHANGED varsDir PROVE IInv'
  OBVIOUS
<1> USE DEF IInv, ReponseListAlt, Planter, ClientAlt, varsDir, varsEntree, varsSock
<1>1. TypeProg'
  BY DEF TypeOK, TypeProg, Etapes, Invites, Mots
<1>2. TypeEntree'
  BY DEF TypeOK, TypeEntree
<1>3. TypeSock'
  BY Constantes DEF TypeOK, TypeSock
<1>4. TypeDir'
  BY DEF TypeOK, TypeDir
<1>5. Accord'
  BY DEF Accord
<1>6. Reste'
  BY DEF Reste
<1>7. Messages'
  BY DEF Messages
<1>8. Sockets'
  BY DEF Sockets
<1> QED
  BY <1>1, <1>2, <1>3, <1>4, <1>5, <1>6, <1>7, <1>8 DEF TypeOK

(* The number of messages.                                                 *)
LEMMA LireNbAltIInv == IInv /\ LireNbAlt /\ UNCHANGED varsDir => IInv'
<1> SUFFICES ASSUME IInv, LireNbAlt, UNCHANGED varsDir PROVE IInv'
  OBVIOUS
<1> USE DEF IInv, varsDir, varsEntree, varsSock
<1>1. Role \in Invites
  BY DEF LireNbAlt, Role, Invites
<1>2. /\ tty' \in Ligne /\ stdio' \in Ligne /\ pris' \in [voulu : Invites, ligne : Ligne]
  BY <1>1, ReadType DEF LireNbAlt, TailleTmp
<1>3. pc = "nb" /\ prog = "client_alt" /\ pc' \in {"reponse", "nb"} /\ UNCHANGED <<prog, id, cmd, ouverts, refuse, srv, dir>>
  BY DEF LireNbAlt, ClientAlt
<1>4. tmp' \in Seq(Nat)
  <2>1. Moindre(4, tty.n + 1 - tty.lu) \in Int /\ tty.chiffres \in Seq(0 .. 9) /\ tty.lu \in Nat /\ tty.n \in Nat
    BY LigneType DEF TypeOK, TypeEntree, Moindre
  <2>2. ~ Fini(tty)
    BY <1>1, ReadType DEF LireNbAlt, TailleTmp
  <2>3. Moindre(4, tty.n + 1 - tty.lu) \in Nat
    BY <2>1, <2>2 DEF Fini, Moindre
  <2>4. \A i \in 1 .. Len(tty.chiffres) : tty.chiffres[i] \in Nat
    <3>1. \A i \in 1 .. Len(tty.chiffres) : tty.chiffres[i] \in 0 .. 9
      BY <2>1, ElementOfSeq
    <3> QED
      BY <3>1
  <2>5. Lus \in Seq(Nat)
    <3>1. \A i \in 1 .. Moindre(4, tty.n + 1 - tty.lu) :
            (IF tty.lu + i <= Len(tty.chiffres) THEN tty.chiffres[tty.lu + i]
             ELSE IF tty.lu + i <= tty.n THEN Lettre ELSE Saut) \in Nat
      BY <2>1, <2>4 DEF Lettre, Saut
    <3>2. Lus \in [1 .. Moindre(4, tty.n + 1 - tty.lu) -> Nat]
      BY <3>1 DEF Lus, TailleTmp
    <3> QED
      BY <2>3, <3>2, SeqDef
  <2>6. tmp \in Seq(Nat) /\ Len(tmp) \in Nat /\ Len(Lus) \in Nat
    BY <2>5, LenProperties DEF TypeOK, TypeProg
  <2>7. Relire(Lus) \in Seq(Nat)
    <3>1. CASE tmp = <<>>
      BY <2>5, <3>1 DEF Relire
    <3>2. CASE tmp # <<>>
      <4>1. \A i \in 1 .. Len(tmp) : (IF i <= Len(Lus) THEN Lus[i] ELSE tmp[i]) \in Nat
        BY <2>5, <2>6, ElementOfSeq
      <4>2. Relire(Lus) \in [1 .. Len(tmp) -> Nat]
        BY <3>2, <4>1 DEF Relire
      <4> QED
        BY <2>6, <4>2, SeqDef
    <3> QED
      BY <3>1, <3>2
  <2> QED
    BY <2>7 DEF LireNbAlt
<1>5. req' = req \/ (req' \in Requete /\ req'.cle = "LAST")
  <2>1. req' = req \/ (\E k \in Nat : req' = LAST(k))
    BY DEF LireNbAlt
  <2> QED
    BY <2>1, RequeteType
<1>6. srv # "acquitte"
  <2>1. req.car \in Int
    BY DEF TypeOK, TypeSock, Requete
  <2> QED
    BY <1>3, <2>1 DEF Messages, FinTexte
<1>7. TypeProg'
  BY <1>3, <1>4 DEF TypeOK, TypeProg, Etapes, Invites, Mots
<1>8. TypeEntree'
  BY <1>2 DEF TypeEntree
<1>9. TypeSock'
  BY <1>3, <1>5 DEF TypeOK, TypeSock
<1>10. TypeDir'
  BY <1>3 DEF TypeOK, TypeDir
<1>11. Accord'
  BY <1>3 DEF Accord
<1>12. Reste'
  BY <1>3 DEF Reste
<1>13. Messages'
  BY <1>3, <1>5, <1>6 DEF Messages
<1>14. Sockets'
  BY <1>3 DEF Sockets
<1> QED
  BY <1>7, <1>8, <1>9, <1>10, <1>11, <1>12, <1>13, <1>14 DEF TypeOK

(* The text, which is never long enough.                                   *)
LEMMA LireTexteAltIInv == IInv /\ LireTexteAlt /\ UNCHANGED varsDir => IInv'
<1> SUFFICES ASSUME IInv, LireTexteAlt, UNCHANGED varsDir PROVE IInv'
  OBVIOUS
<1> USE DEF IInv, varsDir, varsEntree, varsSock
<1>1. Role \in Invites
  BY DEF LireTexteAlt, Role, Invites
<1>2. /\ tty' \in Ligne /\ stdio' \in Ligne /\ pris' \in [voulu : Invites, ligne : Ligne]
      /\ SourceGetline \in Ligne
  BY <1>1, GetlineType DEF LireTexteAlt
<1>3. /\ pc = "texte" /\ prog = "client_alt" /\ UNCHANGED <<prog, id, tmp, cmd, refuse, srv, dir>>
      /\ (pc' = "ackm" /\ ouverts' = ouverts) \/ (pc' = "plante" /\ ouverts' = 0)
  BY DEF LireTexteAlt, ClientAlt, Planter
<1>4. req' = req \/ (req' \in Requete /\ req'.cle = "MESS" /\ req'.car < FinTexte)
  <2>1. CASE req' = req
    BY <2>1
  <2>2. CASE \E g \in 0 .. 1 : req' = MESS(LongueurAlt(SourceGetline.n - SourceGetline.lu, g) - SourceGetline.acc, g,
                                         SourceGetline.n - SourceGetline.lu, TRUE)
    <3>1. PICK g \in 0 .. 1 : req' = MESS(LongueurAlt(SourceGetline.n - SourceGetline.lu, g) - SourceGetline.acc, g,
                                         SourceGetline.n - SourceGetline.lu, TRUE)
      BY <2>2
    <3>2. SourceGetline.n \in Nat /\ SourceGetline.lu \in Nat /\ SourceGetline.acc \in Nat
      BY <1>2, LigneType
    <3>3. id = 8
      BY <1>3 DEF Messages
    <3>4. /\ LongueurAlt(SourceGetline.n - SourceGetline.lu, g) - SourceGetline.acc \in Int
          /\ LongueurAlt(SourceGetline.n - SourceGetline.lu, g) - SourceGetline.acc < FinTexte
          /\ SourceGetline.n - SourceGetline.lu \in Int
      BY <3>2, <3>3 DEF LongueurAlt, FinTexte
    <3>5. PICK b \in Nat, car \in Int, texte \in Int : car < FinTexte /\ req' = MESS(car, b, texte, TRUE)
      <4>1. g \in Nat
        OBVIOUS
      <4> QED
        BY <3>1, <3>4, <4>1
    <3> QED
      BY <3>5 DEF Envoi, MESS, Requete
  <2> QED
    BY <2>1, <2>2 DEF LireTexteAlt, Planter
<1>5. srv # "acquitte"
  <2>1. req.car \in Int
    BY DEF TypeOK, TypeSock, Requete
  <2> QED
    BY <1>3, <2>1 DEF Messages, FinTexte
<1>6. TypeProg'
  BY <1>3 DEF TypeOK, TypeProg, Etapes, Invites, Mots
<1>7. TypeEntree'
  BY <1>2 DEF TypeEntree
<1>8. TypeSock'
  BY <1>3, <1>4, Constantes DEF TypeOK, TypeSock
<1>9. TypeDir'
  BY <1>3 DEF TypeOK, TypeDir
<1>10. Accord'
  BY <1>3 DEF Accord
<1>11. Reste'
  BY <1>3 DEF Reste
<1>12. Messages'
  BY <1>3, <1>4, <1>5 DEF Messages
<1>13. Sockets'
  BY <1>3 DEF Sockets
<1> QED
  BY <1>6, <1>7, <1>8, <1>9, <1>10, <1>11, <1>12, <1>13 DEF TypeOK

-----------------------------------------------------------------------------
(* client1.c                                                               *)

(* The connection.                                                         *)
LEMMA Connecter1IInv == IInv /\ Connecter1 /\ UNCHANGED varsDir => IInv'
<1> SUFFICES ASSUME IInv, Connecter1, UNCHANGED varsDir PROVE IInv'
  OBVIOUS
<1> USE DEF IInv, Connecter1, Connecte, Sortir, Client1, varsDir, varsEntree, varsSock
<1>1. TypeProg'
  BY DEF TypeOK, TypeProg, Etapes, Invites, Mots
<1>2. TypeEntree'
  BY DEF TypeOK, TypeEntree
<1>3. TypeSock'
  BY Constantes, RequeteType DEF TypeOK, TypeSock
<1>4. TypeDir'
  BY DEF TypeOK, TypeDir
<1>5. Accord'
  BY DEF Accord
<1>6. Reste'
  BY DEF Reste
<1>7. Messages'
  BY RequeteType DEF Messages
<1>8. Sockets'
  BY DEF Sockets, TypeOK, TypeSock
<1> QED
  BY <1>1, <1>2, <1>3, <1>4, <1>5, <1>6, <1>7, <1>8 DEF TypeOK

(* The subscription.                                                       *)
LEMMA AbonnerIInv == IInv /\ Abonner /\ UNCHANGED varsDir => IInv'
<1> SUFFICES ASSUME IInv, Abonner, UNCHANGED varsDir PROVE IInv'
  OBVIOUS
<1> USE DEF IInv, Abonner, Client1, varsDir, varsEntree, varsSock
<1>1. TypeProg'
  BY DEF TypeOK, TypeProg, Etapes, Invites, Mots
<1>2. TypeEntree'
  BY DEF TypeOK, TypeEntree
<1>3. TypeSock'
  BY DEF TypeOK, TypeSock
<1>4. TypeDir'
  BY DEF TypeOK, TypeDir
<1>5. Accord'
  BY DEF Accord
<1>6. Reste'
  BY DEF Reste
<1>7. Messages'
  BY DEF Messages
<1>8. Sockets'
  BY DEF Sockets
<1> QED
  BY <1>1, <1>2, <1>3, <1>4, <1>5, <1>6, <1>7, <1>8 DEF TypeOK

(* A datagram.                                                             *)
LEMMA DatagrammeIInv == IInv /\ Datagramme /\ UNCHANGED varsDir => IInv'
<1> SUFFICES ASSUME IInv, Datagramme, UNCHANGED varsDir PROVE IInv'
  OBVIOUS
<1> USE DEF IInv, Datagramme, Client1, varsDir, varsEntree, varsSock
<1>1. TypeProg'
  BY DEF TypeOK, TypeProg, Etapes, Invites, Mots
<1>2. TypeEntree'
  BY DEF TypeOK, TypeEntree
<1>3. TypeSock'
  BY DEF TypeOK, TypeSock
<1>4. TypeDir'
  BY DEF TypeOK, TypeDir
<1>5. Accord'
  BY DEF Accord
<1>6. Reste'
  BY DEF Reste
<1>7. Messages'
  BY DEF Messages
<1>8. Sockets'
  BY DEF Sockets
<1> QED
  BY <1>1, <1>2, <1>3, <1>4, <1>5, <1>6, <1>7, <1>8 DEF TypeOK

(* A key.                                                                  *)
LEMMA LireToucheIInv == IInv /\ LireTouche /\ UNCHANGED varsDir => IInv'
<1> SUFFICES ASSUME IInv, LireTouche, UNCHANGED varsDir PROVE IInv'
  OBVIOUS
<1> USE DEF IInv, LireTouche, Client1, varsDir, varsEntree, varsSock
<1>1. Role \in Invites
  BY DEF LireTouche, Role, Invites
<1>2. /\ tty' \in Ligne /\ stdio' \in Ligne /\ pris' \in [voulu : Invites, ligne : Ligne]
  BY <1>1, ReadType
<1>3. req' = req \/ (req' \in Requete /\ req'.cle = "MESS" /\ req'.car = LongueurMESS)
  <2>1. req' = req \/ req' = MESS(67, 0, 53, TRUE)
    BY DEF LongueurMESS
  <2>2. ASSUME req' = MESS(67, 0, 53, TRUE)
        PROVE  req' \in Requete /\ req'.cle = "MESS" /\ req'.car = 67
    <3> HIDE DEF LireTouche
    <3>1. req' = [cle |-> "MESS", nb |-> 0, car |-> 67, bruit |-> 0, texte |-> 53, fin |-> TRUE]
      BY <2>2 DEF MESS, Envoi
    <3> QED
      BY <3>1 DEF Requete
  <2> QED
    BY <2>1, <2>2 DEF LongueurMESS
<1>4. srv # "acquitte"
  <2>1. req.car \in Int
    BY DEF TypeOK, TypeSock, Requete
  <2> QED
    BY <2>1 DEF Messages, FinTexte
<1>5. TypeProg'
  BY DEF TypeOK, TypeProg, Etapes, Invites, Mots
<1>6. TypeEntree'
  BY <1>2 DEF TypeEntree
<1>7. TypeSock'
  BY <1>3 DEF TypeOK, TypeSock
<1>8. TypeDir'
  BY DEF TypeOK, TypeDir
<1>9. Accord'
  BY DEF Accord
<1>10. Reste'
  BY DEF Reste
<1>11. Messages'
  <2>1. prog = "client1" /\ UNCHANGED <<prog, srv>>
    OBVIOUS
  <2> HIDE DEF LireTouche
  <2> QED
    BY <1>3, <1>4, <2>1 DEF Messages, FinTexte, LongueurMESS
<1>12. Sockets'
  BY DEF Sockets
<1> QED
  BY <1>5, <1>6, <1>7, <1>8, <1>9, <1>10, <1>11, <1>12 DEF TypeOK

-----------------------------------------------------------------------------
(* What is around the programs.                                            *)

(* The directory in C listens or not.                                      *)
LEMMA EcouterIInv == IInv /\ Ecouter => IInv'
<1> SUFFICES ASSUME IInv, Ecouter PROVE IInv'
  OBVIOUS
<1> USE DEF IInv, Ecouter, varsDir, varsEntree, varsSock
<1>1. TypeProg'
  BY DEF TypeOK, TypeProg, Etapes, Invites, Mots
<1>2. TypeEntree'
  BY DEF TypeOK, TypeEntree
<1>3. TypeSock'
  BY DEF TypeOK, TypeSock
<1>4. TypeDir'
  BY DEF TypeOK, TypeDir
<1>5. Accord'
  BY DEF Accord
<1>6. Reste'
  BY DEF Reste
<1>7. Messages'
  BY DEF Messages
<1>8. Sockets'
  BY DEF Sockets
<1> QED
  BY <1>1, <1>2, <1>3, <1>4, <1>5, <1>6, <1>7, <1>8 DEF TypeOK

(* The end of its process.                                                 *)
LEMMA FinirIInv == IInv /\ Finir => IInv'
<1> SUFFICES ASSUME IInv, Finir PROVE IInv'
  OBVIOUS
<1> USE DEF IInv, Finir, varsDir, varsEntree, varsSock
<1>1. TypeProg'
  BY DEF TypeOK, TypeProg, Etapes, Invites, Mots
<1>2. TypeEntree'
  BY DEF TypeOK, TypeEntree
<1>3. TypeSock'
  BY DEF TypeOK, TypeSock
<1>4. TypeDir'
  BY DEF TypeOK, TypeDir
<1>5. Accord'
  BY DEF Accord
<1>6. Reste'
  BY DEF Reste
<1>7. Messages'
  BY DEF Messages
<1>8. Sockets'
  BY DEF Sockets
<1> QED
  BY <1>1, <1>2, <1>3, <1>4, <1>5, <1>6, <1>7, <1>8 DEF TypeOK

(* One turn of its loop.                                                   *)
LEMMA TournerIInv == IInv /\ Tourner => IInv'
<1> SUFFICES ASSUME IInv, Tourner PROVE IInv'
  OBVIOUS
<1>1. CASE Finir
  BY <1>1, FinirIInv
<1>2. CASE blocs # MaxBlocs /\ blocs' = blocs + 1 /\ fils' \in {fils, fils + 1} /\ UNCHANGED vars
  <2>1. TypeDir'
    BY <1>2, Constantes DEF IInv, TypeOK, TypeDir, vars, varsSock
  <2>2. (TypeProg /\ TypeEntree /\ TypeSock)'
    BY <1>2 DEF IInv, TypeOK, TypeProg, TypeEntree, TypeSock, vars, varsSock, varsEntree
  <2>3. (Accord /\ Reste /\ Messages /\ Sockets)'
    BY <1>2 DEF IInv, Accord, Reste, Messages, Sockets, vars, varsSock, varsEntree
  <2> QED
    BY <2>1, <2>2, <2>3 DEF IInv, TypeOK
<1> QED
  BY <1>1, <1>2 DEF Tourner

(* The user types a line where the program waits for one.                  *)
LEMMA UtilisateurIInv == IInv /\ Utilisateur /\ UNCHANGED varsDir => IInv'
<1> SUFFICES ASSUME IInv, Utilisateur, UNCHANGED varsDir PROVE IInv'
  OBVIOUS
<1> USE DEF IInv, Utilisateur, Taper, Attend, varsDir, varsEntree, varsSock
<1>1. tty' \in Ligne /\ tty'.role = Role /\ tty'.lu = 0
  BY TerminalAssumption
<1>2. prog = "client" /\ pc \in {"ip", "port", "nb"} => Blanc(stdio)
  BY DEF LecteurScanf, Source
<1>3. TypeProg'
  BY DEF TypeOK, TypeProg, Etapes, Invites, Mots
<1>4. TypeEntree'
  BY <1>1 DEF TypeOK, TypeEntree
<1>5. TypeSock'
  BY DEF TypeOK, TypeSock
<1>6. TypeDir'
  BY DEF TypeOK, TypeDir
<1>7. Accord'
  BY DEF Accord
<1>8. Reste'
  BY <1>1, <1>2 DEF Reste, Role, Invites
<1>9. Messages'
  BY DEF Messages
<1>10. Sockets'
  BY DEF Sockets
<1> QED
  BY <1>3, <1>4, <1>5, <1>6, <1>7, <1>8, <1>9, <1>10 DEF TypeOK

(* The service thread reads one line.                                      *)
LEMMA ServirIInv == IInv /\ Servir /\ UNCHANGED varsDir => IInv'
<1> SUFFICES ASSUME IInv, Servir, UNCHANGED varsDir PROVE IInv'
  OBVIOUS
<1> USE DEF IInv, Servir, varsDir, varsEntree, varsSock
<1>0. /\ srv' \in {"repond", "acquitte", "trouble", "muet"}
      /\ srv' = "acquitte" => req.cle = "MESS" /\ req.car >= FinTexte
  BY DEF Issues
<1>1. TypeProg'
  BY DEF TypeOK, TypeProg, Etapes, Invites, Mots
<1>2. TypeEntree'
  BY DEF TypeOK, TypeEntree
<1>3. TypeSock'
  BY <1>0 DEF TypeOK, TypeSock
<1>4. TypeDir'
  BY DEF TypeOK, TypeDir
<1>5. Accord'
  BY DEF Accord
<1>6. Reste'
  BY DEF Reste
<1>7. Messages'
  BY <1>0 DEF Messages
<1>8. Sockets'
  BY DEF Sockets
<1> QED
  BY <1>1, <1>2, <1>3, <1>4, <1>5, <1>6, <1>7, <1>8 DEF TypeOK

-----------------------------------------------------------------------------
(* The theorems.                                                           *)

(* The first state is in the invariant.                                    *)
LEMMA DepartIInv == Depart => IInv
<1> SUFFICES ASSUME Depart PROVE IInv
  OBVIOUS
<1> USE DEF Depart, Init, InitDir, IInv
<1>1. TypeOK
  BY VideType, RequeteType, Constantes, EmptySeq
     DEF TypeOK, TypeProg, TypeEntree, TypeSock, TypeDir, Etapes, Invites, Mots
<1>2. Accord
  BY VideType DEF Accord, Vide
<1>3. Reste
  BY VideType DEF Reste
<1>4. Messages
  BY RequeteType DEF Messages
<1>5. Sockets
  BY DEF Sockets
<1> QED
  BY <1>1, <1>2, <1>3, <1>4, <1>5

(* Every step of client.c keeps it.                                        *)
LEMMA ClientIInv == IInv /\ NextClient /\ UNCHANGED varsDir => IInv'
BY DemarrerIInv, LireCmdIInv, LireIPIInv, LirePortIInv, ConnecterIInv, ListIInv, LireNbIInv,
   LireTexteIInv, AckmIInv, ReponseIInv, ReponseSansFinIInv DEF NextClient

(* Every step of client_alt.c keeps it.                                    *)
LEMMA AltIInv == IInv /\ NextAlt /\ UNCHANGED varsDir => IInv'
BY DemarrerAltIInv, LireCmdAltIInv, LirePortAltIInv, ConnecterAltIInv, LireAdrIInv, LirePortListIInv,
   ListAltIInv, ReponseListAltIInv, LireNbAltIInv, LireTexteAltIInv DEF NextAlt

(* Every step of client1.c keeps it.                                       *)
LEMMA Client1IInv == IInv /\ NextClient1 /\ UNCHANGED varsDir => IInv'
BY Connecter1IInv, AbonnerIInv, DatagrammeIInv, LireToucheIInv DEF NextClient1

(* So does every step of the composition, or none.                         *)
LEMMA Etape == IInv /\ [Next]_varsTout => IInv'
<1> SUFFICES ASSUME IInv, [Next]_varsTout PROVE IInv'
  OBVIOUS
<1>1. CASE Programme
  BY <1>1, ClientIInv, AltIInv, Client1IInv DEF Programme
<1>2. CASE NextDir
  BY <1>2, EcouterIInv, TournerIInv, FinirIInv DEF NextDir, Communication
<1>3. CASE Utilisateur /\ UNCHANGED varsDir
  BY <1>3, UtilisateurIInv
<1>4. CASE Servir /\ UNCHANGED varsDir
  BY <1>4, ServirIInv
<1>5. CASE UNCHANGED varsTout
  <2>1. (TypeProg /\ TypeEntree /\ TypeSock /\ TypeDir)'
    BY <1>5 DEF IInv, TypeOK, TypeProg, TypeEntree, TypeSock, TypeDir, varsTout, vars, varsDir, varsSock, varsEntree
  <2>2. (Accord /\ Reste /\ Messages /\ Sockets)'
    BY <1>5 DEF IInv, Accord, Reste, Messages, Sockets, varsTout, vars, varsSock, varsEntree
  <2> QED
    BY <2>1, <2>2 DEF IInv, TypeOK
<1> QED
  BY <1>1, <1>2, <1>3, <1>4, <1>5 DEF Next, Termine, SansReponse

(* The invariant holds in every state.                                     *)
LEMMA SpecIInv == Spec => []IInv
BY DepartIInv, Etape, PTL DEF Spec

(* Every variable keeps the values the programs can give it.               *)
THEOREM SpecTypeOK == Spec => []TypeOK
<1>1. IInv => TypeOK
  BY DEF IInv
<1> QED
  BY <1>1, SpecIInv, PTL

(* client.c takes a line as the answer to another question only when the   *)
(* line is longer than what its own question could take, whatever lines    *)
(* are typed and in whatever order (client.c:48-110).                      *)
THEOREM SpecAccord == Spec => []Accord
<1>1. IInv => Accord
  BY DEF IInv
<1> QED
  BY <1>1, SpecIInv, PTL

(* An ACKM is given to client.c only, for a text that is stored as it was  *)
(* typed, up to 139 bytes (client.c:100-117, TcpConnexion.java:46).        *)
THEOREM SpecAcquitteFidele == Spec => []AcquitteFidele
<1>1. IInv => AcquitteFidele
  <2> SUFFICES ASSUME IInv, srv = "acquitte" PROVE AcquitteFidele
    BY DEF AcquitteFidele
  <2>1. req.car \in Int /\ req.cle = "MESS" /\ req.car >= FinTexte
    BY DEF IInv, TypeOK, TypeSock, Requete, Messages
  <2>2. prog = "client"
    BY <2>1 DEF IInv, Messages, FinTexte
  <2> QED
    BY <2>1, <2>2 DEF IInv, Messages, AcquitteFidele
<1> QED
  BY <1>1, SpecIInv, PTL

(* At the prompt no socket is open but those of the LIST that were refused *)
(* in client.c (client.c:59-72, 131-136).                                  *)
THEOREM SpecSansFuite == Spec => []SansFuite
<1>1. IInv => SansFuite
  BY DEF IInv, Sockets, SansFuite
<1> QED
  BY <1>1, SpecIInv, PTL

=============================================================================
