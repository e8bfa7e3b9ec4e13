------------------------------ MODULE Diffuseur ------------------------------
(***************************************************************************)
(* The broadcaster: the list `pile` and the counter `numMes`, shared by    *)
(* the thread that multicasts (MultiCast.java) and by one thread per TCP   *)
(* client (TcpConnexion.java).                                             *)
(*                                                                         *)
(* Every access to pile and numMes but pile.isEmpty() is made under        *)
(* synchronized(pile).  The monitors of the string numMes and of the class *)
(* MultiCast are only ever taken inside it, in that order, so one variable *)
(* stands for the three.  A critical section that cannot block is one      *)
(* step; that of LAST writes on a socket, can block, and is one step per   *)
(* line.                                                                   *)
(*                                                                         *)
(* Java indices start at 0: pile.get(k) is pile[k + 1].                    *)
(***************************************************************************)
EXTENDS Integers, Sequences, SequencesExt, FiniteSets

CONSTANTS
  Textes,        \* the 140-character pieces the file can be cut into
  Fichier,       \* the pieces of crash2.txt, in order
  Services,      \* the ServiceMess threads, one per accepted connection
  Libre,         \* owner of a monitor that no thread holds
  Nombres,       \* the numbers a LAST request may ask for
  NumMax,        \* 9999 in the code
  TamponTCP,     \* lines a socket takes before flush() blocks
  ReseauFiable,  \* FALSE: DatagramSocket.send may throw IOException
  MaxDiff        \* bound on the datagrams of a behaviour

ASSUME DiffuseurAssumption ==
  /\ Fichier \in Seq(Textes)
  /\ Services \cap Textes = {} /\ Libre \notin Services
  /\ Nombres \subseteq Int
  /\ NumMax \in Nat /\ MaxDiff \in Nat
  /\ TamponTCP \in Nat \ {0}
  /\ ReseauFiable \in BOOLEAN

VARIABLES
  pile,      \* the shared list, oldest entry first
  numMes,    \* MultiCast.numMes
  verrou,    \* owner of the monitor of pile
  diff,      \* program counter of the MultiCast thread
  data,      \* the datagram it has taken and not sent yet, as a sequence
  diffuses,  \* the datagrams sent on the multicast group, in order
  serv,      \* program counter of each ServiceMess thread
  mess,      \* the line it has read
  stop,      \* the number of lines its LAST will answer
  reponse,   \* the lines written on its socket
  lus,       \* how many of them the client has read
  parti      \* whether the client has gone

varsDiff == <<diff, data, diffuses>>
varsServ == <<serv, mess, stop, reponse, lus, parti>>
vars == <<pile, numMes, verrou, varsDiff, varsServ>>

(* A message is known by its text; the text of a client's message is named *)
(* after the thread that receives it.                                      *)
Contenus == Textes \cup Services
Numeros  == 0 .. NumMax
Message  == [num : Numeros, texte : Contenus]

(* AUTRE: any line that no branch of put() completes, because it is        *)
(* neither MESS nor LAST or because substring or parseInt raises.  FIN:    *)
(* readLine() returned null.                                               *)
Requete  == [cmd : {"MESS", "AUTRE", "FIN"}, nb : {0}] \cup [cmd : {"LAST"}, nb : Nombres]
Aucune   == [cmd |-> "FIN", nb |-> 0]
Ligne    == [cle : {"ACKM", "ENDM"}] \cup [cle : {"OLDM"}, num : Numeros, texte : Contenus]
OLDM(m)  == [cle |-> "OLDM", num |-> m.num, texte |-> m.texte]
ACKM     == [cle |-> "ACKM"]
ENDM     == [cle |-> "ENDM"]

MinDe(a, b) == IF a < b THEN a ELSE b

-----------------------------------------------------------------------------
(* Start-up: setPile, then the two threads.                                *)

setPile == [i \in 1 .. Len(Fichier) |-> [num |-> 0, texte |-> Fichier[i]]]

(* What the MultiCast thread has numbered and appended to pile so far, and *)
(* the same after the pieces of the file.                                  *)
Pris == diffuses \o data
Fil  == setPile \o Pris

Init ==
  /\ pile = setPile
  /\ numMes = 0
  /\ verrou = Libre
  /\ diff = "test" /\ data = <<>> /\ diffuses = <<>>
  /\ serv = [s \in Services |-> "absent"]
  /\ mess = [s \in Services |-> Aucune]
  /\ stop = [s \in Services |-> 0]
  /\ reponse = [s \in Services |-> <<>>]
  /\ lus = [s \in Services |-> 0]
  /\ parti = [s \in Services |-> FALSE]

(* The list and counter operations the threads share.  The definitions     *)
(* named ...Bug are slips the code could have: no run uses them, the check *)
(* of a property puts one in the place of the definition that follows it.  *)
incNumMesBug(n) == n + 1
incNumMesBug2(n) == IF n + 2 > NumMax THEN 0 ELSE n + 1
incNumMes(n) == IF n + 1 > NumMax THEN 0 ELSE n + 1

RecopierBug(p, m) == p
Recopier(p, m) == Append(p, m)

InsererBug(p, k, m) == IF k = 0 THEN <<m>> \o p ELSE InsertAt(p, k, m)
InsererBug2(p, k, m) == Append(p, m)
Inserer(p, k, m) == InsertAt(p, k + 1, m)

(* The owner of the monitor while LAST answers, and once it has.           *)
PrisParBug(s) == Libre
PrisPar(s) == s
RenduParBug(s) == s
RenduPar(s) == Libre

-----------------------------------------------------------------------------
(* MultiCast.take                                                          *)

Boucle ==
  /\ diff = "test"
  /\ diff' = IF pile = <<>> THEN "fini" ELSE "dort"
  /\ UNCHANGED <<pile, numMes, verrou, data, diffuses, varsServ>>

(* The critical section: the message at the cursor is given the current    *)
(* number and a copy of it goes to the end of the list.  Past the end,     *)
(* pile.get raises IndexOutOfBoundsException, which take() does not catch. *)
Prendre ==
  /\ diff = "dort" /\ verrou = Libre /\ Len(diffuses) < MaxDiff
  /\ IF numMes < Len(pile)
     THEN LET msg2 == [num |-> numMes, texte |-> pile[numMes + 1].texte]
          IN  /\ pile' = Recopier(pile, msg2) /\ data' = <<msg2>>
              /\ numMes' = incNumMes(numMes)
              /\ diff' = "envoi"
     ELSE diff' = "mort" /\ UNCHANGED <<pile, numMes, data>>
  /\ UNCHANGED <<verrou, diffuses, varsServ>>

Envoyer ==
  /\ diff = "envoi"
  /\ diffuses' = diffuses \o data
  /\ data' = <<>>
  /\ diff' = "test"
  /\ UNCHANGED <<pile, numMes, verrou, varsServ>>

(* The try is outside the loop: one failed send ends the thread.           *)
EnvoiEchoue ==
  /\ diff = "envoi" /\ ~ ReseauFiable
  /\ diff' = "fini"
  /\ UNCHANGED <<pile, numMes, verrou, data, diffuses, varsServ>>

MultiCast == Boucle \/ Prendre \/ Envoyer \/ EnvoiEchoue

-----------------------------------------------------------------------------
(* TcpConnexion: accept, then ServiceMess.put in a thread of its own.      *)

Accepter(s) ==
  /\ serv[s] = "absent"
  /\ serv' = [serv EXCEPT ![s] = "lit"]
  /\ UNCHANGED <<pile, numMes, verrou, varsDiff, mess, stop, reponse, lus, parti>>

(* readLine(), outside the monitor.                                        *)
Lire(s) ==
  /\ serv[s] = "lit"
  /\ \E r \in Requete : (r.cmd = "FIN" <=> parti[s]) /\ mess' = [mess EXCEPT ![s] = r]
  /\ serv' = [serv EXCEPT ![s] = "attend"]
  /\ UNCHANGED <<pile, numMes, verrou, varsDiff, stop, reponse, lus, parti>>

(* readLine() raises IOException, the connection is reset: the outer catch *)
(* prints it, the monitor was not asked for and the socket stays open.     *)
LireEchoue(s) ==
  /\ serv[s] = "lit" /\ parti[s]
  /\ serv' = [serv EXCEPT ![s] = "muet"]
  /\ UNCHANGED <<pile, numMes, verrou, varsDiff, mess, stop, reponse, lus, parti>>

PeutTraiter(s, cmd) == serv[s] = "attend" /\ verrou = Libre /\ mess[s].cmd = cmd

(* The counter moves first, the message goes where the cursor now is.      *)
MESS(s) ==
  /\ PeutTraiter(s, "MESS")
  /\ numMes' = incNumMes(numMes)
  /\ numMes' <= Len(pile)
  /\ pile' = Inserer(pile, numMes', [num |-> numMes', texte |-> s])
  /\ reponse' = [reponse EXCEPT ![s] = Append(@, ACKM)]
  /\ serv' = [serv EXCEPT ![s] = "clos"]
  /\ UNCHANGED <<verrou, varsDiff, mess, stop, lus, parti>>

(* pile.add raises: the counter has moved, nothing is answered and the     *)
(* socket stays open (outer catch).                                        *)
MESSHorsBornes(s) ==
  /\ PeutTraiter(s, "MESS")
  /\ numMes' = incNumMes(numMes)
  /\ numMes' > Len(pile)
  /\ serv' = [serv EXCEPT ![s] = "muet"]
  /\ UNCHANGED <<pile, verrou, varsDiff, mess, stop, reponse, lus, parti>>

LAST(s) ==
  /\ PeutTraiter(s, "LAST")
  /\ stop' = [stop EXCEPT ![s] = MinDe(mess[s].nb, numMes)]
  /\ verrou' = PrisPar(s)
  /\ serv' = [serv EXCEPT ![s] = "envoie"]
  /\ UNCHANGED <<pile, numMes, varsDiff, mess, reponse, lus, parti>>

(* flush() blocks while a client that is still there does not read.        *)
PeutEcrire(s) == parti[s] \/ Len(reponse[s]) - lus[s] < TamponTCP

(* One turn of the for loop: the i-th entry from the end of the list.      *)
LASTSuivant(s) ==
  LET i == Len(reponse[s]) IN
  /\ serv[s] = "envoie" /\ i < stop[s] /\ PeutEcrire(s)
  /\ i < Len(pile)
  /\ reponse' = [reponse EXCEPT ![s] = Append(@, OLDM(pile[Len(pile) - i]))]
  /\ UNCHANGED <<pile, numMes, verrou, varsDiff, serv, mess, stop, lus, parti>>

(* The iterator is exhausted: next() raises, the socket stays open.        *)
LASTHorsBornes(s) ==
  /\ serv[s] = "envoie" /\ Len(reponse[s]) < stop[s]
  /\ Len(reponse[s]) >= Len(pile)
  /\ serv' = [serv EXCEPT ![s] = "muet"]
  /\ verrou' = RenduPar(s)
  /\ UNCHANGED <<pile, numMes, varsDiff, mess, stop, reponse, lus, parti>>

LASTFin(s) ==
  /\ serv[s] = "envoie" /\ Len(reponse[s]) >= stop[s] /\ PeutEcrire(s)
  /\ reponse' = [reponse EXCEPT ![s] = Append(@, ENDM)]
  /\ serv' = [serv EXCEPT ![s] = "clos"]
  /\ verrou' = RenduPar(s)
  /\ UNCHANGED <<pile, numMes, varsDiff, mess, stop, lus, parti>>

(* No branch applies or an exception is printed: no answer, no close.      *)
Ignorer(s) ==
  /\ PeutTraiter(s, "AUTRE")
  /\ serv' = [serv EXCEPT ![s] = "muet"]
  /\ UNCHANGED <<pile, numMes, verrou, varsDiff, mess, stop, reponse, lus, parti>>

(* mess is null: NullPointerException, caught, the socket is closed.       *)
Couper(s) ==
  /\ PeutTraiter(s, "FIN")
  /\ serv' = [serv EXCEPT ![s] = "clos"]
  /\ UNCHANGED <<pile, numMes, verrou, varsDiff, mess, stop, reponse, lus, parti>>

put(s) == \/ MESS(s) \/ MESSHorsBornes(s)
          \/ LAST(s) \/ LASTSuivant(s) \/ LASTHorsBornes(s) \/ LASTFin(s)
          \/ Ignorer(s) \/ Couper(s)

-----------------------------------------------------------------------------
(* The client at the other end of the socket.                              *)

ClientLit(s) ==
  /\ ~ parti[s] /\ lus[s] < Len(reponse[s])
  /\ lus' = [lus EXCEPT ![s] = @ + 1]
  /\ UNCHANGED <<pile, numMes, verrou, varsDiff, serv, mess, stop, reponse, parti>>

ClientPart(s) ==
  /\ serv[s] \notin {"absent", "clos", "muet"} /\ ~ parti[s]
  /\ parti' = [parti EXCEPT ![s] = TRUE]
  /\ UNCHANGED <<pile, numMes, verrou, varsDiff, serv, mess, stop, reponse, lus>>

(* The behaviour ends: every client is served, and the multicast thread is *)
(* over or has reached the bound.                                          *)
Termine ==
  /\ diff \in {"fini", "mort"} \/ (diff = "dort" /\ Len(diffuses) = MaxDiff)
  /\ \A s \in Services : /\ serv[s] \in {"clos", "muet"}
                         /\ parti[s] \/ lus[s] = Len(reponse[s])
  /\ UNCHANGED vars

Next ==
  \/ MultiCast
  \/ \E s \in Services : \/ Accepter(s) \/ Lire(s) \/ LireEchoue(s) \/ put(s)
                         \/ ClientLit(s) \/ ClientPart(s)
  \/ Termine

Spec == Init /\ [][Next]_vars

(* Runnable threads are scheduled, and the clients of the repository read  *)
(* their answer.  Nothing obliges a client to connect, to send or to stay. *)
Equite == /\ WF_vars(MultiCast)
          /\ \A s \in Services : WF_vars(put(s)) /\ WF_vars(ClientLit(s))

SpecEquitable == Spec /\ Equite

-----------------------------------------------------------------------------
(* Safety.                                                                 *)

(* The counter stays on the four digits incNumMes keeps (MultiCast.java:28)*)
(* and every thread on the values its code can give its variables.         *)
TypeOK ==
  /\ pile \in Seq(Message) /\ numMes \in Numeros
  /\ verrou \in Services \cup {Libre}
  /\ diff \in {"test", "dort", "envoi", "fini", "mort"}
  /\ data \in Seq(Message) /\ diffuses \in Seq(Message)
  /\ serv \in [Services -> {"absent", "lit", "attend", "envoie", "clos", "muet"}]
  /\ mess \in [Services -> Requete]
  /\ stop \in [Services -> Int]
  /\ reponse \in [Services -> Seq(Ligne)]
  /\ lus \in [Services -> Nat]
  /\ parti \in [Services -> BOOLEAN]

(* No index is ever out of the list: take() never dies of pile.get, and    *)
(* unless the file was empty neither pile.add of MESS nor next() of LAST   *)
(* leaves a client without an answer: who has none sent neither command,   *)
(* or left before its line was read.                                       *)
SansException ==
  /\ diff # "mort"
  /\ Fichier # <<>> => \A s \in Services : serv[s] = "muet" => mess[s].cmd \in {"AUTRE", "FIN"}

(* The cursor of the broadcast is inside the list once there is one.       *)
CurseurDansPile == pile # <<>> => numMes < Len(pile)

Acquittes == {s \in Services : serv[s] = "clos" /\ mess[s].cmd = "MESS"}
Rates     == {s \in Services : serv[s] = "muet" /\ mess[s].cmd = "MESS"}

(* No update of the list or of the counter is lost, whatever the order in  *)
(* which the threads enter the monitor: one entry per message taken or     *)
(* acknowledged, one number per attempt.                                   *)
CompteExact ==
  LET n == Len(Pris) + Cardinality(Acquittes)
  IN  /\ Len(pile) = Len(Fichier) + n
      /\ numMes = (n + Cardinality(Rates)) % (NumMax + 1)

(* A client's message enters before the last pieces that the file still    *)
(* keeps ahead of the cursor, so the end of the list is what was taken     *)
(* last, and before it the last pieces of the file, for as many entries as *)
(* the file had pieces but one.                                            *)
Tranche == Len(Fichier) - 1
SuffixeRecent ==
  \A i \in 1 .. Tranche : pile[Len(pile) + 1 - i] = Fil[Len(Fil) + 1 - i]

(* While LAST answers line by line, its first lines, as many as the file   *)
(* had pieces but one, are the latest messages taken, latest first; where  *)
(* fewer were taken than it writes, those that follow are the last pieces  *)
(* of the file, that nobody was sent, under the number 0                   *)
(* (TcpConnexion.java:84).  Nothing is taken or inserted under it.         *)
ReponseLAST ==
  \A s \in Services : serv[s] = "envoie" =>
    \A i \in 1 .. MinDe(Len(reponse[s]), Tranche) :
      reponse[s][i] = OLDM(Fil[Len(Fil) + 1 - i])

EnAttente(s) == s \in Acquittes /\ \A i \in 1 .. Len(Pris) : Pris[i].texte # s

(* The broadcast never jumps an acknowledged message on its own: one left  *)
(* behind the cursor has, right after it, the message of another client    *)
(* that moved the cursor past it.                                          *)
Depassement ==
  \A s \in Services : EnAttente(s) =>
    \A k \in 1 .. MinDe(numMes, Len(pile)) : pile[k].texte = s =>
      k < Len(pile) /\ pile[k + 1].texte \in Services

-----------------------------------------------------------------------------
(* The list, the counter and the threads implement Antenne.                *)

Etats == [s \in Services |-> IF serv[s] = "envoie" THEN "consulte"
                            ELSE IF serv[s] \in {"clos", "muet"} THEN "faite" ELSE "ouverte"]
Instant == [s \in Services |-> IF serv[s] = "envoie" THEN Pris ELSE <<>>]

Emission == INSTANCE Antenne WITH
  emis <- Pris, confies <- Acquittes, perdus <- Rates,
  etat <- Etats, instant <- Instant, du <- stop

(* Whoever listens or connects sees what Antenne lets them see: each       *)
(* number is the count of those given so far (MultiCast.java:49), and the  *)
(* lines of a LAST tell the messages taken when it began, latest first,    *)
(* then the last pieces of the file (TcpConnexion.java:70).                *)
EmissionSpec == Emission!Spec

-----------------------------------------------------------------------------
(* Liveness, when no send fails and the file is not empty.                 *)

(* The broadcast goes on for as long as the bound lets it: no client can   *)
(* keep the monitor for ever, although LAST writes on its socket while it  *)
(* holds it.                                                               *)
DiffusionProgresse == <>(Len(diffuses) = MaxDiff)

(* Every request that was read is answered, closed or given up.            *)
RequeteTraitee ==
  \A s \in Services : serv[s] = "attend" ~> serv[s] \in {"clos", "muet"}

-----------------------------------------------------------------------------
(* What the command help of the clients says, and the code does not do.    *)

(* MESS sends "un message a diffuser" (Client.java:52): once acknowledged, *)
(* the message waits at the cursor or ahead of it until it is broadcast.   *)
AcquitteDevant ==
  \A s \in Services : EnAttente(s) =>
    \E k \in numMes + 1 .. Len(pile) : pile[k].texte = s

=============================================================================
