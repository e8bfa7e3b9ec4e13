# Verification of the netradio broadcaster and directory

The repository is a small multicast radio. A *diffuseur* (broadcaster) cuts a
text file into messages and multicasts one per second, for ever; clients send
it messages to broadcast (`MESS`) or ask for the latest ones (`LAST`) over TCP.
A *gestionnaire* (directory) keeps the list of broadcasters: they register
(`REGI`), anyone lists them (`LIST`), and it polls each registered one (`RUOK` /
`IMOK`) to drop those that are gone. Paths below are relative to
`src/progres-diffueur/`; the Java sources are in `diffuseur/src/`.

## Inventory

| Component | State | Operations | Hard because |
|---|---|---|---|
| `MultiCast` (thread) | the list `pile`, the number `numMes`, the datagram in hand | loop: emptiness test, sleep, take under the monitor, send | shares list and number with every TCP thread; number is both a message number and an index, and wraps; one failed send ends it |
| `TcpConnexion.ServiceMess` (one thread per client) | the request line, the lines of its answer | `MESS` inserts at the cursor, `LAST` answers from the end | several at once; `LAST` writes on a socket inside the monitor; exceptions of which some close the socket and some do not |
| `Diffuseur`, launchers | the pieces of the file | `setPile`, `register`, `list` | order of start-up; cutting and padding |
| `Gestionnaire.Communication` (one thread per connection) | `annuaire` | `REGI`, `LIST` | reads its request inside the monitor; fail-fast iteration |
| `Gestionnaire.Communication.Ruok` (one per polled connection) | the entry it watches | poll, wait, remove | removes without the monitor; timeouts; duplicates are polled too |
| `Registration` (thread of the broadcaster) | its socket | ask, then answer polls | announces before it asks; ends on any exception |
| `Client.java` | a socket | `MESS`, `LAST`, `LIST`, listen | waits for a line that may never come |
| `client.c`, `client_alt.c`, `client_c/client1.c` | what is left of a line in the terminal and in the buffer of the C library, a socket, the arrays a request is built in | the same commands; `client1.c` has one key | `read`, `scanf` and `getline` take from two buffers; one `recv` for one line; arrays without NUL; loops that only an answer ends |
| `Util` | none | `diese`, `zero`, `ip` | padding limits |
| `gestionnaire/gestionnaire.c` | the blocks it has taken | listen, and a loop | unfinished draft: never accepts, and its thread ends the process |

Interactions: the broadcaster's threads share `pile` and `numMes` through the
monitor of `pile`; clients and broadcaster talk over one TCP connection per
request; the broadcaster's `Registration` thread and the directory keep one
connection open for the polls; the directory's threads share `annuaire`, under
its monitor for requests and without it for removals. A client of either language
talks to either directory for `LIST`, to a broadcaster for the rest.

What makes each part correct: the indices of the broadcaster stay in the list
and no update is lost; what was acknowledged is broadcast; an answer to `LAST`
is one snapshot; nobody is kept waiting by another's socket for ever; the
directory has no duplicate and no more than ten entries, each entry is watched,
a live registration stays and a dead one goes, a listing is coherent; a refused
broadcaster is told; a client takes each line typed for the question it answers,
sends what was typed, reads its whole answer and gives its prompt back.
`PROJECT.json` lists the hazards one by one, each at its line.

## Modules

| Module | Models |
|---|---|
| `Diffuseur` | `MultiCast.java`, `TcpConnexion.java`, the result of `Diffuseur.setPile`, the client at the other end of each socket |
| `Numerotation` | `Diffuseur` with a history variable, for the distance between two messages of one number |
| `MCDiffuseur`, `MCNumerotation` | small instances of the two for TLC |
| `Antenne` | what the broadcaster promises, as an abstract specification |
| `DiffuseurProofs` | the inductive invariant of `Diffuseur` for its types and its indices |
| `HistoireProofs` | the inductive invariant for its counts and its history, and that of `Numerotation` |
| `AntenneProofs` | the proof that it implements `Antenne` |
| `Gestionnaire` | `Gestionnaire.java` and the peer of each connection |
| `MCGestionnaire` | small instances of it for TLC |
| `Enregistrement` | `Registration.java` and the programs that list, composed with `Gestionnaire` |
| `MCEnregistrement` | small instances of it for TLC |
| `EnregistrementProofs` | the composition is a behaviour of `Gestionnaire`; what a `Registration` thread reads |
| `Annuaire` | what the directory promises, as an abstract specification |
| `Reception` | the reading of the answers to `LAST` and `LIST` in `client.c`, `client_alt.c`, `Client.java` and `Diffuseur.list` |
| `MCReception` | small instances of it for TLC |
| `ReceptionProofs` | its inductive invariant and the proofs |
| `Terminal` | what the C programs share: the terminal and the two buffers, the connection, the service thread |
| `ClientC`, `ClientAlt`, `Client1` | `client.c`, `client_alt.c`, `client1.c` |
| `GestionnaireC` | `gestionnaire.c` |
| `ProgrammesC` | one C client composed with its user, its service thread and a directory; the properties |
| `MCProgrammesC` | small instances of it for TLC |
| `ProgrammesCProofs` | its inductive invariant and the proofs |
| `SaisieProofs` | the inductive invariant for what the programs take from their user |
| `GestionnaireProofs` | the inductive invariants of `Gestionnaire`, the proofs, and the proof that it implements `Annuaire` |

Names are those of the source (French), as are the names of definitions added.
Definitions named `...Bug` are slips the code could have; no specification uses
them. Each one stands before the definition it could replace, to show that a
property would notice.

### Diffuseur

`pile` is the Java list, oldest first, with `pile.get(k)` written `pile[k + 1]`.
A message is its number and its text; a client's text is named after the thread
that receives it, so it can be followed through the list. `diff` is the program
counter of the multicast thread: `test` (about to call `isEmpty`), `dort`
(asleep or waiting for the monitor), `envoi` (about to send), `fini`, `mort` (an
uncaught exception). `serv[s]` is that of a service thread: `absent`, `lit` (in
`readLine`), `attend` (has its line, waits for the monitor), `envoie` (answering
`LAST`, owns the monitor), `clos` (socket closed), `muet` (over, socket left
open without an answer).

| Action | Code |
|---|---|
| `Boucle` | `while (!pile.isEmpty())`, outside the monitor |
| `Prendre` | the critical section of `take`, or the uncaught exception of `pile.get` |
| `Envoyer`, `EnvoiEchoue` | `dso.send`; the exception that ends the thread |
| `Accepter`, `Lire`, `LireEchoue` | `accept`; `readLine` outside the monitor; a reset connection on which it raises, and which the outer `catch` leaves open |
| `MESS`, `MESSHorsBornes` | increment, insertion and `ACKM`; the exception of `pile.add` after the increment |
| `LAST`, `LASTSuivant`, `LASTHorsBornes`, `LASTFin` | entry in the monitor, one line, `next()` that raises, `ENDM` |
| `Ignorer`, `Couper` | a line no branch completes; a null line |
| `ClientLit`, `ClientPart` | the client reads a line; closes |

The monitors of `numMes` and of the class `MultiCast` are only taken inside that
of `pile`, so one owner, `verrou`, stands for the three. A critical section that
cannot block is one step. `LAST` is one step per line because `flush()` blocks
once `TamponTCP` lines wait for a client that does not read them. That `synchronized`
gives this atomicity is taken from the language: a model in which it is missing is not
written, so no property here would notice that a `synchronized` is gone.

`Numerotation` adds `rangs`, which remembers with each message taken how many numbers
had been given out before (`Donnes`: to messages taken and to `MESS`, answered or not).
It constrains no step. `NumerosDistincts` compares two of these counts: between a
message and the next one with its number, more than `NumMax` numbers went by.

`Fil` is the pieces of the file, under the number 0, followed by what was taken. The end
of the list is the end of `Fil` for as many entries as the file has pieces but one
(`SuffixeRecent`), and so are the first lines of a `LAST` (`ReponseLAST`). When fewer
messages were taken than it answers, because `MESS` raised the number that limits it,
the lines that follow them are pieces nobody was sent. Further back than the pieces of the
file but one, clients' messages may stand anywhere, and nothing is said of the lines.

### Antenne

The abstract broadcaster has no list, no counter, no threads and no monitor. It
keeps the messages that were given a number (`emis`), those that were broadcast, and
the connections whose message was accepted (`confies`) or lost (`perdus`). A message
has the number `Numero`, the count of all numbers given so far modulo `NumMax + 1`,
and a text of the file or of an accepted `MESS` (`Emettre`); it is broadcast before
the next is numbered (`Diffuser`). A connection brings one request: a message that is
confided (`Confier`), a `LAST`, or a line without an answer (`Ecarter`). A `LAST`
begins (`Consulter`) with `instant`, all that was emitted by then, and a length which
the current number limits; each line (`Dire`) tells the message of that moment that
comes next from the end, then the pieces of the file, which have the number 0 as long
as they were not emitted, as far back as the pieces of the file but one; further back
any message there was; it ends after the lines due (`Conclure`). Only with an
empty file may a message be lost (`Perdre`) or a `LAST` given up (`Abandonner`).

`Diffuseur` implements it with `emis` what the multicast thread has taken (`Pris`),
`confies` and `perdus` the service threads that have closed after a `MESS` or whose
`pile.add` raised, and `instant` what is taken *now* while a thread answers a `LAST`
(`Emission`, property `EmissionSpec`). That the last one is a refinement says that
nothing is taken while a `LAST` is under way, since `Emettre` leaves `instant` alone;
`Antenne` itself allows it. Not promised: when an accepted message is
broadcast, since another may be put before it (`AcquitteDevant`, `Depassement`).

### Gestionnaire

`com[c]` is the program counter of a Communication thread: `absent`, `pret`
(wants the monitor), `lit` (owns it, in `readLine`), `linb` (has written the
size), `items` (before `hasNext`), `suivant` (before `next`), `fini`. `ruok[c]`
is that of the poll: `absent`, `demande`, `attend` (sleep, then `readLine` with
its timeout), `retire` (about to remove), `clot` (about to close), `fini`. `Retirer` takes
the entry away and `Fermer` closes the socket, so anything may come between the two.
`vue[c]` is the list the
iterator was created on: `ArrayList` compares a count of changes, and since the
monitor excludes additions, the count is unchanged exactly when the list is.
`Mort` is both a null line and a timeout: a peer that is connected may always be
late. `REGI` is one step: between its `size`, `contains` and `add` only removals
may come, and the outcome is that of an atomic step placed at its last test.

### Annuaire

The abstract directory keeps a set (`registre`) instead of a list, no threads and
no monitor. A connection is accepted when there is room and the registration is
new (`Inscrire`), refused and polled when it is not new (`Refuser`); the end of a
poll takes its own registration away and no other (`Desinscrire`); a listing
starts (`Lister`) and then shows one by one, never twice, what was registered when
it started and still is (`Montrer`). `Gestionnaire` implements it with
`registre` the entries of the list, `suivi[c]` the request of a connection
whose `Ruok` runs, `vu[c]` the list of its iterator, `montre[c]` the registrations
of the `ITEM` lines it has written (`Promesse`, property `PromesseSpec`). `LINB`, the
refusal of a full directory and everything about sockets are stutters. That a poll
ends only on a silent peer is not promised: a timeout is not a proof of death.

### Enregistrement

`Gestionnaire` lets its peer do anything: ask what it likes, when it likes, and
leave. `Enregistrement` puts the programs of the repository there. `reg[c]` is the
program counter of the one at the other end of connection `c`, `affiche[c]` what a
`Registration` thread has shown last.

| Action | Code |
|---|---|
| `Annoncer` | the socket of the thread; the message that the broadcaster is registered, before anything was asked |
| `Demander` | `REGI` |
| `LireReponse` | the answer is shown, whatever it is, and the loop of polls begins |
| `LireRUOK` | a poll is answered, now or too late |
| `LireNull` | at the end of the stream `msg.equals` raises on null: the thread shows an error and ends; it does not close its socket |
| `Interroger`, `DemanderListe` | the connection and the request of `Diffuseur.list` and `Client.list` |
| `Quitter` | a program that lists closes after its answer, a broadcaster at any moment |

A thread that was answered `RENO` goes on answering polls. When its refusal was a
duplicate it is even polled. `Averti` says that it does not believe for ever what it
announced: without an entry, it is told by the end of its stream. The exception is
a registration asked for twice, where the poll of one removes the entry of the
other and says nothing to it. `Prevenu` is the safety half: in every state such a thread has its entry or the
end of its stream to read, now or once the thread that has removed the entry has closed
the socket.

### Reception

One answer, written by the server (`ServiceMess.put` or `Communication.run`) and
read by one program. A byte is its position in the answer: `lignes` holds the end
of each line written, `recus` the count of bytes received, so the real lengths
(161, 57, 9, 6) cost nothing. `Recv` gives what there is up to the length asked,
anything less when the network cuts, 0 when the server has closed; `ReadLine`
gives a whole line, `Null` when the server has closed.

| Action | Code |
|---|---|
| `EcrireLINB`, `EcrireITEM`, `EcrireOLDM`, `EcrireENDM` | one `print` and `flush` |
| `Fermer`, `Exception` | `close`, early when a removal ends the iteration or the process stops; the exception that leaves the socket open |
| `LastC` | `last` of the C clients: one `recv`, one comparison with `ENDM` |
| `ListCEntete`, `ListAltEntete`, `ListCItem` | `list` of `client.c` and of `client_alt.c`, whose number of lines comes from an uninitialised array |
| `LastJava`, `LastJavaFin`, `ListJavaEntete`, `ListJavaItem`, `JavaMeurt` | `Client.last`, `Client.list`, `Diffuseur.list`; a null first line raises |
| `ListFin` | the end of the three `list` |

A `LAST` has any number of lines up to `MaxLignes`; a `LIST` has one of the sizes in
`Annuaires`, up to 99 since `LINB` has two digits (ten is the most in the code). A header
cut after six bytes gives `list` of `client.c` its first digit alone, a shorter one
nothing. `RienNonLu` leaves that program out when the network cuts lines: it does not hold
of it.

`aleas`, chosen at the start and constant, says what an exchange is exposed to:
lines cut by the network (`segments`), texts of 140 characters that take more
bytes (`accents`), removals during `LIST` (`retraits`), a server process that
stops (`pannes`). The properties name the ones under which they hold.

### ProgrammesC and the modules it extends

One program (`prog`) from its start to its end, with its program counter `pc`. A
prompt is named by what it asks for: `cmd`, `ip`, `port`, `nb`, `texte`, `touche`.

What the programs do to their input is the difficulty, so a line is kept as what
they can tell of it: the prompt it was typed at (`role`), how it begins (`mot`), the
number at its head (`chiffres`), its bytes (`n`), those that accents add (`acc`), and
how many were taken (`lu`). `Read` (the system call) takes up to `k` bytes of the
line in the terminal (`tty`); `Scanf` and `Getline` take a line into the buffer of
the library (`stdio`) and give it piece by piece. `pris` remembers the prompt and
the line of the last thing taken. A request is its keyword, its number, its length
in characters (`car`), how many of these are nobody's (`bruit`), the bytes of the
text it carries, and whether it has an end of line (`fin`).

| Action | Code |
|---|---|
| `Demarrer`, `DemarrerAlt` | the identifier of the command line, padded to 8; longer ones end the program |
| `LireCmd`, `LireIP`, `LirePort`, `Connecter` | the loop of `main` in `client.c` |
| `List`, `LireNb`, `LireTexte`, `Reponse`, `Ackm` | `list`, `last` and `msg`, up to `close` |
| `ReponseSansFin` | the loop of `last` that has missed `ENDM` and reads 0 bytes for ever (`client.c:142`) |
| `LireCmdAlt`, `LirePortAlt`, `ConnecterAlt` | the loop of `main` in `client_alt.c` |
| `LireAdr`, `LirePortList`, `ListAlt`, `ReponseListAlt` | its `list`, which ends at an array that is not initialised |
| `LireNbAlt`, `LireTexteAlt` | its `last` and its `msg`; a null pointer or a negative length is `Planter` |
| `Connecter1`, `Abonner`, `Datagramme`, `LireTouche` | `client1.c` |
| `Connecte`, `Sortir`, `Retour` | `socket` and `connect`; `exit`; `close` and the prompt again |
| `Utilisateur` | a line is typed where the program waits for one |
| `Servir` | one line read by a Java service thread (`TcpConnexion.java`, `Gestionnaire.java`), with one of the outcomes in `Issues`: answered; answered in a way that hides `ENDM` (`trouble`); an exception, the socket left open (`muet`) |
| `Ecouter`, `Tourner`, `Communication`, `Finir` | `gestionnaire.c`: `bind`, one turn of its loop, its thread, the end of its process |

What is assumed of the input: an address is a word of at most 15 characters, a
number has no sign, what follows a number on its line is a word, the terminal is
not closed. A number may have any number of digits: `Entier` is what `%d` stores of it,
the greatest long at most (`LongMax`), cut to an int of `Modulo` values. The process of the
broadcaster does not stop; that of the directory in C does. An array without its NUL is followed by at most `MaxBruit` bytes. The
theorems do not assume the length of an address: the model reads a longer one as
`client.c` would if nothing lay behind its array of 16, which C does not define.

Met while translating, and in the model:

- In `client.c` the address typed is never used: `inet_aton` of a name fails and its
  result is not looked at (line 64). `Connecter` succeeds or fails, whatever was typed.
- A word at the prompt of a number is never taken by `scanf`: the program reads it
  for ever (`boucle`). This is one of the four cases `CommandeFinit` excepts. The others
  are a `LAST` that has missed `ENDM` (`client.c:142`, shown by `reception_accents`), an
  exception that left the socket open (`TcpConnexion.java:103`, `Gestionnaire.java:160`),
  and a `MESS` sent without its end of line.
- 4294967301 at the prompt of `last` is stored as 5 and accepted. `NumeroTape` excepts
  numbers that the values of an int cannot hold.
- A text with accents may make the line shorter than the 154 characters
  `substring` needs: no answer, and the client waits (`ackm` with a thread `muet`).
- `list` of `client.c` returns without `close` when it is refused (line 94): the only
  socket that stays, says `SansFuite`.
- A `MESS` of `client_alt.c` has 152 or 153 characters, and that of `client1.c` 67:
  neither is ever acknowledged, which is half of `AcquitteFidele`.
- In `last` of `client_alt.c` the second `read` is cut at the length of the first: 1234,
  refused, then 234, accepted although it was not typed. `NumeroTape` says that this
  takes a line longer than the array, `NumeroBloc` that even then what is sent is 0 or
  consecutive digits of that one line, never bytes of two reads put together.
- `gestionnaire.c` tests a block it has not initialised instead of a socket, and its
  thread takes the size 0 for an address: the process ends, and the reset of the
  connection is what gives the waiting client its prompt back.

## Runs

| Run | Question | Bounds |
|---|---|---|
| `diffuseur_surete` | do the indices, the counts, the numbers, the snapshots and the order hold under every interleaving; is the abstract broadcaster implemented? | 3 clients, 3 pieces, numbers 0..3, 5 datagrams, sends may fail |
| `diffuseur_fichier_vide` | and when the file is empty? | 3 clients, numbers 0..1, 3 datagrams |
| `diffuseur_vivacite` | does the broadcast go on and is each request dealt with? | 2 clients, 2 pieces, 4 datagrams, sends succeed |
| `diffuseur_mess_saute` | is an acknowledged message always ahead of the cursor? **No** | as above |
| `gestionnaire_surete` | no duplicate, no overflow, every entry watched, coherent listing; is the abstract directory implemented? | 4 connections, 2 registrations, room for 2 |
| `gestionnaire_vivacite` | with the programs of the repository as peers: do the dead leave, is everyone served, has the one that is not registered the end of its stream to read, is it told? | 3 connections, 1 registration, room for 2 |
| `gestionnaire_doublon` | does a live registration stay listed? **No** | 3 connections, 1 registration |
| `gestionnaire_liste_tronquee` | does a normal answer to LIST show all? **No** | 3 connections, 2 registrations |
| `reception` | do the readers end, aligned, with everything read? | 5 programs, 2 lines of LAST, directories of 0, 1, 2 and 10, 1 byte of accents; quiet, each disturbance alone, all together |
| `reception_accents` | does `last` in C end when a text has an accent? **No** | 2 lines |
| `clients_c` | does each line answer its question, is what was typed sent and stored, are sockets closed, do commands end? | 3 programs, 2 directories, 28 lines, an int of 32768 values and a long up to 131071, identifiers of 3, 8 and 9, 2 sockets, 3 bytes of garbage, 3 blocks |
| `clients_alt_mess` | does `MESS` of `client_alt.c` send anything? **No** | as above |

Why these bounds. Three clients let two `MESS` and a `LAST` meet the broadcast;
numbers 0..3 with five datagrams take the counter through its wrap with and
without messages of clients; a file of three pieces leaves two in the zone that
`SuffixeRecent` speaks of. With an empty file the list only gets its first entry
after a wrap, which numbers 0..1 reach in two failed `MESS`. `TamponTCP` is 1, so
each line of `LAST` may block. In the directory, two registrations with room for
two reach a full list, duplicates and two removals under one `LIST`; the fourth
connection lets a registration come back. In `gestionnaire_vivacite` three
connections are two broadcasters with the same registration and a program that
lists, or a broadcaster that comes back after a poll has dropped it. One registration
never fills this directory: that a `REGI` refused for lack of room leaves a closed
stream too is in `SpecPrevenu`, proved for every number of registrations.

The lines of `MCProgrammesC` are, at each prompt, one that is asked for, one that is
too long for what reads it, one that is of another kind, an empty one where the
program can tell; texts of 139, 140 and 150 bytes are on both sides of the array,
5 with one accent too short by one; numbers of 1, 3, 4 and 5 digits are on both
sides of the array of `last`. The int and the long are small so that 32773 is cut to 5 and
200000, above the long, to -1, as 4294967301 and a number above 2^63 are. Two sockets let a refused `LIST` be followed by a
command and by another refused one. Symmetry of clients, connections and
registrations is used in the safety runs only.

Deadlock is checked in `Diffuseur`, `Gestionnaire`, `Enregistrement` and
`ProgrammesC`: `Termine` is the stuttering step, enabled when all threads are over,
the program has ended or crashed, or the bound on datagrams is reached;
`SansReponse` of `ProgrammesC` is the wait for an answer that nobody will write. It
is not checked in the runs of `Reception` with removals: a reader whose socket was
left open really waits for ever. There, two lines are enough: one to shift and one
to read shifted; the directory of ten has two digits that differ, to be cut between.

The five runs that must fail show:

- `AcquitteDevant`: `MESS` increments the number and inserts at the new cursor;
  the next `MESS`, if no broadcast came between, moves the cursor past the first
  message, which stays behind until the number wraps. `Depassement`, which does
  hold, says that this is the only way.
- `EnregistrePresent`: a duplicate `REGI` is refused but polled, and the end of
  its poll removes the entry. `PresentSaufDoublon`, which holds, says it is the
  only way.
- `ListeComplete`: a removal that brings the size down to the cursor ends the
  iteration early without an exception.
- `LastAcheve`: `recv` of 161 bytes on a line of 162 shifts all that follows; if
  `ENDM` comes with the end of the line before it, it is not recognised, and then
  `recv` gives 0 for ever. `setPile` counts 140 characters, not bytes, and the
  texts of the repository have accents. `FinDeLigne` and `LectureFinit` hold when
  the lines are left as they are.
- `MessEnvoye`: in `client_alt.c` the port is read by `scanf` and the text by
  `getline`, which gives what `scanf` left, the end of the line: `strtok` gives NULL
  and the program ends. `AcquitteFidele` says the same of all of its texts.

Two more facts have no run of their own. `LAST` may show pieces that were never
broadcast, since `MESS` raises the number that limits it without adding to the end
of the list: `ReponseLAST` says that they come after the messages taken, are the last of
the file and have the number 0. And the exception of `next()`
during a `LIST` leaves the socket open, so a Java program that lists never gives its
console back: `JavaFinit`, which holds, says that it is the only way.

## Fairness

`SpecEquitable` of `Diffuseur` assumes that a thread that can run does (weak
fairness of the multicast thread and of each service thread) and that a
connected client reads what it was sent, as those of the repository do. Weak
fairness is enough for the monitor: only finitely many clients compete with the
broadcast. A client that never reads would hold the monitor through `LAST`; the
liveness properties are false without fairness of `ClientLit`. Nothing
obliges a client to connect, to send, or to stay.

`SpecEquitable` of `Enregistrement` assumes the same of the threads of the directory,
and that a program of the repository that is connected writes its request, as
`Registration`, `Diffuseur.list` and `Client.list` do at once, reads its answer and
notices the end of its stream. `TousServis` is false without it: `readLine` is inside
the monitor and has no timeout. A broadcaster may always be late to answer a poll,
and never has to leave.

`SpecEquitable` of `Reception` assumes that the server and the client run: weak
fairness of each. Delivery needs none, since what was flushed can be read.

`SpecEquitable` of `ProgrammesC` assumes that the program, the directory in C and the
service thread run (weak fairness), and that a user who is asked the same thing
again and again ends by giving what is asked for (strong fairness, since each wrong
line makes the prompt go and come back). Without the second, `CommandeFinit` is
false of the loops that ask for a port or a number until they are given one.

## Proofs

`DiffuseurProofs` proves, for every file, set of clients, `NumMax`, buffer and
bound, `Spec => []TypeOK`, `Spec => []CurseurDansPile` and `Spec => []SansException`.
The assumptions are those of `DiffuseurAssumption`. The inductive invariant
`IInv` adds to them:

- `Exclusion`: a thread that answers `LAST` owns the monitor and its line count
  does not exceed the number, which therefore still bounds it at each line;
- `PileVide`: past the emptiness test the list has an entry (it never shrinks);
- `Marge`: the number plus the pieces of the file never exceed the length, since
  each number given out adds an entry and a wrap only lowers the number. This is
  what `CurseurDansPile` is for an empty file, where a failed `MESS` moves the
  number alone.

`SansException` alone is not inductive: that `next()` of `LAST` has an element
needs the first and the last, and that `pile.get` does needs the second.

`HistoireProofs` proves from the same assumptions `CompteExact`, `SuffixeRecent`,
`ReponseLAST` and `Depassement`, and `NumerosDistincts` of `Numerotation`.
Its invariant `HInv` is `IInv` with them and:

- `Compte`: `CompteExact` with the counter written as a number congruent to the count
  (`Congrus`: equal but for some turns of `NumMax + 1`). The solver does not reason on
  `%`, and one step of `incNumMes` keeps congruence (`CongrusSuivant`);
- `Provenance`: an entry has a text of the file or of an acknowledged `MESS`, so a
  message that comes in is not the copy of one that waits: `Depassement` needs it;
- `Debuts`: nothing is held that was not taken, nor written before it was asked.

For `Numerotation`, `Suite` says with it that the count kept with each message is
congruent to its number, grows from one message to the next and is below the present
count. Two equal numbers are then counts that differ by a positive multiple of
`NumMax + 1` (`CongrusEgal`), which is `NumerosDistincts`.

`SuffixeRecent` rests on `Marge`: a message enters at the counter, and at least the
pieces of the file less one remain behind it (`InsererElements` says where the entries
go). `ReponseLAST` is `SuffixeRecent` seen through the monitor: `Exclusion` says that
nothing is taken or inserted while a thread answers.

`AntenneProofs` proves `SpecEmission`: each step of a thread or a client is a step of
`Antenne` or is not seen, one lemma per action. `Emettre` and `Consulter` need
`CompteExact` (the counter is `Numero`), `Emettre` and `Dire` need `Provenance`, `Dire`
needs `SuffixeRecent`, and `SansException` after the step shows that `Perdre` and
`Abandonner` come with an empty file only.

`GestionnaireProofs` proves, for every set of registrations and of connections and
every `maxDiff`, from `GestionnaireAssumption`, every safety property the runs check
(`TypeOK`, `AnnuaireSain`, `ItemsDUneVue`, `EntreeSurveillee`, `PresentSaufDoublon`)
and the implementation of `Annuaire` (`SpecPromesse`). The argument:

- `OterProprietes`: on a list without duplicates, `remove` takes away exactly one
  registration and leaves a list without duplicates;
- `IInv` adds to the properties `Exclusion` (a thread in its critical section owns
  the monitor, so at most one iterates and nobody adds meanwhile), `Avant`,
  `Nature` and `Entete` (a request does not change once it is served, and an
  answer to `LIST` starts with its header), and `Parcours`: while an iterator is
  open the list is no longer than its view, and if `next()` is called on an
  unchanged list, an entry is left. `ItemsDUneVue` needs `Parcours`, since
  `hasNext()` only compares the cursor with a size that removals lower;
- `Surveillance`, inductive with `IInv`, joins `EntreeSurveillee` and
  `PresentSaufDoublon`: who asked for what never changes once polled, so the
  removal of one registration disturbs only those who asked for it;
- `Etape`: each step of a thread or a peer is a step of `Annuaire` or a
  stutter. `Inscrire` needs that a list has at least as many cells as
  registrations (`CardinaliteListe`), `Montrer` that the entry was not shown
  yet, which `ItemsDUneVue` and the absence of duplicates give.

`EnregistrementProofs` proves that each step of the composition is a step of
`Gestionnaire` or changes nothing of it (`SpecRegSpec`), so that all of the above
holds with the real programs at the other end (`SpecRegSurveillee` is one instance).
`SpecTypeReg` needs two more conjuncts: `Attente`, a thread that waits for its answer
has sent `REGI`, and `Premiere`, the first line written to one that registers is
`REOK` or `RENO`. The second is inductive with `IInv` only: `Avant` and `Nature` say
that nothing was written before the request was served, and by which branch.
`SpecPrevenu` takes `Surveillance` and `Servi`, about a `REGI` that was answered: its
stream is closed unless it is polled, and if it is polled it was accepted, or another
connection has asked for the same (the one that watches the entry it was refused for).

`ProgrammesCProofs` proves, for every set of lines and identifiers and every bound,
from `TerminalAssumption` and `GestionnaireCAssumption`, `TypeOK`, `Accord`,
`AcquitteFidele` and `SansFuite`. The inductive invariant adds to `TypeOK` and `Accord`:

- `Reste`, about `client.c`: what is left of a line, in either buffer, comes from
  one that was too long, and a line not yet touched was typed at the prompt where
  the program is; and where `read` and `scanf` follow each other, at `port` and at
  `texte`, which of the two buffers is empty. `Accord` is not inductive: that the
  next line taken is the right one depends on all that was left behind before.
  `ReadReste` and `ScanfReste` are the two lemmas about one reading;
- `Messages`: a `MESS` with the 154 characters that are acknowledged is one of
  `client.c`, and the line it was made from is still the last one taken; the others
  are too short, because the identifier has exactly 8 characters;
- `Sockets`: how many are open at each prompt, which `SansFuite` needs at `close`.

`SaisieProofs` proves two more invariants of `ProgrammesC`, `AccordAlt` and
`NumeroTape`, with three more conjuncts:

- `ResteAlt`: what is left in either buffer of `client_alt.c` comes from a line that
  `TropAlt` names (what `scanf` leaves behind a port, a number longer than the array, an
  address longer than the buffer of `getline`), or the line was just typed for the prompt
  where the program is; once a number was refused, its array is full and the line is
  longer than it;
- `ResteNb`: nothing of a number is left where `client.c` asks for another one, so
  `scanf` never takes the end of one for a number of its own;
- `Dernier`: a `LAST` is under way only where its answer is waited for, so `pris` is
  still the line its number was read from.

What a number is worth is a fold over its digits, and induction over data is out of
reach; but a number that fits the array has three digits at most, and for these
`Pliage` unfolds the recursion of the fold with the function as an explicit witness,
`AtoiNombre` and `AtoiBorne` read `atoi` on the array. `EntierExact` says that a number
below `Modulo` that `%d` puts in 0..999 is stored as it was typed, for any int and long
as large as the assumption asks; larger numbers are those `NumeroTape` leaves out.

`ReceptionProofs` proves, from `ReceptionAssumption` (`LAST` answers of any number of
lines, directories of at most 99 entries, texts with any number of accents), every invariant the runs of `Reception` check (`TypeOK`, `RienNonLu`, `FinDeLigne`).
`RienNonLu` speaks of a finished reader, so it says nothing of the steps before; the
invariant says where a reader stands all along:

- `Croissance`: the ends of the lines increase, so one position is the end of at most
  one line, and `readLine()` gives the next one (`ReadLineSuivante`);
- `Tailles`: each line has the length the code gives it, and only the last is `ENDM`,
  so that one `recv` with the program's buffer takes exactly one line (`RecvLigne`);
- `Avancement`: how far the server is in its answer;
- `Position`: a reader that nothing disturbs is at the end of some line `k`, and has
  `nb - (k - 1)` lines left to read unless the socket is closed with nothing left;
- `Arrivee`: where a reader that has finished stands.

Only model-checked: all liveness (`DiffusionProgresse`, `RequeteTraitee`, `MortRetire`,
`TousServis`, `Averti`, `CommandeFinit`, `LectureFinit`, `JavaFinit`), which is out of
reach of the prover, with its fairness, and `NumeroBloc`, whose number may come from more
digits than `Pliage` unfolds. Every other invariant that a passing run checks, and both
refinements, are proved.

## Not modelled, and why

- Formatting, padding and cutting of lines (`setPile`, `Util`): pure conversions of
  strings; in `Diffuseur` the pieces are the constant `Fichier`. What their lengths
  do to the readers is in `Reception` and in `ProgrammesC`.
- The memory of a list that only grows: `MaxDiff` bounds it.
- The fields of `ArrayList` under unsynchronised access: planned below.
- `Client.java` but for its two ends of a connection: its dialogue, the length of
  its `MESS`, the reception window.
- Which machine answers: an address is read, and the connection succeeds or fails.
- `gestionnaire.c` past the address its thread reads first: nothing is executed there.
- The Swing window, `Test.java`, the console dialogues of the Java launchers,
  generated files.

## Plan

1. *(done)* `Diffuseur`, the core of the system; `Gestionnaire` and the abstract
   directory `Annuaire` it implements; the first proofs of the one, all those
   of the other; `Reception`.
2. *(done)* `Enregistrement`, the `Registration` thread composed with `Gestionnaire`,
   which it implements; the C programs (`ProgrammesC`) and their proofs.
3. *(done)* The proofs of every safety invariant: the history of `Diffuseur`, what the C
   clients take from their user; the abstract broadcaster `Antenne` that `Diffuseur`
   implements, and its proof.
4. `AnnuaireCourse`: the size and cells of the `ArrayList` under concurrent
   `remove` and `add`, with lost removals and ghost entries.
