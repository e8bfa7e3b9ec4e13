------------------------------- MODULE Client1 -------------------------------
(***************************************************************************)
(* client1.c: one connection for the whole life of the program, which      *)
(* waits for a datagram of the broadcast, then for one key.                *)
(***************************************************************************)
EXTENDS Terminal

Client1 == prog = "client1"

Connecter1 ==
  /\ Client1 /\ pc = "connect"
  /\ \/ Connecte("abonne", Rien) /\ UNCHANGED tmp
     \/ Sortir

(* bind() takes the port of the broadcast or not, and its result is not    *)
(* looked at.  The group joined is no group: datagrams come if another     *)
(* program of the machine has joined the right one.                        *)
Abonner ==
  /\ Client1 /\ pc = "abonne"
  /\ pc' \in {"datagramme", "sourd"}
  /\ UNCHANGED <<prog, id, cmd, tmp, varsEntree, varsSock>>

(* recv() on the socket of the broadcast.                                  *)
Datagramme ==
  /\ Client1 /\ pc = "datagramme"
  /\ pc' = "touche"
  /\ UNCHANGED <<prog, id, cmd, tmp, varsEntree, varsSock>>

(* "MESS CLIENT1# Seek success, but ...", with no padding.                 *)
LongueurMESS == 67

(* A key M sends the message.  The service thread reads no other line.     *)
LireTouche ==
  /\ Client1 /\ pc = "touche"
  /\ Read(1)
  /\ req' = IF tty.lu = 0 /\ tty.mot \in {"M", "MESS"} /\ tty.n > 0 /\ req = Rien
              THEN MESS(LongueurMESS, 0, 53, TRUE) ELSE req
  /\ pc' = "datagramme"
  /\ UNCHANGED <<prog, id, cmd, tmp, ouverts, refuse, srv, dir>>

NextClient1 == Connecter1 \/ Abonner \/ Datagramme \/ LireTouche

=============================================================================
