---------------------------- MODULE MCProgrammesC ----------------------------
(* Small instances of ProgrammesC.                                         *)
EXTENDS ProgrammesC

L(role, mot, chiffres, n, acc) ==
  [role |-> role, mot |-> mot, chiffres |-> chiffres, n |-> n, acc |-> acc, lu |-> 0]

(* At each prompt: what is asked for, what is not, too much, too little.   *)
LignesMC ==
  [cmd   |-> {L("cmd", m, <<>>, 4, 0) : m \in {"LIST", "LAST", "MESS", "autre"}}
             \cup {L("cmd", "MESS", <<>>, 9, 0), L("cmd", "LIST", <<>>, 5, 0), L("cmd", "autre", <<>>, 0, 0)},
   ip    |-> {L("ip", "autre", <<>>, n, 0) : n \in {9, 15}},
   port  |-> {L("port", "autre", <<4, 3, 4, 3>>, 4, 0), L("port", "autre", <<8, 0>>, 2, 0),
              L("port", "autre", <<>>, 3, 0), L("port", "autre", <<4, 3, 4, 3>>, 8, 0)},
   nb    |-> {L("nb", "autre", <<5>>, 1, 0), L("nb", "autre", <<9, 9, 9>>, 3, 0),
              L("nb", "autre", <<1, 2, 3, 4>>, 4, 0), L("nb", "autre", <<1, 2, 3, 4, 5>>, 5, 0),
              L("nb", "autre", <<3, 2, 7, 7, 3>>, 5, 0), L("nb", "autre", <<2, 0, 0, 0, 0, 0>>, 6, 0),
              L("nb", "autre", <<>>, 2, 0)},
   texte |-> {L("texte", "autre", <<>>, n, 0) : n \in {0, 5, 139, 140, 150}}
             \cup {L("texte", "autre", <<>>, 5, 1)},
   touche |-> {L("touche", "M", <<>>, 1, 0), L("touche", "autre", <<>>, 2, 0)}]
=============================================================================
