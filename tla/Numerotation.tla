---------------------------- MODULE Numerotation ----------------------------
(***************************************************************************)
(* Diffuseur with a history variable: how many numbers the counter had     *)
(* given out when each message was taken.  It constrains no step, and says *)
(* how far apart in the numbering two messages of one number are.          *)
(***************************************************************************)
EXTENDS Diffuseur

VARIABLE rangs  \* rangs[i]: the numbers given out before that of Pris[i]

varsRangs == <<vars, rangs>>

(* A number goes to each message taken, and to each MESS that was tried.   *)
Donnes == Len(Pris) + Cardinality(Acquittes) + Cardinality(Rates)

InitRangs == Init /\ rangs = <<>>

NextRangs ==
  /\ Next
  /\ rangs' = IF Len(Pris') > Len(Pris) THEN Append(rangs, Donnes) ELSE rangs

SpecRangs == InitRangs /\ [][NextRangs]_varsRangs

(* A number comes back only after NumMax + 1 numbers were given out since  *)
(* the message that had it, to messages taken and to MESS in between       *)
(* (MultiCast.java:28): who listens can tell apart any two messages less   *)
(* than a turn of the counter apart.                                       *)
NumerosDistincts ==
  \A i, j \in 1 .. Len(Pris) : i < j /\ Pris[i].num = Pris[j].num =>
    rangs[j] - rangs[i] > NumMax

=============================================================================
