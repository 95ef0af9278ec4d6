--------------------------- MODULE MCSoundSession ---------------------------
(* MCSession for the chunks of single statements, whose sessions are sound.*)
EXTENDS MCSession

RECURSIVE Reached(_)

\* The root scopes that sessions of Chunks get to from those in R.
Reached(R) ==
    LET all == R \cup {Check(chunk[1], <<root>>, TRUE).scopes[1] : chunk \in Chunks, root \in R}
    IN  IF all = R THEN R ELSE Reached(all)

\* The checker and the code generator keep, for these chunks, what the proofs rest on.
ASSUME SoundAssumption == SoundContract(Reached({[n \in Names |-> NoType]}))
=============================================================================
