------------------------------- MODULE Loops -------------------------------
(***************************************************************************)
(* A loop of the code as the function that one round computes of the       *)
(* loop's variables; a round that would end the loop changes nothing.      *)
(***************************************************************************)
EXTENDS Integers

\* s after n rounds.
Rounds(round, s, n) ==
    LET after[k \in 0 .. n] == IF k = 0 THEN s ELSE round[after[k - 1]]
    IN  after[n]
=============================================================================
