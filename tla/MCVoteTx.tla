------------------------------ MODULE MCVoteTx ------------------------------
(* VoteTx on four people and one decision: two against two is the smallest   *)
(* tie that has enough votes to win.  stray is an option id that belongs to  *)
(* no decision the callers can name.                                         *)
EXTENDS VoteTx, TLC

CONSTANTS d1, sushi, tacos, stray

MCDecision == {d1}
MCOption == {sushi, tacos, stray}
MCSlate == [d \in MCDecision |-> <<sushi, tacos>>]

Symmetry == Permutations(User) \cup Permutations(Call)
=============================================================================
