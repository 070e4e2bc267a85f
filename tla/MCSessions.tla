----------------------------- MODULE MCSessions -----------------------------
(* Instances of Sessions: request goroutines are interchangeable.             *)
EXTENDS Sessions, TLC

Symmetry == Permutations(Call)
=============================================================================
