----------------------------- MODULE MCLearning -----------------------------
(* Instances of Learning: values and request goroutines are interchangeable.  *)
EXTENDS Learning, TLC

Symmetry == Permutations(Label) \cup Permutations(Value) \cup Permutations(Call)
=============================================================================
