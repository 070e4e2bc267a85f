------------------------------ MODULE MCThread ------------------------------
(* Instances of Thread.  Founders are interchangeable, so are the people who  *)
(* are not members yet, and so are the request goroutines.                    *)
EXTENDS Thread, TLC

Symmetry ==
    Permutations(Founders) \cup Permutations(User \ Founders) \cup Permutations(Call)
=============================================================================
