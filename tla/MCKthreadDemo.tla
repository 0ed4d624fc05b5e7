---------------------------- MODULE MCKthreadDemo ----------------------------
(* Small instances of the producer thread of lab 15.                       *)
EXTENDS KthreadDemo, TLC

TaskSymmetry ==
    Permutations(Threads) \cup Permutations(Controllers)
        \cup Permutations(Readers)
=============================================================================
