--------------------------- MODULE MCBlockingDemo ---------------------------
(* Small instances of the blocking reader of lab 12.                       *)
EXTENDS BlockingDemo, TLC

ActorSymmetry == Permutations(Readers) \cup Permutations(Triggers)
=============================================================================
