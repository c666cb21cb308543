------------------------------ MODULE MCWorker ------------------------------
(* Instances of Worker. *)
EXTENDS Worker, TLC
CONSTANTS w1, w2, j1
NoOne == {}
Swap == Permutations(Workers)
=============================================================================
