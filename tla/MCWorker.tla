------------------------------ MODULE MCWorker ------------------------------
(* Worker on small instances, see the MCWorker*.cfg.                       *)
EXTENDS Worker, TLC

Symmetry == Permutations(Workers) \cup Permutations(Tasks)
=============================================================================
