-------------------------- MODULE MCModelRegistry --------------------------
(* Instances of ModelRegistry with two processes on one model id.          *)
EXTENDS ModelRegistry, TLC

Symmetry == Permutations(Contents) \cup Permutations(Writers)
=============================================================================
