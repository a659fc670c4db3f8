--------------------------- MODULE MCSessionCache ---------------------------
(* Instances of SessionCache.                                              *)
EXTENDS SessionCache, TLC

Symmetry == Permutations(Threads) \cup Permutations(Contents) \cup Permutations(TokContents)
=============================================================================
