---- MODULE MCGlobalContext ----
(* Small instances of GlobalContext.  -1 is an epoch number out of range.  *)
EXTENDS GlobalContextRefinement, TLC

MixedEpochs == {-1, 0, 1}

Symmetry == Permutations(Threads) \cup Permutations(Blocks)
=============================================================================
