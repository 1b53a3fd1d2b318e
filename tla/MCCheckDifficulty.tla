---- MODULE MCCheckDifficulty ----
(***************************************************************************)
(* Words of four bits, taken from the ones that make the carries as long   *)
(* as they get and from those whose products are powers of two.            *)
(***************************************************************************)
EXTENDS CheckDifficulty

EdgeWords == {0, 1, HalfBase, Base - 2, Base - 1}

EdgeNumbers == {Bytes(Value(f, NumWords)) : f \in [0..NumWords - 1 -> EdgeWords]}
=============================================================================
