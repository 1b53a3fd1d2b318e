---- MODULE MCEpochContext ----
(***************************************************************************)
(* Sizes scaled down: a light cache of 5 to 13 items, a dataset of 11 to   *)
(* 37, and epochs out of range on both sides.                              *)
(***************************************************************************)
EXTENDS EpochContext

MCEpochs == -1..4
=============================================================================
