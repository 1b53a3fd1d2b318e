---- MODULE MCLazyDataset ----
(***************************************************************************)
(* Items of three words, none of them zero.                                *)
(***************************************************************************)
EXTENDS LazyDataset, TLC, Integers

MCWords == 0..2
MCItem == [i \in Items |-> [w \in MCWords |-> 1]]

Symmetry == Permutations(Threads)
=============================================================================
