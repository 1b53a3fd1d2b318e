---- MODULE MCFakeMiner ----
(* A small instance of FakeMiner: blocks 1 to 4 in epochs 0, 1, 1 and 2.   *)
EXTENDS FakeMiner

ThreeEpochs == 0..2
=============================================================================
