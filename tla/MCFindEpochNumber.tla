---- MODULE MCFindEpochNumber ----
(***************************************************************************)
(* A chain of hashes 0, 1, 2, ... whose first word is the hash itself, and *)
(* two hashes outside of it: one begins like the seed of epoch 1, one like *)
(* no seed.                                                                *)
(***************************************************************************)
EXTENDS FindEpochNumber

Lookalike == 100
Stranger == 200

MCSeed == [k \in Chain |-> k]
MCFakes == {Lookalike, Stranger}
MCHashes == Chain \cup MCFakes
MCKeccak == [h \in MCHashes |-> IF h + 1 \in Chain THEN h + 1 ELSE Stranger]
MCPart == [h \in MCHashes |-> IF h = Lookalike THEN 1 ELSE h]
=============================================================================
