---- MODULE MCLazySearch ----
(***************************************************************************)
(* Two items of two words, a whole one and one that begins with zero; a    *)
(* word of Search tells the whole one from its mixtures (the other one is  *)
(* calculated at every lookup).  The accesses of a nonce look up one item  *)
(* twice or both.                                                          *)
(***************************************************************************)
EXTENDS LazySearch

MCWords == {0, 1}
MCNonces == 0..NonceLimit - 1
MCWord == 0..MaxWord
MCItem ==
    [p \in Items |-> [w \in MCWords |-> IF p = "hollow" /\ w = 0 THEN 0 ELSE 1]]
MCCode ==
    [x \in [MCWords -> Values] |-> IF x = MCItem["plain"] THEN 1 ELSE 0]
MCFirstMix == [n \in MCNonces |-> n % (MaxWord + 1)]
MCIndex ==
    [x \in MCNonces \X (0..Accesses - 1) \X MCWord |->
        IF x[1] = 0 /\ x[2] = 1 THEN "hollow" ELSE "plain"]
MCFnv == [x \in MCWord \X MCWord |-> (x[1] + x[2]) % (MaxWord + 1)]
MCFold == [m \in MCWord |-> (m + 1) % (MaxWord + 1)]
MCHashFinal == [x \in MCNonces \X MCWord |-> (x[1] + x[2]) % (MaxWord + 1)]
=============================================================================
