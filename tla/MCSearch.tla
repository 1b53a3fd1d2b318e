---- MODULE MCSearch ----
(***************************************************************************)
(* Four words, two items, two accesses.  The functions mix all of their   *)
(* arguments; the final hashes of the nonces differ.                       *)
(***************************************************************************)
EXTENDS Search

MCItems == {0, 1}
MCFirstMix == [n \in Nonces |-> n % (MaxWord + 1)]
MCIndex == [x \in Nonces \X (0..Accesses - 1) \X Word |-> (x[1] + x[2] + x[3]) % 2]
MCItem == [p \in Items |-> p + 1]
MCFnv == [x \in Word \X Word |-> (2 * x[1] + x[2]) % (MaxWord + 1)]
MCFold == [m \in Word |-> (m + 1) % (MaxWord + 1)]
MCHashFinal == [x \in Nonces \X Word |-> (x[1] + 2 * x[2]) % (MaxWord + 1)]
=============================================================================
