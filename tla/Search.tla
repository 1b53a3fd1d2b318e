---- MODULE Search ----
(***************************************************************************)
(* Mining and verification in lib/ethash/ethash.cpp, for one header hash:  *)
(* search and search_light try a range of nonces, and the verify functions *)
(* judge a claimed nonce and mix hash.  All of them run hash_kernel.       *)
(*                                                                         *)
(* Mixes, dataset items, mix hashes and final hashes are Words.  What FNV  *)
(* and Keccak make of them is given by functions about which nothing is    *)
(* assumed; the seed of a hash is represented by its nonce.  A full        *)
(* context's dataset is shared with other threads, as in LazyDataset, of   *)
(* which this module keeps how far each item is stored and what a lookup   *)
(* may return.                                                             *)
(***************************************************************************)
EXTENDS Integers

CONSTANTS
    NonceLimit,   \* nonces count modulo this number, 2^64
    MaxIterations,\* bound on the iterations a caller asks for
    Accesses,     \* num_dataset_accesses
    Items,        \* indices of the full dataset
    MaxWord,      \* bound on hashes, 2^256 - 1
    FirstMix,     \* the mix a nonce's seed begins with
    Index,        \* the item accessed: by nonce, number of the access and mix
    Item,         \* calculate_dataset_item_1024
    Fnv,          \* fnv1 of a mix and an item
    Fold,         \* the mix hash a mix is reduced to
    HashFinal     \* hash_final of hash_seed of a nonce, and a mix hash

Nonces == 0..NonceLimit - 1

Word == 0..MaxWord

ASSUME ConstantsAssumption ==
    /\ NonceLimit \in Nat \ {0} /\ MaxWord \in Nat
    /\ Accesses \in Nat /\ MaxIterations \in Nat /\ MaxIterations < NonceLimit
    /\ FirstMix \in [Nonces -> Word]
    /\ Index \in [Nonces \X (0..Accesses - 1) \X Word -> Items]
    /\ Item \in [Items -> Word]
    /\ Fnv \in [Word \X Word -> Word]
    /\ Fold \in [Word -> Word]
    /\ HashFinal \in [Nonces \X Word -> Word]

VARIABLES
    pc,       \* "idle", "next" before a nonce, "kernel", or "returned"
    job,      \* the function called: a search or a verification
    target,   \* the argument boundary or difficulty
    start, iterations,  \* the arguments of a search
    nonce, end_nonce, i, mix,  \* locals; nonce is an argument of verification
    claim,    \* the argument mix_hash of a verification
    answer,   \* what the call returned: a search result or an error code
    dataset,  \* how far each item of the full dataset is stored
    torn,     \* ghost: a lookup of the search's last nonce returned a mixture
    torn_before  \* ghost: one of an earlier nonce of the search did

vars == <<pc, job, target, start, iterations, nonce, end_nonce, i, mix, claim, answer,
          dataset, torn, torn_before>>

args == <<job, target, start, iterations, claim, end_nonce>>

None == "none"

\* What a call can answer, a search result without its final hash or an error code.
NoAnswer == [is |-> "nothing yet"]
NotFound == [is |-> "not found"]
Solved(n, mix_hash) == [is |-> "solution", nonce |-> n, mix_hash |-> mix_hash]
Success == [is |-> "ETHASH_SUCCESS"]
InvalidFinalHash == [is |-> "ETHASH_INVALID_FINAL_HASH"]
InvalidMixHash == [is |-> "ETHASH_INVALID_MIX_HASH"]

\* Others may have filled the dataset to any degree before.
Init ==
    /\ pc = "idle" /\ job = None /\ answer = NoAnswer
    /\ target = 0 /\ start = 0 /\ iterations = 0 /\ claim = 0
    /\ nonce = 0 /\ end_nonce = 0 /\ i = 0 /\ mix = 0
    /\ torn = FALSE /\ torn_before = FALSE
    /\ dataset \in [Items -> {"empty", "partial", "complete"}]

\* The caller takes the answer; arguments and locals are gone.
Leave ==
    /\ pc = "returned"
    /\ pc' = "idle" /\ job' = None /\ answer' = NoAnswer
    /\ target' = 0 /\ start' = 0 /\ iterations' = 0 /\ claim' = 0
    /\ nonce' = 0 /\ end_nonce' = 0 /\ i' = 0 /\ mix' = 0
    /\ torn' = FALSE /\ torn_before' = FALSE
    /\ UNCHANGED dataset

-----------------------------------------------------------------------------
(* hash_kernel                                                             *)

\* The kernel begins with the mix of nonce n.
StartKernel(n) ==
    /\ pc' = "kernel"
    /\ i' = 0
    /\ mix' = FirstMix[n]

\* Wrong variant of Add: the end of a range does not wrap around.
AddUnwrapped(n, count) == n + count

\* Sums of nonces wrap around.
Add(n, count) == (n + count) % NonceLimit

Absorb(word) ==
    /\ mix' = Fnv[<<mix, word>>]
    /\ i' = i + 1
    /\ UNCHANGED <<pc, args, nonce, answer, torn_before>>

AtAccess == pc = "kernel" /\ i < Accesses

Accessed == Index[<<nonce, i, mix>>]

\* The kernel is done: the mix is reduced to the mix hash.
Hashed == pc = "kernel" /\ i = Accesses

MixHash == Fold[mix]

FinalHash(n, mix_hash) == HashFinal[<<n, mix_hash>>]

\* Light contexts calculate every item.
AccessLight ==
    /\ AtAccess /\ job # "search"
    /\ Absorb(Item[Accessed])
    /\ UNCHANGED <<dataset, torn>>

\* lazy_lookup of an item that is complete, or that looks empty and is then calculated
\* and stored.
AccessLazy ==
    /\ AtAccess /\ job = "search"
    /\ Absorb(Item[Accessed])
    /\ dataset' = [dataset EXCEPT ![Accessed] = "complete"]
    /\ UNCHANGED torn

\* lazy_lookup of an item that another thread is storing: any mixture of words.
AccessTorn ==
    /\ AtAccess /\ job = "search"
    /\ dataset[Accessed] = "partial"
    /\ \E word \in Word : Absorb(word)
    /\ torn' = TRUE
    /\ UNCHANGED dataset

\* Other threads store an item as they look it up, its last word or another one.
OthersStore ==
    /\ \E p \in Items, stored \in {"partial", "complete"} :
        /\ dataset[p] # "complete"
        /\ dataset' = [dataset EXCEPT ![p] = stored]
    /\ UNCHANGED <<pc, args, nonce, i, mix, answer, torn, torn_before>>

-----------------------------------------------------------------------------
(* search and search_light                                                 *)

Searches == {"search", "search_light"}

Search(kind, boundary, first, count) ==
    /\ pc = "idle"
    /\ pc' = "next"
    /\ job' = kind /\ target' = boundary
    /\ start' = first /\ iterations' = count
    /\ nonce' = first
    /\ end_nonce' = Add(first, count)
    /\ torn' = FALSE /\ torn_before' = FALSE
    /\ answer' = NoAnswer
    /\ UNCHANGED <<i, mix, claim, dataset>>

\* Wrong variant of InRange: the last nonce is left out.
InRangeButLast == nonce + 1 < end_nonce

InRange == nonce < end_nonce

TryNonce ==
    /\ pc = "next"
    /\ InRange
    /\ StartKernel(nonce)
    /\ torn' = FALSE
    /\ torn_before' = (torn_before \/ torn)
    /\ UNCHANGED <<args, nonce, answer, dataset>>

Exhausted ==
    /\ pc = "next"
    /\ ~InRange
    /\ pc' = "returned"
    /\ answer' = NotFound
    /\ UNCHANGED <<args, nonce, i, mix, dataset, torn, torn_before>>

\* less_equal(final_hash, boundary)
Solves(n, mix_hash, boundary) == FinalHash(n, mix_hash) <= boundary

Found ==
    /\ Hashed /\ job \in Searches
    /\ Solves(nonce, MixHash, target)
    /\ pc' = "returned"
    /\ answer' = Solved(nonce, MixHash)
    /\ UNCHANGED <<args, nonce, i, mix, dataset, torn, torn_before>>

\* Wrong variant of Missed: the same nonce is tried again.
MissedAgain ==
    /\ Hashed /\ job \in Searches
    /\ ~Solves(nonce, MixHash, target)
    /\ pc' = "next"
    /\ UNCHANGED <<args, nonce, i, mix, answer, dataset, torn, torn_before>>

Missed ==
    /\ Hashed /\ job \in Searches
    /\ ~Solves(nonce, MixHash, target)
    /\ pc' = "next"
    /\ nonce' = Add(nonce, 1)
    /\ UNCHANGED <<args, i, mix, answer, dataset, torn, torn_before>>

-----------------------------------------------------------------------------
(* ethash_verify_against_boundary, ethash_verify_against_difficulty and    *)
(* ethash_verify_final_hash_against_difficulty                             *)

Verifications ==
    {"verify_against_boundary", "verify_against_difficulty",
     "verify_final_hash_against_difficulty"}

\* check_against_difficulty(final_hash, difficulty)
Meets(n, mix_hash, difficulty) == FinalHash(n, mix_hash) * difficulty <= MaxWord + 1

\* The final hash is judged first, and takes the claimed mix hash on trust.
GoodEnough(kind, bound, n, mix_hash) ==
    IF kind = "verify_against_boundary" THEN Solves(n, mix_hash, bound)
                                        ELSE Meets(n, mix_hash, bound)

Verify(kind, bound, n, mix_hash) ==
    /\ pc = "idle"
    /\ job' = kind /\ target' = bound
    /\ nonce' = n /\ claim' = mix_hash
    /\ UNCHANGED <<start, iterations, end_nonce, dataset, torn, torn_before>>

Reject(kind, bound, n, mix_hash) ==
    /\ Verify(kind, bound, n, mix_hash)
    /\ ~GoodEnough(kind, bound, n, mix_hash)
    /\ answer' = InvalidFinalHash
    /\ pc' = "returned"
    /\ UNCHANGED <<i, mix>>

\* The quick verification asks for no more.
AcceptFinal(kind, bound, n, mix_hash) ==
    /\ Verify(kind, bound, n, mix_hash)
    /\ kind = "verify_final_hash_against_difficulty"
    /\ GoodEnough(kind, bound, n, mix_hash)
    /\ answer' = Success
    /\ pc' = "returned"
    /\ UNCHANGED <<i, mix>>

\* The others compute the mix hash.
Recompute(kind, bound, n, mix_hash) ==
    /\ Verify(kind, bound, n, mix_hash)
    /\ kind # "verify_final_hash_against_difficulty"
    /\ GoodEnough(kind, bound, n, mix_hash)
    /\ StartKernel(n)
    /\ answer' = NoAnswer

\* Wrong variant of equal: the claimed mix hash is taken on trust.
equalAlways(a, b) == TRUE

equal(a, b) == a = b

Judge ==
    /\ Hashed /\ job \notin Searches
    /\ pc' = "returned"
    /\ answer' = IF equal(MixHash, claim) THEN Success ELSE InvalidMixHash
    /\ UNCHANGED <<args, nonce, i, mix, dataset, torn, torn_before>>

-----------------------------------------------------------------------------

Next ==
    \/ \E kind \in Searches, b \in Word, n \in Nonces, c \in 0..MaxIterations :
        Search(kind, b, n, c)
    \/ \E kind \in Verifications, b \in Word, n \in Nonces, m \in Word :
        Reject(kind, b, n, m) \/ AcceptFinal(kind, b, n, m) \/ Recompute(kind, b, n, m)
    \/ TryNonce \/ Exhausted \/ Found \/ Missed \/ Judge
    \/ AccessLight \/ AccessLazy \/ AccessTorn \/ OthersStore \/ Leave

Spec == Init /\ [][Next]_vars

\* What the thread does without a decision of its caller.
Step ==
    \/ TryNonce \/ Exhausted \/ Found \/ Missed \/ Judge
    \/ AccessLight \/ AccessLazy \/ AccessTorn \/ Leave

FairSpec == Spec /\ WF_vars(Step)

-----------------------------------------------------------------------------
(* Properties                                                              *)

Answers ==
    {NoAnswer, NotFound, Success, InvalidFinalHash, InvalidMixHash}
        \cup {Solved(n, m) : n \in Nonces, m \in Word}

\* Types of the variables.
TypeOK ==
    /\ pc \in {"idle", "next", "kernel", "returned"}
    /\ job \in {None} \cup Searches \cup Verifications
    /\ target \in Word /\ claim \in Word /\ mix \in Word
    /\ start \in Nonces /\ nonce \in Nonces /\ end_nonce \in Nonces
    /\ iterations \in 0..MaxIterations
    /\ i \in 0..Accesses
    /\ answer \in Answers
    /\ dataset \in [Items -> {"empty", "partial", "complete"}]
    /\ torn \in BOOLEAN /\ torn_before \in BOOLEAN

\* The mix hash of nonce n over the true dataset.
GenuineMixHash(n) ==
    LET mixAt[k \in 0..Accesses] ==
            IF k = 0 THEN FirstMix[n]
            ELSE Fnv[<<mixAt[k - 1], Item[Index[<<n, k - 1, mixAt[k - 1]>>]]>>]
    IN  Fold[mixAt[Accesses]]

Solution(n) == Solves(n, GenuineMixHash(n), target)

\* A search on its own, light or over the dataset that fills up meanwhile, answers with
\* the first solution of its range and the genuine mix hash, and with nothing only if the
\* range has none, unless it wraps around.  Torn lookups spoil the nonces they happen at,
\* never a later one.
SearchAnswer ==
    pc = "returned" /\ job \in Searches /\ ~torn =>
        /\ answer.is = "solution" =>
            /\ answer.nonce \in start..start + iterations - 1
            /\ Solution(answer.nonce) /\ answer.mix_hash = GenuineMixHash(answer.nonce)
            /\ ~torn_before => \A n \in start..answer.nonce - 1 : ~Solution(n)
        /\ answer = NotFound /\ ~torn_before /\ start + iterations < NonceLimit =>
            \A n \in start..start + iterations - 1 : ~Solution(n)

\* Verification accepts a claim exactly when the final hash is good enough and, unless it
\* is the quick one, the mix hash is genuine, on whatever dataset the claim was mined: a
\* solution made of torn lookups, which a search does return, passes the quick
\* verification at most.
VerdictRight ==
    pc = "returned" /\ job \in Verifications =>
        LET good == GoodEnough(job, target, nonce, claim)
            genuine == \/ job = "verify_final_hash_against_difficulty"
                       \/ claim = GenuineMixHash(nonce)
        IN  /\ answer = Success <=> good /\ genuine
            /\ answer = InvalidFinalHash <=> ~good

\* Every search and verification returns, ranges that end at the last nonce or wrap
\* around included.
Returns == pc # "idle" ~> pc = "idle"

=============================================================================
