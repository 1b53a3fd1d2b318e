---- MODULE FindEpochNumber ----
(***************************************************************************)
(* find_epoch_number of lib/ethash/ethash.cpp, on one thread: the epoch    *)
(* number is recovered from an epoch seed with the help of the last answer,*)
(* kept in thread-local variables from call to call.  The function         *)
(* compares only the first 32-bit word of hashes (Part).                   *)
(*                                                                         *)
(* Keccak is any function and Seed the chain it draws from the zero hash,  *)
(* as far as Horizon + 1.  That no two words of the chain collide is a     *)
(* fact about Keccak-256; it is what makes the comparison of one word work.*)
(***************************************************************************)
EXTENDS Integers

CONSTANTS
    Hashes,          \* hash256 values
    Zero,            \* the zero hash, seed of epoch 0
    Keccak,          \* keccak256 on 32-byte inputs
    Part,            \* word32s[0] of a hash
    Seed,            \* Seed[i] is the seed of epoch i, for i up to Horizon + 1
    MaxEpochNumber,  \* ETHASH_MAX_EPOCH_NUMBER
    Horizon,         \* bound: callers ask for no seed of the chain beyond this epoch
    Fakes            \* hashes outside of the chain that callers ask for

Chain == 0..Horizon + 1

ASSUME ConstantsAssumption ==
    /\ MaxEpochNumber \in Nat /\ Horizon \in Nat /\ MaxEpochNumber <= Horizon
    /\ Zero \in Hashes
    /\ Keccak \in [Hashes -> Hashes]
    /\ DOMAIN Part = Hashes
    /\ Seed \in [Chain -> Hashes]
    /\ Seed[0] = Zero
    /\ \A i \in 0..Horizon : Seed[i + 1] = Keccak[Seed[i]]
    /\ \A i, j \in Chain : Part[Seed[i]] = Part[Seed[j]] => i = j
    /\ Fakes \subseteq Hashes
    /\ \A f \in Fakes : /\ \A i \in Chain : f # Seed[i]
                        /\ Part[f] # Part[Seed[Horizon + 1]]

VARIABLES
    cached_epoch_number, cached_seed,  \* static thread_local
    pc,      \* "idle" between calls, else where in the function
    seed,    \* the argument of the current or last call
    e, s, i, \* the function's locals
    result,  \* what the last call returned; no meaning inside a call
    work     \* ghost: hashes the current or last call has computed

vars == <<cached_epoch_number, cached_seed, pc, seed, e, s, i, result, work>>

cache == <<cached_epoch_number, cached_seed>>

Init ==
    /\ cached_epoch_number = 0 /\ cached_seed = Zero
    /\ pc = "idle"
    /\ seed = Zero
    /\ e = 0 /\ s = Zero /\ i = 0
    /\ result = 0
    /\ work = 0

Return(r) ==
    /\ pc' = "idle"
    /\ result' = r

\* Wrong variant of Remember: the seed of the previous answer stays.
RememberEpochOnly(epoch, h) ==
    /\ cached_epoch_number' = epoch
    /\ UNCHANGED cached_seed

Remember(epoch, h) ==
    /\ cached_epoch_number' = epoch
    /\ cached_seed' = h

\* The cache is loaded once, at the beginning.
Call(h) ==
    /\ pc = "idle"
    /\ pc' = "cached"
    /\ seed' = h
    /\ e' = cached_epoch_number
    /\ s' = cached_seed
    /\ work' = 0
    /\ UNCHANGED <<cache, i, result>>

Match == Part[s] = Part[seed]

\* The seed of the last answer again.
HitCached ==
    /\ pc = "cached"
    /\ Match
    /\ Return(e)
    /\ UNCHANGED <<cache, seed, e, s, i, work>>

TryNext ==
    /\ pc = "cached"
    /\ ~Match
    /\ pc' = "next"
    /\ s' = Keccak[s]
    /\ work' = work + 1
    /\ UNCHANGED <<cache, seed, e, i, result>>

\* Wrong variant of HitNext: the epoch before is returned.
HitNextReturnsLast ==
    /\ pc = "next"
    /\ Match
    /\ Remember(e + 1, s)
    /\ Return(e)
    /\ UNCHANGED <<seed, e, s, i, work>>

\* Wrong variant of HitNext: the answer is not remembered.
HitNextForgets ==
    /\ pc = "next"
    /\ Match
    /\ Return(e + 1)
    /\ UNCHANGED <<cache, seed, e, s, i, work>>

\* The seed after the last answer's, whatever epoch that was.
HitNext ==
    /\ pc = "next"
    /\ Match
    /\ Remember(e + 1, s)
    /\ Return(e + 1)
    /\ UNCHANGED <<seed, e, s, i, work>>

StartSearch ==
    /\ pc = "next"
    /\ ~Match
    /\ pc' = "search"
    /\ s' = Zero
    /\ i' = 0
    /\ UNCHANGED <<cache, seed, e, result, work>>

\* Wrong variant of EpochLeft: the search stops short of the last epoch.
EpochLeftButLast == i < MaxEpochNumber

EpochLeft == i <= MaxEpochNumber

SearchHit ==
    /\ pc = "search"
    /\ EpochLeft
    /\ Match
    /\ Remember(i, s)
    /\ Return(i)
    /\ UNCHANGED <<seed, e, s, i, work>>

SearchOn ==
    /\ pc = "search"
    /\ EpochLeft
    /\ ~Match
    /\ s' = Keccak[s]
    /\ i' = i + 1
    /\ work' = work + 1
    /\ UNCHANGED <<cache, pc, seed, e, result>>

\* Wrong variant of NotFound: the failure is remembered like an answer.
NotFoundRemembered ==
    /\ pc = "search"
    /\ i > MaxEpochNumber
    /\ Remember(-1, s)
    /\ Return(-1)
    /\ UNCHANGED <<seed, e, s, i, work>>

NotFound ==
    /\ pc = "search"
    /\ ~EpochLeft
    /\ Return(-1)
    /\ UNCHANGED <<cache, seed, e, s, i, work>>

Next ==
    \/ \E k \in 0..Horizon : Call(Seed[k])
    \/ \E f \in Fakes : Call(f)
    \/ HitCached \/ TryNext \/ HitNext
    \/ StartSearch \/ SearchHit \/ SearchOn \/ NotFound

Spec == Init /\ [][Next]_vars

-----------------------------------------------------------------------------
(* Properties                                                              *)

\* Types of the variables.
TypeOK ==
    /\ cached_epoch_number \in 0..Horizon /\ cached_seed \in Hashes
    /\ pc \in {"idle", "cached", "next", "search"}
    /\ seed \in {Seed[k] : k \in 0..Horizon} \cup Fakes
    /\ e \in 0..Horizon /\ s \in Hashes /\ i \in 0..MaxEpochNumber + 1
    /\ result \in -1..Horizon
    /\ work \in Nat

\* The two thread-local variables always belong together, fake seeds included: what the
\* cache holds is the genuine seed of the epoch it names (lines 61-62, 76-77, 87-88).
CacheConsistent == cached_seed = Seed[cached_epoch_number]

\* Every epoch in range is recovered, whatever was asked for before.
InRangeRecovered ==
    pc = "idle" => \A k \in 0..MaxEpochNumber : seed = Seed[k] => result = k

\* A seed beyond the last epoch is either not found or recovered, never taken for another
\* epoch, and a fake one is only taken for an epoch whose seed begins with the same word.
NeverAnotherEpoch ==
    pc = "idle" /\ result # -1 => Part[Seed[result]] = Part[seed]

\* A client that follows the chain never searches, beyond the last epoch too: what is
\* found is remembered, and the epoch remembered when a call begins and the one after it
\* cost one hash at most (lines 69-79).  Other calls compute no more hashes than there are
\* epochs, and one (83-92).
WorkBounded ==
    /\ pc = "idle" =>
        /\ result # -1 => cached_epoch_number = result
        /\ \A k \in {e, e + 1} : seed = Seed[k] => work <= 1
    /\ work <= MaxEpochNumber + 2

\* What the test find_epoch_number_epoch_too_high states: a seed beyond the last epoch is
\* not found.
TooHighRejected ==
    pc = "idle" => \A k \in MaxEpochNumber + 1..Horizon : seed = Seed[k] => result = -1

=============================================================================
