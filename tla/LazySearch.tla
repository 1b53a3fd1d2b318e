---- MODULE LazySearch ----
(***************************************************************************)
(* A search over the dataset as it is in memory (lib/ethash/ethash.cpp):   *)
(* one of the threads that share the dataset calls search and the verify   *)
(* functions, as in Search, and each access of its searches is a lookup    *)
(* word by word, as in LazyDataset; the other threads look up what they    *)
(* like.  The module shows that Search, which keeps of the dataset only    *)
(* whether an item is empty, partial or complete, says enough of it.       *)
(***************************************************************************)
EXTENDS LazyDataset, Integers

CONSTANTS
    me,           \* the thread whose calls are modelled
    Code,         \* the word that stands for an item in Search
    NonceLimit, MaxIterations, Accesses, MaxWord, FirstMix, Index, Fnv, Fold, HashFinal

\* The variables of Search; at is its pc, access its i.
VARIABLES
    at, job, target, start, iterations, nonce, end_nonce, access, mix, claim, answer,
    torn, torn_before

calls == <<at, job, target, start, iterations, nonce, end_nonce, access, mix, claim, answer,
           torn, torn_before>>

\* An item that this thread looks up or has looked up without finding it complete counts
\* as partial, even if others complete it meanwhile: some words may have been copied
\* before.
AbsDataset ==
    [p \in Items |->
        IF Complete(p) /\ ~(index[me] = p /\ ~sound[me]) THEN "complete"
        ELSE IF full_dataset[p] = Empty THEN "empty"
        ELSE "partial"]

\* The items as words of Search.
AbsItem == [p \in Items |-> Code[Item[p]]]

S == INSTANCE Search WITH
    Item <- AbsItem,
    pc <- at,
    i <- access,
    dataset <- AbsDataset

ASSUME SearchAssumption ==
    /\ me \in Threads
    /\ Code \in [[Words -> Values] -> S!Word]
    /\ NonceLimit \in Nat \ {0} /\ MaxWord \in Nat
    /\ Accesses \in Nat /\ MaxIterations \in Nat /\ MaxIterations < NonceLimit
    /\ FirstMix \in [S!Nonces -> S!Word]
    /\ Index \in [S!Nonces \X (0..Accesses - 1) \X S!Word -> Items]
    /\ Fnv \in [S!Word \X S!Word -> S!Word]
    /\ Fold \in [S!Word -> S!Word]
    /\ HashFinal \in [S!Nonces \X S!Word -> S!Word]

SearchInit == Init /\ S!Init

\* What the thread does outside of lookups.
Call ==
    /\ pc[me] = "idle"
    /\ UNCHANGED vars
    /\ \/ \E kind \in S!Searches, b \in S!Word, n \in S!Nonces, c \in 0..MaxIterations :
            S!Search(kind, b, n, c)
       \/ \E kind \in S!Verifications, b \in S!Word, n \in S!Nonces, m \in S!Word :
            S!Reject(kind, b, n, m) \/ S!AcceptFinal(kind, b, n, m) \/ S!Recompute(kind, b, n, m)
       \/ S!TryNonce \/ S!Exhausted \/ S!Found \/ S!Missed \/ S!Judge
       \/ S!AccessLight \/ S!Leave

\* The kernel calls lazy_lookup.
BeginAccess ==
    /\ S!AtAccess /\ job = "search"
    /\ Begin(me, S!Accessed)
    /\ UNCHANGED calls

\* lazy_lookup returns, and the kernel goes on with the item copied.
EndAccess ==
    /\ Return(me)
    /\ S!Absorb(Code[copy[me]])
    /\ torn' = (torn \/ ~sound[me])

\* A thread is in a lookup.
Lookup(t) ==
    /\ \/ \E w \in Words : Load(t, w) \/ Store(t, w)
       \/ FindPresent(t) \/ FindEmpty(t) \/ EndStore(t)
    /\ UNCHANGED calls

\* The other threads look up any items.
OtherLookup(t) ==
    /\ t # me
    /\ (\E p \in Items : Begin(t, p)) \/ Return(t)
    /\ UNCHANGED calls

SearchNext ==
    \/ Call \/ BeginAccess \/ EndAccess
    \/ \E t \in Threads : Lookup(t) \/ OtherLookup(t)

searchVars == <<vars, calls>>

SearchSpec == SearchInit /\ [][SearchNext]_searchVars

-----------------------------------------------------------------------------
(* Properties                                                              *)

\* A search over the words in memory is one over items that are empty, partial or
\* complete (lines 223-263): a lookup that found its item complete or calculated it
\* itself returns the item, and only the others, of items that another thread is
\* storing, may return a mixture.  What Search says of answers and verdicts holds with
\* the race.
ImplementsSearch == S!Spec

=============================================================================
