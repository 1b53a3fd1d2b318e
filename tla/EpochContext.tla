---- MODULE EpochContext ----
(***************************************************************************)
(* create_epoch_context of lib/ethash/ethash.cpp: the sizes of an epoch,   *)
(* its single allocation, and the light cache built in it.                 *)
(*                                                                         *)
(* Sizes are in units of 64 bytes, the size of a light cache item, of half *)
(* a dataset item and of the room for the context itself; SizeLimit is the *)
(* number of units where size_t wraps around.  A light cache item is       *)
(* represented by the number of rounds it went through; the first of its   *)
(* two sources, which the code takes from the item's content, is any item. *)
(***************************************************************************)
EXTENDS Integers

CONSTANTS
    Epochs,          \* epoch numbers callers ask for, valid or not
    MaxEpochNumber,  \* ETHASH_MAX_EPOCH_NUMBER
    LightInit, LightGrowth,  \* light_cache_init_size, light_cache_growth in items
    FullInit, FullGrowth,    \* full_dataset_init_size, full_dataset_growth in items
    Rounds,          \* light_cache_rounds
    IntMax,          \* the largest int
    SizeLimit        \* size_t counts modulo this many units

ASSUME ConstantsAssumption ==
    /\ Epochs \subseteq Int /\ MaxEpochNumber \in Nat
    /\ LightInit \in Nat \ {0, 1} /\ LightGrowth \in Nat
    /\ FullInit \in Nat \ {0, 1} /\ FullGrowth \in Nat
    /\ Rounds \in Nat /\ SizeLimit \in Nat \ {0}
    /\ IntMax \in Nat
    /\ FullInit + MaxEpochNumber * FullGrowth <= IntMax
    /\ LightInit + MaxEpochNumber * LightGrowth <= IntMax

Find == INSTANCE Primes WITH
    Bounds <- {}, pc <- "done", upper_bound <- 0, n <- 0, d <- 0, result <- 0

Valid(e) == e \in 0..MaxEpochNumber

\* ethash_calculate_light_cache_num_items and ethash_calculate_full_dataset_num_items
LightCacheNumItems(e) ==
    IF Valid(e) THEN Find!LargestPrime(LightInit + e * LightGrowth) ELSE 0

FullDatasetNumItems(e) ==
    IF Valid(e) THEN Find!LargestPrime(FullInit + e * FullGrowth) ELSE 0

VARIABLES
    pc,         \* "idle", "alloc", "fill", "round" or "construct"
    epoch, full,            \* the arguments
    light_cache_num_items, full_dataset_num_items,
    room,       \* the units calloc gave, 0 for none
    cache,      \* rounds each light cache item went through, Unwritten before
    q, i,       \* loop counters: round and item
    last,       \* ghost: the item written last
    context     \* "none" inside a call, else what it returned: "null" or "live"

vars == <<pc, epoch, full, light_cache_num_items, full_dataset_num_items, room,
          cache, q, i, last, context>>

args == <<epoch, full>>
sizes == <<light_cache_num_items, full_dataset_num_items>>

Unwritten == -1

Init ==
    /\ pc = "idle"
    /\ epoch \in Epochs /\ full \in BOOLEAN
    /\ light_cache_num_items = 0 /\ full_dataset_num_items = 0
    /\ room = 0
    /\ cache = << >>
    /\ q = 0 /\ i = 0 /\ last = 0
    /\ context = "none"

Goto(l) == pc' = l

Create(e, f) ==
    /\ pc = "idle"
    /\ epoch' = e /\ full' = f
    /\ light_cache_num_items' = LightCacheNumItems(e)
    /\ full_dataset_num_items' = FullDatasetNumItems(e)
    /\ room' = 0
    /\ cache' = << >>
    /\ IF Valid(e)
       THEN Goto("alloc") /\ context' = "none"
       ELSE Goto("idle") /\ context' = "null"
    /\ UNCHANGED <<q, i, last>>

\* What the context needs, and the sum as size_t holds it.
Need == 1 + light_cache_num_items + (IF full THEN 2 * full_dataset_num_items ELSE 0)

\* Wrong variant of AllocSize: the full dataset gets no room.
AllocSizeLight == (1 + light_cache_num_items) % SizeLimit

AllocSize == Need % SizeLimit

Calloc ==
    /\ pc = "alloc"
    /\ room' = AllocSize
    /\ cache' = [k \in 0..light_cache_num_items - 1 |-> Unwritten]
    /\ i' = 0
    /\ Goto("fill")
    /\ UNCHANGED <<args, sizes, q, last, context>>

OutOfMemory ==
    /\ pc = "alloc"
    /\ context' = "null"
    /\ Goto("idle")
    /\ UNCHANGED <<args, sizes, room, cache, q, i, last>>

\* Wrong variant of LastItem: the loops leave the last item out.
LastItemButOne == i + 2 = light_cache_num_items

LastItem == i + 1 = light_cache_num_items

\* Wrong variant of MoreRounds: there is one round too many.
MoreRoundsByOne(done) == done <= Rounds

\* Wrong variant of MoreRounds: the last round is left out.
MoreRoundsButLast(done) == done + 1 < Rounds

MoreRounds(done) == done < Rounds

\* Item i is written for the time after the first `done` rounds, and the loop goes on.
WriteItem(done) ==
    /\ cache' = [cache EXCEPT ![i] = done]
    /\ last' = i
    /\ IF LastItem
       THEN /\ i' = 0 /\ q' = done
            /\ Goto(IF MoreRounds(done) THEN "round" ELSE "construct")
       ELSE i' = i + 1 /\ UNCHANGED <<pc, q>>
    /\ UNCHANGED <<args, sizes, room, context>>

\* The chain of hashes that begins at the epoch's seed.
Fill == pc = "fill" /\ WriteItem(0)

\* Wrong variant of SecondIndex: the first item is its own source.
SecondIndexClamped == IF i = 0 THEN 0 ELSE i - 1

\* The index of the item's second source; the first is anywhere in the cache.
SecondIndex == (light_cache_num_items + (i - 1)) % light_cache_num_items

Mix == pc = "round" /\ WriteItem(q + 1)

Construct ==
    /\ pc = "construct"
    /\ context' = "live"
    /\ Goto("idle")
    /\ UNCHANGED <<args, sizes, room, cache, q, i, last>>

Next ==
    \/ \E e \in Epochs, f \in BOOLEAN : Create(e, f)
    \/ Calloc \/ OutOfMemory \/ Fill \/ Mix \/ Construct

Spec == Init /\ [][Next]_vars

-----------------------------------------------------------------------------
(* Properties                                                              *)

\* Types of the variables; in particular the numbers of items fit int.
TypeOK ==
    /\ pc \in {"idle", "alloc", "fill", "round", "construct"}
    /\ epoch \in Epochs /\ full \in BOOLEAN
    /\ light_cache_num_items \in 0..IntMax
    /\ full_dataset_num_items \in 0..IntMax
    /\ room \in 0..SizeLimit - 1
    /\ cache \in [DOMAIN cache -> {Unwritten} \cup 0..Rounds]
    /\ q \in 0..Rounds /\ i \in Nat /\ last \in Nat
    /\ context \in {"none", "null", "live"}

Building == pc \in {"fill", "round", "construct"}

\* The allocation covers the context, its light cache and its dataset: size_t did not
\* wrap around (lines 138-144).
AllocationCovers == Building => room >= Need

\* The cache is rewritten in place: at item i of round q the items before i are of the
\* new round and the others of the old, and none was never written, so that whichever
\* index an item's content names, there is something of this context to read.
RoundsInOrder ==
    pc = "round" => \A k \in DOMAIN cache : cache[k] = IF k < i THEN q + 1 ELSE q

\* Every item is hashed from the one written immediately before it, over the ends of the
\* cache and of the rounds too: the cache cannot be built out of order.
ChainUnbroken == pc = "round" => SecondIndex = last /\ SecondIndex \in DOMAIN cache

\* A context is handed out with every item of its light cache through all the rounds, and
\* as many items as its sizes say.
OnlyCompleteContexts ==
    context = "live" =>
        /\ DOMAIN cache = 0..light_cache_num_items - 1
        /\ \A k \in DOMAIN cache : cache[k] = Rounds

=============================================================================
