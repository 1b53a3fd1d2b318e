# Verification of ethash

TLA+ models of the ethash library: the cache of epoch contexts that threads share, the
creation of a context, the dataset that threads fill while they search it, search and
verification, a miner that drives the cache, the recovery of epoch numbers, Keccak, and the
integer algorithms below them. TLC checks them on small instances; TLAPS proves every safety
property for every instance, except the known digests of Keccak. Every definition that models code is tied to its source lines in `PROJECT.json` ("map").

Operators introduced by a comment "Wrong variant of ..." are plausible bugs. No
specification uses them; `PROJECT.json` ("mutants") says which property each of them breaks.

## 1. Inventory

| component | state | operations | interacts with | hard part |
|---|---|---|---|---|
| global epoch context cache, `lib/global_context/global_context.cpp` | a mutex and a `shared_ptr` for the process, a `thread_local shared_ptr` per thread; the same three again for full contexts | `ethash_get_global_epoch_context(_full)`, thread exit | creates and destroys contexts; hands raw pointers to callers | concurrency, lifetime, failure of a creation |
| context creation, `create_epoch_context`, `build_light_cache` | one heap block: context, light cache, dataset | create, destroy | prime search, Keccak | overflow of sizes, in-place rounds, failure |
| lazy dataset, `hash()` in `lib/ethash/ethash.cpp` | the full dataset in shared memory | `lazy_lookup` | called by the hash kernel of every searching thread | data race without locks |
| search and verification | locals only | `search`, `search_light`, `hash`, three `verify` functions | dataset, light cache, difficulty check | nonce range at its end, order of checks, torn lookups |
| epoch number recovery, `find_epoch_number` | a thread-local epoch number and seed | one call | Keccak | answers that depend on earlier calls |
| difficulty check, `check_against_difficulty`, `umul`, `less_equal` | locals | pure | verification | carries, boundary cases |
| prime search, `lib/ethash/primes.c` | locals | pure | sizes of an epoch | boundary of the trial division, termination |
| Keccak, `lib/keccak/keccak.c` | locals | pure | everything that hashes | block boundaries and padding, the unrolled permutation, byte order |
| fake miner, `test/fakeminer` | a shared block number and counter; per worker an epoch and a reference to a context | workers, main loop | global cache, search | workers change epochs under each other, on stale block numbers; null contexts |
| endianness, hash types, `lib/ethash/endianness.hpp`, `hash_types.h` | none | byte swaps by host | difficulty check, search, Keccak | big-endian hosts, which tests hardly see |
| difficulty division, `test/experimental` | locals | pure | none | long division |
| Python bindings | none | wrappers | global cache | null contexts |
| error codes, version, build, benchmarks, tests | none | | | not behaviour of their own |

What makes each one correct: a context is never used after it is freed, never freed twice,
never leaked, and there are no more of them than threads; a thread gets the epoch it asked
for or null; a context is built completely inside its allocation; a dataset item that was
complete is read exactly and stored words stay; a search finds the first solution of its
range and verification accepts exactly the genuine ones; epoch numbers do not depend on
history; a worker of the miner searches in a context of the epoch it is in; Keccak is the
specified function on every host; the difficulty check is the mathematical comparison; prime search returns the
largest prime. The hazards behind these, each at its line, are in `PROJECT.json` ("hazards").

## 2. Modules

| module | models | properties |
|---|---|---|
| `GlobalContext` | the global cache with heap, reference counts and mutex | `PointerValid`, `BlocksAccounted`, `PeakBound` |
| `ContextCache` | what that cache promises: one cached epoch, leases, one maker at a time | (abstract) |
| `GlobalContextRefinement` | the mapping of the first to the second | `ImplementsContextCache` |
| `FakeMiner` | the workers and the main thread of the fake miner, over `GlobalContext` | `SearchesOwnEpoch`, `HashesAccounted`, `MinerEnds` |
| `EpochContext` | `create_epoch_context`, `build_light_cache`, sizes; takes `Primes!LargestPrime` as the result of the prime search | `AllocationCovers`, `RoundsInOrder`, `ChainUnbroken`, `OnlyCompleteContexts` |
| `Primes` | `ethash_find_largest_prime` | `FindsLargestPrime`, `Terminates` |
| `LazyDataset` | `lazy_lookup` by several threads, word by word | `SoundLookupsExact`, `NoItemAbandoned`, `CalculatedOnce`, `WordsSettle` |
| `Search` | `search`, `search_light`, the verify functions, `hash_kernel` | `SearchAnswer`, `VerdictRight`, `Returns` |
| `LazySearch` | a thread that searches and verifies over `LazyDataset`; the mapping to `Search` | `ImplementsSearch` |
| `FindEpochNumber` | `find_epoch_number` over any history of calls | `CacheConsistent`, `InRangeRecovered`, `NeverAnotherEpoch`, `WorkBounded` |
| `CheckDifficulty` | `umul`, `check_against_difficulty`, `less_equal`, over bytes in memory of hosts of either endianness | `PartialProduct`, `AnswerIsProductBound`, `AgreesWithBoundary` |
| `Keccak` | `keccak.c`: sponge, unrolled permutation, hosts of either endianness | `PointersInside`, `ImplementsKeccak`, and `DigestsAsTested` in `MCKeccak` |
| `KeccakSpec` | Keccak as specified: five step mappings, derived rotations and constants, padding, sponge | (abstract) |
| `MC...` | values for the constants of the module they are named after | |
| `...Proofs` | theorems about the module they are named after | |

### GlobalContext

The statements of `update_local_context` are the actions `ResetLocal` (line 45), `Lock` (48),
`CheckReuse` and `CheckReplace` (50-53), `CreateNull`, `Calloc` and `Publish` (56), `Adopt`
(59) and `Unlock` (60, with the return at 90); `GetFast` and `GetSlow` are the check without
a lock at line 87. `heap` says of each block whether it is free, allocated or holds a
constructed context and of which epoch. The reference count of a block is the number of slots
(`shared`, `local[t]`) that hold it. A slot that lets go of the last reference leaves the
block in `dying[t]`; the destructor is the step `Destroy(t)`, and the thread does nothing else
before. `calloc` fails whenever it likes (`CreateNull`). Slot assignments that drop nothing in
the code, because the slot is empty by then, still pass through `Orphan`: that nothing is
dropped there is a consequence, not an assumption. `ptr[t]` is what the caller holds; it loses
its guarantee when the next call leaves the fast path. Full contexts are managed by the same
code over a second set of variables, which is another instance of this module.

Not in this model: the failure of `shared_ptr` to allocate its control block (ends the
process) and the order of destructors at process exit.

### FakeMiner

Extends `GlobalContext`: a worker that changes epochs makes a call of the cache (`LoadChange`
is `GetSlow` or `GetFast`), whose steps are those of `Step` (`InCache`), until `Bind` turns the
pointer into the reference of its new searcher. Between the two the old searcher still exists
and its reference dangles; `SearchesOwnEpoch` says it is not used then, and that all other
times the reference is alive. `posted` counts the stores to the block number; a relaxed load
returns any store from the one the worker has `seen` to the latest. `Crash` is the use of a
null reference, undefined behaviour that ends the process on the supported machines. Hashes
are counted in batches. Not in this model: failing allocations other than the context's, time,
and the overflow of the `int` counters.

### Keccak

A lane is the set of its one bits, which makes exclusive or, complement and rotation set
operations; widths are those of the code. The sixty local variables of a double round are two
rows of tables (`Taps`): which lane is rotated by how much for each `Ba` to `Bu`; both rounds
of the code were read against them. `KeccakSpec` has nothing from the code: its rotations come
from the walk through the coordinates, its round constants from the shift register. It takes
in the lanes of a block in any order, as the code spreads the last block over two loops and
the tail; the mapping gives the number of blocks from the data pointer.

### LazyDataset

The race is undefined behaviour in C++. The model takes what compilers make of it on the
supported machines: 64-bit words are loaded and stored whole, the sixteen words of an item are
stored in any order, and loads of the copied words may be moved before the test
(`HoistLoads`), except that a thread sees its own stores. All threads store the same words,
as `calculate_dataset_item_1024` is a function of the index and the light cache is constant.
Stores that become visible late to another processor are stores executed late here.

### Search

Calls of one thread; `OthersStore` is every other thread. The dataset keeps only "empty",
"partial" or "complete" of each item, and `AccessTorn` returns any word for a partial one. Hash functions are arbitrary functions.
After a call, `Leave` forgets arguments and locals; without it they would multiply the states.
Nonces count modulo `NonceLimit`: a range whose end wraps around is not searched at all, and
`SearchAnswer` excludes it from the promise that nothing is missed.

### LazySearch

Composes the two: the calls are the actions of `Search` (`Call`), but an access of a search is a
lookup of `LazyDataset`, from `BeginAccess` through the steps of `Lookup` to `EndAccess`, while
other threads take theirs. The sixteen words of an item become the one word of `Search` by an
arbitrary function, `Code`. Under the mapping `AbsDataset` an item that the thread found
incomplete stays "partial" until its next lookup, even if others complete it meanwhile: words
copied before may be old ones.

### FindEpochNumber

`Seed` is the chain drawn from the zero hash by `Keccak`. The assumption that no two seeds
have the same first word is true of the real chain as far as epoch 32839, which was computed;
without it the function cannot work, as it compares nothing else. Fake seeds, which have no
place in the chain, are answered with the epoch that begins alike, if any, and do not disturb
the cache. `work` counts hashes.

### EpochContext, Primes, CheckDifficulty

`CheckDifficulty` starts from bytes in memory, which a host reads as words in its own order
(`word64s`) and swaps (`be_uint64`); a word has two bytes, the fewest that can be swapped.
`EpochContext` counts sizes in units of 64 bytes and represents an item of the light cache by
the round it is of. `Primes` and `CheckDifficulty` follow the loops, one iteration a step;
the width of words is a parameter and all arithmetic wraps. Both builds of `umul`, with
128-bit integers and without, are checked (`portable`).

## 3. Runs

| run | question | bounds |
|---|---|---|
| `global_safety` | are pointers valid, blocks accounted for, contexts bounded; does the cache implement `ContextCache` | 3 threads, 2 calls each, epochs -1 (invalid), 0 and 1, 4 blocks, one more than `PeakBound` allows; symmetry of threads and blocks. Three threads are one that uses a context while two others replace it |
| `miner` | do workers search in a live context of their epoch; are hashes counted right; does the miner end | 2 workers, blocks 1 to 4 in epochs 0, 1, 1 and 2, 2 heap blocks (`PeakBounded` proves that no more are ever in use), 2 batches a worker, then it only waits for the stop; 4 calls, which is no restriction; `calloc` may fail; no symmetry because of liveness |
| `find_history` | do answers depend on history | last epoch 4, seeds up to epoch 8, a fake seed like that of epoch 1 and one like none; no bound on the number of calls. The cache can be at every epoch, beyond the last one too |
| `find_too_high` | (violated) is a seed beyond the last epoch rejected | last epoch 2 |
| `lazy_race` | what does the race leave intact; is a search over the words in memory one as `Search` has it | `LazySearch` with 2 threads, one of which searches and verifies, the other looks up what it likes, any number of times; 2 items of 2 words, one that begins with zero; loads reordered; 3 nonces, all ranges of up to 2, 2 accesses that look up the same item or both. Torn lookups, and nonces tried after them, happen. The tested word and another one tell all orders of stores and loads apart that matter to a lookup |
| `lazy_torn` | (violated) is every lookup exact | one item without zero words, loads in program order |
| `primes_small` | is the prime the largest; does the search end | every bound from -2 to 400, beyond the squares of 3 to 19 |
| `context_build` | is the context complete and inside its allocation | epochs -1 to 4 of which 0 to 3 are valid, 5 to 13 light items, 3 rounds |
| `context_size32` | (violated) does the allocation cover the context | the same with a `size_t` too small for the last epochs |
| `difficulty_edges` | is the answer the mathematical one | all pairs of three-word numbers whose words are 0, 1, 4, 14 or 15, with 4-bit words of two bytes, in both builds and on both hosts; three words are enough for a carry through a middle word and for an omitted round in the middle |
| `keccak_digest` | does the code implement Keccak, on both hosts; are the digests those of the tests | 16 prefixes of the tests' text in both digest sizes: empty, whole words, odd bytes, one byte short of a block, whole blocks, more than one block; full width |
| `search_answers` | are answers and verdicts right while others fill the dataset | 7 nonces, all ranges of up to 4 with the wrapping ones, 2 items, 2 accesses, 4 words |

Deadlock is checked in every run. `GlobalContext`, `FakeMiner`, `Primes`, `CheckDifficulty` and
`Keccak` may end; they stutter explicitly where they do.

### Fairness

`MinerEnds` assumes weak fairness of each thread's own steps: the operating system keeps
running runnable threads. `std::mutex` promises no order, and weak fairness is enough because
a worker calls the cache at most once per epoch change and blocks are finitely many, so that
it cannot win the mutex for ever; with unboundedly many calls of other threads a thread could
starve, as in the code. The stop is stored once, and a worker that loads again and again must
read it some time: the standard asks that stores become visible in finite time, which is
strong fairness of `LoadStop`. `MaxBatches` does not help there: it bounds what a worker does
before the stop and leaves it at its load. `Terminates` and `Returns` assume that one
thread keeps running.

## 4. What the violated runs show

- `find_too_high`: after a call that found the last epoch, 32639, the seed of epoch 32640 is
  answered with 32640 and not with -1 (`ethash.cpp:73-78`), against the test
  `find_epoch_number_epoch_too_high`, which only passes with another history.
  `NeverAnotherEpoch` shows that such an answer is at least the true number of the seed.
- `lazy_torn`: a lookup may return a mixture of an item and zeros (`ethash.cpp:258-260`).
  `VerdictRight` shows what limits the damage: a share mined from it is rejected by
  verification; `NoItemAbandoned` and `WordsSettle` show that the dataset heals.
- `context_size32`: with a 32-bit `size_t` the size of a full context wraps around from epoch
  377 on (`ethash.cpp:142`); the allocation then succeeds and is too small, where the header
  promises null.

Smaller observations, not runs: `find_epoch_number` is not fast for the epoch before the last
answer, as the comment at `test_ethash.cpp:268` has it (only for the same epoch and the one
after it); `ethash_create_epoch_context_full` also returns null for an epoch out of range, which
its comment does not say; the 252GB in the comment of `ETHASH_MAX_EPOCH_NUMBER` are 256GB by
the size that the tests expect for that epoch.

## 5. Proofs

All constants are arbitrary within the named assumption of each module.

`GlobalContextProofs` (assumes `ConstantsAssumption`: finitely many threads, special values
distinct). The inductive invariant relates program counters to who holds what: a thread is
between `Lock` and `Unlock` exactly if it holds the mutex; at "lock" its local slot is empty;
at "build" and "construct" the shared slot is; `fresh` is set exactly at "construct"; a block
owned by a slot is constructed; `BlocksAccounted`. It is needed because `BlocksAccounted`
alone does not exclude that a constructed block is dropped or overwritten by a thread that
does not own the lock. Each action is one step. `PeakBounded` follows by counting: every
allocated block is charged to a different thread, and the shared block to one that has
nothing else, which needs an argument of its own about spare threads. `CacheImplemented` shows
the initial states and every step of the code to be an initial state and a step, or a
stutter, of `ContextCache` under the mapping.

The second part of `GlobalContextProofs` is about `FakeMiner` (assumes `MinerAssumption` too,
whose last part says that the blocks posted lie in the epochs of the cache's instance; no
proof about the cache uses it). `CacheUsedAsSpecified` comes first: every step of the
miner is a step of `GlobalContext` or leaves its variables alone, so that all theorems of the
cache hold in the miner, `PeakBound` and `BlocksAccounted` among them. `WorkersSearchOwnEpoch`
needs a binding invariant on top: a worker that loads or searches is outside of any call, its
reference is the pointer the last call returned, and its epoch the one it asked for;
`EpochInv` of the cache says that such a pointer refers to a live context of that epoch.
`HashesAlwaysAccounted` is about a sum over all workers. The sum is a fold over a finite set,
and the lemmas that one batch more of one worker is one more in the sum, and that a sum of
zeros is zero, are proved for every finite set by induction on it.

`FindEpochNumberProofs` (assumes the chain without colliding first words): the inductive
invariant says which seed the local `s` is and which epochs have been ruled out so far.

`LazyDatasetProofs` (assumes that items are made of values other than the "unread" mark): the
inductive invariant says of each thread that the words it has stored are in memory and stay
there, that the items it has finished are complete, and that a sound lookup reads a complete
item, so that what it has copied so far is final. It is needed because exactness at the return
depends on what the memory held at each earlier load. It holds for any number of threads, items
and words, with or without reordering.

Its second part is about `LazySearch` (assumes `SearchAssumption` too: the types of the hash
functions). `DatasetUsedAsSpecified` says that the thread that searches uses the dataset as any
other does. `SearchImplemented` says that its search is one of `Search`, so that the theorems of
`SearchProofs` hold over memory with the race. The invariant adds that memory holds zeros and
words of items only (`MemoryInv`); that the kernel waits at the access its lookup is for
(`KernelWaits`); and that a lookup that is not sound has found a nonzero word, which stays
(`FoundWord`), so that its item is "partial" to `Search` when it returns a mixture.
`DatasetStep` shows that each step of a lookup takes at most one item on.

`PrimesProofs` (assumes bounds that fit int, and an `IntMax` of 3 at least, as the first
divisor is 3). The inductive invariant says that in the division loop the candidate is odd and
has no divisor below `d`, and that there is no prime between it and the bound. An odd
candidate without odd divisor up to its root is prime because a divisor above the root has a
quotient below it, and even divisors are out; the descent in twos passes even numbers only.
That `d` stays within int needs the bound on its square. The result is the largest prime, or 0
where there is none.

`EpochContextProofs` (assumes that the numbers of items fit int, as they do up to the last
epoch). The inductive invariant relates the loop counters to the rounds the items are of; while
a round runs, the items before the counter are one round ahead (`RoundsInOrder`), `last` is the
item before the counter, and the prime that is the number of items is at least 2, for which
the existence of a largest prime is proved. `AllocationSufficient` has a hypothesis, `SizesFit`:
no size of a valid epoch reaches the limit of `size_t`. It holds with 64 bits and in the run
`context_build`; `context_size32` shows that it is needed.

`SearchProofs` (assumes nothing of the hash functions but their types, and that the range of a
call is shorter than the nonces are many, as both are 64-bit). The true mix of a nonce is a
recursive function of the number of accesses; that it exists, step by step, is proved by the
least access where it would not. The inductive invariant says that as long as no lookup of
this nonce was torn the mix is the true one, that the nonces before the current one are no
solutions unless a torn lookup spoiled them, and that a verification that computes a mix has
accepted the final hash before. It holds for any dataset, whatever the other threads store.

`CheckDifficultyProofs` (any number of words, halves of any width from two values on). The
numbers that words make up are recursive functions, of one form (`Linear`), whose existence and
step are proved once, by induction on a set of natural numbers up to a bound; `Power`, `Value`
and `BigEndian` get their lemmas from there (bounds, splitting, replacing one word). Three
further groups of lemmas carry the proof: words read on either host are those of the
big-endian number (`NativeIsBigEndian`); both multiplications give the two words of the exact
product, with no sum of the portable one wrapping around (`UmulExact`); and the comparison
after an addition that wraps around finds the carry (`CarryFound`). The inductive invariant is
`PartialProduct`, with what the position says of the carry: it is zero where a round begins,
which is what makes it right to leave out the round of a zero word. `AnswerCorrect` is then
the reading of the top words (`ProductBound`), and `BoundaryAgrees` adds that the word by word
comparison is the order of the numbers, that `Bytes` are the bytes of a number, and that
multiplying and comparing is dividing and comparing.

`KeccakProofs` (calls of both digest sizes with bytes of any number, on either kind of host).
The inductive invariant ties the place in the code to the two loops of absorption: while a
block is taken in, a whole one is left, and the pointer is ahead of `size` by the words taken,
as the code lowers `size` only after the permutation; after the blocks, what is left ends
before the block does, so that the tail and the padding byte stay in its last word. It is
needed because `PointersInside` alone does not say that the word loaded next lies inside the
data: that a word can be loaded is shown from it before each load (`LoadType`).

`KeccakImplemented` rests on three groups of lemmas. The first ends in `RoundAsSpecified`: a
round of the code is the specified one, whatever the lanes. The walk and the offsets of rho
become a table, proved from the recursive functions position by position (`WalkIsWalked`,
`TapTable`); each row of the code is then chi of five lanes that rho and pi put there
(`RowsAreChi`), and the 24 constants come out of the shift register advanced seven steps at a
time (`SevenSteps`, `RoundConstants`). The second is about bytes: a word loaded on either host
is the little-endian lane of its eight bytes, a stored one gives them back
(`LoadedIsLittleEndian`, `StoredIsLittleEndian`). The third is a second inductive invariant,
`RefInv`: a block begins at a multiple of the block size of the data (`StartInv`), and the last
word holds the bytes copied so far and zeros behind them (`LastWordInv`). It is needed because
the specification takes in lanes of the padded data by position, while the code only knows a
pointer, a size that lags behind and one word that it fills. Each action is then one step of
the specification under the mapping (`AbsBlock`, `AbsTaken`, `AbsRounds`, `AbsState`), or a
stutter.

Model-checked only: liveness (`MinerEnds`, `Returns`, `Terminates`), which is outside of what
TLAPS can do, and `DigestsAsTested`, which is about given messages and is a computation.

## 6. Not modelled

The content of light cache and dataset items and of mixes (`fnv1`, `hash_kernel`'s arithmetic,
`le::uint32s`): pure arithmetic on hashes, which the tests' vectors cover; `Search` and
`EpochContext` have arbitrary functions or ghosts in its place. The experimental division is
test code that nothing calls. Error texts, version and build hold no behaviour that a state
machine would show; the Python bindings add argument checks only; benchmarks and
synchronisation experiments are no part of the library. The choice between the generic and
the BMI build of the permutation is between two compilations of one source.

## 7. Plan

1. Done: the global cache with its abstract specification and proofs; the fake miner over it;
   epoch numbers; the lazy dataset; search, on its own and over that dataset; creation; primes;
   the difficulty check on both kinds of hosts; Keccak with its specification.
2. Done: the theorems of section 5, which state every safety property that a passing run checks
   but `DigestsAsTested`, and the three refinements (`CacheImplemented`, `SearchImplemented`,
   `KeccakImplemented`).
3. Left: a process that uses the light and the full cache at once, with the bound on contexts
   for both; the arithmetic of the hash kernel on both kinds of hosts; `calculate_dataset_item_1024`
   and what it takes from the light cache.
