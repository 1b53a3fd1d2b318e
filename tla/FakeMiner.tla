---- MODULE FakeMiner ----
(***************************************************************************)
(* The fake miner of test/fakeminer: worker threads that follow a block    *)
(* number the main thread moves on, and search batches of nonces with a    *)
(* context of the global cache.  Block number and hash counter are relaxed *)
(* atomics: a load may answer with any value that is not older than what   *)
(* the same thread has read before.                                        *)
(*                                                                         *)
(* A worker keeps a C++ REFERENCE to the context, which get_global_epoch_  *)
(* context makes of the pointer it gets, null or not.  Each step of a call *)
(* into the cache is a step of GlobalContext.  Batches, not hashes, are    *)
(* counted; the time the main thread sleeps between blocks is arbitrary.   *)
(***************************************************************************)
EXTENDS GlobalContext, Functions

CONSTANTS
    EpochLength,  \* ETHASH_EPOCH_LENGTH
    StartBlock,   \* start_block_number
    NumBlocks,    \* num_blocks
    MaxBatches    \* bound on the batches a worker searches, then it waits for the stop

ASSUME MinerAssumption ==
    /\ EpochLength \in Nat \ {0}
    /\ StartBlock \in Nat
    /\ NumBlocks \in Nat
    /\ MaxBatches \in Nat
    /\ \A b \in StartBlock..StartBlock + NumBlocks : b \div EpochLength \in Epochs

VARIABLES
    posted,         \* number of stores to shared_block_number after the first
    seen,           \* the latest of them each worker has read
    at,             \* where each worker is in its loop
    current_epoch,  \* current_epoch of each worker
    context,        \* what the context reference of its ei is bound to, dangling or not
    batches,        \* batches each worker has searched
    num_hashes,     \* batches counted since the main thread took the counter last
    all_hashes,     \* batches the main thread has taken
    main,           \* where the main thread is
    crashed         \* a null reference was used: the process is gone

boards == <<posted, seen>>
ledger == <<batches, num_hashes, all_hashes>>
binding == <<current_epoch, context>>
minerVars == <<vars, boards, ledger, binding, at, main, crashed>>

MinerInit ==
    /\ Init
    /\ want = [t \in Threads |-> StartBlock \div EpochLength]
    /\ posted = 0
    /\ seen = [t \in Threads |-> 0]
    /\ at = [t \in Threads |-> "load"]
    /\ current_epoch = [t \in Threads |-> -1]
    /\ context = [t \in Threads |-> NULL]
    /\ batches = [t \in Threads |-> 0]
    /\ num_hashes = 0
    /\ all_hashes = 0
    /\ main = "sleep"
    /\ crashed = FALSE

\* The values shared_block_number takes, in order: the blocks, and the stop.
Block(p) == IF p <= NumBlocks THEN StartBlock + p ELSE -1

\* Wrong variant of EpochNumber: the block number is taken for an epoch number.
EpochNumberUndivided(block) == block

EpochNumber(block) == block \div EpochLength

-----------------------------------------------------------------------------
(* worker                                                                  *)

To(t, l) == at' = [at EXCEPT ![t] = l]

Load(t, p) ==
    /\ at[t] = "load"
    /\ p \in seen[t]..posted
    /\ seen' = [seen EXCEPT ![t] = p]
    /\ UNCHANGED <<posted, ledger, binding, main, crashed>>

LoadStop(t) ==
    \E p \in 0..posted :
        /\ Load(t, p)
        /\ Block(p) < 0
        /\ To(t, "end")
        /\ UNCHANGED vars

\* The block is of the epoch the worker has a context of.
LoadSame(t) ==
    \E p \in 0..posted :
        /\ Load(t, p)
        /\ batches[t] < MaxBatches
        /\ Block(p) >= 0
        /\ EpochNumber(Block(p)) = current_epoch[t]
        /\ To(t, "search")
        /\ UNCHANGED vars

\* It is of another: the call of get_global_epoch_context begins.
LoadChange(t) ==
    \E p \in 0..posted :
        /\ Load(t, p)
        /\ batches[t] < MaxBatches
        /\ Block(p) >= 0
        /\ EpochNumber(Block(p)) # current_epoch[t]
        /\ GetFast(t, EpochNumber(Block(p))) \/ GetSlow(t, EpochNumber(Block(p)))
        /\ To(t, "create")

\* The call has returned; the old searcher is deleted.
Bind(t) ==
    /\ at[t] = "create"
    /\ At(t, "idle")
    /\ context' = [context EXCEPT ![t] = ptr[t]]
    /\ current_epoch' = [current_epoch EXCEPT ![t] = want[t]]
    /\ To(t, "search")
    /\ UNCHANGED <<vars, boards, ledger, main, crashed>>

Search(t) ==
    /\ at[t] = "search"
    /\ context[t] # NULL
    /\ batches' = [batches EXCEPT ![t] = @ + 1]
    /\ num_hashes' = num_hashes + 1
    /\ To(t, "load")
    /\ UNCHANGED <<vars, boards, binding, all_hashes, main, crashed>>

\* The context could not be created; its reference is used all the same.
Crash(t) ==
    /\ at[t] = "search"
    /\ context[t] = NULL
    /\ crashed' = TRUE
    /\ UNCHANGED <<vars, boards, ledger, binding, at, main>>

InCache(t) == Step(t) /\ UNCHANGED <<boards, ledger, binding, at, main, crashed>>

ThreadEnds(t) ==
    /\ at[t] = "end"
    /\ Exit(t)
    /\ UNCHANGED <<boards, ledger, binding, at, main, crashed>>

-----------------------------------------------------------------------------
(* main                                                                    *)

MainCount ==
    /\ main = "sleep"
    /\ posted < NumBlocks
    /\ all_hashes' = all_hashes + num_hashes
    /\ num_hashes' = 0
    /\ main' = "post"
    /\ UNCHANGED <<vars, boards, binding, at, batches, crashed>>

\* Wrong variant of MainPost: the counter is set to zero again, apart from being read.
MainPostResets ==
    /\ main = "post"
    /\ posted' = posted + 1
    /\ num_hashes' = 0
    /\ main' = "sleep"
    /\ UNCHANGED <<vars, seen, batches, all_hashes, binding, at, crashed>>

MainPost ==
    /\ main = "post"
    /\ posted' = posted + 1
    /\ main' = "sleep"
    /\ UNCHANGED <<vars, seen, ledger, binding, at, crashed>>

MainStop ==
    /\ main = "sleep"
    /\ posted = NumBlocks
    /\ posted' = posted + 1
    /\ main' = "join"
    /\ UNCHANGED <<vars, seen, ledger, binding, at, crashed>>

MainJoin ==
    /\ main = "join"
    /\ \A t \in Threads : at[t] = "end"
    /\ main' = "end"
    /\ UNCHANGED <<vars, boards, ledger, binding, at, crashed>>

MainStep == MainCount \/ MainPost \/ MainStop \/ MainJoin

-----------------------------------------------------------------------------

Worker(t) ==
    \/ LoadStop(t) \/ LoadSame(t) \/ LoadChange(t) \/ Bind(t) \/ Search(t) \/ Crash(t)
    \/ InCache(t) \/ ThreadEnds(t)

MinerNext ==
    \/ ~crashed /\ \E t \in Threads : Worker(t)
    \/ ~crashed /\ MainStep
    \/ (crashed \/ main = "end") /\ UNCHANGED minerVars

\* Every thread that can run runs, the mutex is as unfair as std::mutex may be, and a
\* store becomes visible to a thread that loads again and again.
MinerFairness ==
    /\ WF_minerVars(~crashed /\ MainStep)
    /\ \A t \in Threads :
        /\ WF_minerVars(~crashed /\ Worker(t))
        /\ SF_minerVars(~crashed /\ LoadStop(t))

MinerSpec == MinerInit /\ [][MinerNext]_minerVars /\ MinerFairness

-----------------------------------------------------------------------------
(* Properties                                                              *)

\* Types of the miner's own variables.
MinerTypeOK ==
    /\ posted \in 0..NumBlocks + 1
    /\ seen \in [Threads -> 0..posted]
    /\ at \in [Threads -> {"load", "create", "search", "end"}]
    /\ current_epoch \in [Threads -> Epochs \cup {-1}]
    /\ context \in [Threads -> BlockOrNull]
    /\ batches \in [Threads -> 0..MaxBatches]
    /\ num_hashes \in Nat /\ all_hashes \in Nat
    /\ main \in {"sleep", "post", "join", "end"}
    /\ crashed \in BOOLEAN

\* A worker searches with a live context of the epoch it believes to be in, batch after
\* batch, although it took the reference long ago and other workers have replaced the
\* shared context since; while it changes epochs the old reference dangles unused.
SearchesOwnEpoch ==
    \A t \in Threads :
        at[t] \in {"load", "search"} /\ context[t] # NULL =>
            heap[context[t]] = current_epoch[t]

Total(f) == FoldFunction(+, 0, f)

\* No batch is lost or counted twice between the workers that add to the counter and the
\* main thread that takes it: fetch_add and exchange are relaxed, but atomic (93, 177).
HashesAccounted ==
    all_hashes + num_hashes = Total(batches)

\* The miner comes to its end, or dies of a context that could not be created: no worker
\* stays in the cache for ever and none misses the stop.
MinerEnds == <>(main = "end" \/ crashed)

=============================================================================
