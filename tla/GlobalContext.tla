---- MODULE GlobalContext ----
(***************************************************************************)
(* The global epoch context cache of lib/global_context.  One shared slot  *)
(* (shared_context, behind shared_context_mutex) and one slot per thread   *)
(* (thread_local_context) own heap blocks through std::shared_ptr; the     *)
(* caller of ethash_get_global_epoch_context receives a RAW pointer whose  *)
(* only guarantee of life is the slot of its own thread.                   *)
(*                                                                         *)
(* A block is freed when its last owner lets go of it.  The reference      *)
(* count is the number of slots that hold the block; the thread that drops *)
(* it to zero runs the destructor later, as a step of its own, so the      *)
(* block is "dying" in between.  The full variant of the cache             *)
(* (update_local_context_full, lines 62-81) is the same code over its own  *)
(* three variables and is an instance of this module.                      *)
(***************************************************************************)
EXTENDS Integers, FiniteSets

CONSTANTS
    Threads,         \* threads of the process
    Epochs,          \* epoch numbers callers ask for, valid or not
    MaxEpochNumber,  \* ETHASH_MAX_EPOCH_NUMBER
    Blocks,          \* heap blocks calloc can hand out
    MaxCalls,        \* bound on the calls one thread makes
    NULL,            \* nullptr, and "nobody"
    Free, Raw        \* content of a block: not allocated, allocated by calloc

ASSUME ConstantsAssumption ==
    /\ IsFiniteSet(Threads)
    /\ Epochs \subseteq Int
    /\ MaxEpochNumber \in Nat
    /\ MaxCalls \in Nat
    /\ NULL \notin Blocks /\ NULL \notin Threads
    /\ NULL \notin Int /\ Free \notin Int /\ Raw \notin Int
    /\ Free # Raw

VARIABLES
    heap,    \* content of each block: Free, Raw, or the epoch_number constructed in it
    mutex,   \* shared_context_mutex: the thread that holds it, or NULL
    shared,  \* shared_context: the block it owns, or NULL
    local,   \* thread_local_context of each thread
    fresh,   \* the block a thread has allocated in create_epoch_context, until published
    dying,   \* the block whose last owner was this thread, until its destructor ran
    pc,      \* where each thread is between two calls or inside one
    want,    \* the epoch_number argument of each thread's current or last call
    ptr,     \* the raw pointer each thread's last call returned
    calls    \* calls each thread has made

vars == <<heap, mutex, shared, local, fresh, dying, pc, want, ptr, calls>>

PCs == {"idle", "reset", "lock", "check", "build", "construct", "adopt",
        "unlock", "exited"}

Valid(e) == e \in 0..MaxEpochNumber

Init ==
    /\ heap = [b \in Blocks |-> Free]
    /\ mutex = NULL
    /\ shared = NULL
    /\ local = [t \in Threads |-> NULL]
    /\ fresh = [t \in Threads |-> NULL]
    /\ dying = [t \in Threads |-> NULL]
    /\ pc = [t \in Threads |-> "idle"]
    /\ want \in [Threads -> Epochs]
    /\ ptr = [t \in Threads |-> NULL]
    /\ calls = [t \in Threads |-> 0]

-----------------------------------------------------------------------------
(* std::shared_ptr                                                         *)

Owned == {shared} \cup {local[t] : t \in Threads}

\* Wrong variant of Orphan: the owners are counted before the slot lets go.
OrphanTooEarly(b) == IF b \in Owned THEN NULL ELSE b

\* What a thread must destroy after it let go of b: b, when no slot owns it any more.
Orphan(b) == IF b \in Owned' THEN NULL ELSE b

\* A thread goes on with its own code once the destructor it owes has run.
At(t, l) == pc[t] = l /\ dying[t] = NULL

Goto(t, l) == pc' = [pc EXCEPT ![t] = l]

-----------------------------------------------------------------------------
(* ethash_get_global_epoch_context                                         *)

\* Wrong variant of LocalHit: any context will do.
LocalHitAnyEpoch(t, e) == local[t] # NULL

LocalHit(t, e) == local[t] # NULL /\ heap[local[t]] = e

Call(t, e) ==
    /\ At(t, "idle")
    /\ calls[t] < MaxCalls
    /\ calls' = [calls EXCEPT ![t] = @ + 1]
    /\ want' = [want EXCEPT ![t] = e]

\* The local context matches: no lock is taken.
GetFast(t, e) ==
    /\ Call(t, e)
    /\ LocalHit(t, e)
    /\ ptr' = [ptr EXCEPT ![t] = local[t]]
    /\ UNCHANGED <<heap, mutex, shared, local, fresh, dying, pc>>

\* Otherwise update_local_context(e) is entered; the pointer the previous call
\* returned is not promised any more.
GetSlow(t, e) ==
    /\ Call(t, e)
    /\ ~LocalHit(t, e)
    /\ ptr' = [ptr EXCEPT ![t] = NULL]
    /\ Goto(t, "reset")
    /\ UNCHANGED <<heap, mutex, shared, local, fresh, dying>>

-----------------------------------------------------------------------------
(* update_local_context                                                    *)

\* Wrong variant of ResetLocal: the old context is kept until the new one replaces it.
KeepLocal(t) ==
    /\ At(t, "reset")
    /\ Goto(t, "lock")
    /\ UNCHANGED <<heap, mutex, shared, local, fresh, dying, want, ptr, calls>>

\* thread_local_context.reset()
ResetLocal(t) ==
    /\ At(t, "reset")
    /\ local' = [local EXCEPT ![t] = NULL]
    /\ UNCHANGED shared
    /\ dying' = [dying EXCEPT ![t] = Orphan(local[t])]
    /\ Goto(t, "lock")
    /\ UNCHANGED <<heap, mutex, fresh, want, ptr, calls>>

\* Wrong variant of Lock: the mutex excludes nobody.
LockRegardless(t) ==
    /\ At(t, "lock")
    /\ mutex' = t
    /\ Goto(t, "check")
    /\ UNCHANGED <<heap, shared, local, fresh, dying, want, ptr, calls>>

\* std::lock_guard's constructor
Lock(t) ==
    /\ At(t, "lock")
    /\ mutex = NULL
    /\ mutex' = t
    /\ Goto(t, "check")
    /\ UNCHANGED <<heap, shared, local, fresh, dying, want, ptr, calls>>

\* Wrong variant of SharedHit: any context will do.
SharedHitAnyEpoch(t) == shared # NULL

SharedHit(t) == shared # NULL /\ heap[shared] = want[t]

\* The shared context is the one asked for.
CheckReuse(t) ==
    /\ At(t, "check")
    /\ SharedHit(t)
    /\ Goto(t, "adopt")
    /\ UNCHANGED <<heap, mutex, shared, local, fresh, dying, want, ptr, calls>>

\* It is not: shared_context.reset()
CheckReplace(t) ==
    /\ At(t, "check")
    /\ ~SharedHit(t)
    /\ shared' = NULL
    /\ UNCHANGED local
    /\ dying' = [dying EXCEPT ![t] = Orphan(shared)]
    /\ Goto(t, "build")
    /\ UNCHANGED <<heap, mutex, fresh, want, ptr, calls>>

\* create_epoch_context answers null: the epoch number is out of range, or calloc
\* failed, which it may do at any time.
CreateNull(t) ==
    /\ At(t, "build")
    /\ shared' = NULL
    /\ UNCHANGED local
    /\ dying' = [dying EXCEPT ![t] = Orphan(shared)]
    /\ Goto(t, "adopt")
    /\ UNCHANGED <<heap, mutex, fresh, want, ptr, calls>>

\* create_epoch_context gets its memory ...
Calloc(t, b) ==
    /\ At(t, "build")
    /\ Valid(want[t])
    /\ heap[b] = Free
    /\ heap' = [heap EXCEPT ![b] = Raw]
    /\ fresh' = [fresh EXCEPT ![t] = b]
    /\ Goto(t, "construct")
    /\ UNCHANGED <<mutex, shared, local, dying, want, ptr, calls>>

\* Wrong variant of Publish: the epoch number is one too high.
PublishNextEpoch(t) ==
    /\ At(t, "construct")
    /\ heap' = [heap EXCEPT ![fresh[t]] = want[t] + 1]
    /\ shared' = fresh[t]
    /\ UNCHANGED local
    /\ fresh' = [fresh EXCEPT ![t] = NULL]
    /\ dying' = [dying EXCEPT ![t] = Orphan(shared)]
    /\ Goto(t, "adopt")
    /\ UNCHANGED <<mutex, want, ptr, calls>>

\* ... and, the light cache built, constructs the context there; shared_context
\* takes it over.
Publish(t) ==
    /\ At(t, "construct")
    /\ heap' = [heap EXCEPT ![fresh[t]] = want[t]]
    /\ shared' = fresh[t]
    /\ UNCHANGED local
    /\ fresh' = [fresh EXCEPT ![t] = NULL]
    /\ dying' = [dying EXCEPT ![t] = Orphan(shared)]
    /\ Goto(t, "adopt")
    /\ UNCHANGED <<mutex, want, ptr, calls>>

\* thread_local_context = shared_context
Adopt(t) ==
    /\ At(t, "adopt")
    /\ local' = [local EXCEPT ![t] = shared]
    /\ UNCHANGED shared
    /\ dying' = [dying EXCEPT ![t] = Orphan(local[t])]
    /\ Goto(t, "unlock")
    /\ UNCHANGED <<heap, mutex, fresh, want, ptr, calls>>

\* Wrong variant of Unlock: the mutex stays locked.
ForgetUnlock(t) ==
    /\ At(t, "unlock")
    /\ ptr' = [ptr EXCEPT ![t] = local[t]]
    /\ Goto(t, "idle")
    /\ UNCHANGED <<heap, mutex, shared, local, fresh, dying, want, calls>>

\* The lock_guard goes out of scope and the caller gets thread_local_context.get().
Unlock(t) ==
    /\ At(t, "unlock")
    /\ mutex' = NULL
    /\ ptr' = [ptr EXCEPT ![t] = local[t]]
    /\ Goto(t, "idle")
    /\ UNCHANGED <<heap, shared, local, fresh, dying, want, calls>>

-----------------------------------------------------------------------------
(* Destructors                                                             *)

\* ethash_destroy_epoch_context, the deleter, run by the thread that dropped the
\* last reference, wherever it is in its code.
Destroy(t) ==
    /\ dying[t] # NULL
    /\ heap' = [heap EXCEPT ![dying[t]] = Free]
    /\ dying' = [dying EXCEPT ![t] = NULL]
    /\ UNCHANGED <<mutex, shared, local, fresh, pc, want, ptr, calls>>

\* The thread ends and its thread_local_context is destroyed with it.
Exit(t) ==
    /\ At(t, "idle")
    /\ local' = [local EXCEPT ![t] = NULL]
    /\ UNCHANGED shared
    /\ dying' = [dying EXCEPT ![t] = Orphan(local[t])]
    /\ ptr' = [ptr EXCEPT ![t] = NULL]
    /\ Goto(t, "exited")
    /\ UNCHANGED <<heap, mutex, fresh, want, calls>>

-----------------------------------------------------------------------------

\* What a thread does without a decision of its caller.
Step(t) ==
    \/ ResetLocal(t) \/ Lock(t)
    \/ CheckReuse(t) \/ CheckReplace(t)
    \/ CreateNull(t) \/ (\E b \in Blocks : Calloc(t, b)) \/ Publish(t)
    \/ Adopt(t) \/ Unlock(t) \/ Destroy(t)

Finished == \A t \in Threads : At(t, "exited")

Next ==
    \/ \E t \in Threads :
        \/ \E e \in Epochs : GetFast(t, e) \/ GetSlow(t, e)
        \/ Step(t)
        \/ Exit(t)
    \/ Finished /\ UNCHANGED vars

Spec == Init /\ [][Next]_vars

-----------------------------------------------------------------------------
(* Properties                                                              *)

BlockOrNull == Blocks \cup {NULL}

\* Types of the variables.
TypeOK ==
    /\ heap \in [Blocks -> {Free, Raw} \cup Epochs]
    /\ mutex \in Threads \cup {NULL}
    /\ shared \in BlockOrNull
    /\ local \in [Threads -> BlockOrNull]
    /\ fresh \in [Threads -> BlockOrNull]
    /\ dying \in [Threads -> BlockOrNull]
    /\ pc \in [Threads -> PCs]
    /\ want \in [Threads -> Epochs]
    /\ ptr \in [Threads -> BlockOrNull]
    /\ calls \in [Threads -> 0..MaxCalls]

\* The raw pointer a caller was given refers to a constructed context of the epoch it
\* asked for, from the return of the call to the caller's next call or exit, whatever
\* the other threads ask for meanwhile (lines 84-91).
PointerValid ==
    \A t \in Threads :
        pc[t] = "idle" /\ ptr[t] # NULL => heap[ptr[t]] = want[t]

Allocated == {b \in Blocks : heap[b] # Free}

\* The threads that are responsible for b without a shared_ptr slot holding it.
Keepers(b) == {t \in Threads : fresh[t] = b \/ dying[t] = b}

\* Every allocated block is either owned by a slot or in the hands of exactly one thread
\* that builds or destroys it, never both; a free block is in nobody's hands.  So no
\* context leaks, none is freed twice and none is freed while a slot still owns it.
BlocksAccounted ==
    \A b \in Blocks :
        /\ heap[b] = Free => b \notin Owned /\ Keepers(b) = {}
        /\ heap[b] # Free => (b \in Owned <=> Keepers(b) = {})
        /\ \A t, u \in Keepers(b) : t = u

\* However many epochs are asked for, the process never holds more contexts than it has
\* threads: each reset comes before the allocation that replaces the context (lines 45, 53).
PeakBound == Cardinality(Allocated) <= Cardinality(Threads)

=============================================================================
