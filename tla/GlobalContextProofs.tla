---- MODULE GlobalContextProofs ----
(***************************************************************************)
(* For every set of threads, epochs and blocks: type correctness of        *)
(* GlobalContext, the accounting of its blocks, the validity of the raw    *)
(* pointers it hands out and the bound on the contexts alive at a time.    *)
(*                                                                         *)
(* Then, for any number of workers, blocks and batches, its client: the    *)
(* fake miner uses the cache only as GlobalContext allows, its workers     *)
(* search with live contexts of their own epochs, and no batch is lost or  *)
(* counted twice.  No proof about the cache uses a fact about the miner.   *)
(***************************************************************************)
EXTENDS FakeMiner, GlobalContextRefinement, FiniteSetTheorems, WellFoundedInduction, TLAPS

Critical == {"check", "build", "construct", "adopt", "unlock"}

\* The mutex is held exactly by the thread between lines 48 and 60.
MutexInv == \A t \in Threads : pc[t] \in Critical <=> mutex = t

\* What each point of the code knows about the slots.
SlotInv ==
    \A t \in Threads :
        /\ fresh[t] # NULL <=> pc[t] = "construct"
        /\ dying[t] # NULL => pc[t] \in {"lock", "build", "exited"}
        /\ pc[t] \in {"lock", "check", "build", "construct", "adopt", "exited"}
              => local[t] = NULL
        /\ pc[t] \in {"build", "construct"} => shared = NULL
        /\ pc[t] = "idle" => ptr[t] = local[t]

\* What each point of the code knows about the epochs of the contexts.
EpochInv ==
    \A t \in Threads :
        /\ pc[t] = "adopt" /\ shared # NULL => heap[shared] = want[t]
        /\ pc[t] \in {"idle", "unlock"} /\ local[t] # NULL => heap[local[t]] = want[t]

IInv == TypeOK /\ MutexInv /\ SlotInv /\ EpochInv /\ BlocksAccounted

USE DEF At, Goto, BlockOrNull

LEMMA InitIInv == Init => IInv
  BY ConstantsAssumption
  DEF Init, IInv, TypeOK, MutexInv, SlotInv, EpochInv, BlocksAccounted, Keepers, Owned,
      PCs, Critical

LEMMA TypeStep == TypeOK /\ [Next]_vars => TypeOK'
<1> SUFFICES ASSUME TypeOK, [Next]_vars PROVE TypeOK'
  OBVIOUS
<1> USE ConstantsAssumption DEF TypeOK, PCs
<1>1. CASE UNCHANGED vars
  BY <1>1 DEF vars
<1>2. ASSUME NEW t \in Threads, NEW e \in Epochs, GetFast(t, e) PROVE TypeOK'
  BY <1>2 DEF GetFast, Call
<1>3. ASSUME NEW t \in Threads, NEW e \in Epochs, GetSlow(t, e) PROVE TypeOK'
  BY <1>3 DEF GetSlow, Call
<1>4. ASSUME NEW t \in Threads, ResetLocal(t) PROVE TypeOK'
  BY <1>4 DEF ResetLocal, Orphan
<1>5. ASSUME NEW t \in Threads, Lock(t) PROVE TypeOK'
  BY <1>5 DEF Lock
<1>6. ASSUME NEW t \in Threads, CheckReuse(t) PROVE TypeOK'
  BY <1>6 DEF CheckReuse
<1>7. ASSUME NEW t \in Threads, CheckReplace(t) PROVE TypeOK'
  BY <1>7 DEF CheckReplace, Orphan
<1>8. ASSUME NEW t \in Threads, CreateNull(t) PROVE TypeOK'
  BY <1>8 DEF CreateNull, Orphan
<1>9. ASSUME NEW t \in Threads, NEW b \in Blocks, Calloc(t, b) PROVE TypeOK'
  BY <1>9 DEF Calloc
<1>10. ASSUME NEW t \in Threads, Publish(t) PROVE TypeOK'
  BY <1>10 DEF Publish, Orphan
<1>11. ASSUME NEW t \in Threads, Adopt(t) PROVE TypeOK'
  BY <1>11 DEF Adopt, Orphan
<1>12. ASSUME NEW t \in Threads, Unlock(t) PROVE TypeOK'
  BY <1>12 DEF Unlock
<1>13. ASSUME NEW t \in Threads, Destroy(t) PROVE TypeOK'
  BY <1>13 DEF Destroy
<1>14. ASSUME NEW t \in Threads, Exit(t) PROVE TypeOK'
  BY <1>14 DEF Exit, Orphan
<1> QED
  BY <1>1, <1>2, <1>3, <1>4, <1>5, <1>6, <1>7, <1>8, <1>9, <1>10, <1>11, <1>12, <1>13, <1>14
  DEF Next, Step

LEMMA InvStep ==
    IInv /\ [Next]_vars => (MutexInv /\ SlotInv /\ EpochInv /\ BlocksAccounted)'
<1> DEFINE Rest == MutexInv /\ SlotInv /\ EpochInv /\ BlocksAccounted
<1> SUFFICES ASSUME IInv, [Next]_vars PROVE Rest'
  OBVIOUS
<1> USE ConstantsAssumption
    DEF IInv, TypeOK, PCs, Critical, MutexInv, SlotInv, EpochInv, BlocksAccounted, Keepers,
        Owned
<1>1. CASE UNCHANGED vars
  BY <1>1 DEF vars
<1>2. ASSUME NEW t \in Threads, NEW e \in Epochs, GetFast(t, e) PROVE Rest'
  BY <1>2 DEF GetFast, Call, LocalHit
<1>3. ASSUME NEW t \in Threads, NEW e \in Epochs, GetSlow(t, e) PROVE Rest'
  BY <1>3 DEF GetSlow, Call
<1>4. ASSUME NEW t \in Threads, ResetLocal(t) PROVE Rest'
  BY <1>4 DEF ResetLocal, Orphan
<1>5. ASSUME NEW t \in Threads, Lock(t) PROVE Rest'
  BY <1>5 DEF Lock
<1>6. ASSUME NEW t \in Threads, CheckReuse(t) PROVE Rest'
  BY <1>6 DEF CheckReuse, SharedHit
<1>7. ASSUME NEW t \in Threads, CheckReplace(t) PROVE Rest'
  BY <1>7 DEF CheckReplace, Orphan
<1>8. ASSUME NEW t \in Threads, CreateNull(t) PROVE Rest'
  BY <1>8 DEF CreateNull, Orphan
<1>9. ASSUME NEW t \in Threads, NEW b \in Blocks, Calloc(t, b) PROVE Rest'
  BY <1>9 DEF Calloc
<1>10. ASSUME NEW t \in Threads, Publish(t) PROVE Rest'
  BY <1>10 DEF Publish, Orphan
<1>11. ASSUME NEW t \in Threads, Adopt(t) PROVE Rest'
  BY <1>11 DEF Adopt, Orphan
<1>12. ASSUME NEW t \in Threads, Unlock(t) PROVE Rest'
  BY <1>12 DEF Unlock
<1>13. ASSUME NEW t \in Threads, Destroy(t) PROVE Rest'
  BY <1>13 DEF Destroy
<1>14. ASSUME NEW t \in Threads, Exit(t) PROVE Rest'
  BY <1>14 DEF Exit, Orphan
<1> QED
  BY <1>1, <1>2, <1>3, <1>4, <1>5, <1>6, <1>7, <1>8, <1>9, <1>10, <1>11, <1>12, <1>13, <1>14
  DEF Next, Step

LEMMA InductiveInv == Spec => []IInv
<1>1. IInv /\ [Next]_vars => IInv'
  BY TypeStep, InvStep DEF IInv
<1> QED
  BY InitIInv, <1>1, PTL DEF Spec

-----------------------------------------------------------------------------

\* Variables keep their types: in particular fresh and dying never hold anything but blocks.
THEOREM TypeCorrect == Spec => []TypeOK
<1>1. IInv => TypeOK
  BY DEF IInv
<1> QED
  BY InductiveInv, <1>1, PTL

\* No context leaks, none is freed twice or while a slot owns it, whatever the number
\* of threads and the order of their requests.
THEOREM AllBlocksAccounted == Spec => []BlocksAccounted
<1>1. IInv => BlocksAccounted
  BY DEF IInv
<1> QED
  BY InductiveInv, <1>1, PTL

\* The pointer ethash_get_global_epoch_context returned refers to a context of the epoch
\* asked for until the same thread calls again or ends.
THEOREM PointersValid == Spec => []PointerValid
<1>1. IInv => PointerValid
  BY DEF IInv, SlotInv, EpochInv, PointerValid
<1> QED
  BY InductiveInv, <1>1, PTL

-----------------------------------------------------------------------------
(* The bound on the contexts alive: each thread answers for at most one    *)
(* block, and while shared_context holds one, some thread answers for no   *)
(* other: the one that published it, as long as it is shared.              *)

Held(t) ==
    IF local[t] # NULL THEN local[t] ELSE IF dying[t] # NULL THEN dying[t] ELSE fresh[t]

SpareInv == shared # NULL => \E t \in Threads : Held(t) \in {NULL, shared}

LEMMA SpareStep == IInv /\ SpareInv /\ [Next]_vars => SpareInv'
<1> SUFFICES ASSUME IInv, SpareInv, [Next]_vars PROVE SpareInv'
  OBVIOUS
<1> USE ConstantsAssumption DEF IInv, TypeOK, PCs, SlotInv, SpareInv, Held
<1>1. CASE UNCHANGED vars
  BY <1>1 DEF vars
<1>2. ASSUME NEW t \in Threads, NEW e \in Epochs, GetFast(t, e) \/ GetSlow(t, e)
      PROVE  SpareInv'
  BY <1>2 DEF GetFast, GetSlow
<1>3. ASSUME NEW t \in Threads, Lock(t) \/ CheckReuse(t) \/ Unlock(t) PROVE SpareInv'
  BY <1>3 DEF Lock, CheckReuse, Unlock
<1>4. ASSUME NEW t \in Threads, ResetLocal(t) \/ Exit(t) PROVE SpareInv'
  BY <1>4 DEF ResetLocal, Exit, Orphan, Owned
<1>5. ASSUME NEW t \in Threads, CheckReplace(t) \/ CreateNull(t) PROVE SpareInv'
  BY <1>5 DEF CheckReplace, CreateNull
<1>6. ASSUME NEW t \in Threads, NEW b \in Blocks, Calloc(t, b) PROVE SpareInv'
  BY <1>6 DEF Calloc
<1>7. ASSUME NEW t \in Threads, Publish(t) PROVE SpareInv'
  BY <1>7 DEF Publish, Orphan, Owned
<1>8. ASSUME NEW t \in Threads, Adopt(t) PROVE SpareInv'
  BY <1>8 DEF Adopt, Orphan, Owned
<1>9. ASSUME NEW t \in Threads, Destroy(t) PROVE SpareInv'
  BY <1>9 DEF Destroy
<1> QED
  BY <1>1, <1>2, <1>3, <1>4, <1>5, <1>6, <1>7, <1>8, <1>9 DEF Next, Step

LEMMA SpareAlways == Spec => []SpareInv
<1>1. Init => SpareInv
  BY DEF Init, SpareInv
<1> QED
  BY <1>1, InductiveInv, SpareStep, PTL DEF Spec

\* The values of a function on a finite set are no more than its arguments.
LEMMA RangeBound ==
    ASSUME NEW S, IsFiniteSet(S), NEW f, f = [x \in S |-> f[x]]
    PROVE  LET T == {f[x] : x \in S}
           IN  IsFiniteSet(T) /\ Cardinality(T) <= Cardinality(S)
<1> DEFINE T == {f[x] : x \in S}
<1>1. f \in Surjection(S, T)
  BY DEF Surjection
<1> QED
  BY <1>1, FS_Surjection

LEMMA AllocatedBound == IInv /\ SpareInv => PeakBound
<1> SUFFICES ASSUME IInv, SpareInv PROVE PeakBound
  OBVIOUS
<1>1. \A b \in Allocated : b = shared \/ \E t \in Threads : Held(t) = b
  BY ConstantsAssumption
  DEF IInv, TypeOK, SlotInv, BlocksAccounted, Allocated, Keepers, Owned, Held
<1>2. PICK f : /\ f = [t \in Threads |-> f[t]]
               /\ Allocated \subseteq {f[t] : t \in Threads}
  <2>1. CASE shared = NULL
    <3> DEFINE g == [t \in Threads |-> Held(t)]
    <3>1. \A b \in Allocated : \E t \in Threads : g[t] = b
      BY <1>1, <2>1, ConstantsAssumption DEF Allocated
    <3> QED
      BY <3>1
  <2>2. CASE shared # NULL
    <3>1. PICK s \in Threads : Held(s) \in {NULL, shared}
      BY <2>2 DEF SpareInv
    <3> DEFINE g == [t \in Threads |-> IF t = s THEN shared ELSE Held(t)]
    <3>2. \A b \in Allocated : \E t \in Threads : g[t] = b
      BY <1>1, <3>1, ConstantsAssumption DEF Allocated
    <3> QED
      BY <3>2
  <2> QED
    BY <2>1, <2>2
<1> DEFINE T == {f[t] : t \in Threads}
<1>3. IsFiniteSet(T) /\ Cardinality(T) <= Cardinality(Threads)
  BY <1>2, RangeBound, ConstantsAssumption
<1>4. Cardinality(Allocated) <= Cardinality(T) /\ IsFiniteSet(Allocated)
  BY <1>2, <1>3, FS_Subset
<1> QED
  BY <1>3, <1>4, FS_CardinalityType, ConstantsAssumption DEF PeakBound

\* The process never holds more contexts than it has threads.
THEOREM PeakBounded == Spec => []PeakBound
  BY InductiveInv, SpareAlways, AllocatedBound, PTL


-----------------------------------------------------------------------------
(* The refinement.                                                         *)

\* The abstract maker, as seen from the thread that holds the mutex.
MakerInv ==
    \A t \in Threads :
        pc[t] \in Critical =>
            AbsMaker = IF pc[t] \in {"build", "construct"} THEN t ELSE NULL

LEMMA MakerAlways == Spec => []MakerInv
<1>1. ASSUME MutexInv PROVE MakerInv
  <2> SUFFICES ASSUME NEW t \in Threads, pc[t] \in Critical
               PROVE  AbsMaker = IF pc[t] \in {"build", "construct"} THEN t ELSE NULL
    BY DEF MakerInv
  <2>1. Makers = IF pc[t] \in {"build", "construct"} THEN {t} ELSE {}
    BY <1>1 DEF MutexInv, Critical, Makers
  <2> QED
    BY <2>1 DEF AbsMaker
<1>2. IInv => MakerInv
  BY <1>1 DEF IInv
<1> QED
  BY <1>2, InductiveInv, PTL

LEMMA RefineInit == Init => Cache!Init
  BY ConstantsAssumption
  DEF Init, Cache!Init, EpochIn, AbsCache, AbsLease, AbsPhase, AbsMaker, Makers

LEMMA RefineStep ==
    IInv /\ MakerInv /\ MakerInv' /\ [Next]_vars => [Cache!Next]_(Cache!vars)
<1> SUFFICES ASSUME IInv, MakerInv, MakerInv', [Next]_vars PROVE [Cache!Next]_(Cache!vars)
  OBVIOUS
<1> DEFINE Abs == [Cache!Next]_(Cache!vars)
<1> USE ConstantsAssumption DEF IInv, TypeOK, PCs
<1>0. Makers' = Makers => AbsMaker' = AbsMaker
  BY DEF AbsMaker
<1>1. CASE UNCHANGED vars
  <2>1. AbsCache' = AbsCache /\ AbsLease' = AbsLease /\ AbsPhase' = AbsPhase
    BY <1>1 DEF vars, AbsCache, AbsLease, AbsPhase, EpochIn
  <2>2. Makers' = Makers /\ want' = want
    BY <1>1 DEF vars, Makers
  <2> QED
    BY <1>0, <2>1, <2>2 DEF Cache!vars
<1>2. ASSUME NEW t \in Threads, NEW e \in Epochs, GetFast(t, e) PROVE Abs
  <2>1. AbsCache' = AbsCache
    BY <1>2 DEF GetFast, Call, LocalHit, AbsCache, EpochIn
  <2>2. AbsLease' = AbsLease
    BY <1>2 DEF GetFast, Call, LocalHit, AbsLease, EpochIn
  <2>3. AbsPhase' = AbsPhase
    BY <1>2 DEF GetFast, Call, LocalHit, AbsPhase
  <2>4. AbsMaker' = AbsMaker
    BY <1>2, <1>0 DEF GetFast, Call, LocalHit, Makers
  <2>5. Cache!Renew(t, e)
    BY <1>2, <2>1, <2>2, <2>3, <2>4
    DEF GetFast, Call, LocalHit, Cache!Renew, AbsLease, AbsPhase, EpochIn
  <2> QED
    BY <2>5 DEF Cache!Next
<1>3. ASSUME NEW t \in Threads, NEW e \in Epochs, GetSlow(t, e) PROVE Abs
  <2>1. AbsCache' = AbsCache
    BY <1>3 DEF GetSlow, Call, LocalHit, AbsCache, EpochIn
  <2>2. AbsLease' = AbsLease
    BY <1>3 DEF GetSlow, Call, LocalHit, AbsLease, EpochIn
  <2>3. AbsPhase' = [AbsPhase EXCEPT ![t] = "waiting"]
    BY <1>3 DEF GetSlow, Call, LocalHit, AbsPhase
  <2>4. AbsMaker' = AbsMaker
    BY <1>3, <1>0 DEF GetSlow, Call, LocalHit, Makers
  <2>5. Cache!Request(t, e)
    BY <1>3, <2>1, <2>2, <2>3, <2>4
    DEF GetSlow, Call, LocalHit, Cache!Request, AbsLease, AbsPhase, EpochIn
  <2> QED
    BY <2>5 DEF Cache!Next
<1>4. ASSUME NEW t \in Threads, ResetLocal(t) PROVE Abs
  <2>1. AbsCache' = AbsCache
    BY <1>4 DEF ResetLocal, AbsCache, EpochIn
  <2>2. AbsLease' = [AbsLease EXCEPT ![t] = NULL]
    BY <1>4 DEF ResetLocal, AbsLease, EpochIn
  <2>3. AbsPhase' = AbsPhase
    BY <1>4 DEF ResetLocal, AbsPhase
  <2>4. AbsMaker' = AbsMaker
    BY <1>4, <1>0 DEF ResetLocal, Makers
  <2>5. Cache!Release(t)
    BY <1>4, <2>1, <2>2, <2>3, <2>4
    DEF ResetLocal, Cache!Release, AbsPhase
  <2> QED
    BY <2>5 DEF Cache!Next
<1>5. ASSUME NEW t \in Threads, Lock(t) PROVE Abs
  <2>1. AbsCache' = AbsCache
    BY <1>5 DEF Lock, AbsCache, EpochIn
  <2>2. AbsLease' = AbsLease
    BY <1>5 DEF Lock, AbsLease, EpochIn
  <2>3. AbsPhase' = AbsPhase
    BY <1>5 DEF Lock, AbsPhase
  <2>4. AbsMaker' = AbsMaker
    BY <1>5, <1>0 DEF Lock, Makers
  <2> QED
    BY <1>5, <2>1, <2>2, <2>3, <2>4 DEF Lock, Cache!vars
<1>6. ASSUME NEW t \in Threads, CheckReuse(t) PROVE Abs
  <2>1. AbsCache' = AbsCache
    BY <1>6 DEF CheckReuse, SharedHit, AbsCache, EpochIn
  <2>2. AbsLease' = [AbsLease EXCEPT ![t] = want[t]]
    BY <1>6 DEF CheckReuse, SharedHit, AbsLease, EpochIn, SlotInv
  <2>3. AbsPhase' = [AbsPhase EXCEPT ![t] = "served"]
    BY <1>6 DEF CheckReuse, SharedHit, AbsPhase
  <2>4. AbsMaker' = NULL
    BY <1>6 DEF CheckReuse, SharedHit, MakerInv, Critical
  <2>5. Cache!Share(t)
    BY <1>6, <2>1, <2>2, <2>3, <2>4
    DEF CheckReuse, SharedHit, Cache!Share, Cache!Serve, MakerInv, Critical, SlotInv,
        AbsCache, AbsLease, AbsPhase, EpochIn
  <2> QED
    BY <2>5 DEF Cache!Next
<1>7. ASSUME NEW t \in Threads, CheckReplace(t) PROVE Abs
  <2>0. \A u \in Threads : u # t => pc[u] # "adopt"
    BY <1>7 DEF CheckReplace, MutexInv, Critical
  <2>1. AbsCache' = NULL
    BY <1>7 DEF CheckReplace, SharedHit, AbsCache, EpochIn
  <2>2. AbsLease' = AbsLease
    BY <1>7, <2>0 DEF CheckReplace, SharedHit, AbsLease, EpochIn, SlotInv
  <2>3. AbsPhase' = AbsPhase
    BY <1>7 DEF CheckReplace, SharedHit, AbsPhase
  <2>4. AbsMaker' = t
    BY <1>7 DEF CheckReplace, SharedHit, MakerInv, Critical
  <2>5. Cache!Evict(t)
    BY <1>7, <2>1, <2>2, <2>3, <2>4
    DEF CheckReplace, SharedHit, Cache!Evict, MakerInv, Critical, SlotInv, AbsCache,
        AbsLease, AbsPhase, EpochIn
  <2> QED
    BY <2>5 DEF Cache!Next
<1>8. ASSUME NEW t \in Threads, CreateNull(t) PROVE Abs
  <2>1. AbsCache' = AbsCache
    BY <1>8 DEF CreateNull, AbsCache, EpochIn, SlotInv
  <2>2. AbsLease' = AbsLease
    BY <1>8 DEF CreateNull, AbsLease, EpochIn, SlotInv
  <2>3. AbsPhase' = [AbsPhase EXCEPT ![t] = "served"]
    BY <1>8 DEF CreateNull, AbsPhase
  <2>4. AbsMaker' = NULL
    BY <1>8 DEF CreateNull, MakerInv, Critical
  <2>5. Cache!Deny(t)
    BY <1>8, <2>1, <2>2, <2>3, <2>4
    DEF CreateNull, Cache!Deny, MakerInv, Critical
  <2> QED
    BY <2>5 DEF Cache!Next
<1>9. ASSUME NEW t \in Threads, NEW b \in Blocks, Calloc(t, b) PROVE Abs
  <2>1. AbsCache' = AbsCache
    BY <1>9 DEF Calloc, AbsCache, EpochIn, SlotInv
  <2>2. AbsLease' = AbsLease
    BY <1>9 DEF Calloc, AbsLease, EpochIn, BlocksAccounted, Owned
  <2>3. AbsPhase' = AbsPhase
    BY <1>9 DEF Calloc, AbsPhase
  <2>4. AbsMaker' = AbsMaker
    BY <1>9, <1>0 DEF Calloc, Makers
  <2> QED
    BY <1>9, <2>1, <2>2, <2>3, <2>4 DEF Calloc, Cache!vars
<1>10. ASSUME NEW t \in Threads, Publish(t) PROVE Abs
  <2>0. \A u \in Threads : u # t => pc[u] # "adopt"
    BY <1>10 DEF Publish, MutexInv, Critical
  <2>1. AbsCache' = want[t]
    BY <1>10 DEF Publish, AbsCache, EpochIn, SlotInv
  <2>2. AbsLease' = [AbsLease EXCEPT ![t] = want[t]]
    <3> DEFINE L(u) == EpochIn(IF pc[u] = "adopt" THEN shared ELSE local[u])
    <3>1. fresh[t] \in Blocks /\ \A u \in Threads : local[u] # fresh[t]
      BY <1>10 DEF Publish, SlotInv, BlocksAccounted, Owned, Keepers
    <3>2. ASSUME NEW u \in Threads, u # t PROVE L(u)' = L(u)
      BY <1>10, <2>0, <3>1, <3>2 DEF Publish, EpochIn
    <3>3. L(t)' = want[t]
      BY <1>10, <3>1 DEF Publish, EpochIn
    <3> QED
      BY <3>2, <3>3 DEF AbsLease
  <2>3. AbsPhase' = [AbsPhase EXCEPT ![t] = "served"]
    BY <1>10 DEF Publish, AbsPhase
  <2>4. AbsMaker' = NULL
    BY <1>10 DEF Publish, MakerInv, Critical
  <2>5. Cache!Make(t)
    BY <1>10, <2>1, <2>2, <2>3, <2>4
    DEF Publish, Cache!Make, Cache!Serve, MakerInv, Critical
  <2> QED
    BY <2>5 DEF Cache!Next
<1>11. ASSUME NEW t \in Threads, Adopt(t) PROVE Abs
  <2>1. AbsCache' = AbsCache
    BY <1>11 DEF Adopt, AbsCache, EpochIn
  <2>2. AbsLease' = AbsLease
    BY <1>11 DEF Adopt, AbsLease, EpochIn
  <2>3. AbsPhase' = AbsPhase
    BY <1>11 DEF Adopt, AbsPhase
  <2>4. AbsMaker' = AbsMaker
    BY <1>11, <1>0 DEF Adopt, Makers
  <2> QED
    BY <1>11, <2>1, <2>2, <2>3, <2>4 DEF Adopt, Cache!vars
<1>12. ASSUME NEW t \in Threads, Unlock(t) PROVE Abs
  <2>1. AbsCache' = AbsCache
    BY <1>12 DEF Unlock, AbsCache, EpochIn
  <2>2. AbsLease' = AbsLease
    BY <1>12 DEF Unlock, AbsLease, EpochIn
  <2>3. AbsPhase' = AbsPhase
    BY <1>12 DEF Unlock, AbsPhase
  <2>4. AbsMaker' = AbsMaker
    BY <1>12, <1>0 DEF Unlock, Makers
  <2> QED
    BY <1>12, <2>1, <2>2, <2>3, <2>4 DEF Unlock, Cache!vars
<1>13. ASSUME NEW t \in Threads, Destroy(t) PROVE Abs
  <2>1. AbsCache' = AbsCache
    BY <1>13 DEF Destroy, AbsCache, EpochIn, BlocksAccounted, Owned, Keepers
  <2>2. AbsLease' = AbsLease
    BY <1>13 DEF Destroy, AbsLease, EpochIn, BlocksAccounted, Owned, Keepers
  <2>3. AbsPhase' = AbsPhase
    BY <1>13 DEF Destroy, AbsPhase
  <2>4. AbsMaker' = AbsMaker
    BY <1>13, <1>0 DEF Destroy, Makers
  <2> QED
    BY <1>13, <2>1, <2>2, <2>3, <2>4 DEF Destroy, Cache!vars
<1>14. ASSUME NEW t \in Threads, Exit(t) PROVE Abs
  <2>1. AbsCache' = AbsCache
    BY <1>14 DEF Exit, AbsCache, EpochIn
  <2>2. AbsLease' = [AbsLease EXCEPT ![t] = NULL]
    BY <1>14 DEF Exit, AbsLease, EpochIn
  <2>3. AbsPhase' = [AbsPhase EXCEPT ![t] = "gone"]
    BY <1>14 DEF Exit, AbsPhase
  <2>4. AbsMaker' = AbsMaker
    BY <1>14, <1>0 DEF Exit, Makers
  <2>5. Cache!Leave(t)
    BY <1>14, <2>1, <2>2, <2>3, <2>4
    DEF Exit, Cache!Leave, AbsPhase
  <2> QED
    BY <2>5 DEF Cache!Next
<1> QED
  BY <1>1, <1>2, <1>3, <1>4, <1>5, <1>6, <1>7, <1>8, <1>9, <1>10, <1>11, <1>12, <1>13, <1>14
  DEF Next, Step

\* The code implements the abstract cache.
THEOREM CacheImplemented == Spec => ImplementsContextCache
  BY RefineInit, RefineStep, InductiveInv, MakerAlways, PTL
  DEF Spec, Cache!Spec, ImplementsContextCache

-----------------------------------------------------------------------------
(* The fake miner over the cache                                           *)

\* A worker outside of a call is between two calls of the cache, and its reference is what
\* the last call returned.
BindingInv ==
    \A t \in Threads :
        /\ at[t] \in {"load", "search"} =>
              /\ pc[t] = "idle"
              /\ context[t] = ptr[t]
              /\ context[t] # NULL => current_epoch[t] = want[t]
        /\ at[t] \in {"create", "search"} => batches[t] < MaxBatches

PostedInv ==
    /\ main = "sleep" => posted <= NumBlocks
    /\ main = "post" => posted < NumBlocks

MinerIInv == IInv /\ MinerTypeOK /\ BindingInv /\ PostedInv

-----------------------------------------------------------------------------

\* The epoch of a block that is not the stop is one of Epochs.
LEMMA BlockEpoch ==
    ASSUME NEW p \in 0..NumBlocks + 1, Block(p) >= 0
    PROVE  EpochNumber(Block(p)) \in Epochs
<1>1. Block(p) \in StartBlock..StartBlock + NumBlocks
  BY MinerAssumption DEF Block
<1> QED
  BY <1>1, MinerAssumption DEF EpochNumber

\* What every step of the miner is for the cache.
LEMMA CacheStep == MinerTypeOK /\ [MinerNext]_minerVars => [Next]_vars
<1> SUFFICES ASSUME MinerTypeOK, [MinerNext]_minerVars PROVE [Next]_vars
  OBVIOUS
<1>1. CASE UNCHANGED minerVars
  BY <1>1 DEF minerVars
<1>2. CASE MainStep
  BY <1>2 DEF MainStep, MainCount, MainPost, MainStop, MainJoin
<1>3. ASSUME NEW t \in Threads, LoadStop(t) \/ LoadSame(t) \/ Bind(t) \/ Search(t) \/ Crash(t)
      PROVE  UNCHANGED vars
  BY <1>3 DEF LoadStop, LoadSame, Bind, Search, Crash
<1>4. ASSUME NEW t \in Threads, LoadChange(t) PROVE Next
  <2>1. PICK p \in 0..posted :
            /\ Block(p) >= 0
            /\ \/ GetFast(t, EpochNumber(Block(p)))
               \/ GetSlow(t, EpochNumber(Block(p)))
    BY <1>4 DEF LoadChange
  <2>2. EpochNumber(Block(p)) \in Epochs
    BY <2>1, BlockEpoch, MinerAssumption DEF MinerTypeOK
  <2> QED
    BY <2>1, <2>2 DEF Next
<1>5. ASSUME NEW t \in Threads, InCache(t) \/ ThreadEnds(t) PROVE Next
  BY <1>5 DEF InCache, ThreadEnds, Next
<1> QED
  BY <1>1, <1>2, <1>3, <1>4, <1>5 DEF MinerNext, Worker

LEMMA InitMinerIInv == MinerInit => MinerIInv
<1> SUFFICES ASSUME MinerInit PROVE MinerIInv
  OBVIOUS
<1>1. IInv
  BY InitIInv DEF MinerInit
<1>2. MinerTypeOK
  <2>1. posted \in 0..NumBlocks + 1 /\ seen \in [Threads -> 0..posted]
    BY MinerAssumption DEF MinerInit
  <2>2. /\ at \in [Threads -> {"load", "create", "search", "end"}]
        /\ current_epoch \in [Threads -> Epochs \cup {-1}]
        /\ context \in [Threads -> BlockOrNull]
        /\ batches \in [Threads -> 0..MaxBatches]
    BY MinerAssumption DEF MinerInit, BlockOrNull
  <2> QED
    BY <2>1, <2>2 DEF MinerInit, MinerTypeOK
<1>3. BindingInv /\ PostedInv
  BY MinerAssumption DEF MinerInit, Init, BindingInv, PostedInv
<1> QED
  BY <1>1, <1>2, <1>3 DEF MinerIInv

LEMMA MinerTypeStep == MinerIInv /\ [MinerNext]_minerVars => MinerTypeOK' /\ PostedInv'
<1> SUFFICES ASSUME MinerIInv, [MinerNext]_minerVars PROVE MinerTypeOK' /\ PostedInv'
  OBVIOUS
<1> DEFINE Goal == MinerTypeOK' /\ PostedInv'
<1>0. TypeOK
  BY DEF MinerIInv, IInv
<1> USE MinerAssumption, <1>0
    DEF MinerIInv, MinerTypeOK, BindingInv, PostedInv, TypeOK, boards, ledger, binding, To,
        BlockOrNull
<1>1. CASE UNCHANGED minerVars
  BY <1>1 DEF minerVars
<1>2. CASE MainStep
  <2>1. CASE MainCount \/ MainJoin
    BY <2>1 DEF MainCount, MainJoin
  <2>2. CASE MainPost \/ MainStop
    <3>1. posted' = posted + 1 /\ posted' \in 0..NumBlocks + 1
      BY <2>2 DEF MainPost, MainStop
    <3>2. seen' \in [Threads -> 0..posted']
      BY <2>2, <3>1 DEF MainPost, MainStop
    <3> QED
      BY <2>2, <3>1, <3>2 DEF MainPost, MainStop
  <2> QED
    BY <1>2, <2>1, <2>2 DEF MainStep
<1>3. ASSUME NEW t \in Threads, LoadStop(t) \/ LoadSame(t) \/ LoadChange(t) PROVE Goal
  <2>1. PICK p \in 0..posted :
            /\ Load(t, p)
            /\ \E l \in {"end", "search", "create"} : at' = [at EXCEPT ![t] = l]
    BY <1>3 DEF LoadStop, LoadSame, LoadChange
  <2>2. seen' \in [Threads -> 0..posted]
    BY <2>1 DEF Load
  <2> QED
    BY <2>1, <2>2 DEF Load
<1>4. ASSUME NEW t \in Threads, Bind(t) PROVE Goal
  BY <1>4 DEF Bind
<1>5. ASSUME NEW t \in Threads, Search(t) PROVE Goal
  BY <1>5 DEF Search
<1>6. ASSUME NEW t \in Threads, Crash(t) \/ InCache(t) \/ ThreadEnds(t) PROVE Goal
  BY <1>6 DEF Crash, InCache, ThreadEnds
<1> QED
  BY <1>1, <1>2, <1>3, <1>4, <1>5, <1>6 DEF MinerNext, Worker

\* A step of the cache that a worker in a call takes leaves the others where they are.
LEMMA BindingStep == MinerIInv /\ [MinerNext]_minerVars => BindingInv'
<1> SUFFICES ASSUME MinerIInv, [MinerNext]_minerVars PROVE BindingInv'
  OBVIOUS
<1>0. TypeOK
  BY DEF MinerIInv, IInv
<1> USE MinerAssumption, <1>0
    DEF MinerIInv, MinerTypeOK, BindingInv, TypeOK, boards, ledger, binding, To
<1>1. CASE UNCHANGED minerVars
  BY <1>1 DEF minerVars, vars
<1>2. CASE MainStep
  BY <1>2 DEF MainStep, MainCount, MainPost, MainStop, MainJoin, vars
<1>3. ASSUME NEW t \in Threads, LoadStop(t) \/ LoadSame(t) PROVE BindingInv'
  BY <1>3 DEF LoadStop, LoadSame, Load, vars
<1>4. ASSUME NEW t \in Threads, LoadChange(t) PROVE BindingInv'
  <2>1. /\ at[t] = "load" /\ at' = [at EXCEPT ![t] = "create"]
        /\ batches[t] < MaxBatches
        /\ UNCHANGED <<batches, current_epoch, context>>
    BY <1>4 DEF LoadChange, Load
  <2>2. \A u \in Threads \ {t} : pc'[u] = pc[u] /\ ptr'[u] = ptr[u] /\ want'[u] = want[u]
    BY <1>4 DEF LoadChange, GetFast, GetSlow, Call, Goto
  <2> QED
    BY <2>1, <2>2
<1>5. ASSUME NEW t \in Threads, Bind(t) PROVE BindingInv'
  BY <1>5 DEF Bind, vars, At
<1>6. ASSUME NEW t \in Threads, Search(t) \/ Crash(t) PROVE BindingInv'
  BY <1>6 DEF Search, Crash, vars
<1>7. ASSUME NEW t \in Threads, InCache(t) PROVE BindingInv'
  <2>1. pc[t] # "idle"
    BY <1>7 DEF InCache, Step, ResetLocal, Lock, CheckReuse, CheckReplace, CreateNull, Calloc,
        Publish, Adopt, Unlock, Destroy, At, IInv, SlotInv
  <2>2. \A u \in Threads \ {t} : pc'[u] = pc[u] /\ ptr'[u] = ptr[u] /\ want'[u] = want[u]
    BY <1>7 DEF InCache, Step, ResetLocal, Lock, CheckReuse, CheckReplace, CreateNull, Calloc,
        Publish, Adopt, Unlock, Destroy, Goto
  <2> QED
    BY <1>7, <2>1, <2>2 DEF InCache
<1>8. ASSUME NEW t \in Threads, ThreadEnds(t) PROVE BindingInv'
  BY <1>8 DEF ThreadEnds, Exit, Goto
<1> QED
  BY <1>1, <1>2, <1>3, <1>4, <1>5, <1>6, <1>7, <1>8 DEF MinerNext, Worker

LEMMA MinerInductive == MinerSpec => []MinerIInv
<1>1. MinerIInv /\ [MinerNext]_minerVars => MinerIInv'
  BY CacheStep, TypeStep, InvStep, MinerTypeStep, BindingStep DEF MinerIInv, IInv
<1> QED
  BY InitMinerIInv, <1>1, PTL DEF MinerSpec

-----------------------------------------------------------------------------

\* The variables of the miner keep their types.
THEOREM MinerTypeCorrect == MinerSpec => []MinerTypeOK
<1>1. MinerIInv => MinerTypeOK
  BY DEF MinerIInv
<1> QED
  BY MinerInductive, <1>1, PTL

\* The miner takes no step of the cache that is not one of GlobalContext.
THEOREM CacheUsedAsSpecified == MinerSpec => Spec
<1>1. MinerInit => Init
  BY DEF MinerInit
<1> QED
  BY <1>1, CacheStep, MinerTypeCorrect, PTL DEF MinerSpec, Spec

\* So its workers never keep more contexts than there are workers, and never corrupt the
\* heap.
THEOREM MinerKeepsHeap == MinerSpec => [](PeakBound /\ BlocksAccounted)
  BY CacheUsedAsSpecified, PeakBounded, AllBlocksAccounted, PTL

\* Workers search with live contexts of the epochs they believe to be in.
THEOREM WorkersSearchOwnEpoch == MinerSpec => []SearchesOwnEpoch
<1>1. MinerIInv => SearchesOwnEpoch
  <2> SUFFICES ASSUME MinerIInv, NEW t \in Threads, at[t] \in {"load", "search"},
                      context[t] # NULL
               PROVE  heap[context[t]] = current_epoch[t]
    BY DEF SearchesOwnEpoch
  <2>1. pc[t] = "idle" /\ context[t] = ptr[t] /\ current_epoch[t] = want[t]
    BY DEF MinerIInv, BindingInv
  <2>2. ptr[t] = local[t] /\ heap[local[t]] = want[t]
    BY <2>1 DEF MinerIInv, IInv, SlotInv, EpochInv
  <2> QED
    BY <2>1, <2>2
<1> QED
  BY MinerInductive, <1>1, PTL

-----------------------------------------------------------------------------
(* Sums of a function over a finite set.                                   *)

\* Every nonempty set of natural numbers has a least element.
LEMMA LeastNumber ==
    ASSUME NEW T, T \subseteq Nat, T # {}
    PROVE  \E x \in T : \A y \in T : x <= y
<1> DEFINE Less == {p \in Nat \X Nat : p[1] < p[2]}
<1>1. OpToRel(<, Nat) = Less
  BY Zenon DEF OpToRel
<1>2. IsWellFoundedOn(Less, Nat)
  BY <1>1, NatLessThanWellFounded, Zenon
<1>3. PICK x \in T : \A y \in T : <<y, x>> \notin Less
  <2> HIDE DEF Less
  <2> QED
    BY <1>2, WFMin
<1>4. \A y \in T : ~(y < x)
  BY <1>3
<1> QED
  BY <1>4

\* A nonempty collection of subsets of a finite set has a minimal one.
LEMMA MinimalSubset ==
    ASSUME NEW S, IsFiniteSet(S), NEW C, C \subseteq SUBSET S, C # {}
    PROVE  \E s \in C : \A u \in C : u \subseteq s => u = s
<1>1. IsWellFoundedOn(StrictSubsetOrdering(S), SUBSET S)
  BY FS_StrictSubsetOrderingWellFounded, FS_FiniteSubsetsOfFinite, Zenon
<1>2. PICK s \in C : \A u \in C : <<u, s>> \notin StrictSubsetOrdering(S)
  BY <1>1, WFMin
<1> QED
  BY <1>2 DEF StrictSubsetOrdering

Chosen(s) == CHOOSE x \in s : TRUE

\* The recursion behind FoldFunction(+, 0, f): g[s] is the sum of f over s.
Sums(f, S, g) ==
    g = [s \in SUBSET S |-> IF s = {} THEN 0 ELSE f[Chosen(s)] + g[s \ {Chosen(s)}]]

\* What CHOOSE picks from a set is in it.
LEMMA ChosenInside == ASSUME NEW s, s # {} PROVE Chosen(s) \in s
  BY DEF Chosen

\* The recursion has a solution on a finite set, by induction on the size of the subsets.
LEMMA SumsExist ==
    ASSUME NEW S, IsFiniteSet(S), NEW f
    PROVE  \E g : Sums(f, S, g)
<1> DEFINE Small(n) == {s \in SUBSET S : Cardinality(s) <= n}
           Term(g, s) == IF s = {} THEN 0 ELSE f[Chosen(s)] + g[s \ {Chosen(s)}]
           Bad == {n \in Nat : ~\E g : g = [s \in Small(n) |-> Term(g, s)]}
<1>1. ASSUME NEW s \in SUBSET S
      PROVE  /\ IsFiniteSet(s) /\ Cardinality(s) \in Nat
             /\ Cardinality(s) = 0 <=> s = {}
             /\ s # {} => Cardinality(s \ {Chosen(s)}) = Cardinality(s) - 1
  <2>1. IsFiniteSet(s) /\ Cardinality(s) \in Nat
    BY FS_Subset, FS_CardinalityType
  <2> QED
    BY <2>1, ChosenInside, FS_EmptySet, FS_RemoveElement
<1>2. Bad = {}
  <2> SUFFICES ASSUME Bad # {} PROVE FALSE
    OBVIOUS
  <2>1. PICK n \in Bad : \A m \in Bad : n <= m
    <3>1. Bad \subseteq Nat
      OBVIOUS
    <3> HIDE DEF Bad
    <3> QED
      BY <3>1, LeastNumber
  <2>2. CASE n = 0
    <3> DEFINE g == [s \in Small(0) |-> 0]
    <3>1. ASSUME NEW s \in Small(0) PROVE s = {}
      <4>1. s \in SUBSET S /\ Cardinality(s) <= 0
        OBVIOUS
      <4>2. Cardinality(s) \in Nat /\ (Cardinality(s) = 0 <=> s = {})
        BY <4>1, <1>1
      <4>3. Cardinality(s) = 0
        BY <4>1, <4>2
      <4> QED
        BY <4>2, <4>3
    <3>2. g = [s \in Small(0) |-> Term(g, s)]
      BY <3>1
    <3> QED
      BY <2>1, <2>2, <3>2
  <2>3. CASE n # 0
    <3>1. n - 1 \in Nat /\ n - 1 \notin Bad
      <4>1. n \in Nat
        OBVIOUS
      <4> HIDE DEF Bad
      <4> QED
        BY <4>1, <2>1, <2>3
    <3>2. PICK g : g = [s \in Small(n - 1) |-> Term(g, s)]
      BY <3>1
    <3> DEFINE h == [s \in Small(n) |-> Term(g, s)]
    <3>3. ASSUME NEW s \in Small(n), s # {}
          PROVE  s \ {Chosen(s)} \in Small(n - 1) /\ s \ {Chosen(s)} \in Small(n)
      BY <1>1, <3>3
    <3>4. \A u \in Small(n - 1) : u \in Small(n) /\ h[u] = g[u]
      <4> SUFFICES ASSUME NEW u \in Small(n - 1) PROVE u \in Small(n) /\ h[u] = g[u]
        OBVIOUS
      <4>1. u \in Small(n)
        <5>1. Cardinality(u) <= n - 1 /\ n \in Nat /\ u \in SUBSET S
          OBVIOUS
        <5>2. Cardinality(u) \in Nat
          BY <5>1, <1>1
        <5>3. Cardinality(u) <= n
          BY <5>1, <5>2
        <5> QED
          BY <5>1, <5>3
      <4>2. g[u] = Term(g, u)
        BY <3>2
      <4> QED
        BY <4>1, <4>2
    <3>5. h = [s \in Small(n) |-> Term(h, s)]
      BY <3>3, <3>4
    <3> QED
      BY <2>1, <3>5
  <2> QED
    BY <2>2, <2>3
<1>3. PICK g : g = [s \in Small(Cardinality(S)) |-> Term(g, s)]
  BY <1>2, FS_CardinalityType
<1>4. Small(Cardinality(S)) = SUBSET S
  BY FS_Subset
<1> QED
  BY <1>3, <1>4 DEF Sums

\* The fold is such a solution.
LEMMA FoldIsSum ==
    ASSUME NEW f, IsFiniteSet(DOMAIN f)
    PROVE  \E g : Sums(f, DOMAIN f, g) /\ Total(f) = g[DOMAIN f]
<1> DEFINE g == CHOOSE g : Sums(f, DOMAIN f, g)
<1>1. Total(f) = g[DOMAIN f]
  BY Zenon DEF Total, FoldFunction, FoldFunctionOnSet, MapThenFoldSet, Sums, Chosen
<1>2. Sums(f, DOMAIN f, g)
  BY SumsExist
<1> QED
  BY <1>1, <1>2, Zenon

\* Nothing counted is zero.
LEMMA SumOfZeros ==
    ASSUME NEW S, IsFiniteSet(S) PROVE Total([x \in S |-> 0]) = 0
<1> DEFINE f == [x \in S |-> 0]
<1>0. DOMAIN f = S
  OBVIOUS
<1>1. PICK g : Sums(f, S, g) /\ Total(f) = g[S]
  <2> HIDE DEF f
  <2> QED
    BY <1>0, FoldIsSum, Zenon
<1> DEFINE Bad == {s \in SUBSET S : g[s] # 0}
<1>2. Bad = {}
  <2> SUFFICES ASSUME Bad # {} PROVE FALSE
    OBVIOUS
  <2>1. PICK s \in Bad : \A u \in Bad : u \subseteq s => u = s
    <3>1. Bad \subseteq SUBSET S
      OBVIOUS
    <3> HIDE DEF Bad
    <3> QED
      BY <3>1, MinimalSubset
  <2>2. g[s] = IF s = {} THEN 0 ELSE f[Chosen(s)] + g[s \ {Chosen(s)}]
    BY <1>1, Zenon DEF Sums
  <2>3. s # {}
    BY <2>2
  <2>4. Chosen(s) \in s /\ Chosen(s) \in S
    BY <2>3, ChosenInside
  <2>5. s \ {Chosen(s)} \notin Bad
    BY <2>1, <2>4
  <2> QED
    BY <2>2, <2>3, <2>4, <2>5
<1> QED
  BY <1>1, <1>2

\* Counting one more for t makes the sum one more.
LEMMA SumOfIncrement ==
    ASSUME NEW S, IsFiniteSet(S), NEW f \in [S -> Int], NEW t \in S
    PROVE  Total([f EXCEPT ![t] = @ + 1]) = Total(f) + 1
<1> DEFINE h == [f EXCEPT ![t] = @ + 1]
<1>1. PICK g : Sums(f, S, g) /\ Total(f) = g[S]
  BY FoldIsSum, Zenon
<1>2. PICK k : Sums(h, S, k) /\ Total(h) = k[S]
  <2>1. DOMAIN h = S
    OBVIOUS
  <2> HIDE DEF h
  <2> QED
    BY <2>1, FoldIsSum, Zenon
<1> DEFINE Bad == {s \in SUBSET S : ~(g[s] \in Int /\ k[s] = IF t \in s THEN g[s] + 1 ELSE g[s])}
<1>3. Bad = {}
  <2> SUFFICES ASSUME Bad # {} PROVE FALSE
    OBVIOUS
  <2>1. PICK s \in Bad : \A u \in Bad : u \subseteq s => u = s
    <3>1. Bad \subseteq SUBSET S
      OBVIOUS
    <3> HIDE DEF Bad
    <3> QED
      BY <3>1, MinimalSubset
  <2>2. /\ g[s] = IF s = {} THEN 0 ELSE f[Chosen(s)] + g[s \ {Chosen(s)}]
        /\ k[s] = IF s = {} THEN 0 ELSE h[Chosen(s)] + k[s \ {Chosen(s)}]
    BY <1>1, <1>2, Zenon DEF Sums
  <2>3. s # {}
    BY <2>2
  <2>4. Chosen(s) \in s /\ Chosen(s) \in S
    BY <2>3, ChosenInside
  <2>5. s \ {Chosen(s)} \in SUBSET S /\ s \ {Chosen(s)} \notin Bad
    BY <2>1, <2>4
  <2>6. h[Chosen(s)] = IF Chosen(s) = t THEN f[t] + 1 ELSE f[Chosen(s)]
    BY <2>4
  <2> QED
    BY <2>2, <2>3, <2>4, <2>5, <2>6
<1> QED
  BY <1>1, <1>2, <1>3

-----------------------------------------------------------------------------

LEMMA HashesStep ==
    MinerTypeOK /\ HashesAccounted /\ [MinerNext]_minerVars => HashesAccounted'
<1> SUFFICES ASSUME MinerTypeOK, HashesAccounted, [MinerNext]_minerVars PROVE HashesAccounted'
  OBVIOUS
<1>0. /\ all_hashes + num_hashes = Total(batches)
      /\ all_hashes' + num_hashes' = Total(batches') => HashesAccounted'
  BY DEF HashesAccounted
<1>1. CASE UNCHANGED ledger
  <2>1. batches' = batches /\ all_hashes' + num_hashes' = all_hashes + num_hashes
    BY <1>1 DEF ledger
  <2> QED
    BY <1>0, <2>1, Zenon
<1>2. CASE MainCount
  <2>1. batches' = batches /\ all_hashes' = all_hashes + num_hashes /\ num_hashes' = 0
    BY <1>2 DEF MainCount
  <2>2. all_hashes' + num_hashes' = all_hashes + num_hashes
    BY <2>1 DEF MinerTypeOK
  <2> QED
    BY <1>0, <2>1, <2>2, Zenon
<1>3. ASSUME NEW t \in Threads, Search(t) PROVE HashesAccounted'
  <2>1. /\ batches' = [batches EXCEPT ![t] = @ + 1]
        /\ all_hashes' = all_hashes /\ num_hashes' = num_hashes + 1
    BY <1>3 DEF Search
  <2>2. batches \in [Threads -> Int]
    BY MinerAssumption DEF MinerTypeOK
  <2>3. Total([batches EXCEPT ![t] = @ + 1]) = Total(batches) + 1
    BY <2>2, SumOfIncrement, ConstantsAssumption, Zenon
  <2>4. all_hashes' + num_hashes' = (all_hashes + num_hashes) + 1
    BY <2>1 DEF MinerTypeOK
  <2> QED
    BY <1>0, <2>1, <2>3, <2>4, Zenon
<1>4. [MinerNext]_minerVars => UNCHANGED ledger \/ MainCount \/ \E t \in Threads : Search(t)
  BY DEF MinerNext, Worker, MainStep, minerVars, ledger, LoadStop, LoadSame, LoadChange, Load,
      Bind, Crash, InCache, ThreadEnds, MainPost, MainStop, MainJoin
<1> QED
  BY <1>1, <1>2, <1>3, <1>4

\* Between the workers that add to the relaxed counter and the main thread that takes it, no
\* batch is lost or counted twice.
THEOREM HashesAlwaysAccounted == MinerSpec => []HashesAccounted
<1>1. MinerInit => HashesAccounted
  <2> SUFFICES ASSUME MinerInit PROVE HashesAccounted
    OBVIOUS
  <2>1. batches = [t \in Threads |-> 0] /\ all_hashes + num_hashes = 0
    BY DEF MinerInit
  <2> QED
    BY <2>1, SumOfZeros, ConstantsAssumption DEF HashesAccounted
<1> QED
  BY <1>1, HashesStep, MinerTypeCorrect, PTL DEF MinerSpec

=============================================================================
