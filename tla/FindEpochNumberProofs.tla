---- MODULE FindEpochNumberProofs ----
(***************************************************************************)
(* What find_epoch_number answers does not depend on the calls before, for *)
(* any chain of seeds without colliding first words and any number of      *)
(* epochs.                                                                 *)
(***************************************************************************)
EXTENDS FindEpochNumber, TLAPS

\* The locals have not lost touch with the cache, and s is the chain's seed at the place
\* the function has reached.
LocalInv ==
    /\ pc # "idle" => e = cached_epoch_number
    /\ pc = "cached" => s = Seed[e] /\ work = 0
    /\ pc = "next" => s = Seed[e + 1] /\ Part[Seed[e]] # Part[seed] /\ work = 1
    /\ pc = "search" =>
        /\ s = Seed[i]
        /\ work = i + 1
        /\ Part[Seed[e]] # Part[seed] /\ Part[Seed[e + 1]] # Part[seed]
        /\ \A j \in 0..i - 1 : Part[Seed[j]] # Part[seed]

IInv ==
    /\ TypeOK /\ CacheConsistent /\ LocalInv
    /\ InRangeRecovered /\ NeverAnotherEpoch /\ WorkBounded

\* A word at the beginning of an answered seed is not the word of the first seed out of
\* sight.
LEMMA SeedInSight ==
    ASSUME TypeOK, NEW k \in Chain, Part[Seed[k]] = Part[seed]
    PROVE  k \in 0..Horizon
<1>1. k # Horizon + 1
  BY ConstantsAssumption DEF TypeOK, Chain
<1> QED
  BY <1>1, ConstantsAssumption DEF Chain

LEMMA InitIInv == Init => IInv
  BY ConstantsAssumption
  DEF Init, IInv, TypeOK, CacheConsistent, LocalInv, InRangeRecovered, NeverAnotherEpoch,
      WorkBounded, Chain

LEMMA StepIInv == IInv /\ [Next]_vars => IInv'
<1> SUFFICES ASSUME IInv, [Next]_vars PROVE IInv'
  OBVIOUS
<1> USE ConstantsAssumption
    DEF IInv, TypeOK, CacheConsistent, LocalInv, InRangeRecovered, NeverAnotherEpoch,
        WorkBounded, Chain
<1>1. CASE UNCHANGED vars
  BY <1>1 DEF vars, cache
<1>2. ASSUME NEW h \in {Seed[k] : k \in 0..Horizon} \cup Fakes, Call(h) PROVE IInv'
  BY <1>2 DEF Call, cache
<1>3. CASE HitCached
  BY <1>3 DEF HitCached, Return, Match, cache
<1>4. CASE TryNext
  BY <1>4 DEF TryNext, Match, cache
<1>5. CASE HitNext
  BY <1>5, SeedInSight DEF HitNext, Return, Remember, Match
<1>6. CASE StartSearch
  <2>1. TypeOK' /\ CacheConsistent'
    BY <1>6 DEF StartSearch, cache
  <2>2. LocalInv'
    BY <1>6 DEF StartSearch, Match, cache
  <2>3. InRangeRecovered' /\ NeverAnotherEpoch'
    BY <1>6 DEF StartSearch, cache
  <2>4. WorkBounded'
    BY <1>6 DEF StartSearch, Match, cache
  <2> QED
    BY <2>1, <2>2, <2>3, <2>4
<1>7. CASE SearchHit
  BY <1>7 DEF SearchHit, EpochLeft, Return, Remember, Match
<1>8. CASE SearchOn
  BY <1>8 DEF SearchOn, EpochLeft, Match, cache
<1>9. CASE NotFound
  <2>1. i = MaxEpochNumber + 1
    BY <1>9 DEF NotFound, EpochLeft
  <2>2. \A k \in 0..MaxEpochNumber : seed # Seed[k]
    BY <1>9, <2>1 DEF NotFound, EpochLeft
  <2>3. seed # Seed[e] /\ seed # Seed[e + 1]
    BY <1>9 DEF NotFound, EpochLeft
  <2> QED
    BY <1>9, <2>2, <2>3 DEF NotFound, EpochLeft, Return, cache
<1> QED
  BY <1>1, <1>2, <1>3, <1>4, <1>5, <1>6, <1>7, <1>8, <1>9 DEF Next

LEMMA InductiveInv == Spec => []IInv
  BY InitIInv, StepIInv, PTL DEF Spec

-----------------------------------------------------------------------------

\* The types of the variables, the answers among them: -1 or an epoch.
THEOREM TypeCorrect == Spec => []TypeOK
<1>1. IInv => TypeOK
  BY DEF IInv
<1> QED
  BY InductiveInv, <1>1, PTL

\* The cache never pairs an epoch with a foreign seed.
THEOREM CacheAlwaysConsistent == Spec => []CacheConsistent
<1>1. IInv => CacheConsistent
  BY DEF IInv
<1> QED
  BY InductiveInv, <1>1, PTL

\* Every epoch in range is recovered from its seed, whatever the history of calls.
THEOREM InRangeAlwaysRecovered == Spec => []InRangeRecovered
<1>1. IInv => InRangeRecovered
  BY DEF IInv
<1> QED
  BY InductiveInv, <1>1, PTL

\* No seed is taken for one that begins differently.
THEOREM NeverTakenForAnother == Spec => []NeverAnotherEpoch
<1>1. IInv => NeverAnotherEpoch
  BY DEF IInv
<1> QED
  BY InductiveInv, <1>1, PTL

\* A client that follows the chain pays one hash per call, wherever it stands, and no call
\* pays more than one hash per epoch and one.
THEOREM CallsAreCheap == Spec => []WorkBounded
<1>1. IInv => WorkBounded
  BY DEF IInv
<1> QED
  BY InductiveInv, <1>1, PTL

=============================================================================
