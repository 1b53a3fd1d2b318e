---- MODULE EpochContextProofs ----
(***************************************************************************)
(* The light cache is built in order and handed out complete, for any      *)
(* sizes, growths and numbers of epochs and rounds; and one allocation     *)
(* holds everything where size_t does not wrap around.                     *)
(***************************************************************************)
EXTENDS EpochContext, WellFoundedInduction, TLAPS

\* Every nonempty set of natural numbers has a least element.
LEMMA LeastNumber ==
    ASSUME NEW T, T \subseteq Nat, T # {}
    PROVE  \E x \in T : \A y \in T : x <= y
<1> DEFINE Less == {p \in Nat \X Nat : p[1] < p[2]}
<1>1. OpToRel(<, Nat) = Less
  BY Zenon DEF OpToRel
<1>2. IsWellFoundedOn(Less, Nat)
  BY <1>1, NatLessThanWellFounded, Zenon
<1>3. PICK x \in T : \A y \in T : <<y, x>> \notin Less
  <2> HIDE DEF Less
  <2> QED
    BY <1>2, WFMin
<1>4. \A y \in T : ~(y < x)
  BY <1>3
<1> QED
  BY <1>4

\* From 2 on there is a largest prime up to any bound.
LEMMA LargestPrimeExists ==
    ASSUME NEW b \in Nat, b >= 2 PROVE Find!LargestPrime(b) \in 2..b
<1> DEFINE Below == {x \in Nat : b - x >= 2 /\ Find!IsPrime(b - x)}
           Largest(m) == Find!IsPrime(m) /\ \A k \in m + 1..b : ~Find!IsPrime(k)
<1>1. b - 2 \in Below
  <2>1. Find!IsPrime(2)
    BY DEF Find!IsPrime
  <2>2. b - 2 \in Nat /\ b - (b - 2) = 2
    OBVIOUS
  <2> QED
    BY <2>1, <2>2
<1>2. PICK x \in Below : \A y \in Below : x <= y
  <2>1. Below \subseteq Nat
    OBVIOUS
  <2> HIDE DEF Below
  <2> QED
    BY <1>1, <2>1, LeastNumber
<1>3. x \in Nat /\ b - x \in 2..b /\ Find!IsPrime(b - x)
  OBVIOUS
<1>4. ASSUME NEW k \in (b - x) + 1..b, Find!IsPrime(k) PROVE FALSE
  <2>1. b - k \in Nat /\ b - (b - k) = k /\ k >= 2 /\ b - k < x
    BY <1>3
  <2>2. b - k \in Below
    BY <1>4, <2>1
  <2> QED
    BY <1>2, <1>3, <2>1, <2>2
<1>5. Largest(b - x)
  BY <1>3, <1>4
<1>6. (CHOOSE m \in 2..b : Largest(m)) \in 2..b
  <2> HIDE DEF Largest
  <2> QED
    BY <1>3, <1>5
<1> QED
  BY <1>6 DEF Find!LargestPrime

\* The sizes of a valid epoch: two items at least, and few enough for int.
LEMMA SizesInRange ==
    ASSUME NEW e \in Int, Valid(e)
    PROVE  LightCacheNumItems(e) \in 2..IntMax /\ FullDatasetNumItems(e) \in 2..IntMax
<1> USE ConstantsAssumption
<1>1. ASSUME NEW init \in Nat \ {0, 1}, NEW growth \in Nat, init + MaxEpochNumber * growth <= IntMax
      PROVE  Find!LargestPrime(init + e * growth) \in 2..IntMax
  <2>1. e \in Nat /\ e <= MaxEpochNumber
    BY DEF Valid
  <2>2. e * growth \in Nat /\ e * growth <= MaxEpochNumber * growth
    BY <2>1
  <2>3. init + e * growth \in Nat /\ init + e * growth >= 2 /\ init + e * growth <= IntMax
    BY <1>1, <2>1, <2>2
  <2>4. Find!LargestPrime(init + e * growth) \in 2..(init + e * growth)
    BY <2>3, LargestPrimeExists
  <2> HIDE DEF Find!LargestPrime
  <2> QED
    BY <2>3, <2>4
<1> QED
  BY <1>1 DEF LightCacheNumItems, FullDatasetNumItems

\* One round of the modulus counts for nothing.
LEMMA ModWraps ==
    ASSUME NEW m \in Nat \ {0}, NEW r \in 0..m - 1
    PROVE  r % m = r /\ (m + r) % m = r
  OBVIOUS

-----------------------------------------------------------------------------

\* Inside a call: the sizes are those of the epoch.
Sized ==
    pc # "idle" =>
        /\ Valid(epoch) /\ context = "none"
        /\ light_cache_num_items = LightCacheNumItems(epoch)
        /\ full_dataset_num_items = FullDatasetNumItems(epoch)

\* The item written before item k; the first item's is the last.
Before(k) == IF k = 0 THEN light_cache_num_items - 1 ELSE k - 1

\* While the cache is built: its size and what the loops have done so far.
Progress ==
    /\ Building =>
        /\ room = AllocSize
        /\ DOMAIN cache = 0..light_cache_num_items - 1
        /\ i \in 0..light_cache_num_items - 1
    /\ pc = "fill" =>
        /\ \A k \in 0..i - 1 : cache[k] = 0
        /\ i # 0 => last = Before(i)
    /\ pc = "round" => q < Rounds /\ last = Before(i)
    /\ pc = "construct" => \A k \in DOMAIN cache : cache[k] = Rounds

IInv == TypeOK /\ Sized /\ Progress /\ RoundsInOrder /\ OnlyCompleteContexts

\* The sizes inside a call are the sizes of a valid epoch.
LEMMA SizedInRange ==
    ASSUME TypeOK, Sized, pc # "idle"
    PROVE  light_cache_num_items \in 2..IntMax /\ full_dataset_num_items \in 2..IntMax
  BY SizesInRange, ConstantsAssumption DEF TypeOK, Sized

LEMMA InitIInv == Init => IInv
<1> SUFFICES ASSUME Init PROVE IInv
  OBVIOUS
<1>1. cache \in [DOMAIN cache -> {Unwritten} \cup 0..Rounds]
  BY DEF Init
<1> QED
  BY <1>1, ConstantsAssumption
  DEF Init, IInv, TypeOK, Sized, Progress, Building, RoundsInOrder, OnlyCompleteContexts

\* Writing item i of the time after `done` rounds, when the items before it are of that
\* time and those after it of the time before.
LEMMA WriteItemStep ==
    ASSUME IInv, NEW done \in 0..Rounds,
           \/ pc = "fill" /\ done = 0
           \/ pc = "round" /\ done = q + 1,
           WriteItem(done)
    PROVE  IInv'
<1> DEFINE L == light_cache_num_items
<1> USE DEF IInv
<1>1. /\ L \in 2..IntMax /\ L' = L /\ full_dataset_num_items' = full_dataset_num_items
      /\ epoch' = epoch /\ full' = full /\ room' = room /\ context' = "none" /\ context = "none"
      /\ DOMAIN cache = 0..L - 1 /\ i \in 0..L - 1 /\ Building
  BY SizedInRange DEF WriteItem, args, sizes, Sized, Progress, Building
<1>2. /\ DOMAIN cache' = 0..L - 1 /\ last' = i
      /\ \A k \in 0..L - 1 : cache'[k] = IF k = i THEN done ELSE cache[k]
      /\ cache' \in [DOMAIN cache' -> {Unwritten} \cup 0..Rounds]
  BY <1>1 DEF WriteItem, TypeOK
<1>3. \A k \in 0..i : cache'[k] = done
  BY <1>1, <1>2 DEF Progress, RoundsInOrder
<1>4. Sized' /\ room' = AllocSize'
  BY <1>1 DEF Sized, Progress, AllocSize, Need, Valid, LightCacheNumItems, FullDatasetNumItems
<1>5. OnlyCompleteContexts'
  BY <1>1 DEF OnlyCompleteContexts
<1>6. CASE LastItem
  <2>1. /\ i = L - 1 /\ i' = 0 /\ q' = done
        /\ pc' = IF done < Rounds THEN "round" ELSE "construct"
    BY <1>1, <1>6 DEF LastItem, WriteItem, Goto, MoreRounds
  <2>2. \A k \in 0..L - 1 : cache'[k] = done
    BY <1>1, <1>3, <2>1
  <2>3. TypeOK'
    BY <1>1, <1>2, <2>1 DEF TypeOK
  <2>4. RoundsInOrder'
    BY <1>1, <1>2, <2>1, <2>2 DEF RoundsInOrder
  <2>5. Progress'
    BY <1>1, <1>2, <1>4, <2>1, <2>2, ConstantsAssumption DEF Progress, Building, Before
  <2> QED
    BY <1>4, <1>5, <2>3, <2>4, <2>5
<1>7. CASE ~LastItem
  <2>1. i' = i + 1 /\ i + 1 \in 0..L - 1 /\ q' = q /\ pc' = pc
    BY <1>1, <1>7 DEF LastItem, WriteItem
  <2>2. TypeOK'
    BY <1>1, <1>2, <2>1 DEF TypeOK
  <2>3. RoundsInOrder'
    BY <1>1, <1>2, <1>3, <2>1 DEF RoundsInOrder
  <2>4. Progress'
    BY <1>1, <1>2, <1>3, <1>4, <2>1 DEF Progress, Building, Before
  <2> QED
    BY <1>4, <1>5, <2>2, <2>3, <2>4
<1> QED
  BY <1>6, <1>7

LEMMA StepIInv == IInv /\ [Next]_vars => IInv'
<1> SUFFICES ASSUME IInv, [Next]_vars PROVE IInv'
  OBVIOUS
<1> USE DEF IInv
<1>1. CASE UNCHANGED vars
  BY <1>1 DEF vars, TypeOK, Sized, Valid, Progress, Building, AllocSize, Need, Before, RoundsInOrder,
      OnlyCompleteContexts
<1>2. ASSUME NEW a \in Epochs, NEW f \in BOOLEAN, Create(a, f) PROVE IInv'
  <2>1. LightCacheNumItems(a) \in 0..IntMax /\ FullDatasetNumItems(a) \in 0..IntMax
    <3>1. CASE Valid(a)
      BY <3>1, SizesInRange, ConstantsAssumption
    <3>2. CASE ~Valid(a)
      BY <3>2, ConstantsAssumption DEF LightCacheNumItems, FullDatasetNumItems
    <3> QED
      BY <3>1, <3>2
  <2>2. cache' \in [DOMAIN cache' -> {Unwritten} \cup 0..Rounds]
    BY <1>2 DEF Create
  <2>3. TypeOK'
    <3>1. /\ pc' \in {"idle", "alloc"} /\ context' \in {"none", "null"}
          /\ epoch' = a /\ full' = f /\ room' = 0 /\ q' = q /\ i' = i /\ last' = last
          /\ light_cache_num_items' \in 0..IntMax /\ full_dataset_num_items' \in 0..IntMax
      BY <1>2, <2>1 DEF Create, Goto
    <3> QED
      BY <2>2, <3>1, ConstantsAssumption DEF TypeOK
  <2>4. Sized' /\ Progress' /\ RoundsInOrder' /\ OnlyCompleteContexts'
    BY <1>2 DEF Create, Goto, Sized, Progress, Building, RoundsInOrder, OnlyCompleteContexts
  <2> QED
    BY <2>3, <2>4
<1>3. CASE Calloc
  <2>1. light_cache_num_items \in 2..IntMax /\ full_dataset_num_items \in 2..IntMax
    BY <1>3, SizedInRange DEF Calloc
  <2>2. AllocSize \in 0..SizeLimit - 1
    BY <2>1, ConstantsAssumption DEF AllocSize, Need
  <2>3. TypeOK'
    BY <1>3, <2>1, <2>2 DEF Calloc, args, sizes, Goto, TypeOK
  <2>4. Sized' /\ Progress' /\ RoundsInOrder' /\ OnlyCompleteContexts'
    BY <1>3, <2>1 DEF Calloc, args, sizes, Goto, Sized, Progress, Building, AllocSize, Need,
        RoundsInOrder, OnlyCompleteContexts
  <2> QED
    BY <2>3, <2>4
<1>4. CASE OutOfMemory
  BY <1>4 DEF OutOfMemory, args, sizes, Goto, TypeOK, Sized, Progress, Building, RoundsInOrder,
      OnlyCompleteContexts
<1>5. CASE Fill
  <2>1. pc = "fill" /\ WriteItem(0) /\ 0 \in 0..Rounds
    BY <1>5, ConstantsAssumption DEF Fill
  <2> QED
    BY <2>1, WriteItemStep
<1>6. CASE Mix
  <2>1. pc = "round" /\ WriteItem(q + 1)
    BY <1>6 DEF Mix
  <2>2. q + 1 \in 0..Rounds
    <3>1. q \in 0..Rounds /\ q < Rounds
      BY <2>1 DEF TypeOK, Progress
    <3> QED
      BY <3>1, ConstantsAssumption
  <2> QED
    BY <2>1, <2>2, WriteItemStep
<1>7. CASE Construct
  BY <1>7 DEF Construct, args, sizes, Goto, TypeOK, Sized, Progress, Building, RoundsInOrder,
      OnlyCompleteContexts
<1> QED
  BY <1>1, <1>2, <1>3, <1>4, <1>5, <1>6, <1>7 DEF Next

LEMMA InductiveInv == Spec => []IInv
  BY InitIInv, StepIInv, PTL DEF Spec

-----------------------------------------------------------------------------

\* The types of the variables; the numbers of items of every epoch fit int.
THEOREM TypeCorrect == Spec => []TypeOK
<1>1. IInv => TypeOK
  BY DEF IInv
<1> QED
  BY InductiveInv, <1>1, PTL

\* The rewriting in place mixes the rounds in one way only, whatever the items' contents.
THEOREM RoundsAlwaysInOrder == Spec => []RoundsInOrder
<1>1. IInv => RoundsInOrder
  BY DEF IInv
<1> QED
  BY InductiveInv, <1>1, PTL

\* The second source of an item is the one written before it, also where the index wraps.
THEOREM ChainNeverBroken == Spec => []ChainUnbroken
<1>1. IInv => ChainUnbroken
  <2> SUFFICES ASSUME IInv, pc = "round"
               PROVE  SecondIndex = last /\ SecondIndex \in DOMAIN cache
    BY DEF ChainUnbroken
  <2>1. /\ light_cache_num_items \in 2..IntMax /\ i \in 0..light_cache_num_items - 1
        /\ DOMAIN cache = 0..light_cache_num_items - 1
        /\ last = Before(i)
    BY SizedInRange DEF IInv, Progress, Building
  <2>2. CASE i = 0
    <3>1. light_cache_num_items + (i - 1) = light_cache_num_items - 1
      BY <2>1, <2>2
    <3>2. (light_cache_num_items - 1) % light_cache_num_items = light_cache_num_items - 1
      BY <2>1, ModWraps, ConstantsAssumption
    <3> QED
      BY <2>1, <2>2, <3>1, <3>2, ConstantsAssumption DEF SecondIndex, Before
  <2>3. CASE i # 0
    <3> DEFINE r == i - 1
    <3>1. (light_cache_num_items + r) % light_cache_num_items = r
      <4>1. r \in 0..light_cache_num_items - 1
        BY <2>1, <2>3, ConstantsAssumption
      <4>2. light_cache_num_items \in Nat \ {0}
        BY <2>1, ConstantsAssumption
      <4> HIDE DEF r
      <4> QED
        BY <4>1, <4>2, ModWraps
    <3> QED
      BY <2>1, <2>3, <3>1, ConstantsAssumption DEF SecondIndex, Before
  <2> QED
    BY <2>2, <2>3
<1> QED
  BY InductiveInv, <1>1, PTL

\* No context is handed out before every item of its light cache went through all rounds.
THEOREM ContextsAreComplete == Spec => []OnlyCompleteContexts
<1>1. IInv => OnlyCompleteContexts
  BY DEF IInv
<1> QED
  BY InductiveInv, <1>1, PTL

\* The sizes of no epoch add up to what size_t wraps around at: true of 64-bit builds, and
\* the condition that 32-bit builds break.
SizesFit ==
    \A a \in Epochs :
        Valid(a) => 1 + LightCacheNumItems(a) + 2 * FullDatasetNumItems(a) < SizeLimit

\* Where the sizes fit size_t, the allocation holds all that is built in it.
THEOREM AllocationSufficient == SizesFit => (Spec => []AllocationCovers)
<1> SUFFICES ASSUME SizesFit PROVE Spec => []AllocationCovers
  OBVIOUS
<1>1. IInv => AllocationCovers
  <2> SUFFICES ASSUME IInv, Building PROVE room >= Need
    BY DEF AllocationCovers
  <2>1. /\ light_cache_num_items \in Nat /\ full_dataset_num_items \in Nat
        /\ 1 + light_cache_num_items + 2 * full_dataset_num_items < SizeLimit
    BY ConstantsAssumption DEF IInv, Building, TypeOK, Sized, SizesFit
  <2>2. Need \in 0..SizeLimit - 1
    BY <2>1, ConstantsAssumption DEF Need
  <2>3. Need % SizeLimit = Need
    <3> HIDE DEF Need
    <3> QED
      BY <2>2, ModWraps, ConstantsAssumption
  <2>4. room = Need
    BY <2>3 DEF IInv, Progress, AllocSize
  <2> QED
    BY <2>2, <2>4
<1> QED
  BY InductiveInv, <1>1, PTL

=============================================================================
