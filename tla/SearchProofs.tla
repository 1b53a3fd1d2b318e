---- MODULE SearchProofs ----
(***************************************************************************)
(* Searches find the first solution of their range and verification judges *)
(* right, for any hash functions, number of accesses and range, and        *)
(* whatever the other threads make of the dataset meanwhile.               *)
(***************************************************************************)
EXTENDS Search, WellFoundedInduction, TLAPS

-----------------------------------------------------------------------------
(* The mixes of a nonce over the true dataset are well defined.            *)

\* Every nonempty set of natural numbers has a least element.
LEMMA LeastNumber ==
    ASSUME NEW T, T \subseteq Nat, T # {}
    PROVE  \E x \in T : \A y \in T : x <= y
<1> DEFINE Less == {p \in Nat \X Nat : p[1] < p[2]}
<1>1. OpToRel(<, Nat) = Less
  BY Zenon DEF OpToRel
<1>2. IsWellFoundedOn(Less, Nat)
  BY <1>1, NatLessThanWellFounded, Zenon
<1>3. PICK x \in T : \A y \in T : <<y, x>> \notin Less
  <2> HIDE DEF Less
  <2> QED
    BY <1>2, WFMin
<1>4. \A y \in T : ~(y < x)
  BY <1>3
<1> QED
  BY <1>4

\* What mix k of nonce n follows from.
NextMix(n, m, k) == IF k = 0 THEN FirstMix[n] ELSE Fnv[<<m[k - 1], Item[Index[<<n, k - 1, m[k - 1]>>]]>>]

\* m is the sequence of the mixes of nonce n, up to the last-th access.
AreMixes(n, m, last) == m = [k \in 0..last |-> NextMix(n, m, k)]

MixAt(n) == CHOOSE m : AreMixes(n, m, Accesses)

\* The recursion of GenuineMixHash has a solution: what goes as far as k - 1 goes on to k.
LEMMA MixesExist ==
    ASSUME NEW n, NEW last \in Nat PROVE \E m : AreMixes(n, m, last)
<1> DEFINE Bad == {x \in Nat : ~\E m : AreMixes(n, m, x)}
<1>1. Bad = {}
  <2> SUFFICES ASSUME Bad # {} PROVE FALSE
    OBVIOUS
  <2>1. PICK x \in Bad : \A y \in Bad : x <= y
    <3>1. Bad \subseteq Nat
      OBVIOUS
    <3> HIDE DEF Bad
    <3> QED
      BY <3>1, LeastNumber
  <2>2. x \in Nat /\ ~\E m : AreMixes(n, m, x)
    OBVIOUS
  <2>3. CASE x = 0
    <3>1. AreMixes(n, [k \in 0..0 |-> FirstMix[n]], 0)
      BY DEF AreMixes, NextMix
    <3> QED
      BY <2>2, <2>3, <3>1
  <2>4. CASE x # 0
    <3>1. x - 1 \in Nat /\ x - 1 \notin Bad
      <4> HIDE DEF Bad
      <4> QED
        BY <2>1, <2>2, <2>4
    <3>2. PICK g : AreMixes(n, g, x - 1)
      BY <3>1
    <3> DEFINE h == [k \in 0..x |-> NextMix(n, g, k)]
    <3>3. \A k \in 0..x - 1 : h[k] = g[k]
      BY <2>2, <3>2 DEF AreMixes
    <3>4. ASSUME NEW k \in 0..x PROVE NextMix(n, g, k) = NextMix(n, h, k)
      <4>1. k # 0 => h[k - 1] = g[k - 1]
        <5> HIDE DEF h
        <5> QED
          BY <2>2, <3>3
      <4> QED
        BY <4>1 DEF NextMix
    <3>5. AreMixes(n, h, x)
      BY <3>4 DEF AreMixes
    <3> QED
      BY <2>2, <3>5
  <2> QED
    BY <2>3, <2>4
<1> QED
  BY <1>1

\* Every mix is a word, and follows from the one before.
LEMMA MixSteps ==
    ASSUME NEW n \in Nonces
    PROVE  /\ MixAt(n)[0] = FirstMix[n]
           /\ \A k \in 0..Accesses : MixAt(n)[k] \in Word
           /\ \A k \in 0..Accesses - 1 :
                 MixAt(n)[k + 1] = Fnv[<<MixAt(n)[k], Item[Index[<<n, k, MixAt(n)[k]>>]]>>]
           /\ GenuineMixHash(n) = Fold[MixAt(n)[Accesses]]
<1> DEFINE m == MixAt(n)
<1>1. AreMixes(n, m, Accesses)
  BY MixesExist, ConstantsAssumption DEF MixAt
<1>2. GenuineMixHash(n) = Fold[m[Accesses]]
  BY Zenon DEF GenuineMixHash, MixAt, AreMixes, NextMix
<1> HIDE DEF m
<1>3. \A k \in 0..Accesses : m[k] = NextMix(n, m, k)
  BY <1>1 DEF AreMixes
<1>4. m[0] = FirstMix[n]
  <2>1. m[0] = NextMix(n, m, 0)
    BY <1>3, ConstantsAssumption
  <2> QED
    BY <2>1 DEF NextMix
<1>5. ASSUME NEW k \in 0..Accesses - 1
      PROVE  m[k + 1] = Fnv[<<m[k], Item[Index[<<n, k, m[k]>>]]>>]
  <2>1. k + 1 \in 0..Accesses /\ k + 1 # 0 /\ (k + 1) - 1 = k
    BY ConstantsAssumption
  <2> QED
    BY <1>3, <2>1 DEF NextMix
<1>6. \A k \in 0..Accesses : m[k] \in Word
  <2> DEFINE Bad == {k \in 0..Accesses : m[k] \notin Word}
  <2> SUFFICES ASSUME Bad # {} PROVE FALSE
    OBVIOUS
  <2>1. PICK x \in Bad : \A y \in Bad : x <= y
    <3>1. Bad \subseteq Nat
      OBVIOUS
    <3> HIDE DEF Bad
    <3> QED
      BY <3>1, LeastNumber
  <2>2. x \in 0..Accesses /\ m[x] \notin Word
    OBVIOUS
  <2>3. x # 0
    BY <1>4, <2>2, ConstantsAssumption
  <2>4. x - 1 \in 0..Accesses - 1 /\ (x - 1) + 1 = x
    BY <2>2, <2>3, ConstantsAssumption
  <2>5. x - 1 \notin Bad
    <3> HIDE DEF Bad
    <3> QED
      BY <2>1, <2>2, <2>4, ConstantsAssumption
  <2>6. m[x - 1] \in Word
    BY <2>2, <2>4, <2>5, ConstantsAssumption
  <2>7. m[x] = Fnv[<<m[x - 1], Item[Index[<<n, x - 1, m[x - 1]>>]]>>]
    BY <1>5, <2>4
  <2>8. Index[<<n, x - 1, m[x - 1]>>] \in Items
    BY <2>4, <2>6, ConstantsAssumption
  <2> QED
    BY <2>2, <2>6, <2>7, <2>8, ConstantsAssumption
<1> QED
  BY <1>2, <1>4, <1>5, <1>6 DEF m

-----------------------------------------------------------------------------

\* Which call is where; only a search over the shared dataset can be torn.
Calls ==
    /\ pc = "idle" => job = None
    /\ pc = "next" => job \in Searches
    /\ pc = "kernel" =>
        job \in Searches \cup {"verify_against_boundary", "verify_against_difficulty"}
    /\ job # "search" => ~torn

\* The kernel is on the genuine way as long as no lookup was torn.
Genuine == pc = "kernel" /\ ~torn => mix = MixAt(nonce)[i]

\* A search is within its range.  If that wraps around, no nonce is tried.
Within ==
    pc \in {"next", "kernel"} /\ job \in Searches =>
        /\ end_nonce = Add(start, iterations)
        /\ start <= nonce
        /\ nonce <= end_nonce \/ nonce = start
        /\ pc = "kernel" => nonce < end_nonce

\* What was tried before is no solution, unless a torn lookup spoiled it.
NoneBefore ==
    pc \in {"next", "kernel"} /\ job \in Searches /\ ~torn_before /\ (pc = "next" => ~torn) =>
        \A n \in start..nonce - 1 : ~Solution(n)

\* The kernel runs for claims whose final hash is good enough.
Claimed ==
    pc = "kernel" /\ job \in Verifications => GoodEnough(job, target, nonce, claim)

IInv ==
    /\ TypeOK
    /\ Calls /\ Genuine /\ Within /\ NoneBefore /\ Claimed
    /\ SearchAnswer /\ VerdictRight

\* The end of a range, wrapped around or not.
LEMMA AddWraps ==
    ASSUME NEW n \in Nonces, NEW c \in 0..MaxIterations
    PROVE  /\ Add(n, c) \in Nonces
           /\ n + c < NonceLimit => Add(n, c) = n + c
           /\ n + c >= NonceLimit => Add(n, c) < n
<1>1. n + c \in Nat /\ n + c < 2 * NonceLimit /\ NonceLimit \in Nat \ {0}
  BY ConstantsAssumption DEF Nonces
<1> DEFINE a == n + c
<1>2. a \in Nat /\ a < 2 * NonceLimit
  BY <1>1
<1> HIDE DEF a
<1>3. a % NonceLimit = IF a < NonceLimit THEN a ELSE a - NonceLimit
  BY <1>1, <1>2
<1>4. Add(n, c) = IF a < NonceLimit THEN a ELSE a - NonceLimit
  BY <1>3 DEF Add, a
<1> QED
  BY <1>1, <1>4, ConstantsAssumption DEF a, Nonces

LEMMA AllAnswers ==
    /\ NoAnswer \in Answers /\ NotFound \in Answers /\ Success \in Answers
    /\ InvalidFinalHash \in Answers /\ InvalidMixHash \in Answers
    /\ \A n \in Nonces, m \in Word : Solved(n, m) \in Answers
  BY DEF Answers

LEMMA InitIInv == Init => IInv
<1> SUFFICES ASSUME Init PROVE IInv
  OBVIOUS
<1>1. TypeOK
  <2>1. dataset \in [Items -> {"empty", "partial", "complete"}]
    BY DEF Init
  <2>2. 0 \in Word /\ 0 \in Nonces /\ 0 \in 0..MaxIterations /\ 0 \in 0..Accesses
    BY ConstantsAssumption DEF Nonces, Word
  <2> QED
    BY <2>1, <2>2, AllAnswers DEF Init, TypeOK
<1>2. pc = "idle" /\ job = None /\ ~torn
  BY DEF Init
<1> QED
  BY <1>1, <1>2
  DEF IInv, Calls, Genuine, Within, NoneBefore, Claimed, SearchAnswer, VerdictRight

LEMMA StepIInv == IInv /\ [Next]_vars => IInv'
<1> SUFFICES ASSUME IInv, [Next]_vars PROVE IInv'
  OBVIOUS
<1> USE DEF IInv, Searches, Verifications
\* What is out of the kernel and not returned has little to prove.
<1>1. CASE UNCHANGED vars \/ OthersStore
  <2>1. UNCHANGED <<pc, args, nonce, i, mix, answer, torn, torn_before>>
    BY <1>1 DEF vars, args, OthersStore
  <2>2. dataset' \in [Items -> {"empty", "partial", "complete"}]
    BY <1>1 DEF vars, OthersStore, TypeOK
  <2>3. TypeOK'
    BY <2>1, <2>2 DEF args, TypeOK
  <2> QED
    BY <2>1, <2>3 DEF args, Calls, Genuine, Within, NoneBefore, Claimed, Solution, SearchAnswer,
        VerdictRight
<1>2. ASSUME NEW kind \in Searches, NEW b \in Word, NEW n \in Nonces, NEW c \in 0..MaxIterations,
             Search(kind, b, n, c)
      PROVE  IInv'
  <2>1. TypeOK'
    BY <1>2, AddWraps, AllAnswers DEF Search, TypeOK, args
  <2>2. /\ pc' = "next" /\ job' = kind /\ start' = n /\ iterations' = c /\ nonce' = n
        /\ end_nonce' = Add(n, c) /\ ~torn'
    BY <1>2 DEF Search
  <2>3. n..n - 1 = {} /\ n <= n
    BY DEF Nonces
  <2> QED
    BY <2>1, <2>2, <2>3
    DEF Calls, Genuine, Within, NoneBefore, Claimed, SearchAnswer, VerdictRight
<1>3. CASE TryNonce
  <2>1. /\ pc = "next" /\ nonce < end_nonce /\ pc' = "kernel" /\ i' = 0 /\ mix' = FirstMix[nonce]
        /\ torn' = FALSE /\ torn_before' = (torn_before \/ torn)
        /\ UNCHANGED <<args, nonce, answer, dataset>>
    BY <1>3 DEF TryNonce, InRange, StartKernel
  <2>2. TypeOK'
    <3>1. FirstMix[nonce] \in Word /\ 0 \in 0..Accesses
      BY ConstantsAssumption DEF TypeOK
    <3> QED
      BY <2>1, <3>1 DEF TypeOK, args
  <2>3. Genuine'
    BY <2>1, MixSteps DEF Genuine, TypeOK
  <2>4. Calls' /\ Within' /\ NoneBefore' /\ Claimed'
    BY <2>1 DEF args, Calls, Within, NoneBefore, Claimed, Solution
  <2> QED
    BY <2>1, <2>2, <2>3, <2>4 DEF SearchAnswer, VerdictRight
<1>4. CASE Exhausted
  <2>1. /\ pc = "next" /\ ~(nonce < end_nonce) /\ pc' = "returned" /\ answer' = NotFound
        /\ UNCHANGED <<args, nonce, i, mix, dataset, torn, torn_before>>
    BY <1>4 DEF Exhausted, InRange
  <2>2. TypeOK'
    BY <2>1, AllAnswers DEF TypeOK, args
  <2>3. ASSUME ~torn, ~torn_before, start + iterations < NonceLimit, NEW n \in start..start + iterations - 1
        PROVE  ~Solution(n)
    <3>1. end_nonce = start + iterations
      BY <2>1, <2>3, AddWraps DEF Calls, Within, TypeOK
    <3>2. n \in start..nonce - 1
      BY <2>1, <2>3, <3>1 DEF Calls, Within, TypeOK, Nonces
    <3> QED
      BY <2>1, <2>3, <3>2 DEF Calls, NoneBefore
  <2>4. SearchAnswer'
    BY <2>1, <2>3 DEF SearchAnswer, NotFound, Solution, args
  <2> QED
    BY <2>1, <2>2, <2>4 DEF args, Calls, Genuine, Within, NoneBefore, Claimed, VerdictRight
<1>5. CASE Found
  <2>1. /\ pc = "kernel" /\ i = Accesses /\ job \in Searches /\ Solves(nonce, Fold[mix], target)
        /\ pc' = "returned" /\ answer' = Solved(nonce, Fold[mix])
        /\ UNCHANGED <<args, nonce, i, mix, dataset, torn, torn_before>>
    BY <1>5 DEF Found, Hashed, MixHash
  <2>2. Fold[mix] \in Word
    BY ConstantsAssumption DEF TypeOK
  <2>3. TypeOK'
    BY <2>1, <2>2, AllAnswers DEF TypeOK, args
  <2>4. ~torn => Fold[mix] = GenuineMixHash(nonce)
    BY <2>1, MixSteps DEF Genuine, TypeOK
  <2>5. nonce \in start..start + iterations - 1
    <3>1. /\ start \in Nonces /\ iterations \in 0..MaxIterations /\ nonce \in Nonces
          /\ end_nonce = Add(start, iterations) /\ start <= nonce /\ nonce < end_nonce
      BY <2>1 DEF Within, TypeOK
    <3>2. /\ start + iterations < NonceLimit => end_nonce = start + iterations
          /\ start + iterations >= NonceLimit => end_nonce < start
      BY <3>1, AddWraps
    <3> QED
      BY <3>1, <3>2, ConstantsAssumption DEF Nonces
  <2>6. ~torn_before => \A n \in start..nonce - 1 : ~Solution(n)
    BY <2>1 DEF NoneBefore
  <2>7. SearchAnswer'
    BY <2>1, <2>4, <2>5, <2>6 DEF SearchAnswer, Solved, NotFound, Solution, args
  <2> QED
    BY <2>1, <2>3, <2>7 DEF args, Calls, Genuine, Within, NoneBefore, Claimed, VerdictRight
<1>6. CASE Missed
  <2>1. /\ pc = "kernel" /\ i = Accesses /\ job \in Searches /\ ~Solves(nonce, Fold[mix], target)
        /\ pc' = "next" /\ nonce' = Add(nonce, 1)
        /\ UNCHANGED <<args, i, mix, answer, dataset, torn, torn_before>>
    BY <1>6 DEF Missed, Hashed, MixHash
  <2>2. nonce \in Nonces /\ nonce < end_nonce /\ start <= nonce /\ end_nonce < NonceLimit
    BY <2>1, ConstantsAssumption DEF Within, TypeOK, Nonces
  <2>3. nonce' = nonce + 1 /\ nonce' \in Nonces
    <3>1. nonce + 1 \in Nat /\ nonce + 1 < NonceLimit /\ NonceLimit \in Nat \ {0}
      BY <2>2, ConstantsAssumption DEF Nonces, TypeOK
    <3> DEFINE a == nonce + 1
    <3>2. a % NonceLimit = a
      <4> HIDE DEF a
      <4> QED
        BY <3>1 DEF a
    <3> QED
      BY <2>1, <3>1, <3>2 DEF Add, Nonces
  <2>4. TypeOK'
    BY <2>1, <2>3 DEF TypeOK, args
  <2>5. ~torn => ~Solution(nonce)
    BY <2>1, MixSteps DEF Genuine, TypeOK, Solution
  <2>6. Within'
    BY <2>1, <2>2, <2>3 DEF Within, TypeOK, Nonces, args
  <2>7. NoneBefore'
    <3> SUFFICES ASSUME ~torn_before, ~torn, NEW n \in start..nonce PROVE ~Solution(n)
      BY <2>1, <2>3 DEF NoneBefore, Solution, args, TypeOK, Nonces
    <3>1. n \in start..nonce - 1 \/ n = nonce
      BY <2>2 DEF TypeOK, Nonces
    <3> QED
      BY <2>1, <2>5, <3>1 DEF NoneBefore
  <2> QED
    BY <2>1, <2>4, <2>6, <2>7 DEF args, Calls, Genuine, Claimed, SearchAnswer, VerdictRight
<1>7. CASE Leave
  <2>1. pc' = "idle" /\ job' = None /\ torn' = FALSE
    BY <1>7 DEF Leave
  <2>2. TypeOK'
    <3>1. 0 \in Word /\ 0 \in Nonces /\ 0 \in 0..MaxIterations /\ 0 \in 0..Accesses
      BY ConstantsAssumption DEF Nonces, Word
    <3> QED
      BY <1>7, <3>1, AllAnswers DEF Leave, TypeOK
  <2> QED
    BY <2>1, <2>2 DEF Calls, Genuine, Within, NoneBefore, Claimed, SearchAnswer, VerdictRight
<1>8. ASSUME AtAccess, NEW word \in Word, Absorb(word),
             word = Item[Accessed] \/ torn' = TRUE, torn' \in BOOLEAN, torn => torn',
             torn' = torn \/ job = "search",
             dataset' \in [Items -> {"empty", "partial", "complete"}]
      PROVE  IInv'
  <2>1. /\ pc = "kernel" /\ pc' = "kernel" /\ i \in 0..Accesses - 1 /\ i' = i + 1
        /\ mix' = Fnv[<<mix, word>>]
        /\ UNCHANGED <<args, nonce, answer, torn_before>>
    BY <1>8, ConstantsAssumption DEF AtAccess, Absorb, TypeOK
  <2>2. mix' \in Word /\ i' \in 0..Accesses
    BY <2>1, ConstantsAssumption DEF TypeOK
  <2>3. TypeOK'
    BY <1>8, <2>1, <2>2 DEF args, TypeOK
  <2>4. Genuine'
    <3> SUFFICES ASSUME ~torn' PROVE mix' = MixAt(nonce)[i + 1]
      BY <2>1 DEF Genuine
    <3>1. ~torn /\ word = Item[Accessed]
      BY <1>8
    <3>2. mix = MixAt(nonce)[i] /\ Accessed = Index[<<nonce, i, mix>>]
      BY <2>1, <3>1 DEF Genuine, Accessed
    <3>3. nonce \in Nonces
      BY DEF TypeOK
    <3> QED
      BY <2>1, <3>1, <3>2, <3>3, MixSteps
  <2>5. Calls' /\ Within' /\ NoneBefore' /\ Claimed'
    BY <1>8, <2>1 DEF args, Calls, Within, NoneBefore, Claimed, Solution
  <2> QED
    BY <2>1, <2>3, <2>4, <2>5 DEF SearchAnswer, VerdictRight
<1>9. CASE AtAccess /\ (AccessLight \/ AccessLazy)
  <2>1. Accessed \in Items
    BY <1>9, ConstantsAssumption DEF AtAccess, Accessed, TypeOK
  <2>2. Item[Accessed] \in Word
    BY <2>1, ConstantsAssumption
  <2>3. /\ Absorb(Item[Accessed]) /\ torn' = torn /\ torn \in BOOLEAN
        /\ dataset' \in [Items -> {"empty", "partial", "complete"}]
    BY <1>9, <2>1 DEF AccessLight, AccessLazy, TypeOK
  <2> DEFINE word == Item[Accessed]
  <2>4. word \in Word /\ Absorb(word) /\ word = Item[Accessed]
    BY <2>2, <2>3
  <2> HIDE DEF word
  <2> QED
    BY <1>8, <1>9, <2>3, <2>4
<1>10. CASE AccessTorn
  <2>1. PICK word \in Word : Absorb(word)
    BY <1>10 DEF AccessTorn
  <2>2. AtAccess /\ torn' = TRUE /\ job = "search" /\ dataset' = dataset
    BY <1>10 DEF AccessTorn
  <2> QED
    BY <1>8, <2>1, <2>2 DEF TypeOK
<1>11. ASSUME NEW kind \in Verifications, NEW b \in Word, NEW n \in Nonces, NEW m \in Word,
              Verify(kind, b, n, m),
              Reject(kind, b, n, m) \/ AcceptFinal(kind, b, n, m) \/ Recompute(kind, b, n, m)
       PROVE  IInv'
  <2>1. /\ pc = "idle" /\ job' = kind /\ target' = b /\ nonce' = n /\ claim' = m
        /\ UNCHANGED <<start, iterations, end_nonce, dataset, torn, torn_before>>
        /\ ~torn
    BY <1>11 DEF Verify, Calls, None
  <2>2. CASE Reject(kind, b, n, m)
    <3>1. /\ ~GoodEnough(kind, b, n, m) /\ answer' = InvalidFinalHash /\ pc' = "returned"
          /\ UNCHANGED <<i, mix>>
      BY <2>2 DEF Reject
    <3>2. TypeOK'
      BY <2>1, <3>1, AllAnswers DEF TypeOK
    <3>3. VerdictRight'
      BY <2>1, <3>1 DEF VerdictRight, Success, InvalidFinalHash
    <3> QED
      BY <2>1, <3>1, <3>2, <3>3
      DEF Calls, Genuine, Within, NoneBefore, Claimed, SearchAnswer
  <2>3. CASE AcceptFinal(kind, b, n, m)
    <3>1. /\ kind = "verify_final_hash_against_difficulty" /\ GoodEnough(kind, b, n, m)
          /\ answer' = Success /\ pc' = "returned" /\ UNCHANGED <<i, mix>>
      BY <2>3 DEF AcceptFinal
    <3>2. TypeOK'
      BY <2>1, <3>1, AllAnswers DEF TypeOK
    <3>3. VerdictRight'
      BY <2>1, <3>1 DEF VerdictRight, Success, InvalidFinalHash
    <3> QED
      BY <2>1, <3>1, <3>2, <3>3
      DEF Calls, Genuine, Within, NoneBefore, Claimed, SearchAnswer
  <2>4. CASE Recompute(kind, b, n, m)
    <3>1. /\ kind # "verify_final_hash_against_difficulty" /\ GoodEnough(kind, b, n, m)
          /\ answer' = NoAnswer /\ pc' = "kernel" /\ i' = 0 /\ mix' = FirstMix[n]
      BY <2>4 DEF Recompute, StartKernel
    <3>2. FirstMix[n] \in Word /\ 0 \in 0..Accesses
      BY ConstantsAssumption
    <3>3. TypeOK'
      BY <2>1, <3>1, <3>2, AllAnswers DEF TypeOK
    <3>4. Genuine'
      BY <2>1, <3>1, MixSteps DEF Genuine
    <3> QED
      BY <2>1, <3>1, <3>3, <3>4
      DEF Calls, Within, NoneBefore, Claimed, SearchAnswer, VerdictRight
  <2> QED
    BY <1>11, <2>2, <2>3, <2>4
<1>12. CASE Judge
  <2>1. /\ pc = "kernel" /\ i = Accesses /\ job \in Verifications \ Searches /\ pc' = "returned"
        /\ answer' = IF Fold[mix] = claim THEN Success ELSE InvalidMixHash
        /\ UNCHANGED <<args, nonce, i, mix, dataset, torn, torn_before>>
    BY <1>12 DEF Judge, Hashed, MixHash, equal, Calls
  <2>2. Fold[mix] = GenuineMixHash(nonce)
    BY <2>1, MixSteps DEF Genuine, Calls, TypeOK
  <2>3. TypeOK'
    BY <2>1, AllAnswers DEF TypeOK, args
  <2>4. VerdictRight'
    BY <2>1, <2>2 DEF VerdictRight, args, Success, InvalidFinalHash, InvalidMixHash, Claimed, Calls
  <2> QED
    BY <2>1, <2>3, <2>4 DEF args, Calls, Genuine, Within, NoneBefore, Claimed, SearchAnswer
<1> QED
  BY <1>1, <1>2, <1>3, <1>4, <1>5, <1>6, <1>7, <1>9, <1>10, <1>11, <1>12
  DEF Next, AccessLight, AccessLazy, Reject, AcceptFinal, Recompute

LEMMA InductiveInv == Spec => []IInv
  BY InitIInv, StepIInv, PTL DEF Spec

-----------------------------------------------------------------------------

\* The types of the variables; no nonce is out of range, whatever range is asked for.
THEOREM TypeCorrect == Spec => []TypeOK
<1>1. IInv => TypeOK
  BY DEF IInv
<1> QED
  BY InductiveInv, <1>1, PTL

\* Searches answer with the first solution of their range, and with nothing only if there is
\* none, but for the nonces that torn lookups spoil.
THEOREM SearchesAnswer == Spec => []SearchAnswer
<1>1. IInv => SearchAnswer
  BY DEF IInv
<1> QED
  BY InductiveInv, <1>1, PTL

\* Verification accepts a claim exactly when it should, on the true dataset.
THEOREM VerdictsAreRight == Spec => []VerdictRight
<1>1. IInv => VerdictRight
  BY DEF IInv
<1> QED
  BY InductiveInv, <1>1, PTL

=============================================================================
