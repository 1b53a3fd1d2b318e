---- MODULE PrimesProofs ----
(***************************************************************************)
(* ethash_find_largest_prime is right for every bound that fits int: what  *)
(* trial division by odd numbers up to the root leaves is prime, and what  *)
(* the descent in twos passes is not.                                      *)
(***************************************************************************)
EXTENDS Primes, TLAPS

\* Division with remainder.
LEMMA Division ==
    ASSUME NEW a \in Nat, NEW b \in Nat \ {0}
    PROVE  /\ a \div b \in Nat /\ a % b \in 0..b - 1
           /\ a = b * (a \div b) + (a % b)
  OBVIOUS

\* A product leaves no remainder.
LEMMA Multiple ==
    ASSUME NEW b \in Nat \ {0}, NEW c \in Nat
    PROVE  (b * c) % b = 0 /\ (b * c) \div b = c
<1> DEFINE q == (b * c) \div b
           r == (b * c) % b
<1>1. b * c \in Nat /\ q \in Nat /\ r \in 0..b - 1 /\ b * c = b * q + r
  <2>1. b * c \in Nat
    OBVIOUS
  <2> QED
    BY <2>1, Division
<1> HIDE DEF q, r
<1>2. b * (c - q) = r
  BY <1>1
<1>3. c - q = 0
  <2>1. CASE c - q >= 1
    <3>1. b * (c - q) >= b
      BY <1>1, <2>1
    <3> QED
      BY <1>1, <1>2, <3>1
  <2>2. CASE c - q <= -1
    <3>1. b * (q - c) >= b
      BY <1>1, <2>2
    <3>2. b * (q - c) = -(b * (c - q))
      BY <1>1
    <3> QED
      BY <1>1, <1>2, <3>1, <3>2
  <2> QED
    BY <1>1, <2>1, <2>2
<1>4. q = c /\ r = 0
  BY <1>1, <1>2, <1>3
<1> QED
  BY <1>4 DEF q, r

\* An even number does not divide an odd one.
LEMMA EvenDividesNoOdd ==
    ASSUME NEW a \in Nat, a % 2 = 1, NEW b \in Nat \ {0}, b % 2 = 0
    PROVE  a % b # 0
<1> SUFFICES ASSUME a % b = 0 PROVE FALSE
  OBVIOUS
<1> DEFINE q == a \div b
           h == b \div 2
<1>1. q \in Nat /\ h \in Nat /\ a = b * q /\ b = 2 * h
  BY Division
<1>2. a = 2 * (h * q) /\ h * q \in Nat
  BY <1>1
<1> HIDE DEF q, h
<1> QED
  BY <1>2, Multiple

\* Without a divisor below one whose square is greater, a number is prime.
LEMMA NoSmallDivisor ==
    ASSUME NEW a \in Nat, a > 1, NEW b \in Nat \ {0}, a \div b < b,
           \A k \in 2..b - 1 : a % k # 0
    PROVE  IsPrime(a)
<1> SUFFICES ASSUME NEW k \in 2..a - 1, a % k = 0 PROVE FALSE
  BY DEF IsPrime
<1> DEFINE m == a \div k
<1>1. m \in Nat /\ a = k * m
  BY Division
<1> HIDE DEF m
<1>2. k >= b
  OBVIOUS
<1>3. m >= 2
  <2>1. m # 0 /\ m # 1
    BY <1>1
  <2> QED
    BY <1>1, <2>1
<1>4. a % m = 0
  <2>1. a = m * k /\ m \in Nat \ {0} /\ k \in Nat
    BY <1>1, <1>3
  <2> QED
    BY <2>1, Multiple
<1>5. m >= b
  BY <1>1, <1>3, <1>4
<1>6. k * m >= b * b
  <2>1. k * m >= b * m
    BY <1>1, <1>2
  <2>2. b * m >= b * b
    BY <1>1, <1>5
  <2> QED
    BY <1>1, <2>1, <2>2
<1>7. a \div b >= b
  <2> DEFINE c == a \div b
  <2>1. c \in Nat /\ a % b \in 0..b - 1 /\ a = b * c + (a % b)
    BY Division
  <2>2. c <= b - 1
    BY <2>1
  <2>3. b * c <= b * (b - 1)
    BY <2>1, <2>2
  <2>4. b * (b - 1) = b * b - b
    OBVIOUS
  <2> QED
    BY <1>1, <1>6, <2>1, <2>3, <2>4
<1> QED
  BY <1>7

\* Even numbers above 2 are not prime.
LEMMA EvenNotPrime ==
    ASSUME NEW a \in Nat, a > 2, a % 2 = 0 PROVE ~IsPrime(a)
  BY DEF IsPrime

\* What primes.h promises is no more than one number.
LEMMA LargestPrimeIs ==
    ASSUME NEW b \in Int, NEW a \in 2..b, IsPrime(a), \A k \in a + 1..b : ~IsPrime(k)
    PROVE  LargestPrime(b) = a
<1> DEFINE Is(m) == IsPrime(m) /\ \A k \in m + 1..b : ~IsPrime(k)
<1>1. \A m \in 2..b : Is(m) => m = a
  <2> SUFFICES ASSUME NEW m \in 2..b, Is(m) PROVE m = a
    OBVIOUS
  <2>1. ~(m < a) /\ ~(a < m)
    OBVIOUS
  <2> QED
    BY <2>1
<1>2. (CHOOSE m \in 2..b : Is(m)) = a
  <2> HIDE DEF Is
  <2>1. Is(a)
    BY DEF Is
  <2> QED
    BY <1>1, <2>1
<1> QED
  BY <1>2 DEF LargestPrime

-----------------------------------------------------------------------------

\* Inside the division loop: the candidate is odd and has no divisor below d, and what lies
\* between it and the bound is not prime.
Descent ==
    /\ n >= 3 /\ n <= upper_bound /\ n % 2 = 1
    /\ d % 2 = 1
    /\ \A k \in 2..d - 1 : n % k # 0
    /\ \A m \in n + 1..upper_bound : ~IsPrime(m)

IInv ==
    /\ TypeOK
    /\ pc = "call" => n = upper_bound /\ d = 3
    /\ pc = "divide" => Descent
    /\ FindsLargestPrime

\* The divisor tried is below the root, and far from the largest int.
LEMMA DivisorInReach ==
    ASSUME TypeOK, Descent, InReach
    PROVE  d + 2 < n /\ d + 2 \in 3..IntMax
<1> DEFINE q == n \div d
<1>1. n \in Nat /\ d \in Nat \ {0} /\ d >= 3 /\ n <= IntMax
  BY ConstantsAssumption DEF TypeOK, Descent
<1>2. q \in Nat /\ n >= d * q /\ q >= d
  <2>1. q \in Nat /\ n % d \in 0..d - 1 /\ n = d * q + (n % d)
    BY <1>1, Division
  <2> QED
    BY <1>1, <2>1 DEF InReach
<1> HIDE DEF q
<1>3. d * q >= 3 * q
  BY <1>1, <1>2
<1> QED
  BY <1>1, <1>2, <1>3, ConstantsAssumption

LEMMA InitIInv == Init => IInv
  BY ConstantsAssumption DEF Init, IInv, TypeOK, FindsLargestPrime

LEMMA StepIInv == IInv /\ [Next]_vars => IInv'
<1> SUFFICES ASSUME IInv, [Next]_vars PROVE IInv'
  OBVIOUS
<1> USE DEF IInv
<1>1. CASE UNCHANGED vars
  BY <1>1 DEF vars, TypeOK, Descent, FindsLargestPrime
<1>2. CASE Small
  <2>1. upper_bound = n /\ n \in Int /\ n <= 2
    BY <1>2, ConstantsAssumption DEF Small, TypeOK
  <2>2. LargestPrime(upper_bound) = IF n = 2 THEN 2 ELSE 0
    <3>1. CASE n = 2
      BY <2>1, <3>1, LargestPrimeIs DEF IsPrime
    <3>2. CASE n < 2
      BY <2>1, <3>2 DEF LargestPrime
    <3> QED
      BY <2>1, <3>1, <3>2
  <2>3. TypeOK'
    BY <1>2, ConstantsAssumption DEF Small, Return, TypeOK
  <2> QED
    BY <1>2, <2>2, <2>3 DEF Small, Return, FindsLargestPrime
<1>3. CASE FirstOdd
  <2>1. upper_bound = n /\ d = 3 /\ n \in 3..IntMax
    BY <1>3, ConstantsAssumption DEF FirstOdd, TypeOK
  <2>2. TypeOK'
    BY <1>3, <2>1, ConstantsAssumption DEF FirstOdd, TypeOK
  <2>3. Descent'
    <3>1. CASE n % 2 = 0
      <4>1. n' = n - 1 /\ (n - 1) % 2 = 1 /\ n # 3
        BY <1>3, <2>1, <3>1 DEF FirstOdd
      <4>2. ~IsPrime(n)
        BY <2>1, <3>1, EvenNotPrime
      <4> QED
        BY <1>3, <2>1, <4>1, <4>2 DEF FirstOdd, Descent
    <3>2. CASE n % 2 # 0
      <4>1. n' = n /\ n % 2 = 1
        BY <1>3, <2>1, <3>2 DEF FirstOdd
      <4> QED
        BY <1>3, <2>1, <4>1 DEF FirstOdd, Descent
    <3> QED
      BY <3>1, <3>2
  <2> QED
    BY <1>3, <2>2, <2>3 DEF FirstOdd, FindsLargestPrime
<1>4. CASE NextDivisor
  <2>1. Descent /\ d + 2 \in 3..IntMax /\ n \in Nat /\ d \in Nat /\ d >= 3
    BY <1>4, DivisorInReach, ConstantsAssumption DEF NextDivisor, TypeOK, Descent
  <2>2. TypeOK'
    BY <1>4, <2>1 DEF NextDivisor, TypeOK
  <2>3. n % (d + 1) # 0
    <3>1. d + 1 \in Nat \ {0} /\ (d + 1) % 2 = 0
      BY <2>1 DEF Descent
    <3> QED
      BY <2>1, <3>1, EvenDividesNoOdd DEF Descent
  <2>4. \A k \in 2..d + 1 : n % k # 0
    <3> SUFFICES ASSUME NEW k \in 2..d + 1 PROVE n % k # 0
      OBVIOUS
    <3>1. k \in 2..d - 1 \/ k = d \/ k = d + 1
      BY <2>1
    <3>2. n % d # 0 /\ \A x \in 2..d - 1 : n % x # 0
      BY <1>4, <2>1 DEF NextDivisor, Descent
    <3> QED
      BY <2>3, <3>1, <3>2
  <2>5. Descent'
    <3>1. (d + 2) % 2 = 1
      BY <2>1 DEF Descent
    <3> QED
      BY <1>4, <2>1, <2>4, <3>1 DEF NextDivisor, Descent
  <2> QED
    BY <1>4, <2>2, <2>5 DEF NextDivisor, FindsLargestPrime
<1>5. CASE Composite
  <2>1. Descent /\ d + 2 < n /\ n \in Nat /\ d \in Nat /\ d >= 3 /\ upper_bound \in Int
    BY <1>5, DivisorInReach, ConstantsAssumption DEF Composite, TypeOK, Descent
  <2>2. ~IsPrime(n)
    <3>1. n % d = 0 /\ d \in 2..n - 1
      BY <1>5, <2>1 DEF Composite
    <3> QED
      BY <3>1 DEF IsPrime
  <2>3. ~IsPrime(n - 1)
    <3>1. n - 1 \in Nat /\ n - 1 > 2 /\ (n - 1) % 2 = 0
      BY <2>1 DEF Descent
    <3> QED
      BY <3>1, EvenNotPrime
  <2>4. n' = n - 2 /\ d' = 3 /\ (n - 2) % 2 = 1 /\ n - 2 >= 3
    BY <1>5, <2>1 DEF Composite, Descent
  <2>5. TypeOK'
    BY <1>5, <2>1, <2>4, ConstantsAssumption DEF Composite, TypeOK
  <2>6. Descent'
    <3>1. \A m \in n - 1..upper_bound : ~IsPrime(m)
      <4> SUFFICES ASSUME NEW m \in n - 1..upper_bound PROVE ~IsPrime(m)
        OBVIOUS
      <4>1. m = n - 1 \/ m = n \/ m \in n + 1..upper_bound
        BY <2>1
      <4> QED
        BY <2>1, <2>2, <2>3, <4>1 DEF Descent
    <3> QED
      BY <1>5, <2>1, <2>4, <3>1 DEF Composite, Descent
  <2> QED
    BY <1>5, <2>5, <2>6 DEF Composite, FindsLargestPrime
<1>6. CASE Prime
  <2>1. Descent /\ n \in Nat /\ n <= IntMax /\ d \in Nat \ {0} /\ upper_bound \in Int
    BY <1>6, ConstantsAssumption DEF Prime, TypeOK, Descent
  <2>2. n \div d < d
    <3>1. n \div d \in Int
      BY <2>1
    <3> QED
      BY <1>6, <2>1, <3>1 DEF Prime, InReach
  <2>3. IsPrime(n)
    <3>1. n > 1 /\ \A k \in 2..d - 1 : n % k # 0
      BY <2>1 DEF Descent
    <3> QED
      BY <2>1, <2>2, <3>1, NoSmallDivisor
  <2>4. LargestPrime(upper_bound) = n
    BY <2>1, <2>3, LargestPrimeIs DEF Descent
  <2>5. TypeOK'
    BY <1>6, <2>1 DEF Prime, Return, TypeOK
  <2> QED
    BY <1>6, <2>4, <2>5 DEF Prime, Return, FindsLargestPrime
<1> QED
  BY <1>1, <1>2, <1>3, <1>4, <1>5, <1>6 DEF Next

LEMMA InductiveInv == Spec => []IInv
  BY InitIInv, StepIInv, PTL DEF Spec

-----------------------------------------------------------------------------

\* Candidate and divisor stay within int, whatever the bound.
THEOREM TypeCorrect == Spec => []TypeOK
<1>1. IInv => TypeOK
  BY DEF IInv
<1> QED
  BY InductiveInv, <1>1, PTL

\* No prime is skipped and nothing else is taken for one.
THEOREM LargestPrimeFound == Spec => []FindsLargestPrime
<1>1. IInv => FindsLargestPrime
  BY DEF IInv
<1> QED
  BY InductiveInv, <1>1, PTL

=============================================================================
