---- MODULE Primes ----
(***************************************************************************)
(* ethash_find_largest_prime of lib/ethash/primes.c: the search for the    *)
(* largest prime number not greater than a bound, by trial division of     *)
(* descending odd numbers.  IntMax is the largest int; the products of     *)
(* divisors are taken in 64 bits, that is without overflow.                *)
(***************************************************************************)
EXTENDS Integers

CONSTANTS
    Bounds,  \* the arguments callers give
    IntMax   \* bound of int, 2^31 - 1 in the code

ASSUME ConstantsAssumption ==
    /\ IntMax \in Nat \ 0..2
    /\ Bounds \subseteq {b \in Int : -IntMax <= b /\ b <= IntMax}

VARIABLES
    pc,           \* "call", "divide" inside is_odd_prime, or "done"
    upper_bound,
    n,            \* the candidate
    d,            \* the divisor tried
    result

vars == <<pc, upper_bound, n, d, result>>

Init ==
    /\ pc = "call"
    /\ upper_bound \in Bounds
    /\ n = upper_bound
    /\ d = 3
    /\ result = 0

Return(r) ==
    /\ pc' = "done"
    /\ result' = r

\* Nothing below 2 is prime, and 2 is the only even prime.
Small ==
    /\ pc = "call"
    /\ n <= 2
    /\ Return(IF n = 2 THEN 2 ELSE 0)
    /\ UNCHANGED <<upper_bound, n, d>>

\* Wrong variant of FirstOdd: an even bound is rounded up.
FirstOddAbove ==
    /\ pc = "call"
    /\ n > 2
    /\ n' = IF n % 2 = 0 THEN n + 1 ELSE n
    /\ pc' = "divide"
    /\ UNCHANGED <<upper_bound, d, result>>

\* The search begins with the largest odd number.
FirstOdd ==
    /\ pc = "call"
    /\ n > 2
    /\ n' = IF n % 2 = 0 THEN n - 1 ELSE n
    /\ pc' = "divide"
    /\ UNCHANGED <<upper_bound, d, result>>

\* Wrong variant of InReach: d * d < n, which misses the squares of primes.
InReachStrict == d < n \div d

\* d * d <= n
InReach == d <= n \div d

NextDivisor ==
    /\ pc = "divide"
    /\ InReach
    /\ n % d # 0
    /\ d' = d + 2
    /\ UNCHANGED <<pc, upper_bound, n, result>>

\* Wrong variant of Composite: the same candidate is tried again.
CompositeAgain ==
    /\ pc = "divide"
    /\ InReach
    /\ n % d = 0
    /\ d' = 3
    /\ UNCHANGED <<pc, upper_bound, n, result>>

Composite ==
    /\ pc = "divide"
    /\ InReach
    /\ n % d = 0
    /\ n' = n - 2
    /\ d' = 3
    /\ UNCHANGED <<pc, upper_bound, result>>

Prime ==
    /\ pc = "divide"
    /\ ~InReach
    /\ Return(n)
    /\ UNCHANGED <<upper_bound, n, d>>

Next ==
    \/ Small \/ FirstOdd \/ NextDivisor \/ Composite \/ Prime
    \/ pc = "done" /\ UNCHANGED vars

Spec == Init /\ [][Next]_vars

FairSpec == Spec /\ WF_vars(Next)

-----------------------------------------------------------------------------
(* Properties                                                              *)

IsPrime(m) == m > 1 /\ \A k \in 2..m - 1 : m % k # 0

\* What primes.h promises.
LargestPrime(b) ==
    IF b < 2 THEN 0 ELSE CHOOSE m \in 2..b : IsPrime(m) /\ \A k \in m + 1..b : ~IsPrime(k)

\* Types of the variables; n and d stay within int.
TypeOK ==
    /\ pc \in {"call", "divide", "done"}
    /\ upper_bound \in Bounds
    /\ n \in -IntMax..IntMax
    /\ d \in 3..IntMax
    /\ result \in 0..IntMax

\* The answer is the largest prime not greater than the bound, and 0 if there is none:
\* no prime is skipped by the descent in twos nor by the odd divisors up to the root.
FindsLargestPrime == pc = "done" => result = LargestPrime(upper_bound)

\* The search ends.
Terminates == <>(pc = "done")

=============================================================================
