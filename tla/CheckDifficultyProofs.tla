---- MODULE CheckDifficultyProofs ----
(***************************************************************************)
(* check_against_difficulty is the comparison of h * d with 2^256, and the *)
(* comparison of h with the boundary 2^256 / d, for any width of words and *)
(* any number of them.                                                     *)
(***************************************************************************)
EXTENDS CheckDifficulty, WellFoundedInduction, TLAPS

-----------------------------------------------------------------------------
(* Induction and recursion on the natural numbers, up to a bound.          *)

\* Every nonempty set of natural numbers has a least element.
LEMMA LeastNumber ==
    ASSUME NEW T, T \subseteq Nat, T # {}
    PROVE  \E x \in T : \A y \in T : x <= y
<1> DEFINE Less == {e \in Nat \X Nat : e[1] < e[2]}
<1>1. OpToRel(<, Nat) = Less
  BY Zenon DEF OpToRel
<1>2. IsWellFoundedOn(Less, Nat)
  BY <1>1, NatLessThanWellFounded, Zenon
<1>3. PICK x \in T : \A y \in T : <<y, x>> \notin Less
  <2> HIDE DEF Less
  <2> QED
    BY <1>2, WFMin
<1>4. \A y \in T : ~(y < x)
  BY <1>3
<1> QED
  BY <1>4

\* Induction for a set: what holds of 0, and passes from n to n + 1, holds up to the bound.
LEMMA Induction ==
    ASSUME NEW bound \in Nat, NEW S, 0 \in S, \A n \in 0..bound - 1 : n \in S => n + 1 \in S
    PROVE  0..bound \subseteq S
<1> DEFINE Bad == {n \in 0..bound : n \notin S}
<1> SUFFICES ASSUME Bad # {} PROVE FALSE
  OBVIOUS
<1>1. PICK n \in Bad : \A m \in Bad : n <= m
  <2>1. Bad \subseteq Nat
    OBVIOUS
  <2> HIDE DEF Bad
  <2> QED
    BY <2>1, LeastNumber
<1>2. n \in 0..bound /\ n \notin S /\ n # 0
  OBVIOUS
<1>3. n - 1 \in 0..bound - 1 /\ (n - 1) + 1 = n
  BY <1>2
<1>4. n - 1 \notin Bad
  <2> HIDE DEF Bad
  <2> QED
    BY <1>1, <1>2, <1>3
<1>5. n - 1 \in S
  BY <1>3, <1>4
<1> QED
  BY <1>2, <1>3, <1>5

-----------------------------------------------------------------------------
(* The linear recursion of Power, Value and BigEndian.                     *)

Go(m, v, w) == m * v + w

LEMMA GoType == \A m \in Int, v \in Int, w \in Int : Go(m, v, w) \in Int
  BY DEF Go

\* s solves the recursion of Linear(a, m, c, n).
Recursive(a, m, c, n, s) ==
    /\ s \in [0..n -> Int]
    /\ s[0] = a
    /\ \A x \in 0..n - 1 : s[x + 1] = Go(m, s[x], c[x])

Coefficients(c, n) == \A x \in 0..n - 1 : c[x] \in Int

LEMMA RecursionExists ==
    ASSUME NEW a \in Int, NEW m \in Int, NEW n \in Nat, NEW c, Coefficients(c, n)
    PROVE  \E s : Recursive(a, m, c, n, s)
<1> DEFINE S == {l \in 0..n : \E s : Recursive(a, m, c, l, s)}
<1>1. 0 \in S
  <2>1. Recursive(a, m, c, 0, [x \in 0..0 |-> a])
    BY DEF Recursive
  <2> QED
    BY <2>1
<1>2. ASSUME NEW l \in 0..n - 1, l \in S PROVE l + 1 \in S
  <2>1. PICK s : Recursive(a, m, c, l, s)
    BY <1>2
  <2> DEFINE t == [x \in 0..l + 1 |-> IF x = l + 1 THEN Go(m, s[l], c[l]) ELSE s[x]]
  <2>2. s \in [0..l -> Int] /\ Go(m, s[l], c[l]) \in Int
    <3>1. s \in [0..l -> Int] /\ l \in 0..l /\ c[l] \in Int
      BY <2>1 DEF Recursive, Coefficients
    <3>2. s[l] \in Int
      BY <3>1
    <3> QED
      BY <3>1, <3>2, GoType
  <2>3. t \in [0..l + 1 -> Int] /\ t[0] = a
    BY <2>1, <2>2 DEF Recursive
  <2>4. /\ \A x \in 0..l : t[x] = s[x]
        /\ t[l + 1] = Go(m, s[l], c[l])
    OBVIOUS
  <2> HIDE DEF t
  <2>5. ASSUME NEW x \in 0..l PROVE t[x + 1] = Go(m, t[x], c[x])
    <3>1. CASE x = l
      BY <2>4, <3>1
    <3>2. CASE x # l
      <4>1. x \in 0..l - 1 /\ x + 1 \in 0..l
        BY <3>2
      <4> QED
        BY <2>1, <2>4, <4>1 DEF Recursive
    <3> QED
      BY <3>1, <3>2
  <2>6. Recursive(a, m, c, l + 1, t)
    <3>1. (l + 1) - 1 = l
      OBVIOUS
    <3> QED
      BY <2>3, <2>5, <3>1 DEF Recursive
  <2> QED
    BY <2>6
<1>3. 0..n \subseteq S
  <2> HIDE DEF S
  <2> QED
    BY <1>1, <1>2, Induction
<1> QED
  BY <1>3

\* Solutions of different length go through the same numbers.
LEMMA RecursionUnique ==
    ASSUME NEW a, NEW m, NEW n \in Nat, NEW l \in 0..n, NEW c, NEW e,
           \A x \in 0..l - 1 : c[x] = e[x],
           NEW s, Recursive(a, m, c, n, s), NEW t, Recursive(a, m, e, l, t)
    PROVE  s[l] = t[l]
<1> DEFINE S == {x \in 0..l : s[x] = t[x]}
<1>1. 0 \in S
  BY DEF Recursive
<1>2. ASSUME NEW x \in 0..l - 1, x \in S PROVE x + 1 \in S
  <2>1. s[x] = t[x] /\ c[x] = e[x] /\ x + 1 \in 0..l /\ x \in 0..n - 1
    BY <1>2
  <2>2. s[x + 1] = Go(m, s[x], c[x]) /\ t[x + 1] = Go(m, t[x], e[x])
    BY <2>1 DEF Recursive
  <2> QED
    BY <2>1, <2>2
<1>3. 0..l \subseteq S
  <2> HIDE DEF S
  <2> QED
    BY <1>1, <1>2, Induction
<1> QED
  BY <1>3

\* Linear is where its solution ends.
LEMMA LinearIsRecursive ==
    ASSUME NEW a \in Int, NEW m \in Int, NEW n \in Nat, NEW c, Coefficients(c, n)
    PROVE  \E s : Recursive(a, m, c, n, s) /\ Linear(a, m, c, n) = s[n]
<1> DEFINE Solves(s) == s = [x \in 0..n |-> IF x = 0 THEN a ELSE Go(m, s[x - 1], c[x - 1])]
           g == CHOOSE s : Solves(s)
<1>1. \E s : Solves(s)
  <2>1. PICK s : Recursive(a, m, c, n, s)
    BY RecursionExists
  <2>2. ASSUME NEW x \in 0..n PROVE s[x] = IF x = 0 THEN a ELSE Go(m, s[x - 1], c[x - 1])
    <3>1. CASE x = 0
      BY <2>1, <3>1 DEF Recursive
    <3>2. CASE x # 0
      <4>1. x - 1 \in 0..n - 1 /\ (x - 1) + 1 = x
        BY <3>2
      <4> QED
        BY <2>1, <3>2, <4>1 DEF Recursive
    <3> QED
      BY <3>1, <3>2
  <2>3. Solves(s)
    BY <2>1, <2>2 DEF Recursive
  <2> QED
    BY <2>3
<1>2. Linear(a, m, c, n) = g[n]
  BY Zenon DEF Linear, Go
<1>3. Solves(g)
  BY <1>1
<1> HIDE DEF g
<1>4. /\ g[0] = a /\ g = [x \in 0..n |-> g[x]]
      /\ \A x \in 0..n - 1 : g[x + 1] = Go(m, g[x], c[x])
  <2>1. \A x \in 0..n : g[x] = IF x = 0 THEN a ELSE Go(m, g[x - 1], c[x - 1])
    BY <1>3
  <2>2. ASSUME NEW x \in 0..n - 1 PROVE g[x + 1] = Go(m, g[x], c[x])
    <3>1. x + 1 \in 0..n /\ x + 1 # 0 /\ (x + 1) - 1 = x
      OBVIOUS
    <3> QED
      BY <2>1, <3>1
  <2>3. g[0] = a
    BY <2>1
  <2> QED
    BY <1>3, <2>2, <2>3
<1>5. g \in [0..n -> Int]
  <2> DEFINE S == {x \in 0..n : g[x] \in Int}
  <2>1. 0 \in S
    BY <1>4
  <2>2. ASSUME NEW x \in 0..n - 1, x \in S PROVE x + 1 \in S
    <3>1. g[x] \in Int /\ c[x] \in Int /\ x + 1 \in 0..n
      BY <2>2 DEF Coefficients
    <3>2. g[x + 1] = Go(m, g[x], c[x])
      BY <1>4
    <3>3. Go(m, g[x], c[x]) \in Int
      BY <3>1, GoType
    <3> QED
      BY <3>1, <3>2, <3>3
  <2>3. 0..n \subseteq S
    <3> HIDE DEF S
    <3> QED
      BY <2>1, <2>2, Induction
  <2> QED
    BY <1>4, <2>3
<1> QED
  BY <1>2, <1>4, <1>5 DEF Recursive

\* What Linear computes, without recursion.
LEMMA LinearFacts ==
    ASSUME NEW a \in Int, NEW m \in Int, NEW n \in Nat, NEW c, Coefficients(c, n)
    PROVE  /\ Linear(a, m, c, n) \in Int
           /\ n = 0 => Linear(a, m, c, n) = a
<1>1. PICK s : Recursive(a, m, c, n, s) /\ Linear(a, m, c, n) = s[n]
  BY LinearIsRecursive
<1> QED
  BY <1>1 DEF Recursive

LEMMA LinearStep ==
    ASSUME NEW a \in Int, NEW m \in Int, NEW l \in Nat, NEW c, Coefficients(c, l + 1)
    PROVE  Linear(a, m, c, l + 1) = m * Linear(a, m, c, l) + c[l]
<1>1. l + 1 \in Nat /\ l \in 0..(l + 1) - 1 /\ l \in 0..l + 1 /\ Coefficients(c, l)
  BY DEF Coefficients
<1>2. PICK s : Recursive(a, m, c, l + 1, s) /\ Linear(a, m, c, l + 1) = s[l + 1]
  BY <1>1, LinearIsRecursive
<1>3. PICK t : Recursive(a, m, c, l, t) /\ Linear(a, m, c, l) = t[l]
  BY <1>1, LinearIsRecursive
<1>4. s[l] = t[l]
  BY <1>1, <1>2, <1>3, RecursionUnique
<1>5. s[l + 1] = Go(m, s[l], c[l])
  BY <1>1, <1>2 DEF Recursive
<1> QED
  BY <1>2, <1>3, <1>4, <1>5 DEF Go

\* The same coefficients give the same number.
LEMMA LinearSame ==
    ASSUME NEW a \in Int, NEW m \in Int, NEW n \in Nat, NEW c, NEW e, Coefficients(c, n),
           \A x \in 0..n - 1 : c[x] = e[x]
    PROVE  Linear(a, m, c, n) = Linear(a, m, e, n)
<1>1. Coefficients(e, n)
  BY DEF Coefficients
<1>2. PICK s : Recursive(a, m, c, n, s) /\ Linear(a, m, c, n) = s[n]
  BY LinearIsRecursive
<1>3. PICK t : Recursive(a, m, e, n, t) /\ Linear(a, m, e, n) = t[n]
  BY <1>1, LinearIsRecursive
<1> QED
  BY <1>2, <1>3, RecursionUnique

-----------------------------------------------------------------------------
(* Powers.                                                                 *)

LEMMA PowerFacts ==
    ASSUME NEW b \in Int, NEW n \in Nat
    PROVE  /\ Power(b, n) \in Int /\ Power(b, 0) = 1
           /\ Power(b, n + 1) = b * Power(b, n)
<1> DEFINE zeros(l) == [x \in 0..l - 1 |-> 0]
<1>1. ASSUME NEW l \in Nat PROVE Coefficients(zeros(l), l)
  BY DEF Coefficients
<1>2. \A l \in Nat : Power(b, l) = Linear(1, b, zeros(l), l)
  BY DEF Power
<1>3. zeros(n + 1)[n] = 0 /\ \A x \in 0..n - 1 : zeros(n + 1)[x] = zeros(n)[x]
  OBVIOUS
<1> HIDE DEF zeros
<1>4. Linear(1, b, zeros(n), n) \in Int
  BY <1>1, LinearFacts, 1 \in Int
<1>5. Linear(1, b, zeros(0), 0) = 1
  BY <1>1, LinearFacts, 1 \in Int, 0 \in Nat
<1>6. Linear(1, b, zeros(n + 1), n) = Linear(1, b, zeros(n), n)
  BY <1>1, <1>3, LinearSame, 1 \in Int
<1>7. Linear(1, b, zeros(n + 1), n + 1) = b * Linear(1, b, zeros(n + 1), n) + zeros(n + 1)[n]
  BY <1>1, LinearStep, 1 \in Int
<1>8. Power(b, n + 1) = b * Power(b, n)
  <2>1. Power(b, n + 1) = b * Power(b, n) + 0 /\ Power(b, n) \in Int
    BY <1>2, <1>3, <1>4, <1>6, <1>7
  <2> QED
    BY <2>1
<1> QED
  BY <1>2, <1>4, <1>5, <1>8

LEMMA PowerPositive ==
    ASSUME NEW b \in Nat \ {0}, NEW n \in Nat PROVE Power(b, n) \in Nat \ {0}
<1> DEFINE S == {l \in 0..n : Power(b, l) >= 1}
<1>1. 0 \in S
  BY PowerFacts
<1>2. ASSUME NEW l \in 0..n - 1, l \in S PROVE l + 1 \in S
  <2>1. Power(b, l) \in Int /\ Power(b, l) >= 1 /\ Power(b, l + 1) = b * Power(b, l)
    BY <1>2, PowerFacts
  <2>2. b * Power(b, l) >= 1
    BY <2>1
  <2> QED
    BY <2>1, <2>2
<1>3. 0..n \subseteq S
  <2> HIDE DEF S
  <2> QED
    BY <1>1, <1>2, Induction
<1> QED
  BY <1>3, PowerFacts

LEMMA PowerSum ==
    ASSUME NEW b \in Int, NEW n \in Nat, NEW m \in Nat
    PROVE  Power(b, m + n) = Power(b, m) * Power(b, n)
<1> DEFINE S == {l \in 0..n : Power(b, m + l) = Power(b, m) * Power(b, l)}
<1>1. 0 \in S
  BY PowerFacts
<1>2. ASSUME NEW l \in 0..n - 1, l \in S PROVE l + 1 \in S
  <2>1. /\ Power(b, m + l) = Power(b, m) * Power(b, l)
        /\ Power(b, m) \in Int /\ Power(b, l) \in Int
        /\ Power(b, l + 1) = b * Power(b, l)
        /\ Power(b, (m + l) + 1) = b * Power(b, m + l)
    <3>1. l \in Nat /\ m + l \in Nat
      OBVIOUS
    <3> QED
      BY <1>2, <3>1, PowerFacts
  <2>2. b * (Power(b, m) * Power(b, l)) = Power(b, m) * (b * Power(b, l))
    BY <2>1
  <2>3. (m + l) + 1 = m + (l + 1) /\ l + 1 \in 0..n
    OBVIOUS
  <2> QED
    BY <2>1, <2>2, <2>3
<1>3. 0..n \subseteq S
  <2> HIDE DEF S
  <2> QED
    BY <1>1, <1>2, Induction
<1> QED
  BY <1>3

-----------------------------------------------------------------------------
(* The number made of words.                                               *)

LEMMA ValueFacts ==
    ASSUME NEW f, NEW n \in Nat, Coefficients(f, n)
    PROVE  /\ Value(f, n) \in Int
           /\ n = 0 => Value(f, n) = 0
<1> DEFINE c == [x \in 0..n - 1 |-> f[x] * Power(Base, x)]
<1>1. Value(f, n) = Linear(0, 1, c, n)
  BY DEF Value
<1>2. Coefficients(c, n)
  <2> SUFFICES ASSUME NEW x \in 0..n - 1 PROVE f[x] * Power(Base, x) \in Int
    BY DEF Coefficients
  <2>1. f[x] \in Int /\ Power(Base, x) \in Int
    BY PowerFacts, ConstantsAssumption DEF Coefficients, Base
  <2> QED
    BY <2>1
<1> HIDE DEF c
<1> DEFINE zero == 0
           one == 1
<1>3. zero \in Int /\ one \in Int /\ zero = 0 /\ Value(f, n) = Linear(zero, one, c, n)
  BY <1>1
<1> HIDE DEF zero, one
<1> QED
  BY <1>2, <1>3, LinearFacts

LEMMA ValueStep ==
    ASSUME NEW f, NEW l \in Nat, Coefficients(f, l + 1)
    PROVE  Value(f, l + 1) = Value(f, l) + f[l] * Power(Base, l)
<1> DEFINE c(n) == [x \in 0..n - 1 |-> f[x] * Power(Base, x)]
<1>1. \A n \in Nat : Value(f, n) = Linear(0, 1, c(n), n)
  BY DEF Value
<1>2. ASSUME NEW x \in 0..l PROVE f[x] * Power(Base, x) \in Int
  <2>1. f[x] \in Int /\ Power(Base, x) \in Int
    <3>1. x \in 0..(l + 1) - 1 /\ x \in Nat /\ Base \in Int
      BY ConstantsAssumption DEF Base
    <3> QED
      BY <3>1, PowerFacts DEF Coefficients
  <2> QED
    BY <2>1
<1>3. /\ Coefficients(c(l + 1), l + 1) /\ Coefficients(c(l + 1), l)
      /\ \A x \in 0..l - 1 : c(l + 1)[x] = c(l)[x]
      /\ c(l + 1)[l] = f[l] * Power(Base, l)
  BY <1>2 DEF Coefficients
<1> HIDE DEF c
<1> DEFINE zero == 0
           one == 1
<1>4. zero \in Int /\ one \in Int /\ \A v \in Int : one * v = v
  OBVIOUS
<1>5. \A n \in Nat : Value(f, n) = Linear(zero, one, c(n), n)
  BY <1>1
<1> HIDE DEF zero, one
<1>6. Linear(zero, one, c(l + 1), l + 1) = one * Linear(zero, one, c(l + 1), l) + c(l + 1)[l]
  BY <1>3, <1>4, LinearStep
<1>7. Linear(zero, one, c(l + 1), l) \in Int
  BY <1>3, <1>4, LinearFacts
<1>8. Linear(zero, one, c(l + 1), l) = Linear(zero, one, c(l), l)
  BY <1>3, <1>4, LinearSame
<1> QED
  BY <1>3, <1>4, <1>5, <1>6, <1>7, <1>8

LEMMA BaseFacts ==
    /\ HalfBase \in Nat \ {0, 1} /\ Base \in Nat \ {0, 1} /\ Base = HalfBase * HalfBase
    /\ NumWords \in Nat \ {0}
    /\ \A v \in Word : v \in Nat /\ v < Base
<1>1. HalfBase \in Nat /\ HalfBase >= 2
  BY ConstantsAssumption
<1>2. HalfBase * HalfBase >= 2 * HalfBase
  BY <1>1
<1> QED
  BY <1>1, <1>2, ConstantsAssumption DEF Base, Word

\* Words up to n make a number below the weight of word n.
LEMMA ValueBound ==
    ASSUME NEW f, NEW n \in Nat, \A x \in 0..n - 1 : f[x] \in Word
    PROVE  Value(f, n) \in Nat /\ Value(f, n) < Power(Base, n)
<1> DEFINE S == {l \in 0..n : Value(f, l) \in Nat /\ Value(f, l) < Power(Base, l)}
<1>1. 0 \in S
  <2>1. Coefficients(f, 0) /\ 0 \in Nat /\ Base \in Int
    BY BaseFacts DEF Coefficients
  <2>2. Value(f, 0) = 0
    BY <2>1, ValueFacts
  <2>3. Power(Base, 0) = 1
    BY <2>1, PowerFacts
  <2> QED
    BY <2>2, <2>3
<1>2. ASSUME NEW l \in 0..n - 1, l \in S PROVE l + 1 \in S
  <2>1. /\ l \in Nat /\ Coefficients(f, l + 1) /\ f[l] \in Nat /\ f[l] < Base
        /\ l + 1 \in 0..n /\ Base \in Int /\ Base \in Nat \ {0}
    BY BaseFacts DEF Coefficients
  <2>2. /\ Value(f, l + 1) = Value(f, l) + f[l] * Power(Base, l)
        /\ Power(Base, l + 1) = Base * Power(Base, l) /\ Power(Base, l) \in Nat \ {0}
        /\ Value(f, l) \in Nat /\ Value(f, l) < Power(Base, l)
    <3>1. Value(f, l + 1) = Value(f, l) + f[l] * Power(Base, l)
      BY <2>1, ValueStep
    <3>2. Power(Base, l + 1) = Base * Power(Base, l)
      BY <2>1, PowerFacts
    <3>3. Power(Base, l) \in Nat \ {0}
      BY <2>1, PowerPositive
    <3>4. Value(f, l) \in Nat /\ Value(f, l) < Power(Base, l)
      BY <1>2
    <3> QED
      BY <3>1, <3>2, <3>3, <3>4
  <2> DEFINE w == Power(Base, l)
             v == Value(f, l)
             y == f[l]
  <2>3. w \in Nat \ {0} /\ v \in Nat /\ v < w /\ y \in Nat /\ y < Base
    BY <2>1, <2>2
  <2> HIDE DEF w, v, y
  <2>4. (y + 1) * w <= Base * w /\ (y + 1) * w = y * w + w /\ y * w \in Nat
    BY <2>3, BaseFacts
  <2>5. v + y * w \in Nat /\ v + y * w < Base * w
    BY <2>3, <2>4, BaseFacts
  <2> QED
    BY <2>1, <2>2, <2>5 DEF w, v, y
<1>3. 0..n \subseteq S
  <2> HIDE DEF S
  <2> QED
    BY <1>1, <1>2, Induction
<1>4. n \in 0..n
  OBVIOUS
<1> QED
  BY <1>3, <1>4

\* Only the first n words count.
LEMMA ValueSame ==
    ASSUME NEW f, NEW g, NEW n \in Nat, Coefficients(f, n), \A x \in 0..n - 1 : f[x] = g[x]
    PROVE  Value(f, n) = Value(g, n)
<1>1. [x \in 0..n - 1 |-> f[x] * Power(Base, x)] = [x \in 0..n - 1 |-> g[x] * Power(Base, x)]
  OBVIOUS
<1> QED
  BY <1>1, Zenon DEF Value

\* A word that is replaced counts with its weight.
LEMMA ValueUpdate ==
    ASSUME NEW f, NEW g, NEW n \in Nat, NEW t \in 0..n - 1,
           Coefficients(f, n), g[t] \in Int, \A x \in (0..n - 1) \ {t} : g[x] = f[x]
    PROVE  Value(g, n) = Value(f, n) + (g[t] - f[t]) * Power(Base, t)
<1> DEFINE delta == (g[t] - f[t]) * Power(Base, t)
           S == {l \in 0..n : Value(g, l) = IF l <= t THEN Value(f, l) ELSE Value(f, l) + delta}
<1>0. f[t] \in Int /\ Power(Base, t) \in Int /\ Coefficients(g, n)
  <2>1. f[t] \in Int /\ t \in Nat /\ Base \in Int
    BY BaseFacts DEF Coefficients
  <2>2. Power(Base, t) \in Int
    BY <2>1, PowerFacts
  <2>3. ASSUME NEW x \in 0..n - 1 PROVE g[x] \in Int
    <3>1. CASE x = t
      BY <3>1
    <3>2. CASE x # t
      BY <3>2 DEF Coefficients
    <3> QED
      BY <3>1, <3>2
  <2> QED
    BY <2>1, <2>2, <2>3 DEF Coefficients
<1>1. 0 \in S
  <2>1. Coefficients(f, 0) /\ Coefficients(g, 0) /\ 0 \in Nat /\ 0 <= t
    BY DEF Coefficients
  <2>2. Value(f, 0) = 0 /\ Value(g, 0) = 0
    BY <2>1, ValueFacts
  <2> QED
    BY <2>1, <2>2
<1>2. ASSUME NEW l \in 0..n - 1, l \in S PROVE l + 1 \in S
  <2>1. l \in Nat /\ Coefficients(f, l + 1) /\ Coefficients(g, l + 1) /\ l + 1 \in 0..n
        /\ Coefficients(f, l) /\ f[l] \in Int /\ g[l] \in Int
    BY <1>0 DEF Coefficients
  <2>2. /\ Value(f, l + 1) = Value(f, l) + f[l] * Power(Base, l)
        /\ Value(g, l + 1) = Value(g, l) + g[l] * Power(Base, l)
        /\ Value(f, l) \in Int /\ Power(Base, l) \in Int
    <3>1. /\ Value(f, l + 1) = Value(f, l) + f[l] * Power(Base, l)
          /\ Value(g, l + 1) = Value(g, l) + g[l] * Power(Base, l)
      BY <2>1, ValueStep
    <3>2. Value(f, l) \in Int
      BY <2>1, ValueFacts
    <3>3. Power(Base, l) \in Int
      BY <2>1, PowerFacts, BaseFacts
    <3> QED
      BY <3>1, <3>2, <3>3
  <2>3. CASE l < t
    BY <1>2, <2>1, <2>2, <2>3
  <2>4. CASE l = t
    <3>1. Value(g, l) = Value(f, l)
      BY <1>2, <2>4
    <3>2. (g[l] - f[l]) * Power(Base, l) = g[l] * Power(Base, l) - f[l] * Power(Base, l)
      BY <2>1, <2>2
    <3>3. Value(g, l + 1) = Value(f, l + 1) + delta
      BY <2>1, <2>2, <2>4, <3>1, <3>2
    <3> QED
      BY <2>1, <2>4, <3>3
  <2>5. CASE l > t
    <3>1. Value(g, l) = Value(f, l) + delta /\ g[l] = f[l] /\ delta \in Int
      BY <1>0, <1>2, <2>5
    <3> HIDE DEF delta
    <3>2. f[l] * Power(Base, l) \in Int
      BY <2>1, <2>2
    <3>3. Value(g, l + 1) = Value(f, l + 1) + delta
      BY <2>2, <3>1, <3>2
    <3> QED
      BY <2>1, <2>5, <3>3
  <2> QED
    BY <2>3, <2>4, <2>5
<1>3. 0..n \subseteq S
  <2> HIDE DEF S
  <2> QED
    BY <1>1, <1>2, Induction
<1>4. n \in 0..n /\ ~(n <= t)
  OBVIOUS
<1> QED
  BY <1>3, <1>4

\* A number is zero if its words are.
LEMMA ValueZero ==
    ASSUME NEW f, NEW n \in Nat, \A x \in 0..n - 1 : f[x] \in Word
    PROVE  Value(f, n) = 0 <=> \A x \in 0..n - 1 : f[x] = 0
<1> DEFINE S == {l \in 0..n : Value(f, l) = 0 <=> \A x \in 0..l - 1 : f[x] = 0}
<1>1. 0 \in S
  <2>1. Coefficients(f, 0) /\ 0 \in Nat /\ \A x \in 0..0 - 1 : f[x] = 0
    BY DEF Coefficients
  <2>2. Value(f, 0) = 0
    BY <2>1, ValueFacts
  <2> QED
    BY <2>1, <2>2
<1>2. ASSUME NEW l \in 0..n - 1, l \in S PROVE l + 1 \in S
  <2>1. /\ l \in Nat /\ l + 1 \in 0..n /\ Base \in Nat \ {0}
        /\ Coefficients(f, l + 1) /\ f[l] \in Nat
        /\ \A x \in 0..l - 1 : f[x] \in Word
    BY BaseFacts DEF Coefficients
  <2>2. Value(f, l + 1) = Value(f, l) + f[l] * Power(Base, l)
    BY <2>1, ValueStep
  <2>3. Value(f, l) \in Nat
    BY <2>1, ValueBound
  <2>4. Power(Base, l) \in Nat \ {0}
    BY <2>1, PowerPositive
  <2> DEFINE w == Power(Base, l)
             v == Value(f, l)
             y == f[l]
  <2>5. w \in Nat \ {0} /\ v \in Nat /\ y \in Nat
    BY <2>1, <2>3, <2>4
  <2>6. v + y * w = 0 <=> v = 0 /\ y = 0
    <3> HIDE DEF w, v, y
    <3>1. CASE y = 0
      BY <2>5, <3>1
    <3>2. CASE y # 0
      <4>1. y * w >= 1
        BY <2>5, <3>2
      <4>2. y * w \in Nat
        BY <2>5
      <4> QED
        BY <2>5, <3>2, <4>1, <4>2
    <3> QED
      BY <3>1, <3>2
  <2>7. (\A x \in 0..(l + 1) - 1 : f[x] = 0) <=> (\A x \in 0..l - 1 : f[x] = 0) /\ f[l] = 0
    <3>1. 0..(l + 1) - 1 = (0..l - 1) \cup {l}
      BY <2>1
    <3> QED
      BY <3>1
  <2>8. Value(f, l) = 0 <=> \A x \in 0..l - 1 : f[x] = 0
    BY <1>2
  <2>9. Value(f, l + 1) = 0 <=> Value(f, l) = 0 /\ f[l] = 0
    BY <2>2, <2>6
  <2>10. Value(f, l + 1) = 0 <=> \A x \in 0..(l + 1) - 1 : f[x] = 0
    BY <2>7, <2>8, <2>9, Zenon
  <2> QED
    BY <2>1, <2>10
<1>3. 0..n \subseteq S
  <2> HIDE DEF S
  <2> QED
    BY <1>1, <1>2, Induction
<1>4. n \in 0..n
  OBVIOUS
<1> QED
  BY <1>3, <1>4

\* The n words of f from word m on.
Upper(f, m, n) == [x \in 0..n - 1 |-> f[m + x]]

\* A number is its lower words and, with their weight, its upper ones.
LEMMA ValueSplit ==
    ASSUME NEW f, NEW m \in Nat, NEW n \in Nat, Coefficients(f, m + n)
    PROVE  Value(f, m + n) = Value(f, m) + Power(Base, m) * Value(Upper(f, m, n), n)
<1> DEFINE g == [x \in 0..n - 1 |-> f[m + x]]
           S == {l \in 0..n : Value(f, m + l) = Value(f, m) + Power(Base, m) * Value(g, l)}
<1>0. /\ \A x \in 0..n - 1 : g[x] = f[m + x]
      /\ Coefficients(g, n) /\ Coefficients(f, m) /\ Base \in Int
      /\ \A x \in 0..n - 1 : f[m + x] \in Int
  <2>1. \A x \in 0..n - 1 : m + x \in 0..(m + n) - 1
    OBVIOUS
  <2>2. \A x \in 0..m - 1 : x \in 0..(m + n) - 1
    OBVIOUS
  <2> QED
    BY <2>1, <2>2, BaseFacts DEF Coefficients
<1> HIDE DEF g
<1>01. Value(f, m) \in Int
  BY <1>0, ValueFacts
<1>02. Power(Base, m) \in Int
  BY <1>0, PowerFacts
<1>1. 0 \in S
  <2>1. Coefficients(g, 0) /\ 0 \in Nat /\ m + 0 = m
    BY DEF Coefficients
  <2>2. Value(g, 0) = 0
    BY <2>1, ValueFacts
  <2> QED
    BY <1>01, <1>02, <2>1, <2>2
<1>2. ASSUME NEW l \in 0..n - 1, l \in S PROVE l + 1 \in S
  <2>1. /\ l \in Nat /\ l + 1 \in 0..n /\ m + l \in Nat /\ (m + l) + 1 = m + (l + 1)
        /\ Coefficients(f, (m + l) + 1) /\ Coefficients(g, l + 1) /\ Coefficients(g, l)
        /\ g[l] = f[m + l] /\ g[l] \in Int
    BY <1>0 DEF Coefficients
  <2>2. Value(f, (m + l) + 1) = Value(f, m + l) + f[m + l] * Power(Base, m + l)
    BY <2>1, ValueStep
  <2>3. Value(g, l + 1) = Value(g, l) + g[l] * Power(Base, l)
    BY <2>1, ValueStep
  <2>4. Power(Base, m + l) = Power(Base, m) * Power(Base, l)
    BY <1>0, <2>1, PowerSum
  <2>5. Power(Base, l) \in Int
    BY <1>0, <2>1, PowerFacts
  <2>6. Value(g, l) \in Int
    BY <2>1, ValueFacts
  <2>7. Value(f, m + l) = Value(f, m) + Power(Base, m) * Value(g, l)
    BY <1>2
  <2> DEFINE a == Value(f, m)
             b == Power(Base, m)
             c == Power(Base, l)
             v == Value(g, l)
             y == g[l]
  <2>8. a \in Int /\ b \in Int /\ c \in Int /\ v \in Int /\ y \in Int
    BY <1>01, <1>02, <2>1, <2>5, <2>6
  <2>9. (a + b * v) + y * (b * c) = a + b * (v + y * c)
    <3> HIDE DEF a, b, c, v, y
    <3> QED
      BY <2>8
  <2>10. Value(f, m + (l + 1)) = Value(f, m) + Power(Base, m) * Value(g, l + 1)
    BY <2>1, <2>2, <2>3, <2>4, <2>7, <2>9
  <2> QED
    BY <2>1, <2>10
<1>3. 0..n \subseteq S
  <2> HIDE DEF S
  <2> QED
    BY <1>1, <1>2, Induction
<1>4. n \in 0..n
  OBVIOUS
<1>5. Upper(f, m, n) = g
  BY DEF Upper, g
<1> QED
  BY <1>3, <1>4, <1>5

\* Two powers side by side.
LEMMA PowerProduct ==
    ASSUME NEW a \in Int, NEW n \in Nat
    PROVE  Power(a * a, n) = Power(a, 2 * n)
<1> DEFINE S == {l \in 0..n : Power(a * a, l) = Power(a, 2 * l)}
<1>0. a * a \in Int
  OBVIOUS
<1>1. 0 \in S
  <2>1. 0 \in Nat /\ 2 * 0 = 0
    OBVIOUS
  <2>2. Power(a * a, 0) = 1 /\ Power(a, 0) = 1
    BY <1>0, <2>1, PowerFacts
  <2> QED
    BY <2>1, <2>2
<1>2. ASSUME NEW l \in 0..n - 1, l \in S PROVE l + 1 \in S
  <2> DEFINE e == 2 * l
  <2>1. l \in Nat /\ l + 1 \in 0..n /\ e \in Nat /\ e + 1 \in Nat /\ 2 * (l + 1) = (e + 1) + 1
    OBVIOUS
  <2>2. Power(a * a, l + 1) = (a * a) * Power(a * a, l)
    BY <1>0, <2>1, PowerFacts
  <2> HIDE DEF e
  <2>3. Power(a, e) \in Int /\ Power(a, e + 1) = a * Power(a, e)
    BY <2>1, PowerFacts
  <2>4. Power(a, (e + 1) + 1) = a * Power(a, e + 1)
    BY <2>1, PowerFacts
  <2>5. (a * a) * Power(a, e) = a * (a * Power(a, e))
    BY <2>3
  <2>6. Power(a * a, l) = Power(a, e)
    BY <1>2 DEF e
  <2>7. Power(a * a, l + 1) = Power(a, 2 * (l + 1))
    BY <2>1, <2>2, <2>3, <2>4, <2>5, <2>6
  <2> QED
    BY <2>1, <2>7
<1>3. 0..n \subseteq S
  <2> HIDE DEF S
  <2> QED
    BY <1>1, <1>2, Induction
<1>4. n \in 0..n
  OBVIOUS
<1> QED
  BY <1>3, <1>4

-----------------------------------------------------------------------------
(* Words and half words.                                                   *)

LEMMA DivisionFacts ==
    ASSUME NEW v \in Nat, NEW m \in Nat \ {0}
    PROVE  /\ v \div m \in Nat /\ v % m \in 0..m - 1
           /\ v = m * (v \div m) + (v % m)
  OBVIOUS

\* Quotient and remainder are the only ones.
LEMMA DivisionUnique ==
    ASSUME NEW q \in Nat, NEW m \in Nat \ {0}, NEW r \in 0..m - 1
    PROVE  (m * q + r) \div m = q /\ (m * q + r) % m = r
<1> DEFINE v == m * q + r
           e == v \div m
           s == v % m
<1>1. v \in Nat
  <2>1. m * q \in Nat
    OBVIOUS
  <2> QED
    BY <2>1
<1>2. e \in Nat /\ s \in Nat /\ s < m /\ v = m * e + s
  <2> HIDE DEF v
  <2> QED
    BY <1>1, DivisionFacts
<1> SUFFICES e = q /\ s = r
  OBVIOUS
<1>3. m * e + s = m * q + r
  BY <1>2
<1> HIDE DEF e, s
<1>4. ASSUME e < q PROVE FALSE
  <2>1. m * (e + 1) <= m * q /\ m * (e + 1) = m * e + m
    BY <1>2, <1>4
  <2> QED
    BY <1>2, <1>3, <2>1
<1>5. ASSUME q < e PROVE FALSE
  <2>1. m * (q + 1) <= m * e /\ m * (q + 1) = m * q + m
    BY <1>2, <1>5
  <2> QED
    BY <1>2, <1>3, <2>1
<1>6. e = q
  BY <1>2, <1>4, <1>5
<1> QED
  BY <1>2, <1>3, <1>6

\* Half words make a word.
LEMMA HalvesWord ==
    ASSUME NEW a \in 0..HalfBase - 1, NEW b \in 0..HalfBase - 1
    PROVE  HalfBase * a + b \in Word
<1>1. HalfBase * a + HalfBase <= HalfBase * HalfBase /\ HalfBase * a \in Nat
  <2>1. HalfBase \in Nat /\ a \in Nat /\ a + 1 <= HalfBase
    BY BaseFacts
  <2>2. HalfBase * (a + 1) <= HalfBase * HalfBase /\ HalfBase * (a + 1) = HalfBase * a + HalfBase
    BY <2>1
  <2> QED
    BY <2>1, <2>2
<1> QED
  BY <1>1, BaseFacts DEF Word

\* A word of the memory is read the same on either host.
LEMMA WordAtValue ==
    ASSUME NEW host \in Hosts, NEW x \in Memory, NEW w \in 0..NumWords - 1
    PROVE  WordAt(host, x, w) = HalfBase * x[2 * w] + x[2 * w + 1] /\ WordAt(host, x, w) \in Word
<1> DEFINE a == x[2 * w]
           b == x[2 * w + 1]
<1>1. a \in 0..HalfBase - 1 /\ b \in 0..HalfBase - 1
  <2>1. 2 * w \in 0..2 * NumWords - 1 /\ 2 * w + 1 \in 0..2 * NumWords - 1
    BY BaseFacts
  <2> QED
    BY <2>1 DEF Memory
<1>2. WordAt(host, x, w) = IF host = "little" THEN bswap64(a + HalfBase * b) ELSE HalfBase * a + b
  BY DEF Hosts, WordAt, be_uint64, word64s
<1> HIDE DEF a, b
<1>3. bswap64(a + HalfBase * b) = HalfBase * a + b
  <2>1. a + HalfBase * b = HalfBase * b + a /\ a * HalfBase = HalfBase * a
    BY <1>1, BaseFacts
  <2>2. (HalfBase * b + a) \div HalfBase = b /\ (HalfBase * b + a) % HalfBase = a
    BY <1>1, BaseFacts, DivisionUnique
  <2> QED
    BY <2>1, <2>2 DEF bswap64
<1>4. HalfBase * a + b \in Word
  BY <1>1, HalvesWord
<1>5. WordAt(host, x, w) = HalfBase * a + b
  BY <1>2, <1>3
<1> QED
  BY <1>4, <1>5 DEF a, b

LEMMA NativeIsNumber ==
    ASSUME NEW host \in Hosts, NEW x \in Memory PROVE Native(host, x) \in Number
<1> SUFFICES ASSUME NEW w \in 0..NumWords - 1 PROVE WordAt(host, x, NumWords - 1 - w) \in Word
  BY DEF Native, Number
<1>1. NumWords - 1 - w \in 0..NumWords - 1
  BY BaseFacts
<1> QED
  BY <1>1, WordAtValue

\* The number made of the first w words in memory.
Prefix(x, w) == Linear(0, HalfBase, x, 2 * w)

LEMMA PrefixStep ==
    ASSUME NEW host \in Hosts, NEW x \in Memory, NEW w \in 0..NumWords - 1
    PROVE  Prefix(x, w) \in Int /\ Prefix(x, w + 1) = Base * Prefix(x, w) + WordAt(host, x, w)
<1> DEFINE e == 2 * w
           zero == 0
<1>1. Coefficients(x, 2 * NumWords)
  BY BaseFacts DEF Memory, Coefficients
<1>2. /\ e \in Nat /\ e + 1 \in Nat /\ 2 * (w + 1) = (e + 1) + 1 /\ HalfBase \in Int
      /\ Coefficients(x, e) /\ Coefficients(x, e + 1) /\ Coefficients(x, (e + 1) + 1)
      /\ x[e] \in Int /\ x[e + 1] \in Int
      /\ zero \in Int
  BY <1>1, BaseFacts DEF Coefficients
<1>3. WordAt(host, x, w) = HalfBase * x[e] + x[e + 1]
  BY WordAtValue
<1>4. /\ Prefix(x, w) = Linear(zero, HalfBase, x, e)
      /\ Prefix(x, w + 1) = Linear(zero, HalfBase, x, (e + 1) + 1)
  BY <1>2 DEF Prefix
<1> HIDE DEF e, zero
<1>5. Linear(zero, HalfBase, x, e) \in Int
  BY <1>2, LinearFacts
<1>6. Linear(zero, HalfBase, x, e + 1) = HalfBase * Linear(zero, HalfBase, x, e) + x[e]
  BY <1>2, LinearStep
<1>7. Linear(zero, HalfBase, x, (e + 1) + 1) = HalfBase * Linear(zero, HalfBase, x, e + 1) + x[e + 1]
  BY <1>2, LinearStep
<1> DEFINE l == Linear(zero, HalfBase, x, e)
           u == x[e]
           v == x[e + 1]
<1>8. HalfBase * (HalfBase * l + u) + v = (HalfBase * HalfBase) * l + (HalfBase * u + v)
  <2>1. l \in Int /\ u \in Int /\ v \in Int
    BY <1>2, <1>5
  <2> HIDE DEF l, u, v
  <2> QED
    BY <1>2, <2>1
<1>9. Base = HalfBase * HalfBase
  BY BaseFacts
<1> QED
  BY <1>3, <1>4, <1>5, <1>6, <1>7, <1>8, <1>9

LEMMA PrefixStart ==
    ASSUME NEW x \in Memory PROVE Prefix(x, 0) = 0
<1>1. Coefficients(x, 0) /\ 2 * 0 = 0 /\ 0 \in Nat /\ 0 \in Int /\ HalfBase \in Int
  BY BaseFacts DEF Coefficients
<1> QED
  BY <1>1, LinearFacts DEF Prefix

\* On either host the words are those of the big-endian number in the memory.
LEMMA NativeIsBigEndian ==
    ASSUME NEW host \in Hosts, NEW x \in Memory
    PROVE  Value(Native(host, x), NumWords) = BigEndian(x)
<1> DEFINE g == Native(host, x)
           E(w) == Prefix(x, w)
<1>2. E(0) = 0
  BY PrefixStart
<1>3. ASSUME NEW w \in 0..NumWords - 1
      PROVE  E(w) \in Int /\ E(w + 1) = Base * E(w) + WordAt(host, x, w)
  BY PrefixStep
<1>4. g \in Number /\ \A w \in 0..NumWords - 1 : g[w] = WordAt(host, x, NumWords - 1 - w)
  BY NativeIsNumber DEF Native
<1>5. BigEndian(x) = E(NumWords)
  BY DEF BigEndian, Prefix
<1> HIDE DEF g, E
<1>6. Coefficients(g, NumWords) /\ Base \in Int
  BY <1>4, BaseFacts DEF Number, Coefficients
<1>7. E(NumWords) \in Int
  <2>1. NumWords - 1 \in 0..NumWords - 1 /\ (NumWords - 1) + 1 = NumWords
    BY BaseFacts
  <2>2. E(NumWords - 1) \in Int /\ E(NumWords) = Base * E(NumWords - 1) + WordAt(host, x, NumWords - 1)
    BY <1>3, <2>1
  <2>3. WordAt(host, x, NumWords - 1) \in Int /\ Base \in Int
    BY <2>1, WordAtValue, BaseFacts
  <2> QED
    BY <2>2, <2>3
<1> DEFINE S == {n \in 0..NumWords : E(NumWords) = E(NumWords - n) * Power(Base, n) + Value(g, n)}
<1>8. 0 \in S
  <2>1. Coefficients(g, 0) /\ 0 \in Nat /\ NumWords - 0 = NumWords
    BY BaseFacts DEF Coefficients
  <2>2. Value(g, 0) = 0
    BY <2>1, ValueFacts
  <2>3. Power(Base, 0) = 1
    BY <1>6, <2>1, PowerFacts
  <2> QED
    BY <1>7, <2>1, <2>2, <2>3, BaseFacts
<1>9. ASSUME NEW n \in 0..NumWords - 1, n \in S PROVE n + 1 \in S
  <2> DEFINE w == NumWords - (n + 1)
  <2>1. /\ n \in Nat /\ n + 1 \in 0..NumWords /\ w \in 0..NumWords - 1 /\ w + 1 = NumWords - n
        /\ w = NumWords - 1 - n
        /\ Coefficients(g, n + 1) /\ Coefficients(g, n)
    BY <1>6, BaseFacts DEF Coefficients
  <2>2. E(w) \in Int /\ E(NumWords - n) = Base * E(w) + g[n] /\ g[n] \in Int
    <3>1. E(w) \in Int /\ E(w + 1) = Base * E(w) + WordAt(host, x, w)
      <4> HIDE DEF w
      <4> QED
        BY <1>3, <2>1
    <3>2. g[n] = WordAt(host, x, w)
      BY <1>4, <2>1
    <3>3. g[n] \in Int
      BY <1>6 DEF Coefficients
    <3> QED
      BY <2>1, <3>1, <3>2, <3>3
  <2>3. Value(g, n + 1) = Value(g, n) + g[n] * Power(Base, n)
    BY <2>1, ValueStep
  <2>4. Value(g, n) \in Int
    BY <2>1, ValueFacts
  <2>5. Power(Base, n) \in Int /\ Power(Base, n + 1) = Base * Power(Base, n)
    BY <1>6, <2>1, PowerFacts
  <2>6. E(NumWords) = E(NumWords - n) * Power(Base, n) + Value(g, n)
    BY <1>9
  <2> DEFINE a == E(w)
             c == Power(Base, n)
             v == Value(g, n)
             y == g[n]
  <2>7. (Base * a + y) * c + v = a * (Base * c) + (v + y * c)
    <3>1. a \in Int /\ c \in Int /\ v \in Int /\ y \in Int
      BY <2>2, <2>4, <2>5
    <3> HIDE DEF a, c, v, y
    <3> QED
      BY <1>6, <3>1
  <2>8. E(NumWords) = E(w) * Power(Base, n + 1) + Value(g, n + 1)
    BY <2>2, <2>3, <2>5, <2>6, <2>7
  <2> QED
    BY <2>1, <2>8
<1>10. 0..NumWords \subseteq S
  <2> HIDE DEF S
  <2> QED
    BY <1>8, <1>9, BaseFacts, Induction
<1>11. E(NumWords) = E(0) * Power(Base, NumWords) + Value(g, NumWords)
  <2>1. NumWords \in S /\ NumWords - NumWords = 0
    BY <1>10, BaseFacts
  <2> QED
    BY <2>1
<1>12. Power(Base, NumWords) \in Int
  BY <1>6, BaseFacts, PowerFacts
<1>13. Value(g, NumWords) \in Int
  BY <1>6, BaseFacts, ValueFacts
<1> QED
  BY <1>2, <1>5, <1>11, <1>12, <1>13 DEF g

-----------------------------------------------------------------------------
(* Arithmetic on words that wraps around.                                  *)

\* The remainder of what fits in a word is the word itself.
LEMMA FitsInWord ==
    ASSUME NEW v \in Word PROVE v % Base = v
<1>1. Base * 0 + v = v /\ 0 \in Nat /\ v \in 0..Base - 1
  BY BaseFacts DEF Word
<1> QED
  BY <1>1, BaseFacts, DivisionUnique

\* The comparison after an addition that wraps around finds the carry.
LEMMA CarryFound ==
    ASSUME NEW a \in Word, NEW b \in Word, NEW s, s = (a + b) % Base
    PROVE  s \in Word /\ s + Base * Carry(s < b) = a + b
<1>1. a \in Nat /\ b \in Nat /\ a < Base /\ b < Base /\ Base \in Nat \ {0}
  BY BaseFacts DEF Word
<1>2. CASE a + b < Base
  <2>1. s = a + b
    <3>1. a + b \in Word
      BY <1>1, <1>2 DEF Word
    <3> QED
      BY <3>1, FitsInWord
  <2>2. Carry(s < b) = 0
    BY <1>1, <2>1 DEF Carry
  <2> QED
    BY <1>1, <1>2, <2>1, <2>2 DEF Word
<1>3. CASE a + b >= Base
  <2> DEFINE r == a + b - Base
  <2>1. r \in 0..Base - 1 /\ Base * 1 + r = a + b /\ 1 \in Nat
    BY <1>1, <1>3
  <2>2. s = r
    <3>1. (Base * 1 + r) % Base = r
      <4> HIDE DEF r
      <4> QED
        BY <1>1, <2>1, DivisionUnique
    <3> QED
      BY <2>1, <3>1
  <2>3. Carry(s < b) = 1
    BY <1>1, <2>2 DEF Carry
  <2> QED
    BY <1>1, <2>1, <2>2, <2>3 DEF Word
<1> QED
  BY <1>1, <1>2, <1>3

\* A product of words, and even more, needs two words.
LEMMA WordsProduct ==
    ASSUME NEW b \in Nat \ {0}, NEW x \in 0..b - 1, NEW y \in 0..b - 1
    PROVE  x * y \in Nat /\ x * y + 2 * (b - 1) < b * b
<1>1. x * y \in Nat /\ x * y <= (b - 1) * y /\ (b - 1) * y <= (b - 1) * (b - 1)
  <2>1. (b - 1 - x) * y >= 0 /\ (b - 1 - x) * y = (b - 1) * y - x * y
    OBVIOUS
  <2>2. (b - 1) * (b - 1 - y) >= 0 /\ (b - 1) * (b - 1 - y) = (b - 1) * (b - 1) - (b - 1) * y
    OBVIOUS
  <2>3. x * y \in Nat
    OBVIOUS
  <2> QED
    BY <2>1, <2>2, <2>3
<1>2. (b - 1) * (b - 1) + 2 * (b - 1) = b * b - 1
  OBVIOUS
<1> QED
  BY <1>1, <1>2

\* What is below b * b and a multiple of b but for a remainder has a quotient below b.
LEMMA QuotientFits ==
    ASSUME NEW b \in Nat \ {0}, NEW q \in Nat, NEW r \in Nat, r + b * q < b * b
    PROVE  q \in 0..b - 1
<1>1. ASSUME q >= b PROVE FALSE
  <2>1. b * q >= b * b
    BY <1>1
  <2> QED
    BY <2>1
<1> QED
  BY <1>1

\* The two words of an exact product.
Exact(r, x, y) == r.lo \in Word /\ r.hi \in Word /\ r.lo + Base * r.hi = x * y

LEMMA BuiltinExact ==
    ASSUME NEW x \in Word, NEW y \in Word PROVE Exact(BuiltinUmul(x, y), x, y)
<1> DEFINE v == x * y
           lo == v % Base
           hi == v \div Base
<1>1. v \in Nat /\ v < Base * Base /\ Base \in Nat \ {0}
  BY BaseFacts, WordsProduct DEF Word
<1>2. v = x * y
  OBVIOUS
<1> HIDE DEF v
<1>3. hi \in Nat /\ lo \in 0..Base - 1 /\ v = Base * hi + lo
  BY <1>1, DivisionFacts
<1>4. BuiltinUmul(x, y) = [lo |-> lo, hi |-> hi]
  BY <1>2 DEF BuiltinUmul
<1> HIDE DEF lo, hi
<1>5. lo + Base * hi = v /\ lo \in Nat
  BY <1>1, <1>3
<1>6. hi \in 0..Base - 1
  BY <1>1, <1>3, <1>5, QuotientFits
<1> QED
  BY <1>2, <1>3, <1>4, <1>5, <1>6 DEF Exact, Word

\* No sum of the portable multiplication wraps around.
LEMMA HalvesExact ==
    ASSUME NEW x \in Word, NEW y \in Word PROVE Exact(HalvesUmul(x, y), x, y)
<1> DEFINE H == HalfBase
           xl == x % H
           xh == x \div H
           yl == y % H
           yh == y \div H
           t0 == xl * yl
           t1 == xh * yl
           t2 == xl * yh
           t3 == xh * yh
           c0 == t0 \div H
           u1 == (t1 + c0) % Base
           c1 == u1 \div H
           u2 == (t2 + (u1 % H)) % Base
           c2 == u2 \div H
           lo == ((u2 * H) % Base) + (t0 % H)
           hi == (t3 + c2 + c1) % Base
<1>1. HalvesUmul(x, y) = [lo |-> lo, hi |-> hi]
  BY Zenon DEF HalvesUmul
<1>2. H \in Nat \ {0, 1} /\ Base = H * H /\ Base \in Nat \ {0} /\ x \in Nat /\ y \in Nat
      /\ x < H * H /\ y < H * H
  BY BaseFacts DEF Word
<1> HIDE DEF H
<1>3. xl \in 0..H - 1 /\ xh \in Nat /\ x = H * xh + xl
      /\ yl \in 0..H - 1 /\ yh \in Nat /\ y = H * yh + yl
  BY <1>2, DivisionFacts
<1> HIDE DEF xl, xh, yl, yh
<1>4. xh \in 0..H - 1 /\ yh \in 0..H - 1
  <2>1. xl + H * xh < H * H /\ yl + H * yh < H * H /\ xl \in Nat /\ yl \in Nat /\ H \in Nat \ {0}
    BY <1>2, <1>3
  <2> QED
    BY <1>3, <2>1, QuotientFits
<1>5. /\ t0 \in Nat /\ t0 + 2 * (H - 1) < H * H
      /\ t1 \in Nat /\ t1 + 2 * (H - 1) < H * H
      /\ t2 \in Nat /\ t2 + 2 * (H - 1) < H * H
      /\ t3 \in Nat
  BY <1>2, <1>3, <1>4, WordsProduct
<1>6. x * y = t0 + H * t1 + H * t2 + Base * t3
  <2>1. (H * xh + xl) * (H * yh + yl)
          = xl * yl + H * (xh * yl) + H * (xl * yh) + (H * H) * (xh * yh)
    BY <1>2, <1>3, <1>4
  <2> QED
    BY <1>2, <1>3, <2>1
<1> HIDE DEF t0, t1, t2, t3
<1>7. c0 \in Nat /\ t0 % H \in 0..H - 1 /\ t0 = H * c0 + (t0 % H) /\ c0 \in 0..H - 1
  <2>1. c0 \in Nat /\ t0 % H \in 0..H - 1 /\ t0 = H * c0 + (t0 % H)
    BY <1>2, <1>5, DivisionFacts
  <2> DEFINE r == t0 % H
  <2>2. r \in Nat /\ r + H * c0 < H * H /\ H \in Nat \ {0}
    <3> HIDE DEF c0
    <3> QED
      BY <1>2, <1>5, <2>1
  <2>3. c0 \in 0..H - 1
    <3> HIDE DEF r, c0
    <3> QED
      BY <2>1, <2>2, QuotientFits
  <2> QED
    BY <2>1, <2>3
<1> DEFINE l0 == t0 % H
<1>8. l0 \in 0..H - 1 /\ t0 = H * c0 + l0 /\ c0 \in 0..H - 1 /\ l0 = t0 % H
  BY <1>7
<1> HIDE DEF c0, l0
<1>9. u1 = t1 + c0 /\ u1 \in Nat
  <2>1. t1 + c0 \in Word
    BY <1>2, <1>5, <1>8 DEF Word
  <2>2. t1 + c0 \in Nat
    BY <1>5, <1>8
  <2> QED
    BY <2>1, <2>2, FitsInWord
<1> HIDE DEF u1
<1> DEFINE l1 == u1 % H
<1>10. c1 \in Nat /\ l1 \in 0..H - 1 /\ u1 = H * c1 + l1
  BY <1>2, <1>9, DivisionFacts
<1>11. u2 = t2 + l1 /\ u2 \in Nat
  <2>1. t2 + l1 \in Word
    <3> HIDE DEF l1
    <3> QED
      BY <1>2, <1>5, <1>10 DEF Word
  <2>2. t2 + l1 \in Nat
    BY <1>5, <1>10
  <2>3. u2 = (t2 + l1) % Base
    OBVIOUS
  <2> HIDE DEF u2, l1
  <2> QED
    BY <2>1, <2>2, <2>3, FitsInWord
<1> HIDE DEF u2, c1, l1
<1> DEFINE l2 == u2 % H
<1>12. c2 \in Nat /\ l2 \in 0..H - 1 /\ u2 = H * c2 + l2
  BY <1>2, <1>11, DivisionFacts
<1> HIDE DEF c2, l2
<1>13. (u2 * H) % Base = l2 * H /\ l2 * H + l0 \in Word
  <2>1. H * l2 + l0 \in Word /\ H * l2 = l2 * H
    <3>1. l2 \in 0..HalfBase - 1 /\ l0 \in 0..HalfBase - 1
      BY <1>8, <1>12 DEF H
    <3>2. H * l2 + l0 \in Word
      BY <3>1, HalvesWord DEF H
    <3> QED
      BY <1>2, <1>12, <3>2
  <2>2. u2 * H = Base * c2 + H * l2
    <3>1. (H * c2 + l2) * H = (H * H) * c2 + H * l2
      BY <1>2, <1>12
    <3> QED
      BY <1>2, <1>12, <3>1
  <2>3. H * l2 \in 0..Base - 1
    <3>1. H * l2 \in Nat
      BY <1>2, <1>12
    <3> QED
      BY <1>2, <1>8, <2>1, <3>1 DEF Word
  <2>4. (Base * c2 + H * l2) % Base = H * l2
    <3> DEFINE r == H * l2
    <3> HIDE DEF r
    <3>1. r \in 0..Base - 1
      BY <2>3 DEF r
    <3>2. (Base * c2 + r) % Base = r
      BY <1>2, <1>12, <3>1, DivisionUnique
    <3> QED
      BY <3>2 DEF r
  <2> QED
    BY <2>1, <2>2, <2>4
<1>14. lo = l2 * H + l0
  <2>1. lo = ((u2 * H) % Base) + l0
    BY <1>8, Zenon
  <2> HIDE DEF lo
  <2> QED
    BY <1>13, <2>1
<1> HIDE DEF lo
<1> DEFINE top == t3 + c2 + c1
<1>15. lo + Base * top = x * y /\ top \in Nat
  <2>1. Base * top = Base * t3 + Base * c2 + Base * c1 /\ top \in Nat
    BY <1>2, <1>5, <1>10, <1>12
  <2>2. l2 * H + Base * c2 = H * u2
    <3>1. l2 * H + (H * H) * c2 = H * (H * c2 + l2)
      BY <1>2, <1>12
    <3> QED
      BY <1>2, <1>12, <3>1
  <2>3. H * u2 = H * t2 + H * l1
    BY <1>2, <1>5, <1>10, <1>11
  <2>4. H * l1 + Base * c1 = H * u1
    <3>1. H * l1 + (H * H) * c1 = H * (H * c1 + l1)
      BY <1>2, <1>10
    <3> QED
      BY <1>2, <1>10, <3>1
  <2>5. H * u1 = H * t1 + H * c0
    BY <1>2, <1>5, <1>8, <1>9
  <2> DEFINE a == l2 * H
             b == Base * c2
             c == Base * c1
             e == Base * t3
             f == H * l1
             g == H * c0
             s1 == H * t1
             s2 == H * t2
             v == x * y
             w1 == H * u1
             w2 == H * u2
             z == Base * top
  <2>6. /\ a \in Int /\ b \in Int /\ c \in Int /\ e \in Int /\ f \in Int /\ g \in Int
        /\ s1 \in Int /\ s2 \in Int /\ l0 \in Int
    BY <1>2, <1>5, <1>8, <1>10, <1>12
  <2>7. /\ z = e + b + c /\ a + b = w2 /\ w2 = s2 + f /\ f + c = w1 /\ w1 = s1 + g
        /\ lo = a + l0 /\ t0 = g + l0 /\ v = t0 + s1 + s2 + e
    BY <1>6, <1>8, <1>14, <2>1, <2>2, <2>3, <2>4, <2>5
  <2>8. lo + z = v
    <3> HIDE DEF a, b, c, e, f, g, s1, s2, v, w1, w2, z
    <3> QED
      BY <2>6, <2>7
  <2> QED
    BY <2>1, <2>8
<1>16. lo \in Word /\ lo \in Nat
  BY <1>13, <1>14, BaseFacts
<1>17. top \in 0..Base - 1
  <2>1. x * y < Base * Base
    BY <1>2, WordsProduct DEF Word
  <2>2. lo + Base * top < Base * Base
    BY <1>15, <2>1
  <2> HIDE DEF top
  <2> QED
    BY <1>2, <1>15, <1>16, <2>2, QuotientFits
<1>18. hi = top
  <2>1. top \in Word
    BY <1>17 DEF Word
  <2> QED
    BY <2>1, FitsInWord
<1> HIDE DEF top, hi
<1>19. hi \in Word
  BY <1>17, <1>18 DEF Word
<1> QED
  BY <1>1, <1>15, <1>16, <1>18, <1>19 DEF Exact

\* Both multiplications are exact.
LEMMA UmulExact ==
    ASSUME NEW x \in Word, NEW y \in Word PROVE Exact(umul(x, y), x, y)
  BY BuiltinExact, HalvesExact DEF umul

\* How a later round finds a word s and a carry e from the word v that was there.
Computed(x, y, c, v, r, t, s, e) ==
    /\ r = umul(x, y)
    /\ t = (v + r.lo) % Base
    /\ s = (t + c) % Base
    /\ e = (r.hi + Carry(t < r.lo) + Carry(s < c)) % Base

Correct(x, y, c, v, s, e) == s \in Word /\ e \in Word /\ s + Base * e = v + x * y + c

\* One word of a later round: the word that was there, the product and the carry.
LEMMA LaterWord ==
    ASSUME NEW x \in Word, NEW y \in Word, NEW c \in Word, NEW v \in Word,
           NEW r, NEW t, NEW s, NEW e, Computed(x, y, c, v, r, t, s, e)
    PROVE  Correct(x, y, c, v, s, e)
<1> USE DEF Computed, Correct
<1>1. r.lo \in Word /\ r.hi \in Word /\ r.lo + Base * r.hi = x * y
  BY UmulExact DEF Exact
<1> DEFINE c1 == Carry(t < r.lo)
           c2 == Carry(s < c)
           top == r.hi + c1 + c2
<1>2. t \in Word /\ t + Base * c1 = v + r.lo
  BY <1>1, CarryFound
<1>3. s \in Word /\ s + Base * c2 = t + c
  BY <1>2, CarryFound
<1>4. c1 \in Nat /\ c2 \in Nat
  BY DEF Carry
<1>5. e = top % Base
  OBVIOUS
<1> HIDE DEF c1, c2
<1>6. /\ top \in Nat /\ s + Base * top = v + x * y + c
      /\ x * y + 2 * (Base - 1) < Base * Base
  <2>1. /\ r.hi \in Nat /\ r.lo \in Nat /\ v \in Nat /\ c \in Nat /\ s \in Nat /\ t \in Nat
        /\ Base \in Nat \ {0}
    BY <1>1, <1>2, <1>3, BaseFacts
  <2>2. Base * top = Base * r.hi + Base * c1 + Base * c2
    BY <1>4, <2>1
  <2>3. x * y + 2 * (Base - 1) < Base * Base /\ x * y \in Nat
    BY <2>1, WordsProduct DEF Word
  <2>4. Base * r.hi \in Int /\ Base * c1 \in Int /\ Base * c2 \in Int
    BY <1>4, <2>1
  <2>5. top \in Nat
    BY <1>4, <2>1
  <2> DEFINE a1 == Base * r.hi
             a2 == Base * c1
             a3 == Base * c2
             a4 == x * y
             a5 == Base * top
  <2>6. s + a5 = v + a4 + c
    <3>1. /\ a5 = a1 + a2 + a3 /\ r.lo + a1 = a4 /\ t + a2 = v + r.lo /\ s + a3 = t + c
          /\ a1 \in Int /\ a2 \in Int /\ a3 \in Int
      BY <1>1, <1>2, <1>3, <2>2, <2>4
    <3> HIDE DEF a1, a2, a3, a4, a5
    <3> QED
      BY <2>1, <3>1
  <2> QED
    BY <2>3, <2>5, <2>6
<1> HIDE DEF top
<1>7. top \in 0..Base - 1
  <2>1. /\ s + Base * top < Base * Base /\ s \in Nat /\ Base \in Nat \ {0}
    <3>1. /\ v \in Nat /\ c \in Nat /\ v <= Base - 1 /\ c <= Base - 1 /\ s \in Nat
          /\ Base \in Nat \ {0} /\ x * y \in Nat
      <4>1. x \in Nat /\ y \in Nat
        BY BaseFacts
      <4>2. x * y \in Nat
        BY <4>1
      <4> QED
        BY <1>3, <4>2, BaseFacts DEF Word
    <3> DEFINE a == x * y
               b == Base * Base
               w == Base * top
    <3>2. a + 2 * (Base - 1) < b /\ s + w = v + a + c /\ a \in Nat /\ b \in Int
      BY <1>6, <3>1
    <3>3. s + w < b
      <4> HIDE DEF a, b, w
      <4> QED
        BY <3>1, <3>2
    <3> QED
      BY <3>1, <3>3
  <2> QED
    BY <1>6, <2>1, QuotientFits
<1>8. e = top
  BY <1>5, <1>7, FitsInWord DEF Word
<1> QED
  BY <1>3, <1>6, <1>7, <1>8 DEF Word

\* One word of the first round, to which nothing is added but the carry.
LEMMA FirstWord ==
    ASSUME NEW x \in Word, NEW y \in Word, NEW c \in Word,
           NEW r, r = umul(x, y), NEW s, s = (r.lo + c) % Base,
           NEW e, e = (r.hi + Carry(s < c)) % Base
    PROVE  s \in Word /\ e \in Word /\ s + Base * e = x * y + c
<1>1. r.lo \in Word /\ r.hi \in Word
  BY UmulExact DEF Exact
<1> DEFINE zero == 0
           t == (zero + r.lo) % Base
<1>2. zero \in Word /\ zero = 0
  BY BaseFacts DEF Word
<1>3. t = r.lo
  <2>1. zero + r.lo = r.lo
    BY <1>1, BaseFacts
  <2> QED
    BY <1>1, <2>1, FitsInWord
<1>4. Carry(t < r.lo) = 0
  BY <1>1, <1>3, BaseFacts DEF Carry
<1> DEFINE c1 == Carry(t < r.lo)
           c2 == Carry(s < c)
<1>5. s = (t + c) % Base
  BY <1>3
<1>6. e = (r.hi + c1 + c2) % Base
  <2>1. c1 = 0 /\ c2 \in Nat /\ r.hi \in Nat
    BY <1>1, <1>4, BaseFacts DEF Carry
  <2> HIDE DEF c1, c2
  <2>2. r.hi + c1 + c2 = r.hi + c2
    BY <2>1
  <2>3. e = (r.hi + c2) % Base
    BY DEF c2
  <2> QED
    BY <2>2, <2>3
<1>7. t = (zero + r.lo) % Base
  OBVIOUS
<1>8. e = (r.hi + Carry(t < r.lo) + Carry(s < c)) % Base
  BY <1>6
<1> HIDE DEF t, zero
<1>9. s \in Word /\ e \in Word /\ s + Base * e = zero + x * y + c
  <2>1. Computed(x, y, c, zero, r, t, s, e)
    BY <1>5, <1>7, <1>8 DEF Computed
  <2> QED
    BY <1>2, <2>1, LaterWord DEF Correct
<1>10. x * y \in Int
  BY BaseFacts
<1> QED
  BY <1>2, <1>9, <1>10, BaseFacts

-----------------------------------------------------------------------------
(* The inductive invariant: the arguments stay the numbers in memory, the  *)
(* position within the round says what the carry is, and the answer is the *)
(* comparison.                                                             *)

Arguments ==
    /\ Value(h, NumWords) = BigEndian(final_hash)
    /\ Value(d, NumWords) = BigEndian(difficulty)

Position ==
    /\ pc = "row" => /\ j < NumWords /\ i < NumWords
                     /\ i = 0 => k = 0
                     /\ j > 0 /\ i > 0 => d[j] # 0
    /\ pc = "end" => /\ j < NumWords
                     /\ i = NumWords \/ (i = 0 /\ j > 0 /\ k = 0 /\ d[j] = 0)
    /\ pc \in {"decide", "done"} => j = NumWords /\ i = 0 /\ k = 0

Inv == TypeOK /\ Arguments /\ Position /\ PartialProduct /\ AnswerIsProductBound

LEMMA InitInv == Init => Inv
<1> SUFFICES ASSUME Init PROVE Inv
  OBVIOUS
<1>1. PICK host \in Hosts : h = Native(host, final_hash) /\ d = Native(host, difficulty)
  BY DEF Init
<1>2. final_hash \in Memory /\ difficulty \in Memory
  BY ConstantsAssumption DEF Init
<1>3. h \in Number /\ d \in Number
  BY <1>1, <1>2, NativeIsNumber
<1>4. Arguments
  BY <1>1, <1>2, NativeIsBigEndian DEF Arguments
<1>5. TypeOK
  <2>1. p \in [0..2 * NumWords - 1 -> Word \cup {Unset}]
    BY DEF Init
  <2>2. 0 \in Word /\ 0 \in 0..NumWords
    BY BaseFacts DEF Word
  <2> QED
    BY <1>2, <1>3, <2>1, <2>2 DEF Init, TypeOK
<1>6. Position
  BY BaseFacts DEF Init, Position
<1>7. PartialProduct
  <2>1. k = 0 /\ j = 0 /\ i = 0 /\ 0 \in Nat /\ Base \in Int /\ NumWords \in Nat \ {0}
    BY BaseFacts DEF Init
  <2>2. Coefficients(p, 0) /\ Coefficients(h, 0) /\ Coefficients(d, 0)
    BY DEF Coefficients
  <2>3. Value(p, 0) = 0 /\ Value(h, 0) = 0 /\ Value(d, 0) = 0
    BY <2>1, <2>2, ValueFacts
  <2>4. Power(Base, 0) = 1
    BY <2>1, PowerFacts
  <2>5. Coefficients(h, NumWords) /\ d[0] \in Int
    BY <1>3, BaseFacts DEF Number, Coefficients
  <2>6. Value(h, NumWords) \in Int
    BY <2>1, <2>5, ValueFacts
  <2>7. 0 + 0 = 0
    OBVIOUS
  <2> QED
    BY <2>1, <2>3, <2>4, <2>5, <2>6, <2>7 DEF PartialProduct
<1>8. AnswerIsProductBound
  BY DEF Init, AnswerIsProductBound
<1> QED
  BY <1>4, <1>5, <1>6, <1>7, <1>8 DEF Inv

\* What the types say of a state within a round.
LEMMA RowFacts ==
    ASSUME TypeOK, Position, pc = "row"
    PROVE  /\ i \in 0..NumWords - 1 /\ j \in 0..NumWords - 1 /\ i \in Nat /\ j \in Nat
           /\ h[i] \in Word /\ d[j] \in Word /\ k \in Word
           /\ h[i] \in Nat /\ d[j] \in Nat /\ k \in Nat
           /\ Base \in Nat \ {0} /\ Base \in Int
           /\ Coefficients(h, i) /\ Coefficients(h, i + 1) /\ Coefficients(h, NumWords)
           /\ Coefficients(d, j)
<1>1. i \in 0..NumWords - 1 /\ j \in 0..NumWords - 1
  BY BaseFacts DEF TypeOK, Position
<1>2. h[i] \in Word /\ d[j] \in Word /\ k \in Word
  BY <1>1 DEF TypeOK, Number
<1>3. /\ Coefficients(h, NumWords) /\ Coefficients(d, NumWords)
  BY BaseFacts DEF TypeOK, Number, Coefficients
<1>4. Coefficients(h, i) /\ Coefficients(h, i + 1) /\ Coefficients(d, j)
  BY <1>1, <1>3, BaseFacts DEF Coefficients
<1> QED
  BY <1>1, <1>2, <1>3, <1>4, BaseFacts

\* A step within a round leaves it, or goes to its next word.
LEMMA AdvancePosition ==
    ASSUME TypeOK, Position, pc = "row", Advance, j > 0 => d[j] # 0 PROVE Position'
<1>1. i \in 0..NumWords - 1 /\ j \in 0..NumWords - 1
  BY RowFacts
<1>2. i' = i + 1 /\ j' = j /\ d' = d /\ pc' = IF i + 1 = NumWords THEN "end" ELSE "row"
  BY DEF Advance, args
<1>3. i' # 0 /\ i' \in 0..NumWords /\ j' < NumWords /\ (j' > 0 => d'[j'] # 0)
  BY <1>1, <1>2, BaseFacts
<1>4. pc' = "row" => i' < NumWords
  BY <1>1, <1>2, BaseFacts
<1>5. pc' = "end" => i' = NumWords
  BY <1>2
<1>6. pc' \notin {"decide", "done"}
  BY <1>2
<1> QED
  BY <1>3, <1>4, <1>5, <1>6 DEF Position

\* The arguments do not change, and there is no answer before the end.
LEMMA ArgumentsStay ==
    ASSUME Arguments, UNCHANGED args, pc' # "done"
    PROVE  Arguments' /\ AnswerIsProductBound'
  BY DEF Arguments, AnswerIsProductBound, args

\* The words of p below a number that are set are words, so they make a number.
LEMMA KnownWords ==
    ASSUME TypeOK, NEW n \in 0..2 * NumWords, \A x \in 0..n - 1 : p[x] # Unset
    PROVE  /\ \A x \in 0..n - 1 : p[x] \in Word
           /\ Coefficients(p, n) /\ Value(p, n) \in Int
<1>1. \A x \in 0..n - 1 : p[x] \in Word
  <2> SUFFICES ASSUME NEW x \in 0..n - 1 PROVE p[x] \in Word
    OBVIOUS
  <2>1. x \in 0..2 * NumWords - 1
    BY BaseFacts
  <2> QED
    BY <2>1 DEF TypeOK
<1>2. Coefficients(p, n)
  BY <1>1, BaseFacts DEF Coefficients
<1>3. n \in Nat
  BY BaseFacts
<1> QED
  BY <1>1, <1>2, <1>3, ValueFacts

LEMMA FirstStep ==
    ASSUME Inv, FirstRound PROVE Inv'
<1> USE DEF Inv
<1> DEFINE r == umul(h[i], d[0])
           s == (r.lo + k) % Base
           e == (r.hi + Carry(s < k)) % Base
<1>1. /\ pc = "row" /\ j = 0 /\ Advance
      /\ p' = [p EXCEPT ![i] = s] /\ k' = e
  BY DEF FirstRound
<1>2. /\ i' = i + 1 /\ j' = 0 /\ h' = h /\ d' = d /\ UNCHANGED <<args, answer>>
      /\ pc' \in {"row", "end"}
  BY <1>1 DEF Advance, args
<1>3. /\ i \in 0..NumWords - 1 /\ i \in Nat /\ h[i] \in Word /\ d[0] \in Word /\ k \in Word
      /\ h[i] \in Nat /\ d[0] \in Nat /\ k \in Nat /\ Base \in Nat \ {0} /\ Base \in Int
      /\ Coefficients(h, i) /\ Coefficients(h, i + 1) /\ Coefficients(h, NumWords)
      /\ Coefficients(d, 0)
  BY <1>1, RowFacts
<1>4. s \in Word /\ e \in Word /\ s + Base * e = h[i] * d[0] + k
  <2>1. r = umul(h[i], d[0])
    OBVIOUS
  <2> HIDE DEF r
  <2>2. s = (r.lo + k) % Base
    OBVIOUS
  <2> HIDE DEF s
  <2>3. e = (r.hi + Carry(s < k)) % Base
    OBVIOUS
  <2> HIDE DEF e
  <2> QED
    BY <1>3, <2>1, <2>2, <2>3, FirstWord
<1> HIDE DEF r, s, e
<1>5. TypeOK'
  <2>1. p' \in [0..2 * NumWords - 1 -> Word \cup {Unset}]
    BY <1>1, <1>4 DEF TypeOK
  <2>2. k' \in Word /\ j' \in 0..NumWords /\ i' \in 0..NumWords
    BY <1>1, <1>2, <1>3, <1>4, BaseFacts
  <2> QED
    BY <1>2, <2>1, <2>2 DEF TypeOK, args
<1>6. Position'
  BY <1>1, AdvancePosition
<1>7. Arguments' /\ AnswerIsProductBound'
  BY <1>2, ArgumentsStay
<1>8. PartialProduct'
  <2>1. /\ \A x \in 0..i - 1 : p[x] # Unset
        /\ Value(p, i) + k * Power(Base, i) = Value(h, NumWords) * Value(d, 0)
                                              + Value(h, i) * d[0] * Power(Base, 0)
    <3>1. j < NumWords /\ i + j = i
      BY <1>1, <1>3, BaseFacts
    <3> QED
      BY <1>1, <3>1 DEF PartialProduct
  <2>2. Power(Base, 0) = 1 /\ Value(d, 0) = 0
    <3>1. 0 \in Nat
      OBVIOUS
    <3>2. Power(Base, 0) = 1
      BY <1>3, <3>1, PowerFacts
    <3> QED
      BY <1>3, <3>1, <3>2, ValueFacts
  <2>3. i \in 0..2 * NumWords /\ i \in 0..2 * NumWords - 1
    BY <1>3, BaseFacts
  <2>4. Coefficients(p, i) /\ Value(p, i) \in Int /\ \A x \in 0..i - 1 : p[x] \in Word
    BY <2>1, <2>3, KnownWords
  <2>5. p'[i] = s /\ \A x \in 0..i - 1 : p'[x] = p[x]
    <3>1. p \in [0..2 * NumWords - 1 -> Word \cup {Unset}]
      BY DEF TypeOK
    <3>2. ASSUME NEW x \in 0..i - 1 PROVE p'[x] = p[x]
      <4>1. x # i
        BY <1>3
      <4>2. x \in 0..2 * NumWords - 1
        BY <1>3, BaseFacts
      <4> QED
        BY <1>1, <3>1, <4>1, <4>2
    <3> QED
      BY <1>1, <2>3, <3>1, <3>2
  <2>6. \A x \in 0..i : p'[x] \in Word
    <3> SUFFICES ASSUME NEW x \in 0..i PROVE p'[x] \in Word
      OBVIOUS
    <3>1. x = i \/ x \in 0..i - 1
      BY <1>3
    <3> QED
      BY <1>4, <2>4, <2>5, <3>1
  <2>7. Coefficients(p', i + 1) /\ (i + 1) - 1 = i
    <3>1. (i + 1) - 1 = i
      BY <1>3
    <3>2. \A x \in 0..i : p'[x] \in Int
      BY <2>6, BaseFacts
    <3> QED
      BY <3>1, <3>2 DEF Coefficients
  <2>8. Value(p', i + 1) = Value(p', i) + s * Power(Base, i)
    BY <1>3, <2>5, <2>7, ValueStep
  <2>9. Value(p', i) = Value(p, i)
    BY <1>3, <2>4, <2>5, ValueSame
  <2>10. Value(h, i + 1) = Value(h, i) + h[i] * Power(Base, i)
    BY <1>3, ValueStep
  <2>11. Power(Base, i) \in Int /\ Power(Base, i + 1) = Base * Power(Base, i)
    BY <1>3, PowerFacts
  <2>12. Value(h, i) \in Int
    BY <1>3, ValueFacts
  <2>13. Value(h, NumWords) \in Int
    BY <1>3, BaseFacts, ValueFacts
  <2>14. Value(p', i + 1) + e * Power(Base, i + 1) = Value(h, i + 1) * d[0]
    <3> DEFINE w == Power(Base, i)
               a == Value(p, i)
               b == Value(h, i)
               x == h[i]
               y == d[0]
    <3>1. /\ w \in Int /\ a \in Int /\ b \in Int /\ x \in Int /\ y \in Int
          /\ s \in Int /\ e \in Int /\ Base \in Int /\ k \in Int
      BY <1>3, <1>4, <2>4, <2>11, <2>12, BaseFacts
    <3>2. a + k * w = b * y
      <4>1. Value(h, NumWords) * Value(d, 0) = 0
        BY <2>2, <2>13
      <4>2. b * y * Power(Base, 0) = b * y /\ b * y \in Int
        BY <2>2, <3>1
      <4> DEFINE z == b * y * Power(Base, 0)
                 v == Value(h, NumWords) * Value(d, 0)
      <4>3. a + k * w = v + z /\ v = 0 /\ z = b * y /\ b * y \in Int
        BY <2>1, <4>1, <4>2
      <4> QED
        BY <4>3
    <3>3. s + Base * e = x * y + k
      BY <1>4
    <3>4. (a + s * w) + e * (Base * w) = (b + x * w) * y
      <4> HIDE DEF a, b, w, x, y
      <4>1. (a + s * w) + e * (Base * w) = a + (s + Base * e) * w
        BY <3>1
      <4>2. a + (x * y + k) * w = (a + k * w) + (x * y) * w
        BY <3>1
      <4>3. b * y + (x * y) * w = (b + x * w) * y
        BY <3>1
      <4> QED
        BY <3>2, <3>3, <4>1, <4>2, <4>3
    <3> QED
      BY <2>8, <2>9, <2>10, <2>11, <3>4
  <2>15. Value(h, i + 1) \in Int
    <3>1. i + 1 \in Nat
      BY <1>3
    <3> QED
      BY <1>3, <3>1, ValueFacts
  <2>16. Value(p', i + 1) + e * Power(Base, i + 1)
           = Value(h, NumWords) * Value(d, 0) + Value(h, i + 1) * d[0] * Power(Base, 0)
    <3>1. Value(h, NumWords) * Value(d, 0) = 0
      BY <2>2, <2>13
    <3>2. Value(h, i + 1) * d[0] * Power(Base, 0) = Value(h, i + 1) * d[0]
          /\ Value(h, i + 1) * d[0] \in Int
      BY <1>3, <2>2, <2>15
    <3> DEFINE z == Value(h, i + 1) * d[0]
               z1 == Value(h, i + 1) * d[0] * Power(Base, 0)
               v == Value(h, NumWords) * Value(d, 0)
    <3>3. v + z1 = z
      <4>1. v = 0 /\ z1 = z /\ z \in Int
        BY <3>1, <3>2
      <4> HIDE DEF v, z, z1
      <4> QED
        BY <4>1
    <3> QED
      BY <2>14, <3>3
  <2>17. i' + j' = i + 1 /\ 0 < NumWords /\ \A x \in 0..(i + 1) - 1 : p'[x] # Unset
    BY <1>2, <1>3, <2>6, <2>7, BaseFacts, ConstantsAssumption
  <2> QED
    BY <1>1, <1>2, <2>16, <2>17 DEF PartialProduct
<1> QED
  BY <1>5, <1>6, <1>7, <1>8

LEMMA LaterStep ==
    ASSUME Inv, LaterRound PROVE Inv'
<1> USE DEF Inv
<1> DEFINE v == p[j + i]
           r == umul(h[i], d[j])
           t == (v + r.lo) % Base
           s == (t + k) % Base
           e == (r.hi + Carry(t < r.lo) + Carry(s < k)) % Base
           n == NumWords + j
           g == [p EXCEPT ![j + i] = s]
<1>1. /\ pc = "row" /\ j > 0 /\ d[j] # 0 /\ Advance
      /\ p' = g /\ k' = e
  BY DEF LaterRound
<1>2. /\ i' = i + 1 /\ j' = j /\ h' = h /\ d' = d /\ UNCHANGED <<args, answer>>
      /\ pc' \in {"row", "end"}
  BY <1>1 DEF Advance, args
<1>3. /\ i \in 0..NumWords - 1 /\ j \in 0..NumWords - 1 /\ i \in Nat /\ j \in Nat
      /\ h[i] \in Word /\ d[j] \in Word /\ k \in Word
      /\ h[i] \in Nat /\ d[j] \in Nat /\ k \in Nat /\ Base \in Nat \ {0} /\ Base \in Int
      /\ Coefficients(h, i) /\ Coefficients(h, i + 1) /\ Coefficients(h, NumWords)
      /\ Coefficients(d, j)
  BY <1>1, RowFacts
<1>4. /\ \A x \in 0..n - 1 : p[x] # Unset
      /\ Value(p, n) + k * Power(Base, i + j) = Value(h, NumWords) * Value(d, j)
                                                + Value(h, i) * d[j] * Power(Base, j)
  <2>1. j < NumWords /\ j # 0
    BY <1>1, <1>3, BaseFacts
  <2> QED
    BY <2>1 DEF PartialProduct
<1>5. n \in 0..2 * NumWords /\ n \in Nat /\ j + i \in 0..n - 1 /\ j + i \in 0..2 * NumWords - 1
      /\ j + i \in Nat
  BY <1>3, BaseFacts
<1>6. /\ \A x \in 0..n - 1 : p[x] \in Word
      /\ Coefficients(p, n) /\ Value(p, n) \in Int
  <2> HIDE DEF n
  <2> QED
    BY <1>4, <1>5, KnownWords
<1>7. v \in Word /\ v \in Nat
  BY <1>5, <1>6, BaseFacts
<1>8. s \in Word /\ e \in Word /\ s + Base * e = v + h[i] * d[j] + k
  <2>1. r = umul(h[i], d[j])
    OBVIOUS
  <2> HIDE DEF r
  <2>2. t = (v + r.lo) % Base
    OBVIOUS
  <2> HIDE DEF v, t
  <2>3. s = (t + k) % Base
    OBVIOUS
  <2> HIDE DEF s
  <2>4. e = (r.hi + Carry(t < r.lo) + Carry(s < k)) % Base
    OBVIOUS
  <2> HIDE DEF e
  <2>5. Computed(h[i], d[j], k, v, r, t, s, e)
    BY <2>1, <2>2, <2>3, <2>4 DEF Computed
  <2>6. Correct(h[i], d[j], k, v, s, e)
    BY <1>3, <1>7, <2>5, LaterWord
  <2> QED
    BY <2>6 DEF Correct
<1> HIDE DEF r, s, t, e
<1>9. /\ p \in [0..2 * NumWords - 1 -> Word \cup {Unset}]
      /\ g \in [0..2 * NumWords - 1 -> Word \cup {Unset}]
  BY <1>8 DEF TypeOK
<1>10. /\ g[j + i] = s
       /\ \A x \in (0..n - 1) \ {j + i} : g[x] = p[x]
  <2>1. ASSUME NEW x \in 0..n - 1, x # j + i PROVE g[x] = p[x]
    <3>1. x \in 0..2 * NumWords - 1
      BY <1>3, BaseFacts
    <3> QED
      BY <1>9, <2>1, <3>1
  <2>2. g[j + i] = s
    BY <1>5, <1>9
  <2> QED
    BY <2>1, <2>2
<1> HIDE DEF g
<1>11. TypeOK'
  <2>1. k' \in Word /\ j' \in 0..NumWords /\ i' \in 0..NumWords
    BY <1>1, <1>2, <1>3, <1>8, BaseFacts
  <2> QED
    BY <1>1, <1>2, <1>9, <2>1 DEF TypeOK, args
<1>12. Position'
  BY <1>1, AdvancePosition
<1>13. Arguments' /\ AnswerIsProductBound'
  BY <1>2, ArgumentsStay
<1>14. PartialProduct'
  <2>1. ASSUME NEW x \in 0..n - 1 PROVE g[x] \in Word /\ g[x] # Unset
    <3>1. g[x] \in Word
      <4>1. CASE x = j + i
        BY <1>8, <1>10, <4>1
      <4>2. CASE x # j + i
        <5> HIDE DEF n
        <5> QED
          BY <1>6, <1>10, <4>2
      <4> QED
        BY <4>1, <4>2
    <3> QED
      BY <3>1, ConstantsAssumption
  <2>2. Value(g, n) = Value(p, n) + (s - v) * Power(Base, j + i)
    <3> HIDE DEF n
    <3>1. g[j + i] \in Int
      BY <1>8, <1>10, BaseFacts
    <3>2. Value(g, n) = Value(p, n) + (g[j + i] - p[j + i]) * Power(Base, j + i)
      <4> DEFINE q == j + i
      <4>1. q \in 0..n - 1 /\ g[q] \in Int /\ \A x \in (0..n - 1) \ {q} : g[x] = p[x]
        BY <1>5, <1>10, <3>1
      <4> HIDE DEF q
      <4>2. Value(g, n) = Value(p, n) + (g[q] - p[q]) * Power(Base, q)
        BY <1>5, <1>6, <4>1, ValueUpdate
      <4> QED
        BY <4>2 DEF q
    <3> QED
      BY <1>10, <3>2
  <2>3. Value(h, i + 1) = Value(h, i) + h[i] * Power(Base, i)
    BY <1>3, ValueStep
  <2>4. Power(Base, i + j) \in Int /\ Power(Base, (i + j) + 1) = Base * Power(Base, i + j)
    <3>1. i + j \in Nat
      BY <1>3
    <3> QED
      BY <1>3, <3>1, PowerFacts
  <2>5. Power(Base, i + j) = Power(Base, i) * Power(Base, j)
    BY <1>3, PowerSum
  <2>6. Power(Base, i) \in Int
    BY <1>3, PowerFacts
  <2>7. Power(Base, j) \in Int
    BY <1>3, PowerFacts
  <2>8. Value(h, i) \in Int
    BY <1>3, ValueFacts
  <2>9. Value(h, NumWords) \in Int
    BY <1>3, BaseFacts, ValueFacts
  <2>10. Value(d, j) \in Int
    BY <1>3, ValueFacts
  <2>11. j + i = i + j /\ (i + j) + 1 = (i + 1) + j
    BY <1>3
  <2>12. Value(g, n) + e * Power(Base, (i + 1) + j)
           = Value(h, NumWords) * Value(d, j) + Value(h, i + 1) * d[j] * Power(Base, j)
    <3> DEFINE wi == Power(Base, i)
               wj == Power(Base, j)
               a == Value(p, n)
               b == Value(h, i)
               c == Value(h, NumWords) * Value(d, j)
               x == h[i]
               y == d[j]
               w == Power(Base, i + j)
    <3>1. /\ wi \in Int /\ wj \in Int /\ a \in Int /\ b \in Int /\ x \in Int /\ y \in Int
          /\ s \in Int /\ e \in Int /\ Base \in Int /\ k \in Int /\ v \in Int
      BY <1>3, <1>6, <1>7, <1>8, <2>6, <2>7, <2>8, BaseFacts
    <3>2. c \in Int /\ w \in Int /\ w = wi * wj
      BY <2>4, <2>5, <2>9, <2>10
    <3>3. a + k * w = c + b * y * wj
      BY <1>4
    <3>4. s + Base * e = v + x * y + k
      BY <1>8
    <3>5. (a + (s - v) * w) + e * (Base * w) = c + (b + x * wi) * y * wj
      <4> HIDE DEF a, b, c, w, wi, wj, x, y, v
      <4>1. (a + (s - v) * w) + e * (Base * w) = a + ((s + Base * e) - v) * w
        BY <3>1, <3>2
      <4>2. (s + Base * e) - v = x * y + k
        <5>1. x * y \in Int
          BY <3>1
        <5> DEFINE xy == x * y
                   be == Base * e
        <5>2. xy \in Int /\ s + be = v + xy + k /\ be \in Int
          BY <3>1, <3>4
        <5>3. (s + be) - v = xy + k
          <6> HIDE DEF xy, be
          <6> QED
            BY <3>1, <5>2
        <5> QED
          BY <5>3
      <4>3. a + (x * y + k) * w = (a + k * w) + (x * y) * w
        BY <3>1, <3>2
      <4>4. (x * y) * w = (x * wi) * y * wj
        BY <3>1, <3>2
      <4>5. (b + x * wi) * y * wj = b * y * wj + (x * wi) * y * wj
        BY <3>1
      <4> DEFINE z1 == b * y * wj
                 z2 == (x * wi) * y * wj
                 z3 == (b + x * wi) * y * wj
                 z4 == (x * y) * w
                 z5 == (a + (s - v) * w) + e * (Base * w)
                 z6 == k * w
      <4>6. z1 \in Int /\ z2 \in Int /\ z6 \in Int
        BY <3>1, <3>2
      <4>7. z5 = (a + z6) + z4 /\ z4 = z2 /\ z3 = z1 + z2 /\ a + z6 = c + z1
        BY <3>3, <4>1, <4>2, <4>3, <4>4, <4>5
      <4>8. z5 = c + z3
        <5> HIDE DEF z1, z2, z3, z4, z5, z6
        <5> QED
          BY <3>1, <3>2, <4>6, <4>7
      <4> QED
        BY <4>8
    <3> QED
      BY <2>2, <2>3, <2>4, <2>11, <3>5
  <2>13. j < NumWords /\ j # 0
    BY <1>1, <1>3, BaseFacts
  <2> QED
    BY <1>1, <1>2, <2>1, <2>12, <2>13 DEF PartialProduct
<1> QED
  BY <1>11, <1>12, <1>13, <1>14

\* The round of a zero word adds nothing, as k is zero when it begins.
LEMMA SkipStep ==
    ASSUME Inv, SkipRound PROVE Inv'
<1> USE DEF Inv
<1>1. /\ pc = "row" /\ j > 0 /\ d[j] = 0 /\ pc' = "end"
      /\ UNCHANGED <<args, p, k, j, i, answer>>
  BY DEF SkipRound
<1>2. h' = h /\ d' = d /\ p' = p /\ k' = k /\ j' = j /\ i' = i /\ UNCHANGED args
  BY <1>1 DEF args
<1>3. i \in 0..NumWords - 1 /\ j \in 0..NumWords - 1
  BY <1>1, RowFacts
<1>4. i = 0 /\ k = 0
  BY <1>1, <1>3 DEF Position
<1>5. TypeOK'
  BY <1>1, <1>2 DEF TypeOK, args
<1>6. Position'
  <2>1. j' < NumWords /\ i' = 0 /\ j' > 0 /\ k' = 0 /\ d'[j'] = 0
    BY <1>1, <1>2, <1>3, <1>4, BaseFacts
  <2> QED
    BY <1>1, <2>1 DEF Position
<1>7. Arguments' /\ AnswerIsProductBound'
  BY <1>1, <1>2, ArgumentsStay
<1>8. PartialProduct'
  BY <1>2, Zenon DEF PartialProduct
<1> QED
  BY <1>5, <1>6, <1>7, <1>8

\* The carry becomes the word above, which nothing has set before.
LEMMA EndStep ==
    ASSUME Inv, EndRound PROVE Inv'
<1> USE DEF Inv
<1> DEFINE n == NumWords + j
           g == [p EXCEPT ![j + NumWords] = k]
<1>1. /\ pc = "end" /\ p' = g /\ k' = 0 /\ i' = 0 /\ j' = j + 1
      /\ pc' = (IF j + 1 = NumWords THEN "decide" ELSE "row")
      /\ UNCHANGED <<args, answer>>
  BY DEF EndRound
<1>2. h' = h /\ d' = d /\ UNCHANGED args
  BY <1>1 DEF args
<1>3. /\ j \in 0..NumWords - 1 /\ j \in Nat /\ j < NumWords
      /\ i \in Nat /\ k \in Word /\ k \in Nat /\ d[j] \in Nat
      /\ Base \in Nat \ {0} /\ Base \in Int
      /\ Coefficients(h, NumWords) /\ Coefficients(h, 0)
      /\ Coefficients(d, j) /\ Coefficients(d, j + 1)
  <2>1. j \in 0..NumWords - 1 /\ i \in Nat /\ k \in Word
    BY <1>1, BaseFacts DEF TypeOK, Position
  <2>2. /\ Coefficients(h, NumWords) /\ Coefficients(d, NumWords)
    BY BaseFacts DEF TypeOK, Number, Coefficients
  <2>3. d[j] \in Word
    BY <2>1 DEF TypeOK, Number
  <2>4. Coefficients(d, j) /\ Coefficients(d, j + 1)
    BY <2>1, <2>2, BaseFacts DEF Coefficients
  <2>5. Coefficients(h, 0)
    BY DEF Coefficients
  <2> QED
    BY <2>1, <2>2, <2>3, <2>4, <2>5, BaseFacts
<1>4. i = NumWords \/ (i = 0 /\ j > 0 /\ k = 0 /\ d[j] = 0)
  BY <1>1 DEF Position
<1>5. n \in Nat /\ n \in 0..2 * NumWords /\ n \in 0..2 * NumWords - 1 /\ n = j + NumWords
  BY <1>3, BaseFacts
<1>6. Value(h, 0) = 0
  <2>1. 0 \in Nat
    OBVIOUS
  <2> QED
    BY <1>3, <2>1, ValueFacts
<1>7. Value(h, NumWords) \in Int
  BY <1>3, BaseFacts, ValueFacts
<1>8. Value(d, j) \in Int /\ Value(d, j + 1) = Value(d, j) + d[j] * Power(Base, j)
  <2>1. Value(d, j) \in Int
    BY <1>3, ValueFacts
  <2> QED
    BY <1>3, <2>1, ValueStep
<1>9. Power(Base, j) \in Int
  BY <1>3, PowerFacts
<1>10. Power(Base, n) \in Int
  BY <1>3, <1>5, PowerFacts
<1> DEFINE H == Value(h, NumWords)
           D == Value(d, j)
           w == Power(Base, j)
           y == d[j]
<1>11. /\ \A x \in 0..n - 1 : p[x] # Unset
       /\ Value(p, n) + k * Power(Base, n) = H * D + H * y * w
  <2>1. CASE i = NumWords
    <3>1. (IF j = 0 THEN i ELSE NumWords + j) = n /\ i + j = n
      BY <1>3, <2>1, BaseFacts
    <3> HIDE DEF n
    <3> QED
      BY <1>3, <2>1, <3>1 DEF PartialProduct
  <2>2. CASE i = 0 /\ j > 0 /\ k = 0 /\ d[j] = 0
    <3>1. (IF j = 0 THEN i ELSE NumWords + j) = n
      BY <2>2
    <3> DEFINE z == Value(h, i) * d[j] * Power(Base, j)
               z1 == k * Power(Base, i + j)
               z2 == k * Power(Base, n)
               z3 == H * y * w
               z4 == H * D
               a == Value(p, n)
    <3>2. z = 0
      <4>1. Value(h, i) = 0
        BY <1>6, <2>2
      <4>2. 0 * d[j] * Power(Base, j) = 0
        BY <1>3, <1>9
      <4> QED
        BY <4>1, <4>2
    <3>3. z1 = 0
      <4>1. i + j \in Nat
        BY <1>3
      <4>2. Power(Base, i + j) \in Int
        BY <1>3, <4>1, PowerFacts
      <4> QED
        BY <2>2, <4>2
    <3>4. z2 = 0
      BY <1>10, <2>2
    <3>5. z3 = 0
      <4>1. H * 0 * w = 0
        BY <1>7, <1>9
      <4> QED
        BY <2>2, <4>1
    <3>6. \A x \in 0..n - 1 : p[x] # Unset
      <4> HIDE DEF n
      <4> QED
        BY <3>1 DEF PartialProduct
    <3>7. a + z1 = z4 + z
      <4> HIDE DEF n
      <4> QED
        BY <1>3, <3>1 DEF PartialProduct
    <3>8. z4 \in Int /\ a \in Int
      <4>1. a \in Int
        <5> HIDE DEF n
        <5> QED
          BY <1>5, <3>6, KnownWords
      <4>2. z4 \in Int
        BY <1>7, <1>8
      <4> QED
        BY <4>1, <4>2
    <3>9. a + z2 = z4 + z3
      <4> HIDE DEF z, z1, z2, z3, z4, a
      <4> QED
        BY <3>2, <3>3, <3>4, <3>5, <3>7, <3>8
    <3> QED
      BY <3>6, <3>9
  <2> QED
    BY <1>4, <2>1, <2>2
<1>12. /\ \A x \in 0..n - 1 : p[x] \in Word
       /\ Coefficients(p, n) /\ Value(p, n) \in Int
  <2> HIDE DEF n
  <2> QED
    BY <1>5, <1>11, KnownWords
<1>13. p \in [0..2 * NumWords - 1 -> Word \cup {Unset}]
  BY DEF TypeOK
<1>14. g \in [0..2 * NumWords - 1 -> Word \cup {Unset}]
  BY <1>3, <1>13
<1>15. g[n] = k /\ \A x \in 0..n - 1 : g[x] = p[x]
  <2>1. ASSUME NEW x \in 0..n - 1 PROVE g[x] = p[x]
    <3>1. x \in 0..2 * NumWords - 1 /\ x # j + NumWords
      BY <1>3, BaseFacts
    <3> QED
      BY <1>13, <3>1
  <2>2. g[n] = k
    BY <1>5, <1>13
  <2> QED
    BY <2>1, <2>2
<1> HIDE DEF g
<1>16. TypeOK'
  <2>1. k' \in Word /\ j' \in 0..NumWords /\ i' \in 0..NumWords
    BY <1>1, <1>3, BaseFacts DEF Word
  <2>2. pc' \in {"row", "end", "decide", "done"}
    BY <1>1
  <2> QED
    BY <1>1, <1>2, <1>14, <2>1, <2>2 DEF TypeOK, args
<1>17. Position'
  <2>1. CASE j + 1 = NumWords
    BY <1>1, <2>1 DEF Position
  <2>2. CASE j + 1 # NumWords
    <3>1. j + 1 < NumWords /\ 0 < NumWords
      BY <1>3, <2>2, BaseFacts
    <3>2. pc' = "row" /\ i' = 0 /\ k' = 0 /\ j' < NumWords
      BY <1>1, <2>2, <3>1
    <3> QED
      BY <3>1, <3>2 DEF Position
  <2> QED
    BY <2>1, <2>2
<1>18. Arguments' /\ AnswerIsProductBound'
  BY <1>1, <1>2, ArgumentsStay
<1>19. PartialProduct'
  <2>1. ASSUME NEW x \in 0..n PROVE g[x] \in Word /\ g[x] # Unset
    <3>1. g[x] \in Word
      <4>1. CASE x = n
        BY <1>3, <1>15, <4>1
      <4>2. CASE x # n
        <5>1. x \in 0..n - 1
          BY <1>5, <4>2
        <5> HIDE DEF n
        <5> QED
          BY <1>12, <1>15, <5>1
      <4> QED
        BY <4>1, <4>2
    <3> QED
      BY <3>1, ConstantsAssumption
  <2>2. Value(g, n + 1) = Value(g, n) + g[n] * Power(Base, n)
    <3>1. (n + 1) - 1 = n
      BY <1>5
    <3>2. Coefficients(g, n + 1)
      <4>1. \A x \in 0..n : g[x] \in Int
        BY <2>1, BaseFacts
      <4> HIDE DEF n
      <4> QED
        BY <3>1, <4>1 DEF Coefficients
    <3> HIDE DEF n
    <3> QED
      BY <1>5, <3>2, ValueStep
  <2>3. Value(g, n) = Value(p, n)
    <3> HIDE DEF n
    <3> QED
      BY <1>5, <1>12, <1>15, ValueSame
  <2>4. Value(g, n + 1) = H * Value(d, j + 1)
    <3> DEFINE a == Value(p, n)
               b == k * Power(Base, n)
    <3>1. H \in Int /\ D \in Int /\ y \in Int /\ w \in Int
      BY <1>3, <1>7, <1>8, <1>9
    <3>2. H * (D + y * w) = H * D + H * y * w
      <4> HIDE DEF H, D, y, w
      <4> QED
        BY <3>1
    <3>3. Value(g, n + 1) = a + b
      BY <1>15, <2>2, <2>3
    <3> QED
      BY <1>8, <1>11, <3>2, <3>3
  <2>5. n + 1 = NumWords + (j + 1) /\ j + 1 # 0 /\ (n + 1) - 1 = n /\ 0 + (j + 1) = j + 1
    BY <1>3, BaseFacts
  <2>6. H * Value(d, j + 1) \in Int
    <3>1. j + 1 \in Nat
      BY <1>3
    <3>2. Value(d, j + 1) \in Int
      BY <1>3, <3>1, ValueFacts
    <3> QED
      BY <1>7, <3>2
  <2> DEFINE row == IF j + 1 < NumWords THEN Value(h, 0) * d[j + 1] * Power(Base, j + 1) ELSE 0
  <2>7. row = 0
    <3>1. CASE j + 1 < NumWords
      <4>1. j + 1 \in 0..NumWords - 1 /\ j + 1 \in Nat
        BY <1>3, <3>1, BaseFacts
      <4>2. d[j + 1] \in Int
        BY <4>1, BaseFacts DEF TypeOK, Number
      <4>3. Power(Base, j + 1) \in Int
        BY <1>3, <4>1, PowerFacts
      <4>4. 0 * d[j + 1] * Power(Base, j + 1) = 0
        BY <4>2, <4>3
      <4> QED
        BY <1>6, <4>4
    <3>2. CASE ~(j + 1 < NumWords)
      BY <3>2
    <3> QED
      BY <3>1, <3>2
  <2>8. 0 * Power(Base, j + 1) = 0
    <3>1. j + 1 \in Nat
      BY <1>3
    <3>2. Power(Base, j + 1) \in Int
      BY <1>3, <3>1, PowerFacts
    <3> QED
      BY <3>2
  <2> DEFINE a == Value(g, n + 1)
             b == H * Value(d, j + 1)
             z == 0 * Power(Base, j + 1)
  <2>9. a + z = b + row
    <3>1. a = b /\ b \in Int /\ z = 0 /\ row = 0
      BY <2>4, <2>6, <2>7, <2>8
    <3> HIDE DEF a, b, z, row
    <3> QED
      BY <3>1
  <2>10. \A x \in 0..(NumWords + (j + 1)) - 1 : g[x] # Unset
    BY <2>1, <2>5
  <2>11. Value(g, NumWords + (j + 1)) + 0 * Power(Base, j + 1)
           = Value(h, NumWords) * Value(d, j + 1) + row
    BY <2>5, <2>9
  <2> HIDE DEF n, H, D, w, y
  <2> QED
    BY <1>1, <1>2, <2>5, <2>10, <2>11 DEF PartialProduct
<1> QED
  BY <1>16, <1>17, <1>18, <1>19

\* The words of a number below the product of two: at most 2^256 exactly if the upper ones
\* are zero, or the one above the lower half is one and every other is zero.
LEMMA ProductBound ==
    ASSUME NEW f, \A x \in 0..2 * NumWords - 1 : f[x] \in Word
    PROVE  Value(f, 2 * NumWords) <= Limit <=>
             \/ \A x \in NumWords..2 * NumWords - 1 : f[x] = 0
             \/ /\ \A x \in 0..NumWords - 1 : f[x] = 0
                /\ \A x \in NumWords + 1..2 * NumWords - 1 : f[x] = 0
                /\ f[NumWords] = 1
<1> DEFINE n == NumWords
           m == n - 1
           g == [x \in 0..n - 1 |-> f[n + x]]
           u == [x \in 0..m - 1 |-> g[1 + x]]
           a == Value(f, n)
           b == Value(g, n)
           c == Value(u, m)
           y == f[n]
<1>1. n \in Nat /\ m \in Nat /\ n = 1 + m /\ n >= 1 /\ 2 * n = n + n /\ Base \in Nat \ {0, 1}
  BY BaseFacts
<1>2. (\A x \in 0..(n + n) - 1 : f[x] \in Word) /\ n = NumWords /\ 2 * NumWords = n + n
  BY <1>1
<1>3. \A x \in 0..n - 1 : g[x] = f[n + x]
  OBVIOUS
<1>4. \A x \in 0..m - 1 : u[x] = g[1 + x]
  OBVIOUS
<1>5. Value(f, n + n) = a + Power(Base, n) * b
  <2>1. Coefficients(f, n + n)
    BY <1>2, BaseFacts DEF Coefficients
  <2> HIDE DEF n, g
  <2>2. Value(f, n + n) = Value(f, n) + Power(Base, n) * Value(Upper(f, n, n), n)
    BY <1>1, <2>1, ValueSplit
  <2>3. Upper(f, n, n) = g
    BY DEF Upper, g
  <2> QED
    BY <2>2, <2>3
<1> HIDE DEF n, m
<1>6. y \in Word /\ \A x \in 0..n - 1 : f[x] \in Word
  BY <1>1, <1>2
<1>7. \A x \in 0..n - 1 : g[x] \in Word
  <2> SUFFICES ASSUME NEW x \in 0..n - 1 PROVE g[x] \in Word
    OBVIOUS
  <2>1. n + x \in 0..(n + n) - 1
    BY <1>1
  <2> HIDE DEF g
  <2> QED
    BY <1>2, <1>3, <2>1
<1>8. g[0] = y
  <2>1. 0 \in 0..n - 1 /\ n + 0 = n
    BY <1>1
  <2> HIDE DEF g
  <2>2. g[0] = f[n + 0]
    BY <1>3, <2>1
  <2> QED
    BY <2>1, <2>2
<1>9. b = y + Base * c
  <2>1. Coefficients(g, 1 + m)
    <3> HIDE DEF g
    <3> QED
      BY <1>1, <1>7, BaseFacts DEF Coefficients
  <2> DEFINE one == 1
             zero == 0
  <2>2. one \in Nat /\ zero \in Nat /\ zero + 1 = one /\ one = 1 /\ zero = 0
    OBVIOUS
  <2> HIDE DEF g, one, zero
  <2>3. Value(g, one + m) = Value(g, one) + Power(Base, one) * Value(Upper(g, one, m), m)
    <3>1. Coefficients(g, one + m) /\ one \in Nat /\ m \in Nat
      BY <1>1, <2>1, <2>2
    <3> HIDE DEF u, a, b, c, y
    <3> QED
      BY <3>1, ValueSplit
  <2>4. Upper(g, one, m) = u
    BY <2>2 DEF Upper
  <2>5. Coefficients(g, zero + 1) /\ Coefficients(g, zero) /\ g[zero] = y
    <3>1. 0..(zero + 1) - 1 \subseteq 0..(1 + m) - 1 /\ 0..zero - 1 \subseteq 0..(1 + m) - 1
      BY <1>1, <2>2
    <3> QED
      BY <1>8, <2>1, <2>2, <3>1 DEF Coefficients
  <2>6. Value(g, zero + 1) = Value(g, zero) + g[zero] * Power(Base, zero)
    BY <2>2, <2>5, ValueStep
  <2>7. Value(g, zero) = 0
    BY <2>2, <2>5, ValueFacts
  <2>8. Base \in Int
    BY <1>1
  <2>9. Power(Base, zero) = 1 /\ Power(Base, zero + 1) = Base * Power(Base, zero)
    BY <2>2, <2>8, PowerFacts
  <2>10. Value(g, one) = y
    BY <1>6, <2>2, <2>5, <2>6, <2>7, <2>9, BaseFacts
  <2>11. Power(Base, one) = Base
    BY <2>2, <2>8, <2>9
  <2> HIDE DEF u
  <2> QED
    BY <1>1, <2>2, <2>3, <2>4, <2>10, <2>11
<1>10. \A x \in 0..m - 1 : u[x] \in Word
  <2> SUFFICES ASSUME NEW x \in 0..m - 1 PROVE u[x] \in Word
    OBVIOUS
  <2>1. 1 + x \in 0..n - 1
    BY <1>1
  <2> HIDE DEF g, u
  <2> QED
    BY <1>4, <1>7, <2>1
<1>11. a \in Nat /\ a < Power(Base, n) /\ (a = 0 <=> \A x \in 0..n - 1 : f[x] = 0)
  BY <1>1, <1>6, ValueBound, ValueZero
<1>12. b \in Nat /\ (b = 0 <=> \A x \in 0..n - 1 : g[x] = 0)
  <2> HIDE DEF g
  <2> QED
    BY <1>1, <1>7, ValueBound, ValueZero
<1>13. c \in Nat /\ (c = 0 <=> \A x \in 0..m - 1 : u[x] = 0)
  <2> HIDE DEF u
  <2> QED
    BY <1>1, <1>10, ValueBound, ValueZero
<1>14. (\A x \in 0..n - 1 : g[x] = 0) <=> (\A x \in n..(n + n) - 1 : f[x] = 0)
  <2>1. ASSUME \A x \in 0..n - 1 : g[x] = 0, NEW x \in n..(n + n) - 1 PROVE f[x] = 0
    <3>1. x - n \in 0..n - 1 /\ n + (x - n) = x
      BY <1>1
    <3> HIDE DEF g
    <3> QED
      BY <1>3, <2>1, <3>1
  <2>2. ASSUME \A x \in n..(n + n) - 1 : f[x] = 0, NEW x \in 0..n - 1 PROVE g[x] = 0
    <3>1. n + x \in n..(n + n) - 1
      BY <1>1
    <3> HIDE DEF g
    <3> QED
      BY <1>3, <2>2, <3>1
  <2> HIDE DEF g
  <2> QED
    BY <2>1, <2>2
<1>15. (\A x \in 0..m - 1 : u[x] = 0) <=> (\A x \in n + 1..(n + n) - 1 : f[x] = 0)
  <2>1. ASSUME \A x \in 0..m - 1 : u[x] = 0, NEW x \in n + 1..(n + n) - 1 PROVE f[x] = 0
    <3> DEFINE e == x - (n + 1)
    <3>1. e \in 0..m - 1 /\ 1 + e \in 0..n - 1 /\ n + (1 + e) = x
      BY <1>1
    <3> HIDE DEF g, u, e
    <3>2. u[e] = g[1 + e] /\ u[e] = 0
      BY <1>4, <2>1, <3>1
    <3>3. g[1 + e] = f[n + (1 + e)]
      BY <1>3, <3>1
    <3> QED
      BY <3>1, <3>2, <3>3
  <2>2. ASSUME \A x \in n + 1..(n + n) - 1 : f[x] = 0, NEW x \in 0..m - 1 PROVE u[x] = 0
    <3>1. 1 + x \in 0..n - 1 /\ n + (1 + x) \in n + 1..(n + n) - 1
      BY <1>1
    <3> HIDE DEF g, u
    <3>2. u[x] = g[1 + x]
      BY <1>4
    <3>3. g[1 + x] = f[n + (1 + x)]
      BY <1>3, <3>1
    <3> QED
      BY <2>2, <3>1, <3>2, <3>3
  <2> HIDE DEF g, u
  <2> QED
    BY <2>1, <2>2
<1>16. b = 1 <=> y = 1 /\ c = 0
  <2> HIDE DEF b, c, y
  <2>1. y \in Nat /\ c \in Nat /\ Base \in Nat \ {0, 1}
    BY <1>1, <1>6, <1>13, BaseFacts
  <2>2. CASE c = 0
    BY <1>9, <2>1, <2>2
  <2>3. CASE c # 0
    <3>1. Base * c >= 2
      BY <2>1, <2>3
    <3> QED
      BY <1>9, <2>1, <2>3, <3>1
  <2> QED
    BY <2>2, <2>3
<1> DEFINE z == Value(f, n + n)
           w == Power(Base, n)
<1>17. z <= w <=> b = 0 \/ (b = 1 /\ a = 0)
  <2>1. w \in Nat \ {0}
    BY <1>1, PowerPositive
  <2>2. a \in Nat /\ a < w /\ b \in Nat /\ z = a + w * b
    BY <1>5, <1>11, <1>12
  <2> HIDE DEF a, b, w, z
  <2>3. CASE b = 0
    BY <2>1, <2>2, <2>3
  <2>4. CASE b = 1
    BY <2>1, <2>2, <2>4
  <2>5. CASE b > 1
    <3>1. w * b >= w * 2
      BY <2>1, <2>2, <2>5
    <3> QED
      BY <2>1, <2>2, <2>5, <3>1
  <2> QED
    BY <2>2, <2>3, <2>4, <2>5
<1> HIDE DEF a, b, c, g, u, w, z
<1>18. z <= w <=>
         \/ \A x \in n..(n + n) - 1 : f[x] = 0
         \/ /\ \A x \in 0..n - 1 : f[x] = 0
            /\ \A x \in n + 1..(n + n) - 1 : f[x] = 0
            /\ y = 1
  BY <1>11, <1>12, <1>13, <1>14, <1>15, <1>16, <1>17, Zenon
<1>19. Limit = w /\ z = Value(f, 2 * NumWords)
  BY <1>2 DEF Limit, w, z
<1>20. Value(f, 2 * NumWords) <= Limit <=>
         \/ \A x \in n..2 * NumWords - 1 : f[x] = 0
         \/ /\ \A x \in 0..n - 1 : f[x] = 0
            /\ \A x \in n + 1..2 * NumWords - 1 : f[x] = 0
            /\ f[n] = 1
  <2> DEFINE Bounded(e) == \/ \A x \in n..e - 1 : f[x] = 0
                           \/ /\ \A x \in 0..n - 1 : f[x] = 0
                              /\ \A x \in n + 1..e - 1 : f[x] = 0
                              /\ f[n] = 1
  <2>1. n + n = 2 * NumWords
    BY <1>2
  <2>2. z <= w <=> Bounded(n + n)
    BY <1>18, Zenon DEF y
  <2>3. Bounded(n + n) = Bounded(2 * NumWords)
    BY <2>1, Zenon
  <2>4. z <= w <=> Bounded(2 * NumWords)
    BY <2>2, <2>3, Zenon
  <2> HIDE DEF Bounded
  <2>5. Value(f, 2 * NumWords) <= Limit <=> Bounded(2 * NumWords)
    BY <1>19, <2>4, Zenon
  <2> QED
    BY <2>5, Zenon DEF Bounded
<1> QED
  BY <1>20, Zenon DEF n

LEMMA DecideStep ==
    ASSUME Inv, Decide PROVE Inv'
<1> USE DEF Inv
<1>1. /\ pc = "decide" /\ pc' = "done" /\ UNCHANGED <<args, p, k, j, i>>
      /\ answer' = (\/ AllZero(NumWords, 2 * NumWords - 1)
                    \/ /\ AllZero(0, NumWords - 1)
                       /\ AllZero(NumWords + 1, 2 * NumWords - 1)
                       /\ p[NumWords] = 1)
  BY DEF Decide
<1>2. /\ h' = h /\ d' = d /\ p' = p /\ k' = k /\ j' = j /\ i' = i
      /\ final_hash' = final_hash /\ difficulty' = difficulty /\ portable' = portable
  BY <1>1 DEF args
<1>3. j = NumWords /\ i = 0 /\ k = 0
  BY <1>1 DEF Position
<1>4. TypeOK'
  <2>1. answer' \in BOOLEAN
    BY <1>1
  <2> QED
    BY <1>1, <1>2, <2>1 DEF TypeOK
<1>5. Position'
  BY <1>1, <1>2, <1>3 DEF Position
<1>6. Arguments'
  BY <1>2 DEF Arguments
<1>7. PartialProduct'
  BY <1>2, Zenon DEF PartialProduct
<1>8. /\ \A x \in 0..2 * NumWords - 1 : p[x] # Unset
      /\ Value(p, 2 * NumWords) = Value(h, NumWords) * Value(d, NumWords)
  <2> DEFINE n == 2 * NumWords
  <2>1. NumWords # 0 /\ NumWords + NumWords = n /\ ~(NumWords < NumWords)
        /\ 0 + NumWords = NumWords /\ n \in 0..2 * NumWords
    BY BaseFacts
  <2> HIDE DEF n
  <2> DEFINE a == Value(p, n)
             b == Value(h, NumWords) * Value(d, NumWords)
             c == 0 * Power(Base, NumWords)
  <2>2. (\A x \in 0..n - 1 : p[x] # Unset) /\ a + c = b + 0
    BY <1>3, <2>1 DEF PartialProduct
  <2>3. a \in Int
    BY <2>1, <2>2, KnownWords
  <2>4. b \in Int
    <3>1. Coefficients(h, NumWords) /\ Coefficients(d, NumWords) /\ NumWords \in Nat
      BY BaseFacts DEF TypeOK, Number, Coefficients
    <3>2. Value(h, NumWords) \in Int /\ Value(d, NumWords) \in Int
      BY <3>1, ValueFacts
    <3> QED
      BY <3>2
  <2>5. c = 0
    <3>1. Power(Base, NumWords) \in Int
      BY BaseFacts, PowerFacts
    <3> QED
      BY <3>1
  <2>6. a = b
    <3>1. a + c = b + 0
      BY <2>2
    <3> HIDE DEF a, b, c
    <3> QED
      BY <2>3, <2>4, <2>5, <3>1
  <2> QED
    BY <2>2, <2>6 DEF n
<1>9. \A x \in 0..2 * NumWords - 1 : p[x] \in Word
  <2> DEFINE n == 2 * NumWords
  <2>1. n \in 0..2 * NumWords
    BY BaseFacts
  <2>2. \A x \in 0..n - 1 : p[x] # Unset
    BY <1>8
  <2> HIDE DEF n
  <2>3. \A x \in 0..n - 1 : p[x] \in Word
    BY <2>1, <2>2, KnownWords
  <2> QED
    BY <2>3 DEF n
<1>10. answer' <=> Value(p, 2 * NumWords) <= Limit
  BY <1>1, <1>9, ProductBound, Zenon DEF AllZero
<1>11. answer' <=> BigEndian(final_hash) * BigEndian(difficulty) <= Limit
  BY <1>8, <1>10 DEF Arguments
<1>12. AnswerIsProductBound'
  <2>1. Limit' = Limit /\ BigEndian(final_hash)' = BigEndian(final_hash)
        /\ BigEndian(difficulty)' = BigEndian(difficulty)
    BY <1>2
  <2> QED
    BY <1>11, <2>1 DEF AnswerIsProductBound
<1> QED
  BY <1>4, <1>5, <1>6, <1>7, <1>12

LEMMA StayStep ==
    ASSUME Inv, UNCHANGED vars PROVE Inv'
  BY Zenon DEF Inv, TypeOK, Arguments, Position, PartialProduct, AnswerIsProductBound, vars, args

THEOREM InvHolds == Spec => []Inv
<1>1. Inv /\ [Next]_vars => Inv'
  BY FirstStep, LaterStep, SkipStep, EndStep, DecideStep, StayStep DEF Next
<1> QED
  BY InitInv, <1>1, PTL DEF Spec

\* The types of the variables, for any width of a word and any number of words.
THEOREM TypeCorrect == Spec => []TypeOK
<1>1. Inv => TypeOK
  BY DEF Inv
<1> QED
  BY InvHolds, <1>1, PTL

\* No carry is lost, and no word of the product is used before it is set.
THEOREM ProductIsExact == Spec => []PartialProduct
<1>1. Inv => PartialProduct
  BY DEF Inv
<1> QED
  BY InvHolds, <1>1, PTL

\* check_against_difficulty decides whether the product of the two big-endian numbers is at
\* most 2^256, with either multiplication and on hosts of either endianness.
THEOREM AnswerCorrect == Spec => []AnswerIsProductBound
<1>1. Inv => AnswerIsProductBound
  BY DEF Inv
<1> QED
  BY InvHolds, <1>1, PTL

-----------------------------------------------------------------------------
(* The comparison with the boundary.                                       *)

\* The order of the words in memory is that of the numbers.
LEMMA LessEqualIsOrder ==
    ASSUME NEW host \in Hosts, NEW x \in Memory, NEW y \in Memory
    PROVE  LessEqual(host, x, y) <=> BigEndian(x) <= BigEndian(y)
<1> DEFINE a(w) == WordAt(host, x, w)
           b(w) == WordAt(host, y, w)
           Same(w) == \A e \in 0..w - 1 : a(e) = b(e)
           Less(w) == \E e \in 0..w - 1 : a(e) < b(e) /\ Same(e)
           X(w) == Prefix(x, w)
           Y(w) == Prefix(y, w)
           S == {w \in 0..NumWords : /\ X(w) \in Nat /\ Y(w) \in Nat
                                     /\ X(w) = Y(w) <=> Same(w)
                                     /\ X(w) < Y(w) <=> Less(w)}
<1>1. 0 \in S
  <2>1. X(0) = 0 /\ Y(0) = 0
    BY PrefixStart
  <2>2. Same(0) /\ ~Less(0)
    OBVIOUS
  <2> HIDE DEF X, Y, Same, Less
  <2> QED
    BY <2>1, <2>2, BaseFacts
<1>2. ASSUME NEW w \in 0..NumWords - 1, w \in S PROVE w + 1 \in S
  <2>1. /\ X(w + 1) = Base * X(w) + a(w) /\ Y(w + 1) = Base * Y(w) + b(w)
    BY PrefixStep
  <2>2. /\ a(w) \in Nat /\ b(w) \in Nat /\ a(w) < Base /\ b(w) < Base /\ Base \in Nat \ {0}
        /\ w + 1 \in 0..NumWords
    <3>1. a(w) \in Word /\ b(w) \in Word
      BY WordAtValue
    <3> HIDE DEF a, b
    <3> QED
      BY <3>1, BaseFacts
  <2>3. w \in Nat /\ (w + 1) - 1 = w /\ 0..w = (0..w - 1) \cup {w}
    OBVIOUS
  <2>4. Same(w + 1) <=> Same(w) /\ a(w) = b(w)
    <3> HIDE DEF a, b
    <3> QED
      BY <2>3
  <2>5. Less(w + 1) <=> Less(w) \/ (a(w) < b(w) /\ Same(w))
    <3> HIDE DEF a, b, Same
    <3> QED
      BY <2>3
  <2> HIDE DEF a, b, X, Y, Same, Less
  <2> DEFINE x0 == X(w)
             y0 == Y(w)
             c == a(w)
             e == b(w)
  <2>6. x0 \in Nat /\ y0 \in Nat /\ (x0 = y0 <=> Same(w)) /\ (x0 < y0 <=> Less(w))
    BY <1>2
  <2>7. /\ Base * x0 + c \in Nat /\ Base * y0 + e \in Nat
        /\ Base * x0 + c = Base * y0 + e <=> x0 = y0 /\ c = e
        /\ Base * x0 + c < Base * y0 + e <=> x0 < y0 \/ (c < e /\ x0 = y0)
    <3>1. c \in Nat /\ e \in Nat /\ c < Base /\ e < Base
      BY <2>2
    <3> HIDE DEF x0, y0, c, e
    <3> DEFINE bx == Base * x0
               by == Base * y0
    <3>2. bx \in Nat /\ by \in Nat
      BY <2>2, <2>6
    <3>3. CASE x0 = y0
      <4>1. bx = by
        BY <3>3
      <4> HIDE DEF bx, by
      <4>2. /\ bx + c \in Nat /\ by + e \in Nat
            /\ bx + c = by + e <=> x0 = y0 /\ c = e
            /\ bx + c < by + e <=> x0 < y0 \/ (c < e /\ x0 = y0)
        BY <2>6, <3>1, <3>2, <3>3, <4>1
      <4> QED
        BY <4>2 DEF bx, by
    <3>4. CASE x0 < y0
      <4>1. bx + Base <= by
        <5>1. Base * (x0 + 1) <= Base * y0 /\ Base * (x0 + 1) = Base * x0 + Base
          BY <2>2, <2>6, <3>4
        <5> QED
          BY <5>1
      <4> HIDE DEF bx, by
      <4>2. /\ bx + c \in Nat /\ by + e \in Nat
            /\ bx + c = by + e <=> x0 = y0 /\ c = e
            /\ bx + c < by + e <=> x0 < y0 \/ (c < e /\ x0 = y0)
        BY <2>2, <2>6, <3>1, <3>2, <3>4, <4>1
      <4> QED
        BY <4>2 DEF bx, by
    <3>5. CASE x0 > y0
      <4>1. by + Base <= bx
        <5>1. Base * (y0 + 1) <= Base * x0 /\ Base * (y0 + 1) = Base * y0 + Base
          BY <2>2, <2>6, <3>5
        <5> QED
          BY <5>1
      <4> HIDE DEF bx, by
      <4>2. /\ bx + c \in Nat /\ by + e \in Nat
            /\ bx + c = by + e <=> x0 = y0 /\ c = e
            /\ bx + c < by + e <=> x0 < y0 \/ (c < e /\ x0 = y0)
        BY <2>2, <2>6, <3>1, <3>2, <3>5, <4>1
      <4> QED
        BY <4>2 DEF bx, by
    <3> QED
      BY <2>6, <3>3, <3>4, <3>5
  <2>8. /\ X(w + 1) \in Nat /\ Y(w + 1) \in Nat
        /\ X(w + 1) = Y(w + 1) <=> Same(w + 1)
        /\ X(w + 1) < Y(w + 1) <=> Less(w + 1)
    BY <2>1, <2>4, <2>5, <2>6, <2>7
  <2> QED
    BY <2>2, <2>8
<1>3. 0..NumWords \subseteq S
  <2> HIDE DEF S
  <2> QED
    BY <1>1, <1>2, BaseFacts, Induction
<1>4. LessEqual(host, x, y) <=> Same(NumWords) \/ Less(NumWords)
  BY Zenon DEF LessEqual
<1>5. BigEndian(x) = X(NumWords) /\ BigEndian(y) = Y(NumWords)
  BY DEF BigEndian, Prefix
<1>6. NumWords \in S
  <2> HIDE DEF S
  <2> QED
    BY <1>3, BaseFacts
<1> HIDE DEF X, Y, Same, Less
<1> QED
  BY <1>4, <1>5, <1>6

\* Division step by step.
LEMMA DivisionOfQuotient ==
    ASSUME NEW v \in Nat, NEW a \in Nat \ {0}, NEW b \in Nat \ {0}
    PROVE  v \div (a * b) = (v \div b) \div a
<1> DEFINE u == v \div b
           r == v % b
<1>1. u \in Nat /\ r \in 0..b - 1 /\ v = b * u + r
  BY DivisionFacts
<1> HIDE DEF u, r
<1> DEFINE q == u \div a
           s == u % a
<1>2. q \in Nat /\ s \in 0..a - 1 /\ u = a * q + s
  BY <1>1, DivisionFacts
<1> HIDE DEF q, s
<1> DEFINE m == a * b
           t == b * s + r
<1>3. v = m * q + t
  <2>1. b * (a * q + s) + r = (a * b) * q + (b * s + r)
    BY <1>1, <1>2
  <2> QED
    BY <1>1, <1>2, <2>1
<1>4. m \in Nat \ {0} /\ t \in 0..m - 1
  <2>1. b * (s + 1) <= b * a /\ b * (s + 1) = b * s + b /\ b * s \in Nat /\ b * a = m
    BY <1>2
  <2>2. m \in Nat /\ m >= b
    BY <1>2, <2>1
  <2> HIDE DEF m
  <2> QED
    BY <1>1, <2>1, <2>2
<1> HIDE DEF t
<1>5. v \div m = q
  <2> HIDE DEF m
  <2> QED
    BY <1>2, <1>3, <1>4, DivisionUnique
<1> QED
  BY <1>5 DEF u, q

\* The bytes of a number below 2^256 are those of it.
LEMMA BytesOfNumber ==
    ASSUME NEW v \in Nat, v < Limit
    PROVE  Bytes(v) \in Memory /\ BigEndian(Bytes(v)) = v
<1> DEFINE H == HalfBase
           n == 2 * NumWords
           x == Bytes(v)
           W(m) == Power(H, m)
           zero == 0
           E(w) == Linear(zero, H, x, w)
           S == {w \in 0..n : E(w) = v \div W(n - w)}
<1>1. H \in Nat \ {0, 1} /\ H \in Int /\ n \in Nat /\ n >= 1 /\ zero \in Int /\ zero = 0
  BY BaseFacts
<1>2. ASSUME NEW m \in Nat
      PROVE  W(m) \in Nat \ {0} /\ W(m + 1) = H * W(m) /\ v \div W(m) \in Nat
  <2>1. Power(H, m) \in Nat \ {0}
    BY <1>1, PowerPositive
  <2>2. Power(H, m + 1) = H * Power(H, m)
    BY <1>1, PowerFacts
  <2>3. v \div Power(H, m) \in Nat
    BY <2>1, DivisionFacts
  <2> QED
    BY <2>1, <2>2, <2>3
<1>3. \A e \in 0..n - 1 : x[e] = (v \div W(n - 1 - e)) % H
  BY DEF Bytes
<1>4. ASSUME NEW e \in 0..n - 1 PROVE x[e] \in 0..H - 1
  <2> DEFINE u == v \div W(n - 1 - e)
  <2>1. n - 1 - e \in Nat
    BY <1>1
  <2>2. u \in Nat
    <3> HIDE DEF W
    <3> QED
      BY <1>2, <2>1
  <2>3. x[e] = u % H
    BY <1>3
  <2> HIDE DEF u, x
  <2> QED
    BY <1>1, <2>2, <2>3, DivisionFacts
<1>5. x \in Memory
  <2>1. x = [e \in 0..n - 1 |-> x[e]]
    BY DEF Bytes
  <2> HIDE DEF x
  <2> QED
    BY <1>4, <2>1 DEF Memory
<1>6. W(n) = Limit
  BY <1>1, BaseFacts, PowerProduct DEF Limit
<1>7. BigEndian(x) = E(n)
  BY DEF BigEndian
<1>8. Coefficients(x, n)
  <2> HIDE DEF x
  <2> QED
    BY <1>1, <1>4 DEF Coefficients
<1> HIDE DEF H, n, x, zero
<1>9. 0 \in S
  <2>1. E(0) = 0
    <3>1. Coefficients(x, 0) /\ 0 \in Nat
      BY DEF Coefficients
    <3> QED
      BY <1>1, <3>1, LinearFacts
  <2> DEFINE l == W(n)
             nought == 0
  <2>2. v \div l = 0
    <3>1. l \in Nat \ {0} /\ l * nought + v = v /\ nought \in Nat /\ v \in 0..l - 1 /\ nought = 0
      <4>1. l \in Nat \ {0} /\ v < l
        <5>1. l \in Nat \ {0}
          <6> HIDE DEF W
          <6> QED
            BY <1>1, <1>2
        <5>2. l = Limit
          BY <1>6
        <5> HIDE DEF l
        <5> QED
          BY <5>1, <5>2
      <4> HIDE DEF l
      <4> QED
        BY <4>1
    <3> HIDE DEF l, nought
    <3>2. (l * nought + v) \div l = nought
      BY <3>1, DivisionUnique
    <3> QED
      BY <3>1, <3>2
  <2>3. n - 0 = n
    BY <1>1
  <2> QED
    BY <1>1, <2>1, <2>2, <2>3
<1>10. ASSUME NEW w \in 0..n - 1, w \in S PROVE w + 1 \in S
  <2> DEFINE m == n - 1 - w
             u == v \div W(m)
  <2>1. /\ w \in Nat /\ w + 1 \in 0..n /\ m \in Nat /\ m + 1 = n - w /\ m = n - (w + 1)
        /\ Coefficients(x, w + 1)
    BY <1>1, <1>8 DEF Coefficients
  <2>2. E(w + 1) = H * E(w) + x[w]
    BY <1>1, <2>1, LinearStep
  <2>3. u \in Nat /\ W(m) \in Nat \ {0} /\ W(m + 1) = H * W(m)
    <3> HIDE DEF m, W
    <3> QED
      BY <1>2, <2>1
  <2>4. E(w) = v \div W(m + 1)
    <3>1. E(w) = v \div W(n - w)
      BY <1>10
    <3> HIDE DEF E, W, m
    <3> QED
      BY <2>1, <3>1
  <2>5. x[w] = u % H
    BY <1>3
  <2>6. E(w) = u \div H
    <3> DEFINE wm == W(m)
    <3>1. wm \in Nat \ {0} /\ H \in Nat \ {0} /\ E(w) = v \div (H * wm) /\ u = v \div wm
      BY <1>1, <2>3, <2>4
    <3> HIDE DEF wm, u, E
    <3> QED
      BY <3>1, DivisionOfQuotient
  <2>7. H * (u \div H) + (u % H) = u
    <3> HIDE DEF u
    <3> QED
      BY <1>1, <2>3, DivisionFacts
  <2>8. E(w + 1) = u
    <3> HIDE DEF E, u
    <3> QED
      BY <2>2, <2>5, <2>6, <2>7
  <2>9. u = v \div W(n - (w + 1))
    <3>1. m = n - (w + 1)
      BY <2>1
    <3> HIDE DEF m, W
    <3> QED
      BY <3>1
  <2> HIDE DEF E, u, W
  <2> QED
    BY <2>1, <2>8, <2>9
<1>11. n \in S
  <2>1. n \in 0..n
    BY <1>1
  <2> HIDE DEF S
  <2> QED
    BY <1>1, <1>9, <1>10, <2>1, Induction
<1>12. v \div W(n - n) = v
  <2>1. n - n = 0
    BY <1>1
  <2>2. Power(H, 0) = 1
    BY <1>1, PowerFacts, 0 \in Nat
  <2>3. v \div 1 = v
    OBVIOUS
  <2> QED
    BY <2>1, <2>2, <2>3
<1>13. E(n) = v
  BY <1>11, <1>12
<1> QED
  BY <1>5, <1>7, <1>13 DEF x

LEMMA BigEndianType ==
    ASSUME NEW x \in Memory PROVE BigEndian(x) \in Nat
<1> DEFINE host == "big"
           g == Native(host, x)
<1>1. host \in Hosts
  BY DEF Hosts
<1> HIDE DEF host
<1>2. g \in Number /\ Value(g, NumWords) = BigEndian(x)
  BY <1>1, NativeIsNumber, NativeIsBigEndian
<1>3. \A e \in 0..NumWords - 1 : g[e] \in Word
  BY <1>2 DEF Number
<1> HIDE DEF g
<1> QED
  BY <1>2, <1>3, BaseFacts, ValueBound

\* Multiplying and comparing is the same as dividing and comparing.
LEMMA ProductOrQuotient ==
    ASSUME NEW a \in Nat, NEW b \in Nat \ {0}, NEW l \in Nat
    PROVE  a * b <= l <=> a <= l \div b
<1> DEFINE q == l \div b
           r == l % b
<1>1. q \in Nat /\ r \in 0..b - 1 /\ l = b * q + r
  BY DivisionFacts
<1> HIDE DEF q, r
<1>2. ASSUME a <= q PROVE a * b <= l
  <2>1. b * a <= b * q /\ b * a = a * b
    BY <1>1, <1>2
  <2>2. b * q \in Nat
    BY <1>1
  <2> QED
    BY <1>1, <2>1, <2>2
<1>3. ASSUME a > q PROVE a * b > l
  <2>1. b * (q + 1) <= b * a /\ b * (q + 1) = b * q + b /\ b * a = a * b
    BY <1>1, <1>3
  <2>2. b * q \in Nat /\ a * b \in Nat
    BY <1>1
  <2> QED
    BY <1>1, <2>1, <2>2
<1>4. a * b \in Nat
  OBVIOUS
<1>5. a * b <= l <=> a <= q
  BY <1>1, <1>2, <1>3, <1>4
<1> QED
  BY <1>5 DEF q

\* A boundary is below 2^256 and has the bytes it is written with.
LEMMA BoundaryFits ==
    ASSUME NEW b \in Nat, b > 1
    PROVE  Limit \in Nat /\ Limit \div b \in Nat /\ Limit \div b < Limit
<1>1. Limit \in Nat \ {0}
  BY BaseFacts, PowerPositive DEF Limit
<1> DEFINE l == Limit
           q == l \div b
<1>2. l \in Nat \ {0} /\ b \in Nat \ {0}
  BY <1>1
<1>3. q \in Nat /\ l % b \in 0..b - 1 /\ l = b * q + (l % b)
  <2> HIDE DEF l
  <2> QED
    BY <1>2, DivisionFacts
<1>4. q < l
  <2> HIDE DEF l, q
  <2>1. CASE q = 0
    BY <1>2, <2>1
  <2>2. CASE q # 0
    <3>1. b * q >= 2 * q
      BY <1>3
    <3> DEFINE bq == b * q
               r == l % b
    <3>2. bq >= 2 * q /\ l = bq + r /\ r \in Nat /\ bq \in Nat
      BY <1>2, <1>3, <3>1
    <3> HIDE DEF bq, r
    <3> QED
      BY <1>3, <2>2, <3>2
  <2> QED
    BY <2>1, <2>2
<1> QED
  BY <1>1, <1>3, <1>4

\* Above difficulty 1, check_against_difficulty accepts the hashes that the comparison with
\* the boundary 2^256 / difficulty accepts, which verify_against_boundary makes.
THEOREM BoundaryAgrees == Spec => []AgreesWithBoundary
<1>1. Inv => AgreesWithBoundary
  <2> DEFINE a == BigEndian(final_hash)
             b == BigEndian(difficulty)
             q == Limit \div b
             x == Bytes(q)
  <2> SUFFICES ASSUME Inv, pc = "done", b > 1, NEW host \in Hosts
               PROVE  answer <=> LessEqual(host, final_hash, x)
    BY DEF AgreesWithBoundary
  <2>1. final_hash \in Memory /\ difficulty \in Memory
    BY DEF Inv, TypeOK
  <2>2. answer <=> a * b <= Limit
    BY DEF Inv, AnswerIsProductBound
  <2>3. a \in Nat /\ b \in Nat
    BY <2>1, BigEndianType
  <2> HIDE DEF a, b
  <2>4. Limit \in Nat /\ q \in Nat /\ q < Limit
    BY <2>3, BoundaryFits
  <2>5. a * b <= Limit <=> a <= q
    BY <2>3, <2>4, ProductOrQuotient
  <2> HIDE DEF q
  <2>6. x \in Memory /\ BigEndian(x) = q
    BY <2>4, BytesOfNumber
  <2> HIDE DEF x
  <2>7. LessEqual(host, final_hash, x) <=> a <= q
    BY <2>1, <2>6, LessEqualIsOrder DEF a
  <2> QED
    BY <2>2, <2>5, <2>7
<1> QED
  BY InvHolds, <1>1, PTL

=============================================================================
