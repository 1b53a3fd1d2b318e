---- MODULE CheckDifficulty ----
(***************************************************************************)
(* check_against_difficulty of lib/ethash/ethash.cpp: a final hash h and a *)
(* difficulty d are multiplied word by word and the product is compared    *)
(* with 2^256, instead of comparing h with the boundary 2^256 / d.         *)
(*                                                                         *)
(* Words are numbers below Base (2^64 in the code) and a number has        *)
(* NumWords of them (4).  In memory a hash is a sequence of bytes, the     *)
(* most significant first; a word has only two bytes here, of HalfBase     *)
(* values each.  A little-endian host reads a word of it the wrong way     *)
(* round and swaps it (endianness.hpp).  All word arithmetic wraps around. *)
(***************************************************************************)
EXTENDS Integers

CONSTANTS
    NumWords,      \* words of a 256-bit number
    HalfBase,      \* 2^32
    Hashes, Difficulties,  \* the arguments, as bytes in memory
    Unset          \* content of a word of p that is not written yet

Base == HalfBase * HalfBase

Word == 0..Base - 1

Number == [0..NumWords - 1 -> Word]

Memory == [0..2 * NumWords - 1 -> 0..HalfBase - 1]

ASSUME ConstantsAssumption ==
    /\ NumWords \in Nat \ {0} /\ HalfBase \in Nat \ {0, 1}
    /\ Hashes \subseteq Memory /\ Difficulties \subseteq Memory
    /\ Unset \notin Word

-----------------------------------------------------------------------------

(* endianness.hpp, hash_types.h                                            *)

Hosts == {"little", "big"}

\* x.word64s[w]
word64s(host, x, w) ==
    IF host = "little" THEN x[2 * w] + HalfBase * x[2 * w + 1]
                       ELSE HalfBase * x[2 * w] + x[2 * w + 1]

\* Wrong variant of bswap64: the upper byte is not cut off.
bswap64Unmasked(v) == v * HalfBase + v \div HalfBase

bswap64(v) == (v % HalfBase) * HalfBase + v \div HalfBase

\* Wrong variant of be_uint64: words are taken as the host has them.
be_uint64Unswapped(host, v) == v

be_uint64(host, v) == IF host = "little" THEN bswap64(v) ELSE v

\* Word w of the memory, read as big-endian.
WordAt(host, x, w) == be_uint64(host, word64s(host, x, w))

\* The words of a big-endian number, least significant first.
Native(host, x) == [w \in 0..NumWords - 1 |-> WordAt(host, x, NumWords - 1 - w)]

-----------------------------------------------------------------------------
(* umul                                                                    *)

BuiltinUmul(x, y) == [lo |-> (x * y) % Base, hi |-> (x * y) \div Base]

\* The product from half words.
HalvesUmul(x, y) ==
    LET low(a) == a % HalfBase
        high(a) == a \div HalfBase
        t0 == low(x) * low(y)
        t1 == high(x) * low(y)
        t2 == low(x) * high(y)
        t3 == high(x) * high(y)
        u1 == (t1 + high(t0)) % Base
        u2 == (t2 + low(u1)) % Base
    IN  [lo |-> ((u2 * HalfBase) % Base) + low(t0),
         hi |-> (t3 + high(u2) + high(u1)) % Base]

\* Wrong variant of Carry: what an addition carries is lost.
CarryLost(b) == 0

Carry(b) == IF b THEN 1 ELSE 0

VARIABLES
    portable,\* whether the build is one without 128-bit integers
    final_hash, difficulty,  \* the arguments
    h, d,    \* their words
    p,       \* the words of the product
    k,       \* carry
    j, i,    \* loop counters: word of d, word of h
    pc,      \* "row" within a round, "end" at its end, "decide" or "done"
    answer

args == <<portable, final_hash, difficulty, h, d>>
vars == <<args, p, k, j, i, pc, answer>>

umul(x, y) == IF portable THEN HalvesUmul(x, y) ELSE BuiltinUmul(x, y)

Init ==
    /\ portable \in BOOLEAN
    /\ final_hash \in Hashes /\ difficulty \in Difficulties
    /\ \E host \in Hosts : h = Native(host, final_hash) /\ d = Native(host, difficulty)
    /\ p = [x \in 0..2 * NumWords - 1 |-> Unset]
    /\ k = 0 /\ j = 0 /\ i = 0
    /\ pc = "row"
    /\ answer = FALSE

Advance ==
    /\ i' = i + 1
    /\ pc' = IF i + 1 = NumWords THEN "end" ELSE "row"
    /\ UNCHANGED <<args, j, answer>>

\* First round: fills p[0] to p[NumWords - 1].
FirstRound ==
    /\ pc = "row" /\ j = 0
    /\ LET r == umul(h[i], d[0])
           s == (r.lo + k) % Base
       IN  /\ p' = [p EXCEPT ![i] = s]
           /\ k' = (r.hi + Carry(s < k)) % Base
    /\ Advance

\* Later rounds add to what is there.
LaterRound ==
    /\ pc = "row" /\ j > 0 /\ d[j] # 0
    /\ LET r == umul(h[i], d[j])
           t == (p[j + i] + r.lo) % Base
           s == (t + k) % Base
       IN  /\ p' = [p EXCEPT ![j + i] = s]
           /\ k' = (r.hi + Carry(t < r.lo) + Carry(s < k)) % Base
    /\ Advance

\* The round of a zero word is omitted ...
SkipRound ==
    /\ pc = "row" /\ j > 0 /\ d[j] = 0
    /\ pc' = "end"
    /\ UNCHANGED <<args, p, k, j, i, answer>>

\* ... but the word above is always set.
EndRound ==
    /\ pc = "end"
    /\ p' = [p EXCEPT ![j + NumWords] = k]
    /\ k' = 0 /\ i' = 0
    /\ j' = j + 1
    /\ pc' = IF j + 1 = NumWords THEN "decide" ELSE "row"
    /\ UNCHANGED <<args, answer>>

AllZero(from, to) == \A x \in from..to : p[x] = 0

\* The product is less than or equal to 2^256.
Decide ==
    /\ pc = "decide"
    /\ answer' = \/ AllZero(NumWords, 2 * NumWords - 1)
                 \/ /\ AllZero(0, NumWords - 1)
                    /\ AllZero(NumWords + 1, 2 * NumWords - 1)
                    /\ p[NumWords] = 1
    /\ pc' = "done"
    /\ UNCHANGED <<args, p, k, j, i>>

Next ==
    \/ FirstRound \/ LaterRound \/ SkipRound \/ EndRound \/ Decide
    \/ pc = "done" /\ UNCHANGED vars

Spec == Init /\ [][Next]_vars

-----------------------------------------------------------------------------
(* less_equal of ethash-internal.hpp: comparison from the first word in    *)
(* memory on, as verify_against_boundary does it.                          *)

\* Wrong variant of LessEqual: the boundary itself is rejected.
LessOnly(host, a, b) ==
    \E w \in 0..NumWords - 1 :
        /\ WordAt(host, a, w) < WordAt(host, b, w)
        /\ \A x \in 0..w - 1 : WordAt(host, a, x) = WordAt(host, b, x)

LessEqual(host, a, b) ==
    \/ \A w \in 0..NumWords - 1 : WordAt(host, a, w) = WordAt(host, b, w)
    \/ \E w \in 0..NumWords - 1 :
        /\ WordAt(host, a, w) < WordAt(host, b, w)
        /\ \A x \in 0..w - 1 : WordAt(host, a, x) = WordAt(host, b, x)

-----------------------------------------------------------------------------
(* Properties                                                              *)

\* Begins with a and takes m times the number before plus c[x], for each x below n.
Linear(a, m, c, n) ==
    LET upTo[x \in 0..n] == IF x = 0 THEN a ELSE m * upTo[x - 1] + c[x - 1]
    IN  upTo[n]

\* b^n, which the provers do not know.
Power(b, n) == Linear(1, b, [x \in 0..n - 1 |-> 0], n)

\* The number whose words are f[0] to f[len - 1].
Value(f, len) == Linear(0, 1, [x \in 0..len - 1 |-> f[x] * Power(Base, x)], len)

\* The big-endian number in a memory.
BigEndian(x) == Linear(0, HalfBase, x, 2 * NumWords)

Limit == Power(Base, NumWords)

\* The bytes of a number, most significant first.
Bytes(v) ==
    [b \in 0..2 * NumWords - 1 |-> (v \div Power(HalfBase, 2 * NumWords - 1 - b)) % HalfBase]

\* Types of the variables.
TypeOK ==
    /\ portable \in BOOLEAN
    /\ final_hash \in Memory /\ difficulty \in Memory
    /\ h \in Number /\ d \in Number
    /\ p \in [0..2 * NumWords - 1 -> Word \cup {Unset}]
    /\ k \in Word /\ j \in 0..NumWords /\ i \in 0..NumWords
    /\ pc \in {"row", "end", "decide", "done"}
    /\ answer \in BOOLEAN

\* The words that are set and the carry always make up the part of the product computed so
\* far: no carry is lost between words, in a round that is omitted or at the top, and no
\* word is used before it is set.
PartialProduct ==
    LET known == IF j = 0 THEN i ELSE NumWords + j
        row == IF j < NumWords THEN Value(h, i) * d[j] * Power(Base, j) ELSE 0
    IN  /\ \A x \in 0..known - 1 : p[x] # Unset
        /\ Value(p, known) + k * Power(Base, i + j) = Value(h, NumWords) * Value(d, j) + row

\* The answer is the mathematical one for the numbers the bytes in memory stand for, on
\* hosts of either endianness.
AnswerIsProductBound ==
    pc = "done" => (answer <=> BigEndian(final_hash) * BigEndian(difficulty) <= Limit)

\* The documented equivalence with the other way to verify: a difficulty above 1 accepts
\* the hashes that the boundary 2^256 / difficulty accepts, no more and no fewer.
AgreesWithBoundary ==
    pc = "done" /\ BigEndian(difficulty) > 1 =>
        LET boundary == Bytes(Limit \div BigEndian(difficulty))
        IN  \A host \in Hosts : answer <=> LessEqual(host, final_hash, boundary)

=============================================================================
