---- MODULE Keccak ----
(***************************************************************************)
(* lib/keccak/keccak.c: the sponge keccak() and the permutation            *)
(* Keccak-f[1600] with its rounds unrolled by two.                         *)
(*                                                                         *)
(* A lane of the state is the set of its one bits, so that ^ is the        *)
(* symmetric difference and ~x & y is y \ x; a byte likewise.  Words in    *)
(* memory are sequences of eight bytes, and what number they are depends   *)
(* on the host.  Lane 5 * r + v is the variable of the code with the r-th  *)
(* of the consonants b, g, k, m, s and the v-th of the vowels a, e, i, o,  *)
(* u.  The generic and the BMI build of the permutation are the same code. *)
(***************************************************************************)
EXTENDS Integers, Sequences

CONSTANTS
    Calls   \* the calls of the four entry points: [bits |-> 256 or 512, data |-> bytes]

Bit == 0..63
Byte == SUBSET (0..7)

ASSUME ConstantsAssumption ==
    \A c \in Calls : c.bits \in {256, 512} /\ c.data \in Seq(Byte)

Xor(x, y) == {b \in x \cup y : b \notin x \cap y}

Xor5(a, b, c, d, e) == Xor(Xor(Xor(a, b), Xor(c, d)), e)

\* Wrong variant of rol: a shift.
shl(x, s) == {b + s : b \in x}

rol(x, s) == {(b + s) % 64 : b \in x}

-----------------------------------------------------------------------------
(* Keccak-f[1600]                                                          *)

round_constants == <<
    {0}, {1, 7, 15}, {1, 3, 7, 15, 63}, {15, 31, 63},
    {0, 1, 3, 7, 15}, {0, 31}, {0, 7, 15, 31, 63}, {0, 3, 15, 63},
    {1, 3, 7}, {3, 7}, {0, 3, 15, 31}, {1, 3, 31},
    {0, 1, 3, 7, 15, 31}, {0, 1, 3, 7, 63}, {0, 3, 7, 15, 63}, {0, 1, 15, 63},
    {1, 15, 63}, {7, 63}, {1, 3, 15}, {1, 3, 31, 63},
    {0, 7, 15, 31, 63}, {7, 15, 63}, {0, 31}, {3, 15, 31, 63}>>

\* For the row b, g, k, m, s of a round's result: the lanes its Ba, Be, Bi, Bo, Bu are
\* taken from, and by how much they are rotated.  Both unrolled rounds have the same.
Taps == <<
    << <<0, 0>>, <<6, 44>>, <<12, 43>>, <<18, 21>>, <<24, 14>> >>,
    << <<3, 28>>, <<9, 20>>, <<10, 3>>, <<16, 45>>, <<22, 61>> >>,
    << <<1, 1>>, <<7, 6>>, <<13, 25>>, <<19, 8>>, <<20, 18>> >>,
    << <<4, 27>>, <<5, 36>>, <<11, 10>>, <<17, 15>>, <<23, 56>> >>,
    << <<2, 62>>, <<8, 55>>, <<14, 39>>, <<15, 41>>, <<21, 2>> >> >>

\* The vowel of a lane, from 1 for a to 5 for u, and the one k places after the v-th.
Vowel(lane) == (lane % 5) + 1

After(v, k) == ((v - 1 + k) % 5) + 1

\* Ba, Be, Bi, Bo, Bu of the lanes L, which count from 1, the first time in a round ...
Parities(L) == [v \in 1..5 |-> Xor5(L[v], L[v + 5], L[v + 10], L[v + 15], L[v + 20])]

\* ... Da, De, Di, Do, Du made of them ...
Deltas(B) == [v \in 1..5 |-> Xor(B[After(v, 4)], rol(B[After(v, 1)], 1))]

\* ... and what they are before a row of the result ...
Tapped(L, D, taps) ==
    [v \in 1..5 |-> rol(Xor(L[taps[v][1] + 1], D[Vowel(taps[v][1])]), taps[v][2])]

\* ... that is made of them.
Row(B) == [v \in 1..5 |-> Xor(B[v], B[After(v, 2)] \ B[After(v, 1)])]

Rows(L, D) ==
    Row(Tapped(L, D, Taps[1])) \o Row(Tapped(L, D, Taps[2])) \o Row(Tapped(L, D, Taps[3]))
    \o Row(Tapped(L, D, Taps[4])) \o Row(Tapped(L, D, Taps[5]))

\* Round n.
Round(L, n) ==
    [Rows(L, Deltas(Parities(L))) EXCEPT ![1] = Xor(@, round_constants[n + 1])]

-----------------------------------------------------------------------------

VARIABLES
    big,        \* whether the host is big-endian
    call,       \* the call, one of Calls
    pc,         \* "block", "word", "byte" while data are taken in; "load", "rounds",
                \* "store" in the permutation; "squeeze", "done"
    size,       \* how many bytes of the data are left
    pos,        \* how many are taken: where the pointer data is
    state,      \* the 25 words of the state, numbers whatever the host
    word,       \* the word of the state that is next: i of the block loop, state_iter
    last_word,  \* its bytes in memory
    last_word_iter,
    padded,     \* whether the next permutation is the last
    A, n,       \* locals of the permutation: the lanes Aba.. or Eba.., and the round
    out         \* the bytes returned

vars == <<big, call, pc, size, pos, state, word, last_word, last_word_iter, padded, A, n,
          out>>

input == <<big, call>>
permutation == <<A, n>>
tail == <<last_word, last_word_iter>>

word_size == 8

block_size == (1600 - call.bits * 2) \div 8

FullBlock == size >= block_size

\* Wrong variant of FullWord: a word that ends with the data is left to the bytes.
FullWordMore == size > word_size

FullWord == size >= word_size

\* The number that eight bytes in memory are on this host, and back.
Number(m) == UNION {{8 * (IF big THEN 7 - k ELSE k) + b : b \in m[k + 1]} : k \in 0..7}

InMemory(x) ==
    [k \in 1..8 |-> {b \in 0..7 : 8 * (IF big THEN 8 - k ELSE k - 1) + b \in x}]

bswap64(x) == {8 * (7 - (b \div 8)) + (b % 8) : b \in x}

\* Wrong variant of to_le64: big-endian hosts are forgotten.
to_le64Not(x) == x

to_le64(x) == IF big THEN bswap64(x) ELSE x

load_le(at) == to_le64(Number(SubSeq(call.data, at + 1, at + word_size)))

Zeros(k) == [x \in 1..k |-> {}]

\* ethash_keccak256, ethash_keccak256_32, ethash_keccak512, ethash_keccak512_64
Init ==
    /\ big \in BOOLEAN
    /\ call \in Calls
    /\ pc = "block"
    /\ size = Len(call.data) /\ pos = 0
    /\ state = Zeros(25) /\ word = 0
    /\ last_word = Zeros(8) /\ last_word_iter = 0
    /\ padded = FALSE
    /\ A = Zeros(25) /\ n = 0
    /\ out = << >>

Goto(l) == pc' = l

XorInto(w, x) == state' = [state EXCEPT ![w + 1] = Xor(@, x)]

\* A whole block is left: its next word.
AbsorbBlockWord ==
    /\ pc = "block" /\ FullBlock
    /\ XorInto(word, load_le(pos))
    /\ pos' = pos + word_size
    /\ word' = word + 1
    /\ Goto(IF word + 1 < block_size \div word_size THEN "block" ELSE "load")
    /\ UNCHANGED <<input, size, tail, padded, permutation, out>>

BlocksDone ==
    /\ pc = "block" /\ ~FullBlock
    /\ word' = 0
    /\ Goto("word")
    /\ UNCHANGED <<input, size, pos, state, tail, padded, permutation, out>>

AbsorbWord ==
    /\ pc = "word" /\ FullWord
    /\ XorInto(word, load_le(pos))
    /\ word' = word + 1
    /\ pos' = pos + word_size
    /\ size' = size - word_size
    /\ UNCHANGED <<input, pc, tail, padded, permutation, out>>

WordsDone ==
    /\ pc = "word" /\ ~FullWord
    /\ Goto("byte")
    /\ UNCHANGED <<input, size, pos, state, word, tail, padded, permutation, out>>

CopyByte ==
    /\ pc = "byte" /\ size > 0
    /\ last_word' = [last_word EXCEPT ![last_word_iter + 1] = call.data[pos + 1]]
    /\ last_word_iter' = last_word_iter + 1
    /\ pos' = pos + 1
    /\ size' = size - 1
    /\ UNCHANGED <<input, pc, state, word, padded, permutation, out>>

\* Wrong variant of PadWord: the padding ends one word late.
PadWordAfter == block_size \div word_size

\* The word that the top bit of the padding goes to.
PadWord == (block_size \div word_size) - 1

\* Both ends of the padding, which may meet in one word.
Pad ==
    /\ pc = "byte" /\ size = 0
    /\ last_word' = [last_word EXCEPT ![last_word_iter + 1] = {0}]
    /\ LET x == to_le64(Number(last_word'))
       IN  state' = [[state EXCEPT ![word + 1] = Xor(@, x)]
                            EXCEPT ![PadWord + 1] = Xor(@, {63})]
    /\ padded' = TRUE
    /\ Goto("load")
    /\ UNCHANGED <<input, size, pos, word, last_word_iter, permutation, out>>

\* keccakf1600_best
LoadLanes ==
    /\ pc = "load"
    /\ A' = state /\ n' = 0
    /\ Goto("rounds")
    /\ UNCHANGED <<input, size, pos, state, word, tail, padded, out>>

Rounds(first) ==
    /\ pc = "rounds" /\ n < 24 /\ n % 2 = first
    /\ n' = n + 1
    /\ UNCHANGED <<input, pc, size, pos, state, word, tail, padded, out>>

\* An iteration of the loop: from the variables A to the variables E, and back.
RoundAtoE == Rounds(0) /\ A' = Round(A, n)

RoundEtoA == Rounds(1) /\ A' = Round(A, n)

StoreLanes ==
    /\ pc = "rounds" /\ n >= 24
    /\ state' = A
    /\ Goto("store")
    /\ UNCHANGED <<input, size, pos, word, tail, padded, permutation, out>>

\* Back in the loop over the blocks ...
NextBlock ==
    /\ pc = "store" /\ ~padded
    /\ size' = size - block_size
    /\ word' = 0
    /\ Goto("block")
    /\ UNCHANGED <<input, pos, state, tail, padded, permutation, out>>

\* ... or after it.
Squeeze ==
    /\ pc = "store" /\ padded
    /\ out' = [k \in 1..call.bits \div 8 |->
                InMemory(to_le64(state[((k - 1) \div 8) + 1]))[((k - 1) % 8) + 1]]
    /\ Goto("done")
    /\ UNCHANGED <<input, size, pos, state, word, tail, padded, permutation>>

Next ==
    \/ AbsorbBlockWord \/ BlocksDone \/ AbsorbWord \/ WordsDone \/ CopyByte \/ Pad
    \/ LoadLanes \/ RoundAtoE \/ RoundEtoA \/ StoreLanes \/ NextBlock \/ Squeeze
    \/ pc = "done" /\ UNCHANGED vars

Spec == Init /\ [][Next]_vars

-----------------------------------------------------------------------------
(* Properties                                                              *)

\* Types of the variables.
TypeOK ==
    /\ big \in BOOLEAN /\ call \in Calls /\ padded \in BOOLEAN
    /\ pc \in {"block", "word", "byte", "load", "rounds", "store", "done"}
    /\ size \in Nat /\ pos \in Nat
    /\ word \in 0..24 /\ last_word_iter \in 0..word_size
    /\ n \in 0..24
    /\ \A L \in {state, A} : DOMAIN L = 1..25 /\ \A l \in 1..25 : L[l] \subseteq Bit
    /\ DOMAIN last_word = 1..8 /\ \A k \in 1..8 : last_word[k] \in Byte

InBlock == ~padded /\ pc \in {"block", "load", "rounds", "store"}

\* The pointers stay inside: data are taken in once, in order and to the end; the tail
\* keeps within the part of the state that takes in data, and leaves room in its last
\* word for the padding byte.
PointersInside ==
    /\ pos + size = Len(call.data) + (IF InBlock THEN word_size * word ELSE 0)
    /\ word * word_size < block_size \/ pc \notin {"word", "byte"}
    /\ pc = "byte" => last_word_iter + size < word_size

-----------------------------------------------------------------------------
(* The mapping to the specification                                        *)

LanesOf(L) == [c \in (0..4) \X (0..4) |-> L[5 * c[2] + c[1] + 1]]

Permuting == pc \in {"load", "rounds", "store"}

AbsBlock ==
    IF pc = "block" THEN (pos - word_size * word) \div block_size
    ELSE IF Permuting /\ ~padded THEN (pos \div block_size) - 1
    ELSE Len(call.data) \div block_size

AbsTaken ==
    IF Permuting \/ pc = "done" THEN 0..(block_size \div word_size) - 1 ELSE 0..word - 1

AbsRounds == CASE pc = "rounds" -> n [] pc \in {"store", "done"} -> 24 [] OTHER -> 0

AbsState == IF pc = "rounds" THEN LanesOf(A) ELSE LanesOf(state)

Specification == INSTANCE KeccakSpec WITH
    block <- AbsBlock, taken <- AbsTaken, rounds <- AbsRounds, S <- AbsState,
    digest <- out

\* The code implements the specification: word for word it takes in the padded message,
\* also where the padding begins or ends in a word or a block with data; its rounds, each
\* of which is written out over 60 variables, are the specified ones; and it returns the
\* specified digest.  On a big-endian host it does the same to the same bytes.
ImplementsKeccak == Specification!Spec

=============================================================================
