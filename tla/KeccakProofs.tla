---- MODULE KeccakProofs ----
(***************************************************************************)
(* The pointers of keccak.c stay inside data and state, a round written    *)
(* out over its variables is the specified round, and keccak() is the      *)
(* specified sponge: whatever the length of the data, in both digest sizes *)
(* and on hosts of either endianness.                                      *)
(***************************************************************************)
EXTENDS Keccak, SequenceTheorems, WellFoundedInduction, TLAPS

-----------------------------------------------------------------------------
(* Lanes stay sets of bits.                                                *)

\* 25 lanes.
Lanes(L) == DOMAIN L = 1..25 /\ \A l \in 1..25 : L[l] \subseteq Bit

LEMMA XorType ==
    ASSUME NEW S, NEW x \in SUBSET S, NEW y \in SUBSET S PROVE Xor(x, y) \in SUBSET S
  BY DEF Xor

LEMMA RolType ==
    ASSUME NEW x \in SUBSET Bit, NEW s \in Nat PROVE rol(x, s) \in SUBSET Bit
<1>1. \A b \in Bit : (b + s) % 64 \in Bit
  BY DEF Bit
<1> QED
  BY <1>1 DEF rol

LEMMA ParitiesType ==
    ASSUME NEW L, Lanes(L) PROVE \A v \in 1..5 : Parities(L)[v] \in SUBSET Bit
<1> SUFFICES ASSUME NEW v \in 1..5 PROVE Parities(L)[v] \in SUBSET Bit
  OBVIOUS
<1>1. /\ L[v] \in SUBSET Bit /\ L[v + 5] \in SUBSET Bit /\ L[v + 10] \in SUBSET Bit
      /\ L[v + 15] \in SUBSET Bit /\ L[v + 20] \in SUBSET Bit
  BY DEF Lanes
<1>2. Xor(L[v], L[v + 5]) \in SUBSET Bit /\ Xor(L[v + 10], L[v + 15]) \in SUBSET Bit
  BY <1>1, XorType
<1>3. Xor(Xor(L[v], L[v + 5]), Xor(L[v + 10], L[v + 15])) \in SUBSET Bit
  BY <1>2, XorType
<1>4. Xor5(L[v], L[v + 5], L[v + 10], L[v + 15], L[v + 20]) \in SUBSET Bit
  BY <1>1, <1>3, XorType DEF Xor5
<1> QED
  BY <1>4 DEF Parities

LEMMA VowelInRange ==
    /\ \A v \in 1..5 : After(v, 1) \in 1..5 /\ After(v, 2) \in 1..5 /\ After(v, 4) \in 1..5
    /\ \A l \in 0..24 : Vowel(l) \in 1..5
  BY DEF After, Vowel

LEMMA DeltasType ==
    ASSUME NEW B, \A v \in 1..5 : B[v] \in SUBSET Bit
    PROVE  \A v \in 1..5 : Deltas(B)[v] \in SUBSET Bit
<1> SUFFICES ASSUME NEW v \in 1..5 PROVE Deltas(B)[v] \in SUBSET Bit
  OBVIOUS
<1>1. B[After(v, 4)] \in SUBSET Bit /\ B[After(v, 1)] \in SUBSET Bit
  BY VowelInRange
<1>2. rol(B[After(v, 1)], 1) \in SUBSET Bit
  BY <1>1, RolType, 1 \in Nat
<1>3. Xor(B[After(v, 4)], rol(B[After(v, 1)], 1)) \in SUBSET Bit
  BY <1>1, <1>2, XorType
<1> QED
  BY <1>3 DEF Deltas

\* A row is rotated lanes of the state.
IsTaps(taps) == \A v \in 1..5 : taps[v][1] \in 0..24 /\ taps[v][2] \in Nat

LEMMA TapsAreTaps == \A r \in 1..5 : IsTaps(Taps[r])
<1> SUFFICES ASSUME NEW r \in 1..5, NEW v \in 1..5
             PROVE  Taps[r][v][1] \in 0..24 /\ Taps[r][v][2] \in Nat
  BY DEF IsTaps
<1>1. r = 1 \/ r = 2 \/ r = 3 \/ r = 4 \/ r = 5
  OBVIOUS
<1>2. v = 1 \/ v = 2 \/ v = 3 \/ v = 4 \/ v = 5
  OBVIOUS
<1> QED
  BY <1>1, <1>2 DEF Taps

LEMMA RowType ==
    ASSUME NEW L, Lanes(L), NEW D, \A v \in 1..5 : D[v] \in SUBSET Bit,
           NEW taps, IsTaps(taps)
    PROVE  Row(Tapped(L, D, taps)) \in [1..5 -> SUBSET Bit]
<1> DEFINE B == Tapped(L, D, taps)
<1>1. ASSUME NEW v \in 1..5 PROVE B[v] \in SUBSET Bit
  <2>1. taps[v][1] \in 0..24 /\ taps[v][2] \in Nat
    BY DEF IsTaps
  <2> DEFINE l == taps[v][1]
             s == taps[v][2]
  <2>2. B[v] = rol(Xor(L[l + 1], D[Vowel(l)]), s)
    BY DEF Tapped
  <2>3. l \in 0..24 /\ s \in Nat
    BY <2>1
  <2> HIDE DEF l, s, B
  <2>4. L[l + 1] \in SUBSET Bit
    BY <2>3 DEF Lanes
  <2>5. D[Vowel(l)] \in SUBSET Bit
    BY <2>3, VowelInRange
  <2>6. Xor(L[l + 1], D[Vowel(l)]) \in SUBSET Bit
    BY <2>4, <2>5, XorType
  <2> QED
    BY <2>2, <2>3, <2>6, RolType
<1> HIDE DEF B
<1>2. ASSUME NEW v \in 1..5 PROVE Xor(B[v], B[After(v, 2)] \ B[After(v, 1)]) \in SUBSET Bit
  <2>1. B[v] \in SUBSET Bit /\ B[After(v, 2)] \ B[After(v, 1)] \in SUBSET Bit
    BY <1>1, VowelInRange
  <2> QED
    BY <2>1, XorType
<1>3. Row(B) \in [1..5 -> SUBSET Bit]
  BY <1>2 DEF Row
<1> QED
  BY <1>3 DEF B

\* Rows one after the other.
RowsOf(k) == [1..k -> SUBSET Bit]

LEMMA AppendRow ==
    ASSUME NEW m \in Nat, NEW k \in Nat, NEW s, s \in RowsOf(m), NEW r, r \in RowsOf(k)
    PROVE  s \o r \in RowsOf(m + k)
<1>1. s \in Seq(SUBSET Bit) /\ Len(s) = m
  <2>1. s \in Seq(SUBSET Bit)
    BY SeqDef DEF RowsOf
  <2> QED
    BY <2>1, LenProperties DEF RowsOf
<1>2. r \in Seq(SUBSET Bit) /\ Len(r) = k
  <2>1. r \in Seq(SUBSET Bit)
    BY SeqDef DEF RowsOf
  <2> QED
    BY <2>1, LenProperties DEF RowsOf
<1>3. s \o r \in Seq(SUBSET Bit) /\ Len(s \o r) = m + k
  BY <1>1, <1>2, ConcatProperties
<1> QED
  BY <1>3, LenProperties DEF RowsOf

LEMMA RoundConstantType == \A l \in 0..23 : round_constants[l + 1] \in SUBSET Bit
<1> SUFFICES ASSUME NEW l \in 1..24 PROVE round_constants[l] \in SUBSET Bit
  OBVIOUS
<1> QED
  BY DEF round_constants, Bit

\* A round keeps 25 lanes of 64 bits.
LEMMA RoundType ==
    ASSUME NEW L, Lanes(L), NEW m \in 0..23 PROVE Lanes(Round(L, m))
<1> DEFINE D == Deltas(Parities(L))
           R(r) == Row(Tapped(L, D, Taps[r]))
<1>1. \A v \in 1..5 : D[v] \in SUBSET Bit
  BY ParitiesType, DeltasType
<1> HIDE DEF D
<1>2. ASSUME NEW r \in 1..5 PROVE R(r) \in RowsOf(5)
  BY <1>1, TapsAreTaps, RowType DEF RowsOf
<1>3. Rows(L, D) = R(1) \o R(2) \o R(3) \o R(4) \o R(5)
  BY DEF Rows
<1> HIDE DEF R
<1>4. R(1) \o R(2) \in RowsOf(5 + 5)
  BY <1>2, AppendRow, 5 \in Nat
<1>5. R(1) \o R(2) \o R(3) \in RowsOf(5 + 5 + 5)
  BY <1>2, <1>4, AppendRow, 5 \in Nat, 5 + 5 \in Nat
<1>6. R(1) \o R(2) \o R(3) \o R(4) \in RowsOf(5 + 5 + 5 + 5)
  BY <1>2, <1>5, AppendRow, 5 \in Nat, 5 + 5 + 5 \in Nat
<1>7. Rows(L, D) \in RowsOf(5 + 5 + 5 + 5 + 5)
  BY <1>2, <1>3, <1>6, AppendRow, 5 \in Nat, 5 + 5 + 5 + 5 \in Nat
<1> DEFINE Q == Rows(L, D)
<1>8. Round(L, m) = [Q EXCEPT ![1] = Xor(Q[1], round_constants[m + 1])]
  BY DEF Round, D
<1>9. Q \in [1..25 -> SUBSET Bit]
  BY <1>7 DEF RowsOf
<1> HIDE DEF Q
<1>10. Xor(Q[1], round_constants[m + 1]) \in SUBSET Bit
  BY <1>9, RoundConstantType, XorType
<1>11. Round(L, m) \in [1..25 -> SUBSET Bit]
  BY <1>8, <1>9, <1>10
<1> QED
  BY <1>11 DEF Lanes

-----------------------------------------------------------------------------
(* Words are read inside the data.                                         *)

Words == block_size \div word_size

LEMMA BlockSizes ==
    ASSUME call \in Calls
    PROVE  \/ block_size = 136 /\ Words = 17 /\ PadWord = 16
           \/ block_size = 72 /\ Words = 9 /\ PadWord = 8
<1>1. call.bits = 256 \/ call.bits = 512
  BY ConstantsAssumption
<1>2. CASE call.bits = 256
  BY <1>2 DEF block_size, word_size, Words, PadWord
<1>3. CASE call.bits = 512
  BY <1>3 DEF block_size, word_size, Words, PadWord
<1> QED
  BY <1>1, <1>2, <1>3

LEMMA DataType ==
    ASSUME call \in Calls
    PROVE  Len(call.data) \in Nat /\ \A k \in 1..Len(call.data) : call.data[k] \in Byte
<1>1. call.data \in Seq(Byte)
  BY ConstantsAssumption
<1> QED
  BY <1>1, LenProperties, ElementOfSeq

\* Eight bytes in memory.
IsWord(m) == \A k \in 1..8 : m[k] \in Byte

LEMMA NumberType ==
    ASSUME NEW m, IsWord(m), big \in BOOLEAN PROVE Number(m) \in SUBSET Bit
<1> SUFFICES ASSUME NEW x \in Number(m) PROVE x \in Bit
  OBVIOUS
<1>1. PICK k \in 0..7 : x \in {8 * (IF big THEN 7 - k ELSE k) + b : b \in m[k + 1]}
  BY DEF Number
<1>2. PICK b \in m[k + 1] : x = 8 * (IF big THEN 7 - k ELSE k) + b
  BY <1>1
<1>3. k + 1 \in 1..8
  OBVIOUS
<1>4. b \in 0..7
  BY <1>2, <1>3 DEF IsWord, Byte
<1> QED
  BY <1>2, <1>4 DEF Bit

LEMMA ToLE64Type ==
    ASSUME NEW x \in SUBSET Bit PROVE to_le64(x) \in SUBSET Bit
<1>1. \A b \in Bit : 8 * (7 - (b \div 8)) + (b % 8) \in Bit
  BY DEF Bit
<1>2. bswap64(x) \in SUBSET Bit
  BY <1>1 DEF bswap64
<1> QED
  BY <1>2 DEF to_le64

\* A word that ends inside the data is a word of bytes of the data.
LEMMA LoadType ==
    ASSUME call \in Calls, big \in BOOLEAN,
           NEW at \in Nat, at + word_size <= Len(call.data)
    PROVE  load_le(at) \in SUBSET Bit
<1> DEFINE m == SubSeq(call.data, at + 1, at + word_size)
           first == at + 1
           last == at + 8
<1>1. \A k \in first..last : call.data[k] \in Byte
  BY DataType DEF word_size
<1>2. first \in Int /\ last \in Int /\ last - first + 1 = 8
  OBVIOUS
<1>3. m = SubSeq(call.data, first, last)
  BY DEF word_size
<1>4. \A k \in 1..8 : m[k] = call.data[first + k - 1] /\ first + k - 1 \in first..last
  <2> HIDE DEF m
  <2>1. \A k \in 1..last - first + 1 : SubSeq(call.data, first, last)[k] = call.data[first + k - 1]
    <3> HIDE DEF first, last
    <3> QED
      BY <1>1, <1>2, SubSeqProperties
  <2> QED
    BY <1>2, <1>3, <2>1
<1>5. IsWord(m)
  BY <1>1, <1>4 DEF IsWord
<1> HIDE DEF m
<1>6. Number(m) \in SUBSET Bit
  BY <1>5, NumberType
<1> QED
  BY <1>6, ToLE64Type DEF load_le, m

LEMMA XorIntoType ==
    ASSUME NEW L, Lanes(L), NEW w \in 0..24, NEW x \in SUBSET Bit
    PROVE  Lanes([L EXCEPT ![w + 1] = Xor(L[w + 1], x)])
<1>1. L[w + 1] \in SUBSET Bit
  BY DEF Lanes
<1>2. Xor(L[w + 1], x) \in SUBSET Bit
  BY <1>1, XorType
<1> QED
  BY <1>2 DEF Lanes

-----------------------------------------------------------------------------
(* The inductive invariant                                                 *)

DataLen == Len(call.data)

TypeInv ==
    /\ big \in BOOLEAN /\ call \in Calls /\ padded \in BOOLEAN
    /\ pc \in {"block", "word", "byte", "load", "rounds", "store", "done"}
    /\ size \in Nat /\ pos \in Nat
    /\ word \in 0..24 /\ last_word_iter \in 0..8
    /\ n \in 0..24
    /\ Lanes(state) /\ Lanes(A)
    /\ DOMAIN last_word = 1..8 /\ IsWord(last_word)

\* Where the pointer is.
PosInv == pos + size = DataLen + (IF InBlock THEN 8 * word ELSE 0)

\* Where the loop over the blocks is, and that it has a whole block while it is in one.
BlockInv ==
    InBlock =>
        /\ pc = "block" => word < Words /\ (word > 0 => FullBlock)
        /\ pc # "block" => word = Words /\ FullBlock

\* What is left after the blocks fits in a block with a byte to spare.
TailInv ==
    /\ pc \in {"block", "word", "byte"} => ~padded
    /\ pc = "word" => 8 * word + size < block_size
    /\ pc = "byte" => 8 * word < block_size /\ last_word_iter + size < 8
    /\ ~padded /\ pc # "byte" => last_word_iter = 0
    /\ padded => size = 0

IInv == TypeInv /\ PosInv /\ BlockInv /\ TailInv

LEMMA IInvImplies == IInv => TypeOK /\ PointersInside
<1> SUFFICES ASSUME IInv PROVE TypeOK /\ PointersInside
  OBVIOUS
<1>1. TypeOK
  BY DEF IInv, TypeInv, TypeOK, Lanes, IsWord, word_size
<1>2. pos + size = Len(call.data) + (IF InBlock THEN word_size * word ELSE 0)
  BY DEF IInv, PosInv, DataLen, word_size
<1>3. word \in Nat /\ size \in Nat /\ block_size \in Nat
  BY BlockSizes DEF IInv, TypeInv
<1>4. pc \in {"word", "byte"} => word * word_size < block_size
  BY <1>3 DEF IInv, TailInv, word_size
<1>5. pc = "byte" => last_word_iter + size < word_size
  BY DEF IInv, TailInv, word_size
<1> QED
  BY <1>1, <1>2, <1>4, <1>5 DEF PointersInside

LEMMA SameCall ==
    ASSUME UNCHANGED input
    PROVE  /\ call' = call /\ big' = big /\ DataLen' = DataLen
           /\ block_size' = block_size /\ Words' = Words
  BY DEF input, block_size, Words, DataLen

\* The numbers of the invariant.
LEMMA Sizes ==
    ASSUME TypeInv
    PROVE  /\ DataLen \in Nat /\ block_size = 8 * Words /\ Words \in {9, 17}
           /\ PadWord \in 0..24
<1>1. call \in Calls
  BY DEF TypeInv
<1>2. DataLen \in Nat
  BY <1>1, DataType DEF DataLen
<1> QED
  BY <1>1, <1>2, BlockSizes

LEMMA InitIInv == Init => IInv
<1> SUFFICES ASSUME Init PROVE IInv
  OBVIOUS
<1>1. call \in Calls /\ big \in BOOLEAN
  BY DEF Init
<1>2. DataLen \in Nat /\ block_size \in Nat /\ Words \in Nat \ {0} /\ block_size > 0
  BY <1>1, DataType, BlockSizes DEF DataLen
<1>3. Lanes(Zeros(25)) /\ IsWord(Zeros(8)) /\ DOMAIN Zeros(8) = 1..8
  BY DEF Lanes, IsWord, Zeros, Byte
<1>4. size = DataLen
  BY DEF Init, DataLen
<1>5. TypeInv
  <2>1. Lanes(state) /\ Lanes(A) /\ IsWord(last_word) /\ DOMAIN last_word = 1..8
    BY <1>3 DEF Init
  <2>2. pc = "block" /\ padded \in BOOLEAN /\ pos = 0 /\ word = 0 /\ last_word_iter = 0 /\ n = 0
    BY DEF Init
  <2> QED
    BY <1>1, <1>2, <1>4, <2>1, <2>2 DEF TypeInv
<1>6. PosInv
  BY <1>2, <1>4 DEF Init, PosInv, InBlock
<1>7. BlockInv /\ TailInv
  BY <1>2 DEF Init, BlockInv, TailInv, InBlock
<1> QED
  BY <1>5, <1>6, <1>7 DEF IInv

-----------------------------------------------------------------------------
(* The steps                                                               *)

LEMMA AbsorbBlockWordStep == IInv /\ AbsorbBlockWord => IInv'
<1> SUFFICES ASSUME IInv, AbsorbBlockWord PROVE IInv'
  OBVIOUS
<1>1. /\ pc = "block" /\ ~padded /\ InBlock /\ size >= block_size
      /\ pos' = pos + 8 /\ word' = word + 1
      /\ state' = [state EXCEPT ![word + 1] = Xor(state[word + 1], load_le(pos))]
      /\ pc' = IF word + 1 < Words THEN "block" ELSE "load"
      /\ UNCHANGED <<input, size, last_word, last_word_iter, padded, A, n>>
  BY DEF IInv, TailInv, AbsorbBlockWord, FullBlock, InBlock, XorInto, Goto, Words, word_size,
     tail, permutation
<1>2. /\ TypeInv /\ word \in 0..24 /\ pos \in Nat /\ size \in Nat
      /\ pos + size = DataLen + 8 * word
      /\ word < Words /\ last_word_iter = 0
  BY <1>1 DEF IInv, TypeInv, PosInv, BlockInv, TailInv
<1>3. DataLen \in Nat /\ block_size = 8 * Words /\ Words \in {9, 17}
  BY <1>2, Sizes
<1>4. /\ call' = call /\ big' = big /\ DataLen' = DataLen
      /\ block_size' = block_size /\ Words' = Words
  BY <1>1, SameCall
<1>5. pos + 8 <= DataLen
  BY <1>1, <1>2, <1>3
<1>6. load_le(pos) \in SUBSET Bit
  BY <1>2, <1>5, LoadType DEF TypeInv, DataLen, word_size
<1>7. Lanes(state')
  BY <1>1, <1>2, <1>6, XorIntoType DEF TypeInv
<1>8. TypeInv'
  BY <1>1, <1>2, <1>3, <1>4, <1>7 DEF TypeInv
<1>9. PosInv'
  BY <1>1, <1>2, <1>3, <1>4 DEF PosInv, InBlock
<1>10. BlockInv' /\ TailInv'
  BY <1>1, <1>2, <1>3, <1>4 DEF BlockInv, TailInv, InBlock, FullBlock
<1> QED
  BY <1>8, <1>9, <1>10 DEF IInv

LEMMA BlocksDoneStep == IInv /\ BlocksDone => IInv'
<1> SUFFICES ASSUME IInv, BlocksDone PROVE IInv'
  OBVIOUS
<1>1. /\ pc = "block" /\ ~padded /\ InBlock /\ size < block_size
      /\ word' = 0 /\ pc' = "word"
      /\ UNCHANGED <<input, size, pos, state, last_word, last_word_iter, padded, A, n>>
  <2>1. pc = "block" /\ ~padded /\ ~FullBlock
    BY DEF IInv, TailInv, BlocksDone
  <2>2. size \in Nat /\ block_size \in Nat
    BY BlockSizes DEF IInv, TypeInv
  <2> QED
    BY <2>1, <2>2 DEF BlocksDone, FullBlock, InBlock, Goto, tail, permutation
<1>2. /\ TypeInv /\ pos \in Nat /\ size \in Nat /\ word \in 0..24
      /\ pos + size = DataLen + 8 * word
      /\ ~(word > 0) /\ last_word_iter = 0
  BY <1>1 DEF IInv, TypeInv, PosInv, BlockInv, TailInv, BlocksDone
<1>3. DataLen \in Nat /\ block_size = 8 * Words /\ Words \in {9, 17}
  BY <1>2, Sizes
<1>4. /\ call' = call /\ big' = big /\ DataLen' = DataLen
      /\ block_size' = block_size /\ Words' = Words
  BY <1>1, SameCall
<1>5. TypeInv'
  BY <1>1, <1>2, <1>3, <1>4 DEF TypeInv
<1>6. PosInv'
  BY <1>1, <1>2, <1>3, <1>4 DEF PosInv, InBlock
<1>7. BlockInv' /\ TailInv'
  BY <1>1, <1>2, <1>3, <1>4 DEF BlockInv, TailInv, InBlock, FullBlock
<1> QED
  BY <1>5, <1>6, <1>7 DEF IInv

LEMMA AbsorbWordStep == IInv /\ AbsorbWord => IInv'
<1> SUFFICES ASSUME IInv, AbsorbWord PROVE IInv'
  OBVIOUS
<1>1. /\ pc = "word" /\ ~padded /\ ~InBlock /\ size >= 8
      /\ pos' = pos + 8 /\ word' = word + 1 /\ size' = size - 8
      /\ state' = [state EXCEPT ![word + 1] = Xor(state[word + 1], load_le(pos))]
      /\ UNCHANGED <<input, pc, last_word, last_word_iter, padded, A, n>>
  BY DEF IInv, TailInv, AbsorbWord, FullWord, InBlock, XorInto, word_size, tail, permutation
<1>2. /\ TypeInv /\ word \in 0..24 /\ pos \in Nat /\ size \in Nat
      /\ pos + size = DataLen
      /\ 8 * word + size < block_size /\ last_word_iter = 0
  <2>1. TypeInv /\ word \in 0..24 /\ pos \in Nat /\ size \in Nat
    BY DEF IInv, TypeInv
  <2>2. DataLen \in Nat
    BY <2>1, Sizes
  <2>3. pos + size = DataLen
    BY <1>1, <2>1, <2>2 DEF IInv, PosInv
  <2> QED
    BY <1>1, <2>1, <2>3 DEF IInv, TailInv
<1>3. DataLen \in Nat /\ block_size = 8 * Words /\ Words \in {9, 17}
  BY <1>2, Sizes
<1>4. /\ call' = call /\ big' = big /\ DataLen' = DataLen
      /\ block_size' = block_size /\ Words' = Words
  BY <1>1, SameCall
<1>5. pos + 8 <= DataLen
  BY <1>1, <1>2, <1>3
<1>6. load_le(pos) \in SUBSET Bit
  BY <1>2, <1>5, LoadType DEF TypeInv, DataLen, word_size
<1>7. Lanes(state')
  BY <1>1, <1>2, <1>6, XorIntoType DEF TypeInv
<1>8. TypeInv'
  BY <1>1, <1>2, <1>3, <1>4, <1>7 DEF TypeInv
<1>9. PosInv'
  BY <1>1, <1>2, <1>3, <1>4 DEF PosInv, InBlock
<1>10. BlockInv' /\ TailInv'
  BY <1>1, <1>2, <1>3, <1>4 DEF BlockInv, TailInv, InBlock
<1> QED
  BY <1>8, <1>9, <1>10 DEF IInv

LEMMA WordsDoneStep == IInv /\ WordsDone => IInv'
<1> SUFFICES ASSUME IInv, WordsDone PROVE IInv'
  OBVIOUS
<1>1. /\ pc = "word" /\ ~padded /\ ~InBlock /\ size < 8 /\ pc' = "byte"
      /\ UNCHANGED <<input, size, pos, state, word, last_word, last_word_iter, padded, A, n>>
  <2>1. pc = "word" /\ ~padded /\ ~FullWord
    BY DEF IInv, TailInv, WordsDone
  <2>2. size \in Nat
    BY DEF IInv, TypeInv
  <2> QED
    BY <2>1, <2>2 DEF WordsDone, FullWord, InBlock, Goto, word_size, tail, permutation
<1>2. /\ TypeInv /\ word \in 0..24 /\ size \in Nat /\ PosInv
      /\ 8 * word + size < block_size /\ last_word_iter = 0
  BY <1>1 DEF IInv, TypeInv, TailInv
<1>3. block_size = 8 * Words /\ Words \in {9, 17}
  BY <1>2, Sizes
<1>4. /\ call' = call /\ big' = big /\ DataLen' = DataLen
      /\ block_size' = block_size /\ Words' = Words
  BY <1>1, SameCall
<1>5. TypeInv'
  BY <1>1, <1>2, <1>4 DEF TypeInv
<1>6. PosInv'
  BY <1>1, <1>2, <1>4 DEF PosInv, InBlock
<1>7. BlockInv' /\ TailInv'
  BY <1>1, <1>2, <1>3, <1>4 DEF BlockInv, TailInv, InBlock
<1> QED
  BY <1>5, <1>6, <1>7 DEF IInv

LEMMA CopyByteStep == IInv /\ CopyByte => IInv'
<1> SUFFICES ASSUME IInv, CopyByte PROVE IInv'
  OBVIOUS
<1>1. /\ pc = "byte" /\ ~padded /\ ~InBlock /\ size > 0
      /\ last_word' = [last_word EXCEPT ![last_word_iter + 1] = call.data[pos + 1]]
      /\ last_word_iter' = last_word_iter + 1 /\ pos' = pos + 1 /\ size' = size - 1
      /\ UNCHANGED <<input, pc, state, word, padded, A, n>>
  BY DEF IInv, TailInv, CopyByte, InBlock, permutation
<1>2. /\ TypeInv /\ word \in 0..24 /\ pos \in Nat /\ size \in Nat /\ last_word_iter \in 0..8
      /\ 8 * word < block_size /\ last_word_iter + size < 8
      /\ DOMAIN last_word = 1..8 /\ IsWord(last_word)
  BY <1>1 DEF IInv, TypeInv, TailInv
<1>3. DataLen \in Nat /\ block_size = 8 * Words /\ Words \in {9, 17}
  BY <1>2, Sizes
<1>4. /\ call' = call /\ big' = big /\ DataLen' = DataLen
      /\ block_size' = block_size /\ Words' = Words
  BY <1>1, SameCall
<1>5. pos + size = DataLen
  BY <1>1, <1>2, <1>3 DEF IInv, PosInv
<1>6. pos + 1 \in 1..DataLen
  BY <1>1, <1>2, <1>3, <1>5
<1>7. call.data[pos + 1] \in Byte
  BY <1>2, <1>6, DataType DEF TypeInv, DataLen
<1>8. DOMAIN last_word' = 1..8 /\ IsWord(last_word')
  BY <1>1, <1>2, <1>7 DEF IsWord
<1>9. TypeInv'
  BY <1>1, <1>2, <1>4, <1>8 DEF TypeInv
<1>10. PosInv'
  BY <1>1, <1>2, <1>3, <1>4, <1>5 DEF PosInv, InBlock
<1>11. BlockInv' /\ TailInv'
  BY <1>1, <1>2, <1>3, <1>4 DEF BlockInv, TailInv, InBlock
<1> QED
  BY <1>9, <1>10, <1>11 DEF IInv

LEMMA PadStep == IInv /\ Pad => IInv'
<1> SUFFICES ASSUME IInv, Pad PROVE IInv'
  OBVIOUS
<1> DEFINE x == to_le64(Number(last_word'))
           first == [state EXCEPT ![word + 1] = Xor(state[word + 1], x)]
<1>1. /\ pc = "byte" /\ ~padded /\ ~InBlock /\ size = 0 /\ padded' = TRUE /\ pc' = "load"
      /\ last_word' = [last_word EXCEPT ![last_word_iter + 1] = {0}]
      /\ UNCHANGED <<input, size, pos, word, last_word_iter, A, n>>
  BY DEF IInv, TailInv, Pad, InBlock, Goto, permutation
<1>2. state' = [first EXCEPT ![PadWord + 1] = Xor(first[PadWord + 1], {63})]
  BY DEF Pad
<1>3. /\ TypeInv /\ word \in 0..24 /\ pos \in Nat /\ last_word_iter \in 0..8
      /\ last_word_iter < 8 /\ big \in BOOLEAN
      /\ DOMAIN last_word = 1..8 /\ IsWord(last_word) /\ Lanes(state)
  BY <1>1 DEF IInv, TypeInv, TailInv
<1>4. DataLen \in Nat /\ PadWord \in 0..24
  BY <1>3, Sizes
<1>5. /\ call' = call /\ big' = big /\ DataLen' = DataLen
      /\ block_size' = block_size /\ Words' = Words
  BY <1>1, SameCall
<1>6. pos + size = DataLen
  BY <1>1, <1>3, <1>4 DEF IInv, PosInv
<1>7. DOMAIN last_word' = 1..8 /\ IsWord(last_word')
  <2>1. {0} \in Byte
    BY DEF Byte
  <2> QED
    BY <1>1, <1>3, <2>1 DEF IsWord
<1>8. x \in SUBSET Bit
  <2>1. Number(last_word') \in SUBSET Bit
    BY <1>3, <1>7, NumberType
  <2> QED
    BY <2>1, ToLE64Type
<1>9. Lanes(state')
  <2> HIDE DEF x
  <2>1. Lanes(first)
    BY <1>3, <1>8, XorIntoType
  <2>2. {63} \in SUBSET Bit
    BY DEF Bit
  <2> HIDE DEF first
  <2> QED
    BY <1>2, <1>4, <2>1, <2>2, XorIntoType
<1> HIDE DEF x, first
<1>10. TypeInv'
  BY <1>1, <1>3, <1>5, <1>7, <1>9 DEF TypeInv
<1>11. PosInv'
  BY <1>1, <1>5, <1>6, <1>3, <1>4 DEF PosInv, InBlock
<1>12. BlockInv' /\ TailInv'
  BY <1>1 DEF BlockInv, TailInv, InBlock
<1> QED
  BY <1>10, <1>11, <1>12 DEF IInv

LEMMA PermutationStep ==
    IInv /\ (LoadLanes \/ RoundAtoE \/ RoundEtoA \/ StoreLanes) => IInv'
<1> SUFFICES ASSUME IInv, LoadLanes \/ RoundAtoE \/ RoundEtoA \/ StoreLanes PROVE IInv'
  OBVIOUS
<1>1. /\ pc \in {"load", "rounds"} /\ pc' \in {"rounds", "store"}
      /\ UNCHANGED <<input, size, pos, word, last_word, last_word_iter, padded>>
  BY DEF LoadLanes, RoundAtoE, RoundEtoA, Rounds, StoreLanes, Goto, tail
<1>2. TypeInv /\ n \in 0..24 /\ Lanes(state) /\ Lanes(A)
  BY DEF IInv, TypeInv
<1>3. Lanes(state') /\ Lanes(A') /\ n' \in 0..24
  <2>1. CASE LoadLanes
    BY <1>2, <2>1 DEF LoadLanes
  <2>2. CASE RoundAtoE \/ RoundEtoA
    <3>1. n \in 0..23 /\ n' = n + 1 /\ A' = Round(A, n) /\ state' = state
      BY <1>2, <2>2 DEF RoundAtoE, RoundEtoA, Rounds
    <3> QED
      BY <1>2, <3>1, RoundType
  <2>3. CASE StoreLanes
    BY <1>2, <2>3 DEF StoreLanes, permutation
  <2> QED
    BY <2>1, <2>2, <2>3
<1>4. /\ call' = call /\ big' = big /\ DataLen' = DataLen
      /\ block_size' = block_size /\ Words' = Words
  BY <1>1, SameCall
<1>5. TypeInv'
  BY <1>1, <1>2, <1>3, <1>4 DEF TypeInv
<1>6. InBlock' = InBlock
  BY <1>1 DEF InBlock
<1>7. PosInv'
  BY <1>1, <1>4, <1>6 DEF IInv, PosInv
<1>8. BlockInv' /\ TailInv'
  BY <1>1, <1>4, <1>6 DEF IInv, BlockInv, TailInv, FullBlock
<1> QED
  BY <1>5, <1>7, <1>8 DEF IInv

LEMMA NextBlockStep == IInv /\ NextBlock => IInv'
<1> SUFFICES ASSUME IInv, NextBlock PROVE IInv'
  OBVIOUS
<1>1. /\ pc = "store" /\ ~padded /\ InBlock
      /\ size' = size - block_size /\ word' = 0 /\ pc' = "block"
      /\ UNCHANGED <<input, pos, state, last_word, last_word_iter, padded, A, n>>
  BY DEF NextBlock, InBlock, Goto, tail, permutation
<1>2. /\ TypeInv /\ pos \in Nat /\ size \in Nat /\ word \in 0..24
      /\ word = Words /\ size >= block_size /\ last_word_iter = 0
      /\ pos + size = DataLen + 8 * word
  BY <1>1 DEF IInv, TypeInv, PosInv, BlockInv, TailInv, FullBlock
<1>3. DataLen \in Nat /\ block_size = 8 * Words /\ Words \in {9, 17}
  BY <1>2, Sizes
<1>4. /\ call' = call /\ big' = big /\ DataLen' = DataLen
      /\ block_size' = block_size /\ Words' = Words
  BY <1>1, SameCall
<1>5. TypeInv'
  BY <1>1, <1>2, <1>3, <1>4 DEF TypeInv
<1>6. PosInv'
  BY <1>1, <1>2, <1>3, <1>4 DEF PosInv, InBlock
<1>7. BlockInv' /\ TailInv'
  BY <1>1, <1>2, <1>3, <1>4 DEF BlockInv, TailInv, InBlock
<1> QED
  BY <1>5, <1>6, <1>7 DEF IInv

LEMMA SqueezeStep == IInv /\ Squeeze => IInv'
<1> SUFFICES ASSUME IInv, Squeeze PROVE IInv'
  OBVIOUS
<1>1. /\ padded /\ ~InBlock /\ pc' = "done"
      /\ UNCHANGED <<input, size, pos, state, word, last_word, last_word_iter, padded, A, n>>
  BY DEF Squeeze, InBlock, Goto, tail, permutation
<1>2. /\ call' = call /\ big' = big /\ DataLen' = DataLen
      /\ block_size' = block_size /\ Words' = Words
  BY <1>1, SameCall
<1>3. TypeInv'
  BY <1>1, <1>2 DEF IInv, TypeInv
<1>4. PosInv'
  BY <1>1, <1>2 DEF IInv, PosInv, InBlock
<1>5. BlockInv' /\ TailInv'
  BY <1>1, <1>2 DEF IInv, TailInv, BlockInv, InBlock
<1> QED
  BY <1>3, <1>4, <1>5 DEF IInv

-----------------------------------------------------------------------------
(* Theorems                                                                *)

THEOREM Inductive == Spec => []IInv
<1>1. Init => IInv
  BY InitIInv
<1>2. IInv /\ [Next]_vars => IInv'
  <2> SUFFICES ASSUME IInv, [Next]_vars PROVE IInv'
    OBVIOUS
  <2>1. CASE UNCHANGED vars
    <3>1. /\ UNCHANGED <<input, pc, size, pos, state, word, last_word, last_word_iter>>
          /\ UNCHANGED <<padded, A, n>>
      BY <2>1 DEF vars, input
    <3>2. /\ call' = call /\ big' = big /\ DataLen' = DataLen
          /\ block_size' = block_size /\ Words' = Words
      BY <3>1, SameCall
    <3>3. TypeInv' /\ PosInv'
      BY <3>1, <3>2 DEF IInv, TypeInv, PosInv, InBlock
    <3>4. BlockInv' /\ TailInv'
      BY <3>1, <3>2 DEF IInv, BlockInv, TailInv, InBlock, FullBlock
    <3> QED
      BY <3>3, <3>4 DEF IInv
  <2> QED
    BY <2>1, AbsorbBlockWordStep, BlocksDoneStep, AbsorbWordStep, WordsDoneStep,
       CopyByteStep, PadStep, PermutationStep, NextBlockStep, SqueezeStep
    DEF Next
<1> QED
  BY <1>1, <1>2, PTL DEF Spec

\* The lanes stay 64 bits wide through absorption, padding and all 24 rounds, and
\* state_iter, the index of the tail's bytes and the round counter stay in their arrays.
THEOREM TypeCorrect == Spec => []TypeOK
<1>1. IInv => TypeOK
  BY IInvImplies
<1> QED
  BY <1>1, Inductive, PTL

\* Data of any length are taken in once, in order and to the end: at every point of
\* keccak() the data pointer and the bytes left add up, the tail stays below the part of
\* the state that takes in data and there is room for the padding byte.
THEOREM PointersStayInside == Spec => []PointersInside
<1>1. IInv => PointersInside
  BY IInvImplies
<1> QED
  BY <1>1, Inductive, PTL

\* Every nonempty set of natural numbers has a least element.
LEMMA LeastNumber ==
    ASSUME NEW T, T \subseteq Nat, T # {}
    PROVE  \E x \in T : \A y \in T : x <= y
<1> DEFINE Less == {e \in Nat \X Nat : e[1] < e[2]}
<1>1. OpToRel(<, Nat) = Less
  BY Zenon DEF OpToRel
<1>2. IsWellFoundedOn(Less, Nat)
  BY <1>1, NatLessThanWellFounded, Zenon
<1>3. PICK x \in T : \A y \in T : <<y, x>> \notin Less
  <2> HIDE DEF Less
  <2> QED
    BY <1>2, WFMin
<1>4. \A y \in T : ~(y < x)
  BY <1>3
<1> QED
  BY <1>4

\* Induction for a set: what holds of 0, and passes from k to k + 1, holds up to the bound.
LEMMA Induction ==
    ASSUME NEW bound \in Nat, NEW S, 0 \in S, \A k \in 0..bound - 1 : k \in S => k + 1 \in S
    PROVE  0..bound \subseteq S
<1> DEFINE Bad == {k \in 0..bound : k \notin S}
<1> SUFFICES ASSUME Bad # {} PROVE FALSE
  OBVIOUS
<1>1. PICK k \in Bad : \A j \in Bad : k <= j
  <2>1. Bad \subseteq Nat
    OBVIOUS
  <2> HIDE DEF Bad
  <2> QED
    BY <2>1, LeastNumber
<1>2. k \in 0..bound /\ k \notin S /\ k # 0
  OBVIOUS
<1>3. k - 1 \in 0..bound - 1 /\ (k - 1) + 1 = k
  BY <1>2
<1>4. k - 1 \notin Bad
  <2> HIDE DEF Bad
  <2> QED
    BY <1>1, <1>2, <1>3
<1>5. k - 1 \in S
  BY <1>3, <1>4
<1> QED
  BY <1>2, <1>3, <1>5

-----------------------------------------------------------------------------
(* An unrolled round is the five step mappings.                            *)

LEMMA SameOperators ==
    /\ \A x, y : Specification!XorAll(x, y) = Xor(x, y)
    /\ \A x, s : Specification!Rotate(x, s) = rol(x, s)
  BY DEF Specification!XorAll, Specification!Rotate, Xor, rol

\* Lane <<x, y>> is number 5 * y + x.
LEMMA LaneAt ==
    ASSUME NEW x \in 0..4, NEW y \in 0..4, NEW L PROVE LanesOf(L)[<<x, y>>] = L[5 * y + x + 1]
  BY DEF LanesOf

LEMMA CoordinatePair ==
    ASSUME NEW c \in Specification!Coordinates
    PROVE  c = <<c[1], c[2]>> /\ c[1] \in 0..4 /\ c[2] \in 0..4
  BY DEF Specification!Coordinates

LEMMA PairCoordinate ==
    ASSUME NEW x \in 0..4, NEW y \in 0..4 PROVE <<x, y>> \in Specification!Coordinates
  BY DEF Specification!Coordinates

LEMMA XorOrder ==
    ASSUME NEW a, NEW b, NEW c, NEW d, NEW e
    PROVE  Xor(a, Xor(b, Xor(c, Xor(d, e)))) = Xor5(a, b, c, d, e)
<1>1. ASSUME NEW x, NEW y, NEW i PROVE i \in Xor(x, y) <=> ~(i \in x <=> i \in y)
  BY DEF Xor
<1> HIDE DEF Xor
<1>2. ASSUME NEW i
      PROVE  i \in Xor(a, Xor(b, Xor(c, Xor(d, e)))) <=> i \in Xor5(a, b, c, d, e)
  BY <1>1 DEF Xor5
<1> QED
  BY <1>2 DEF Xor, Xor5

LEMMA ColumnIsParity ==
    ASSUME NEW L, NEW x \in 0..4
    PROVE  Specification!Column(LanesOf(L), x) = Parities(L)[x + 1]
<1> DEFINE G == LanesOf(L)
<1>0. /\ G[<<x, 0>>] = L[x + 1] /\ G[<<x, 1>>] = L[x + 6] /\ G[<<x, 2>>] = L[x + 11]
      /\ G[<<x, 3>>] = L[x + 16] /\ G[<<x, 4>>] = L[x + 21]
  BY DEF LanesOf
<1> HIDE DEF G
<1>1. Specification!Column(G, x) =
        Xor(L[x + 1], Xor(L[x + 6], Xor(L[x + 11], Xor(L[x + 16], L[x + 21]))))
  BY <1>0, SameOperators DEF Specification!Column
<1>2. Parities(L)[x + 1] = Xor5(L[x + 1], L[x + 6], L[x + 11], L[x + 16], L[x + 21])
  BY DEF Parities
<1> QED
  BY <1>1, <1>2, XorOrder DEF G

LEMMA ThetaIsDeltas ==
    ASSUME NEW L, NEW x \in 0..4, NEW y \in 0..4
    PROVE  Specification!Theta(LanesOf(L))[<<x, y>>] =
             Xor(L[5 * y + x + 1], Deltas(Parities(L))[x + 1])
<1> DEFINE B == Parities(L)
           u == (x + 4) % 5
           w == (x + 1) % 5
<1>1. u \in 0..4 /\ w \in 0..4
  OBVIOUS
<1>2. Specification!Theta(LanesOf(L))[<<x, y>>] =
        Xor(LanesOf(L)[<<x, y>>],
            Xor(Specification!Column(LanesOf(L), u),
                rol(Specification!Column(LanesOf(L), w), 1)))
  BY PairCoordinate, SameOperators DEF Specification!Theta
<1>3. After(x + 1, 4) = u + 1 /\ After(x + 1, 1) = w + 1
  BY DEF After
<1>4. Deltas(B)[x + 1] = Xor(B[u + 1], rol(B[w + 1], 1))
  BY <1>3 DEF Deltas
<1>5. /\ Specification!Column(LanesOf(L), u) = B[u + 1]
      /\ Specification!Column(LanesOf(L), w) = B[w + 1]
  BY <1>1, ColumnIsParity
<1> HIDE DEF B, u, w
<1> QED
  BY <1>2, <1>4, <1>5, LaneAt DEF B

\* One tap is the rotated lane that Rho and Pi bring to its place.
LEMMA TapIsRhoPi ==
    ASSUME NEW T, NEW x \in 0..4, NEW y \in 0..4
    PROVE  Specification!Pi(Specification!Rho(T))[<<x, y>>] =
             rol(T[<<(x + 3 * y) % 5, x>>], Specification!Offset[<<(x + 3 * y) % 5, x>>])
<1> DEFINE u == (x + 3 * y) % 5
           R == Specification!Rho(T)
<1>1. u \in 0..4
  OBVIOUS
<1>2. Specification!Pi(R)[<<x, y>>] = R[<<u, x>>]
  BY PairCoordinate DEF Specification!Pi
<1>3. <<u, x>> \in Specification!Coordinates
  BY <1>1, PairCoordinate
<1> HIDE DEF u
<1>4. R[<<u, x>>] = rol(T[<<u, x>>], Specification!Offset[<<u, x>>])
  BY <1>3, SameOperators DEF Specification!Rho
<1> QED
  BY <1>2, <1>4 DEF u

LEMMA ChiIsRow ==
    ASSUME NEW X, NEW B, NEW y \in 0..4, \A x \in 0..4 : X[<<x, y>>] = B[x + 1],
           NEW x \in 0..4
    PROVE  Specification!Chi(X)[<<x, y>>] = Row(B)[x + 1]
<1> DEFINE u == (x + 2) % 5
           w == (x + 1) % 5
<1>1. u \in 0..4 /\ w \in 0..4
  OBVIOUS
<1>2. Specification!Chi(X)[<<x, y>>] = Xor(X[<<x, y>>], X[<<u, y>>] \ X[<<w, y>>])
  BY PairCoordinate, SameOperators DEF Specification!Chi
<1>3. After(x + 1, 2) = u + 1 /\ After(x + 1, 1) = w + 1
  BY DEF After
<1>4. Row(B)[x + 1] = Xor(B[x + 1], B[u + 1] \ B[w + 1])
  <2>1. x + 1 \in 1..5
    OBVIOUS
  <2> HIDE DEF u, w
  <2> QED
    BY <1>3, <2>1 DEF Row
<1> HIDE DEF u, w
<1> QED
  BY <1>1, <1>2, <1>4

-----------------------------------------------------------------------------
(* The walk and the rotations                                              *)

Walked == <<
    <<1, 0>>, <<0, 2>>, <<2, 1>>, <<1, 2>>, <<2, 3>>, <<3, 3>>, <<3, 0>>, <<0, 1>>,
    <<1, 3>>, <<3, 1>>, <<1, 4>>, <<4, 4>>, <<4, 0>>, <<0, 3>>, <<3, 4>>, <<4, 3>>,
    <<3, 2>>, <<2, 2>>, <<2, 0>>, <<0, 4>>, <<4, 2>>, <<2, 4>>, <<4, 1>>, <<1, 1>> >>

LEMMA WalkedStep ==
    ASSUME NEW t \in 1..23
    PROVE  Walked[t + 1] = <<Walked[t][2], (2 * Walked[t][1] + 3 * Walked[t][2]) % 5>>
<1>1. CASE t \in 1..8
  BY <1>1 DEF Walked
<1>2. CASE t \in 9..16
  BY <1>2 DEF Walked
<1>3. CASE t \in 17..23
  BY <1>3 DEF Walked
<1> QED
  BY <1>1, <1>2, <1>3

\* The next place of the walk.
Onward(c) == <<c[2], (2 * c[1] + 3 * c[2]) % 5>>

LEMMA WalkIsWalked == \A t \in 0..23 : Specification!Walk[t] = Walked[t + 1]
<1> DEFINE Solves(w) == w = [t \in 0..23 |-> IF t = 0 THEN <<1, 0>> ELSE Onward(w[t - 1])]
           known == [t \in 0..23 |-> Walked[t + 1]]
           walk == CHOOSE w : Solves(w)
<1>1. Solves(known)
  <2>1. ASSUME NEW t \in 0..23
        PROVE  known[t] = IF t = 0 THEN <<1, 0>> ELSE Onward(known[t - 1])
    <3>1. CASE t = 0
      BY <3>1 DEF Walked
    <3>2. CASE t # 0
      <4>1. t \in 1..23 /\ t - 1 \in 0..23 /\ (t - 1) + 1 = t
        BY <3>2
      <4>2. known[t] = Walked[t + 1] /\ known[t - 1] = Walked[t]
        BY <4>1
      <4>3. Walked[t + 1] = Onward(Walked[t])
        BY <4>1, WalkedStep DEF Onward
      <4> QED
        BY <3>2, <4>2, <4>3
    <3> QED
      BY <3>1, <3>2
  <2>2. known = [t \in 0..23 |-> known[t]]
    OBVIOUS
  <2> HIDE DEF known
  <2> QED
    BY <2>1, <2>2
<1>2. Specification!Walk = walk
  BY Zenon DEF Specification!Walk, Onward
<1>3. Solves(walk)
  <2> HIDE DEF known, Solves
  <2> QED
    BY <1>1
<1> HIDE DEF walk
<1>4. walk[0] = <<1, 0>> /\ \A t \in 0..22 : walk[t + 1] = Onward(walk[t])
  <2>1. \A t \in 0..23 : walk[t] = IF t = 0 THEN <<1, 0>> ELSE Onward(walk[t - 1])
    BY <1>3
  <2>2. ASSUME NEW t \in 0..22 PROVE walk[t + 1] = Onward(walk[t])
    <3>1. t + 1 \in 0..23 /\ t + 1 # 0 /\ (t + 1) - 1 = t
      OBVIOUS
    <3> QED
      BY <2>1, <3>1
  <2> QED
    BY <2>1, <2>2
<1> DEFINE Same == {t \in 0..23 : walk[t] = Walked[t + 1]}
<1>5. 0 \in Same
  <2>1. Walked[0 + 1] = <<1, 0>>
    BY DEF Walked
  <2>2. walk[0] = Walked[0 + 1]
    BY <1>4, <2>1
  <2> QED
    BY <2>2
<1>6. ASSUME NEW t \in 0..23 - 1, t \in Same PROVE t + 1 \in Same
  <2>1. walk[t] = Walked[t + 1] /\ t \in 0..22
    BY <1>6
  <2>2. Walked[(t + 1) + 1] = Onward(Walked[t + 1])
    <3>1. t + 1 \in 1..23
      BY <2>1
    <3> QED
      BY <3>1, WalkedStep DEF Onward
  <2>3. walk[t + 1] = Onward(walk[t])
    BY <1>4, <2>1
  <2> QED
    BY <2>1, <2>2, <2>3
<1>7. 0..23 \subseteq Same
  <2> HIDE DEF Same
  <2> QED
    BY <1>5, <1>6, Induction, 23 \in Nat
<1> QED
  BY <1>2, <1>7

\* When the walk is at lane l, which is place l + 1 of the table; never at the origin.
Visit == <<
    24, 0, 18, 6, 12, 7, 23, 2, 9, 22, 1, 3, 17, 16, 20, 13, 8, 4, 5, 15, 19, 10, 21, 14, 11>>

LEMMA VisitOfWalked == \A t \in 0..23 : Visit[5 * Walked[t + 1][2] + Walked[t + 1][1] + 1] = t
<1> SUFFICES ASSUME NEW t \in 0..23
             PROVE  Visit[5 * Walked[t + 1][2] + Walked[t + 1][1] + 1] = t
  OBVIOUS
<1>1. CASE t \in 0..7
  BY <1>1 DEF Visit, Walked
<1>2. CASE t \in 8..15
  BY <1>2 DEF Visit, Walked
<1>3. CASE t \in 16..23
  BY <1>3 DEF Visit, Walked
<1> QED
  BY <1>1, <1>2, <1>3

Triangular(t) == (((t + 1) * (t + 2)) \div 2) % 64

LEMMA OffsetWalked == \A t \in 0..23 : Specification!Offset[Walked[t + 1]] = Triangular(t)
<1> SUFFICES ASSUME NEW t \in 0..23
             PROVE  Specification!Offset[Walked[t + 1]] = Triangular(t)
  OBVIOUS
<1> DEFINE c == Walked[t + 1]
<1>1. c \in Specification!Coordinates /\ c # <<0, 0>>
  <2>1. CASE t \in 0..7
    BY <2>1 DEF Walked, Specification!Coordinates
  <2>2. CASE t \in 8..15
    BY <2>2 DEF Walked, Specification!Coordinates
  <2>3. CASE t \in 16..23
    BY <2>3 DEF Walked, Specification!Coordinates
  <2> QED
    BY <2>1, <2>2, <2>3
<1>2. \A s \in 0..23 : Specification!Walk[s] = c <=> s = t
  <2> SUFFICES ASSUME NEW s \in 0..23, Walked[s + 1] = Walked[t + 1] PROVE s = t
    BY WalkIsWalked
  <2>1. /\ Visit[5 * Walked[s + 1][2] + Walked[s + 1][1] + 1] = s
        /\ Visit[5 * Walked[t + 1][2] + Walked[t + 1][1] + 1] = t
    BY VisitOfWalked
  <2> QED
    BY <2>1
<1> DEFINE v == CHOOSE s \in 0..23 : Specification!Walk[s] = c
<1> HIDE DEF c
<1>3. v = t
  BY <1>2
<1> HIDE DEF v
<1>4. Specification!Offset[c] = Triangular(v)
  BY <1>1 DEF Specification!Offset, Triangular, v
<1> QED
  BY <1>3, <1>4 DEF c

Rotations == <<
    1, 3, 6, 10, 15, 21, 28, 36, 45, 55, 2, 14, 27, 41, 56, 8, 25, 43, 62, 18, 39, 61, 20, 44>>

LEMMA RotationIsTriangular == \A t \in 0..23 : Triangular(t) = Rotations[t + 1]
<1> SUFFICES ASSUME NEW t \in 0..23 PROVE Triangular(t) = Rotations[t + 1]
  OBVIOUS
<1>1. CASE t \in 0..11
  BY <1>1 DEF Triangular, Rotations
<1>2. CASE t \in 12..23
  BY <1>2 DEF Triangular, Rotations
<1> QED
  BY <1>1, <1>2

\* The tap of <<x, y>> is where the walk is at t.
TapAt(x, y, t) ==
    Walked[t + 1] = <<(x + 3 * y) % 5, x>> /\ Taps[y + 1][x + 1][2] = Rotations[t + 1]

LEMMA TapsAreWalked ==
    \A x \in 0..4, y \in 0..4 : <<x, y>> # <<0, 0>> => \E t \in 0..23 : TapAt(x, y, t)
<1>1. /\ TapAt(0, 1, 6) /\ TapAt(0, 2, 0) /\ TapAt(0, 3, 12)
      /\ TapAt(0, 4, 18)
  BY DEF TapAt, Walked, Taps, Rotations
<1>2. /\ TapAt(1, 0, 23) /\ TapAt(1, 1, 22) /\ TapAt(1, 2, 2)
      /\ TapAt(1, 3, 7) /\ TapAt(1, 4, 9)
  BY DEF TapAt, Walked, Taps, Rotations
<1>3. /\ TapAt(2, 0, 17) /\ TapAt(2, 1, 1) /\ TapAt(2, 2, 16)
      /\ TapAt(2, 3, 3) /\ TapAt(2, 4, 20)
  BY DEF TapAt, Walked, Taps, Rotations
<1>4. /\ TapAt(3, 0, 5) /\ TapAt(3, 1, 8) /\ TapAt(3, 2, 15)
      /\ TapAt(3, 3, 4) /\ TapAt(3, 4, 13)
  BY DEF TapAt, Walked, Taps, Rotations
<1>5. /\ TapAt(4, 0, 11) /\ TapAt(4, 1, 21) /\ TapAt(4, 2, 19)
      /\ TapAt(4, 3, 14) /\ TapAt(4, 4, 10)
  BY DEF TapAt, Walked, Taps, Rotations
<1> HIDE DEF TapAt
<1> SUFFICES ASSUME NEW x \in 0..4, NEW y \in 0..4, <<x, y>> # <<0, 0>>
             PROVE  \E t \in 0..23 : TapAt(x, y, t)
  OBVIOUS
<1>6. y = 0 \/ y = 1 \/ y = 2 \/ y = 3 \/ y = 4
  OBVIOUS
<1>7. CASE x = 0
  BY <1>1, <1>6, <1>7
<1>8. CASE x = 1
  BY <1>2, <1>6, <1>8
<1>9. CASE x = 2
  BY <1>3, <1>6, <1>9
<1>10. CASE x = 3
  BY <1>4, <1>6, <1>10
<1>11. CASE x = 4
  BY <1>5, <1>6, <1>11
<1>12. x = 0 \/ x = 1 \/ x = 2 \/ x = 3 \/ x = 4
  OBVIOUS
<1> QED
  BY <1>7, <1>8, <1>9, <1>10, <1>11, <1>12

\* A tap takes lane <<(x + 3y) % 5, x>> and rotates it by that lane's offset.
LEMMA TapTable ==
    ASSUME NEW x \in 0..4, NEW y \in 0..4
    PROVE  /\ Taps[y + 1][x + 1][1] = 5 * x + ((x + 3 * y) % 5)
           /\ Taps[y + 1][x + 1][2] =
                Specification!Offset[<<(x + 3 * y) % 5, x>>]
<1>1. Taps[y + 1][x + 1][1] = 5 * x + ((x + 3 * y) % 5)
  <2>1. CASE y = 0
    BY <2>1 DEF Taps
  <2>2. CASE y = 1
    BY <2>2 DEF Taps
  <2>3. CASE y = 2
    BY <2>3 DEF Taps
  <2>4. CASE y = 3
    BY <2>4 DEF Taps
  <2>5. CASE y = 4
    BY <2>5 DEF Taps
  <2> QED
    BY <2>1, <2>2, <2>3, <2>4, <2>5
<1>2. CASE x = 0 /\ y = 0
  <2>1. Taps[y + 1][x + 1][2] = 0 /\ (x + 3 * y) % 5 = 0
    BY <1>2 DEF Taps
  <2>2. Specification!Offset[<<0, 0>>] = 0
    BY DEF Specification!Offset, Specification!Coordinates
  <2> QED
    BY <1>1, <1>2, <2>1, <2>2
<1>3. CASE ~(x = 0 /\ y = 0)
  <2>1. PICK t \in 0..23 : TapAt(x, y, t)
    BY <1>3, TapsAreWalked
  <2> QED
    BY <1>1, <2>1, OffsetWalked, RotationIsTriangular DEF TapAt
<1> QED
  BY <1>2, <1>3

-----------------------------------------------------------------------------
(* The round                                                               *)

\* all is s of length m with r of length k behind it.
IsJoin(all, s, m, r, k) ==
    /\ all \in RowsOf(m + k)
    /\ \A i \in 1..m : all[i] = s[i]
    /\ \A i \in 1..k : all[m + i] = r[i]

LEMMA AppendedAt ==
    ASSUME NEW m \in Nat, NEW k \in Nat, NEW s, s \in RowsOf(m), NEW r, r \in RowsOf(k)
    PROVE  IsJoin(s \o r, s, m, r, k)
<1>1. s \in Seq(SUBSET Bit) /\ Len(s) = m /\ r \in Seq(SUBSET Bit) /\ Len(r) = k
  <2>1. s \in Seq(SUBSET Bit) /\ r \in Seq(SUBSET Bit)
    BY SeqDef DEF RowsOf
  <2> QED
    BY <2>1, LenProperties DEF RowsOf
<1>2. \A i \in 1..m + k : (s \o r)[i] = IF i <= m THEN s[i] ELSE r[i - m]
  BY <1>1, ConcatProperties
<1>3. ASSUME NEW i \in 1..m PROVE (s \o r)[i] = s[i]
  <2>1. i \in 1..m + k /\ i <= m
    OBVIOUS
  <2> QED
    BY <1>2, <2>1
<1>4. ASSUME NEW i \in 1..k PROVE (s \o r)[m + i] = r[i]
  <2>1. m + i \in 1..m + k /\ ~(m + i <= m) /\ (m + i) - m = i
    OBVIOUS
  <2> QED
    BY <1>2, <2>1
<1> QED
  BY <1>3, <1>4, AppendRow DEF IsJoin

LEMMA FiveRows ==
    ASSUME NEW Q, \A r \in 1..5 : Q[r] \in RowsOf(5), NEW v \in 1..5
    PROVE  LET all == Q[1] \o Q[2] \o Q[3] \o Q[4] \o Q[5]
           IN  /\ all \in RowsOf(25)
               /\ all[v] = Q[1][v] /\ all[5 + v] = Q[2][v] /\ all[10 + v] = Q[3][v]
               /\ all[15 + v] = Q[4][v] /\ all[20 + v] = Q[5][v]
<1> DEFINE two == Q[1] \o Q[2]
           three == two \o Q[3]
           four == three \o Q[4]
           five == four \o Q[5]
<1>0. /\ Q[1] \in RowsOf(5) /\ Q[2] \in RowsOf(5) /\ Q[3] \in RowsOf(5)
      /\ Q[4] \in RowsOf(5) /\ Q[5] \in RowsOf(5)
  OBVIOUS
<1>1. two \in RowsOf(10) /\ two[v] = Q[1][v] /\ two[5 + v] = Q[2][v]
  <2>1. IsJoin(two, Q[1], 5, Q[2], 5)
    BY <1>0, AppendedAt, 5 \in Nat
  <2>2. 5 + 5 = 10
    OBVIOUS
  <2> HIDE DEF two
  <2> QED
    BY <2>1, <2>2 DEF IsJoin
<1> HIDE DEF two
<1>2. three \in RowsOf(15) /\ (\A i \in 1..10 : three[i] = two[i]) /\ three[10 + v] = Q[3][v]
  <2>1. IsJoin(three, two, 10, Q[3], 5)
    BY <1>0, <1>1, AppendedAt, 10 \in Nat, 5 \in Nat
  <2>2. 10 + 5 = 15
    OBVIOUS
  <2> HIDE DEF three
  <2> QED
    BY <2>1, <2>2 DEF IsJoin
<1> HIDE DEF three
<1>3. four \in RowsOf(20) /\ (\A i \in 1..15 : four[i] = three[i]) /\ four[15 + v] = Q[4][v]
  <2>1. IsJoin(four, three, 15, Q[4], 5)
    BY <1>0, <1>2, AppendedAt, 15 \in Nat, 5 \in Nat
  <2>2. 15 + 5 = 20
    OBVIOUS
  <2> HIDE DEF four
  <2> QED
    BY <2>1, <2>2 DEF IsJoin
<1> HIDE DEF four
<1>4. five \in RowsOf(25) /\ (\A i \in 1..20 : five[i] = four[i]) /\ five[20 + v] = Q[5][v]
  <2>1. IsJoin(five, four, 20, Q[5], 5)
    BY <1>0, <1>3, AppendedAt, 20 \in Nat, 5 \in Nat
  <2>2. 20 + 5 = 25
    OBVIOUS
  <2> HIDE DEF five
  <2> QED
    BY <2>1, <2>2 DEF IsJoin
<1> HIDE DEF five
<1>5. /\ five[v] = Q[1][v] /\ five[5 + v] = Q[2][v] /\ five[10 + v] = Q[3][v]
      /\ five[15 + v] = Q[4][v] /\ five[20 + v] = Q[5][v]
  BY <1>1, <1>2, <1>3, <1>4
<1> QED
  BY <1>4, <1>5 DEF five, four, three, two

LEMMA RowsAt ==
    ASSUME NEW L, Lanes(L), NEW x \in 0..4, NEW y \in 0..4
    PROVE  LET D == Deltas(Parities(L))
           IN  /\ Rows(L, D) \in RowsOf(25)
               /\ Rows(L, D)[5 * y + x + 1] = Row(Tapped(L, D, Taps[y + 1]))[x + 1]
<1> DEFINE D == Deltas(Parities(L))
           Q == [r \in 1..5 |-> Row(Tapped(L, D, Taps[r]))]
           all == Q[1] \o Q[2] \o Q[3] \o Q[4] \o Q[5]
<1>1. \A v \in 1..5 : D[v] \in SUBSET Bit
  BY ParitiesType, DeltasType
<1> HIDE DEF D
<1>2. \A r \in 1..5 : Q[r] \in RowsOf(5)
  BY <1>1, TapsAreTaps, RowType DEF RowsOf
<1>3. Rows(L, D) = all
  BY DEF Rows
<1>4. Q[y + 1] = Row(Tapped(L, D, Taps[y + 1]))
  OBVIOUS
<1> HIDE DEF Q
<1>5. /\ all \in RowsOf(25)
      /\ all[x + 1] = Q[1][x + 1] /\ all[5 + (x + 1)] = Q[2][x + 1]
      /\ all[10 + (x + 1)] = Q[3][x + 1] /\ all[15 + (x + 1)] = Q[4][x + 1]
      /\ all[20 + (x + 1)] = Q[5][x + 1]
  BY <1>2, FiveRows, x + 1 \in 1..5
<1> HIDE DEF all
<1>6. all[5 * y + x + 1] = Q[y + 1][x + 1]
  <2>1. y = 0 \/ y = 1 \/ y = 2 \/ y = 3 \/ y = 4
    OBVIOUS
  <2> QED
    BY <1>5, <2>1
<1> QED
  BY <1>3, <1>4, <1>5, <1>6 DEF D

\* All but the last step mapping, for every lane.
LEMMA RowsAreChi ==
    ASSUME NEW L, Lanes(L), NEW x \in 0..4, NEW y \in 0..4
    PROVE  Rows(L, Deltas(Parities(L)))[5 * y + x + 1] =
             Specification!Chi(Specification!Pi(Specification!Rho(
                 Specification!Theta(LanesOf(L)))))[<<x, y>>]
<1> DEFINE D == Deltas(Parities(L))
           T == Specification!Theta(LanesOf(L))
           X == Specification!Pi(Specification!Rho(T))
           B == Tapped(L, D, Taps[y + 1])
<1>1. ASSUME NEW z \in 0..4 PROVE X[<<z, y>>] = B[z + 1]
  <2> DEFINE u == (z + 3 * y) % 5
             l == 5 * z + u
             s == Specification!Offset[<<u, z>>]
  <2>1. u \in 0..4 /\ l \in 0..24 /\ Vowel(l) = u + 1
    BY DEF Vowel
  <2>2. X[<<z, y>>] = rol(T[<<u, z>>], s)
    BY TapIsRhoPi
  <2>3. Taps[y + 1][z + 1][1] = l /\ Taps[y + 1][z + 1][2] = s
    BY TapTable
  <2>4. T[<<u, z>>] = Xor(L[l + 1], D[u + 1])
    <3> HIDE DEF u, D, T
    <3>1. T[<<u, z>>] = Xor(L[5 * z + u + 1], D[u + 1])
      BY <2>1, ThetaIsDeltas DEF D, T
    <3> QED
      BY <3>1
  <2>5. B[z + 1] = rol(Xor(L[l + 1], D[Vowel(l)]), s)
    <3> HIDE DEF u, l, s, D
    <3>1. z + 1 \in 1..5
      OBVIOUS
    <3> QED
      BY <2>3, <3>1 DEF Tapped
  <2> HIDE DEF u, l, s, B, X, T, D
  <2> QED
    BY <2>1, <2>2, <2>4, <2>5
<1>2. Rows(L, D)[5 * y + x + 1] = Row(B)[x + 1]
  BY RowsAt
<1> HIDE DEF D, T, X, B
<1>3. \A z \in 0..4 : X[<<z, y>>] = B[z + 1]
  BY <1>1
<1>4. Specification!Chi(X)[<<x, y>>] = Row(B)[x + 1]
  BY ONLY <1>3, x \in 0..4, y \in 0..4, ChiIsRow
<1> QED
  BY <1>2, <1>4 DEF D, X, T

-----------------------------------------------------------------------------
(* The register and the round constants                                    *)

\* The register one step later.
Clocked(r) ==
    LET shifted == {b + 1 : b \in r}
    IN  IF 8 \in shifted THEN Xor(shifted \ {8}, {0, 4, 5, 6}) ELSE shifted

Runs(s, l) == s = [t \in 0..l |-> IF t = 0 THEN {0} ELSE Clocked(s[t - 1])]

LEMMA RegisterExists == \E s : Runs(s, 254)
<1> DEFINE S == {l \in 0..254 : \E s : Runs(s, l)}
<1>1. 0 \in S
  <2>1. Runs([t \in 0..0 |-> {0}], 0)
    BY DEF Runs
  <2> QED
    BY <2>1
<1>2. ASSUME NEW l \in 0..254 - 1, l \in S PROVE l + 1 \in S
  <2>1. PICK s : Runs(s, l)
    BY <1>2
  <2> DEFINE r == [t \in 0..l + 1 |-> IF t = l + 1 THEN Clocked(s[l]) ELSE s[t]]
  <2>2. \A t \in 0..l : s[t] = IF t = 0 THEN {0} ELSE Clocked(s[t - 1])
    BY <2>1 DEF Runs
  <2>3. (\A t \in 0..l : r[t] = s[t]) /\ r[l + 1] = Clocked(s[l])
    OBVIOUS
  <2>4. r = [t \in 0..l + 1 |-> r[t]]
    OBVIOUS
  <2> HIDE DEF r
  <2>5. ASSUME NEW t \in 0..l + 1 PROVE r[t] = IF t = 0 THEN {0} ELSE Clocked(r[t - 1])
    <3>1. CASE t = l + 1
      <4>1. t # 0 /\ t - 1 = l /\ l \in 0..l
        BY <3>1
      <4> QED
        BY <2>3, <3>1, <4>1
    <3>2. CASE t # l + 1 /\ t # 0
      <4>1. t \in 0..l /\ t - 1 \in 0..l
        BY <3>2
      <4> QED
        BY <2>2, <2>3, <3>2, <4>1
    <3>3. CASE t = 0
      BY <2>2, <2>3, <3>3
    <3> QED
      BY <3>1, <3>2, <3>3
  <2>6. Runs(r, l + 1)
    BY <2>4, <2>5 DEF Runs
  <2> QED
    BY <2>6
<1>3. 0..254 \subseteq S
  <2> HIDE DEF S
  <2> QED
    BY <1>1, <1>2, Induction, 254 \in Nat
<1> QED
  BY <1>3

LEMMA RegisterStep ==
    /\ Specification!Register[0] = {0}
    /\ \A t \in 0..253 : Specification!Register[t + 1] = Clocked(Specification!Register[t])
<1> DEFINE reg == CHOOSE s : Runs(s, 254)
<1>1. Specification!Register = reg
  BY Zenon DEF Specification!Register, Specification!XorAll, Xor, Clocked, Runs
<1>2. Runs(reg, 254)
  BY RegisterExists
<1> HIDE DEF reg
<1>3. \A t \in 0..254 : reg[t] = IF t = 0 THEN {0} ELSE Clocked(reg[t - 1])
  BY <1>2 DEF Runs
<1>4. ASSUME NEW t \in 0..253 PROVE reg[t + 1] = Clocked(reg[t])
  <2>1. t + 1 \in 0..254 /\ t + 1 # 0 /\ (t + 1) - 1 = t
    OBVIOUS
  <2> QED
    BY <1>3, <2>1
<1>5. reg[0] = {0}
  BY <1>3, 0 \in 0..254
<1> QED
  BY <1>1, <1>4, <1>5

\* One step, bit by bit.
LEMMA ClockedBits ==
    ASSUME NEW r \in SUBSET (0..7)
    PROVE  /\ Clocked(r) \in SUBSET (0..7)
           /\ 0 \in Clocked(r) <=> 7 \in r
           /\ \A i \in {1, 2, 3, 7} : i \in Clocked(r) <=> i - 1 \in r
           /\ \A i \in {4, 5, 6} : i \in Clocked(r) <=> ~(i - 1 \in r <=> 7 \in r)
<1> DEFINE shifted == {b + 1 : b \in r}
<1>1. \A i \in Int : i \in shifted <=> i - 1 \in r
  OBVIOUS
<1>2. shifted \in SUBSET (1..8) /\ (8 \in shifted <=> 7 \in r)
  BY <1>1
<1>3. Clocked(r) = IF 8 \in shifted THEN Xor(shifted \ {8}, {0, 4, 5, 6}) ELSE shifted
  BY DEF Clocked
<1> HIDE DEF shifted
<1>4. \A i : i \in Clocked(r) <=>
        IF 7 \in r THEN ~(i \in shifted \ {8} <=> i \in {0, 4, 5, 6}) ELSE i \in shifted
  BY <1>2, <1>3 DEF Xor
<1>5. ASSUME NEW i \in Clocked(r) PROVE i \in 0..7
  <2>1. CASE 7 \in r
    <3>1. i \in shifted \ {8} \/ i \in {0, 4, 5, 6}
      BY <1>4, <2>1
    <3>2. CASE i \in shifted \ {8}
      <4>1. i \in 1..8 /\ i # 8
        BY <1>2, <3>2
      <4> QED
        BY <4>1
    <3>3. CASE i \in {0, 4, 5, 6}
      BY <3>3
    <3> QED
      BY <3>1, <3>2, <3>3
  <2>2. CASE 7 \notin r
    <3>1. i \in shifted /\ i # 8
      BY <1>2, <1>4, <2>2
    <3> QED
      BY <1>2, <3>1
  <2> QED
    BY <2>1, <2>2
<1>6. 0 \in Clocked(r) <=> 7 \in r
  BY <1>2, <1>4
<1>7. ASSUME NEW i \in {1, 2, 3, 7} PROVE i \in Clocked(r) <=> i - 1 \in r
  BY <1>1, <1>4
<1>8. ASSUME NEW i \in {4, 5, 6} PROVE i \in Clocked(r) <=> ~(i - 1 \in r <=> 7 \in r)
  BY <1>1, <1>4
<1> QED
  BY <1>5, <1>6, <1>7, <1>8

\* The register has eight bits.
LEMMA RegisterType == \A t \in 0..254 : Specification!Register[t] \in SUBSET (0..7)
<1> DEFINE S == {t \in 0..254 : Specification!Register[t] \in SUBSET (0..7)}
<1>1. 0 \in S
  BY RegisterStep
<1>2. ASSUME NEW t \in 0..254 - 1, t \in S PROVE t + 1 \in S
  <2>1. t \in 0..253 /\ t + 1 \in 0..254 /\ Specification!Register[t] \in SUBSET (0..7)
    BY <1>2
  <2>2. Specification!Register[t + 1] \in SUBSET (0..7)
    <3> DEFINE r == Specification!Register[t]
    <3>1. Specification!Register[t + 1] = Clocked(r) /\ r \in SUBSET (0..7)
      BY <2>1, RegisterStep
    <3> HIDE DEF r
    <3>2. Clocked(r) \in SUBSET (0..7)
      BY <3>1, ClockedBits
    <3> QED
      BY <3>1, <3>2
  <2> QED
    BY <2>1, <2>2
<1>3. 0..254 \subseteq S
  <2> HIDE DEF S
  <2> QED
    BY <1>1, <1>2, Induction, 254 \in Nat
<1> QED
  BY <1>3

\* One step, spelled out.
Bits(r, c) ==
    /\ c \in SUBSET (0..7)
    /\ 0 \in c <=> 7 \in r
    /\ 1 \in c <=> 0 \in r
    /\ 2 \in c <=> 1 \in r
    /\ 3 \in c <=> 2 \in r
    /\ 4 \in c <=> ~(3 \in r <=> 7 \in r)
    /\ 5 \in c <=> ~(4 \in r <=> 7 \in r)
    /\ 6 \in c <=> ~(5 \in r <=> 7 \in r)
    /\ 7 \in c <=> 6 \in r

LEMMA StepBits == ASSUME NEW r \in SUBSET (0..7) PROVE Bits(r, Clocked(r))
<1> DEFINE c == Clocked(r)
<1>1. /\ c \in SUBSET (0..7)
      /\ 0 \in c <=> 7 \in r
      /\ \A i \in {1, 2, 3, 7} : i \in c <=> i - 1 \in r
      /\ \A i \in {4, 5, 6} : i \in c <=> ~(i - 1 \in r <=> 7 \in r)
  BY ClockedBits
<1> HIDE DEF c
<1>2. 1 - 1 = 0 /\ 2 - 1 = 1 /\ 3 - 1 = 2 /\ 7 - 1 = 6 /\ 4 - 1 = 3 /\ 5 - 1 = 4 /\ 6 - 1 = 5
  OBVIOUS
<1>3. Bits(r, c)
  BY <1>1, <1>2 DEF Bits
<1> QED
  BY <1>3 DEF c

\* Seven steps at once: what the register is then, and when it put out a one.
Ahead(r) ==
    {i \in 0..7 :
        \/ i = 0 /\ (1 \in r <=> (3 \in r <=> 4 \in r))
        \/ i = 1 /\ (2 \in r <=> (4 \in r <=> 5 \in r))
        \/ i = 2 /\ (3 \in r <=> (5 \in r <=> 6 \in r))
        \/ i = 3 /\ (4 \in r <=> (6 \in r <=> 7 \in r))
        \/ i = 4 /\ (1 \in r <=> (3 \in r <=> (4 \in r <=> (5 \in r <=> 7 \in r))))
        \/ i = 5 /\ (1 \in r <=> (2 \in r <=> (3 \in r <=> (5 \in r <=> 6 \in r))))
        \/ i = 6 /\ ~(1 \in r <=> (2 \in r <=> (6 \in r <=> 7 \in r)))
        \/ i = 7 /\ ~(0 \in r <=> (2 \in r <=> (3 \in r <=> 7 \in r)))}

Ones(r) ==
    {k \in 0..6 :
        \/ k = 0 /\ 0 \in r
        \/ k = 1 /\ 7 \in r
        \/ k = 2 /\ 6 \in r
        \/ k = 3 /\ ~(5 \in r <=> 7 \in r)
        \/ k = 4 /\ (4 \in r <=> (6 \in r <=> 7 \in r))
        \/ k = 5 /\ (3 \in r <=> (5 \in r <=> 6 \in r))
        \/ k = 6 /\ (2 \in r <=> (4 \in r <=> 5 \in r))}

LEMMA SevenBits ==
    ASSUME NEW r \in SUBSET (0..7), NEW r1, NEW r2, NEW r3, NEW r4, NEW r5, NEW r6, NEW r7,
           Bits(r, r1), Bits(r1, r2), Bits(r2, r3), Bits(r3, r4), Bits(r4, r5),
           Bits(r5, r6), Bits(r6, r7)
    PROVE  /\ r7 = Ahead(r)
           /\ (0 \in Ones(r) <=> 0 \in r) /\ (1 \in Ones(r) <=> 0 \in r1)
           /\ (2 \in Ones(r) <=> 0 \in r2) /\ (3 \in Ones(r) <=> 0 \in r3)
           /\ (4 \in Ones(r) <=> 0 \in r4) /\ (5 \in Ones(r) <=> 0 \in r5)
           /\ (6 \in Ones(r) <=> 0 \in r6)
<1>1. ASSUME NEW i \in 0..7 PROVE i \in r7 <=> i \in Ahead(r)
  <2>1. i = 0 \/ i = 1 \/ i = 2 \/ i = 3 \/ i = 4 \/ i = 5 \/ i = 6 \/ i = 7
    OBVIOUS
  <2> QED
    BY <2>1 DEF Bits, Ahead
<1>2. r7 \in SUBSET (0..7) /\ Ahead(r) \in SUBSET (0..7)
  BY DEF Bits, Ahead
<1>3. r7 = Ahead(r)
  BY <1>1, <1>2
<1>4. /\ (0 \in Ones(r) <=> 0 \in r) /\ (1 \in Ones(r) <=> 0 \in r1)
      /\ (2 \in Ones(r) <=> 0 \in r2) /\ (3 \in Ones(r) <=> 0 \in r3)
      /\ (4 \in Ones(r) <=> 0 \in r4) /\ (5 \in Ones(r) <=> 0 \in r5)
      /\ (6 \in Ones(r) <=> 0 \in r6)
  BY DEF Bits, Ones
<1> QED
  BY <1>3, <1>4

LEMMA SevenSteps ==
    ASSUME NEW t \in 0..247
    PROVE  /\ Specification!Register[t + 7] = Ahead(Specification!Register[t])
           /\ \A k \in 0..6 :
                0 \in Specification!Register[t + k] <=> k \in Ones(Specification!Register[t])
<1> DEFINE R(k) == Specification!Register[t + k]
<1>1. ASSUME NEW k \in 0..6 PROVE Bits(R(k), R(k + 1))
  <2> DEFINE u == t + k
  <2>1. u \in 0..253 /\ u \in 0..254 /\ t + (k + 1) = u + 1
    OBVIOUS
  <2> HIDE DEF u
  <2>2. Specification!Register[u + 1] = Clocked(Specification!Register[u])
    BY <2>1, RegisterStep
  <2>3. Specification!Register[u] \in SUBSET (0..7)
    BY <2>1, RegisterType
  <2>4. Bits(Specification!Register[u], Specification!Register[u + 1])
    BY <2>2, <2>3, StepBits
  <2> QED
    BY <2>1, <2>4 DEF u
<1>2. R(0) \in SUBSET (0..7) /\ R(0) = Specification!Register[t]
  <2>1. t + 0 = t /\ t \in 0..254
    OBVIOUS
  <2> QED
    BY <2>1, RegisterType
<1> HIDE DEF R
<1>3. /\ Bits(R(0), R(1)) /\ Bits(R(1), R(2)) /\ Bits(R(2), R(3)) /\ Bits(R(3), R(4))
      /\ Bits(R(4), R(5)) /\ Bits(R(5), R(6)) /\ Bits(R(6), R(7))
  <2>1. /\ Bits(R(0), R(0 + 1)) /\ Bits(R(1), R(1 + 1)) /\ Bits(R(2), R(2 + 1))
        /\ Bits(R(3), R(3 + 1)) /\ Bits(R(4), R(4 + 1)) /\ Bits(R(5), R(5 + 1))
        /\ Bits(R(6), R(6 + 1))
    BY <1>1
  <2>2. 0 + 1 = 1 /\ 1 + 1 = 2 /\ 2 + 1 = 3 /\ 3 + 1 = 4 /\ 4 + 1 = 5 /\ 5 + 1 = 6 /\ 6 + 1 = 7
    OBVIOUS
  <2> QED
    BY <2>1, <2>2
<1> DEFINE r == R(0)
           r1 == R(1)
           r2 == R(2)
           r3 == R(3)
           r4 == R(4)
           r5 == R(5)
           r6 == R(6)
           r7 == R(7)
<1>4. /\ r7 = Ahead(r)
      /\ (0 \in Ones(r) <=> 0 \in r) /\ (1 \in Ones(r) <=> 0 \in r1)
      /\ (2 \in Ones(r) <=> 0 \in r2) /\ (3 \in Ones(r) <=> 0 \in r3)
      /\ (4 \in Ones(r) <=> 0 \in r4) /\ (5 \in Ones(r) <=> 0 \in r5)
      /\ (6 \in Ones(r) <=> 0 \in r6)
  <2>1. r \in SUBSET (0..7)
    BY <1>2
  <2> HIDE DEF r, r1, r2, r3, r4, r5, r6, r7
  <2> QED
    BY <1>3, <2>1, SevenBits DEF r, r1, r2, r3, r4, r5, r6, r7
<1>5. \A k \in 0..6 : 0 \in R(k) <=> k \in Ones(r)
  <2> SUFFICES ASSUME NEW k \in 0..6 PROVE 0 \in R(k) <=> k \in Ones(r)
    OBVIOUS
  <2>1. k = 0 \/ k = 1 \/ k = 2 \/ k = 3 \/ k = 4 \/ k = 5 \/ k = 6
    OBVIOUS
  <2> QED
    BY <1>4, <2>1
<1> QED
  BY <1>2, <1>4, <1>5 DEF R

\* The register before each round.
Registers == <<
    {0}, {7}, {3, 4, 6, 7}, {1, 3, 4},
    {0, 1, 2, 3, 4, 6, 7}, {0, 3}, {0, 2, 4, 5}, {0, 1, 2, 3, 6},
    {1, 3, 6, 7}, {4, 5, 6}, {0, 6}, {2, 3, 5, 6, 7},
    {0, 2, 4, 6, 7}, {0, 2, 3, 6, 7}, {0, 1, 5, 6}, {0, 1, 3, 5, 7},
    {1, 3, 5, 7}, {1, 3, 5}, {1, 4, 5, 6, 7}, {3, 5, 6, 7},
    {0, 1, 2, 4, 5}, {1, 2, 3, 4, 5}, {0, 1, 3}, {2, 6}>>

LEMMA RegistersAhead == \A m \in 0..22 : Registers[m + 2] = Ahead(Registers[m + 1])
  BY DEF Registers, Ahead

LEMMA RegisterBefore == \A m \in 0..23 : Specification!Register[7 * m] = Registers[m + 1]
<1> DEFINE S == {m \in 0..23 : Specification!Register[7 * m] = Registers[m + 1]}
<1>1. 0 \in S
  <2>1. 7 * 0 = 0 /\ 0 + 1 = 1 /\ 0 \in 0..23
    OBVIOUS
  <2>2. Registers[1] = {0}
    BY DEF Registers
  <2>3. Specification!Register[0] = {0}
    BY RegisterStep
  <2> QED
    BY <2>1, <2>2, <2>3
<1>2. ASSUME NEW m \in 0..23 - 1, m \in S PROVE m + 1 \in S
  <2> DEFINE t == 7 * m
  <2>1. t \in 0..247 /\ 7 * (m + 1) = t + 7 /\ m \in 0..22 /\ (m + 1) + 1 = m + 2
    OBVIOUS
  <2>2. Specification!Register[t] = Registers[m + 1]
    BY <1>2
  <2> HIDE DEF t
  <2>3. Specification!Register[t + 7] = Ahead(Specification!Register[t])
    BY <2>1, SevenSteps
  <2>4. Specification!Register[7 * (m + 1)] = Registers[(m + 1) + 1]
    BY <2>1, <2>2, <2>3, RegistersAhead
  <2> QED
    BY <2>4
<1>3. 0..23 \subseteq S
  <2> HIDE DEF S
  <2> QED
    BY <1>1, <1>2, Induction, 23 \in Nat
<1> QED
  BY <1>3

\* The lane whose bits are at the places of o.
AtPlaces(o) ==
    {p \in 0..63 :
        \/ p = 0 /\ 0 \in o
        \/ p = 1 /\ 1 \in o
        \/ p = 3 /\ 2 \in o
        \/ p = 7 /\ 3 \in o
        \/ p = 15 /\ 4 \in o
        \/ p = 31 /\ 5 \in o
        \/ p = 63 /\ 6 \in o}

LEMMA ImageAtPlaces ==
    ASSUME NEW o \in SUBSET (0..6)
    PROVE  {Specification!Places[j + 1] : j \in o} = AtPlaces(o)
<1>1. \A j \in o : j = 0 \/ j = 1 \/ j = 2 \/ j = 3 \/ j = 4 \/ j = 5 \/ j = 6
  OBVIOUS
<1>2. /\ Specification!Places[0 + 1] = 0 /\ Specification!Places[1 + 1] = 1
      /\ Specification!Places[2 + 1] = 3 /\ Specification!Places[3 + 1] = 7
      /\ Specification!Places[4 + 1] = 15 /\ Specification!Places[5 + 1] = 31
      /\ Specification!Places[6 + 1] = 63
  BY DEF Specification!Places
<1> QED
  BY <1>1, <1>2 DEF AtPlaces

LEMMA RegistersRC ==
    \A m \in 0..23 : AtPlaces(Ones(Registers[m + 1])) = round_constants[m + 1]
<1>0. \A m \in 0..23 : round_constants[m + 1] \subseteq {0, 1, 3, 7, 15, 31, 63}
  BY DEF round_constants
<1>1. \A m \in 0..23 : 0 \in round_constants[m + 1] <=> 0 \in Registers[m + 1]
  BY DEF Registers, round_constants
<1>2. \A m \in 0..23 : 1 \in round_constants[m + 1] <=> 7 \in Registers[m + 1]
  BY DEF Registers, round_constants
<1>3. \A m \in 0..23 : 3 \in round_constants[m + 1] <=> 6 \in Registers[m + 1]
  BY DEF Registers, round_constants
<1>4. \A m \in 0..23 :
        7 \in round_constants[m + 1] <=> ~(5 \in Registers[m + 1] <=> 7 \in Registers[m + 1])
  BY DEF Registers, round_constants
<1>5. \A m \in 0..23 :
        15 \in round_constants[m + 1] <=>
            (4 \in Registers[m + 1] <=> (6 \in Registers[m + 1] <=> 7 \in Registers[m + 1]))
  BY DEF Registers, round_constants
<1>6. \A m \in 0..23 :
        31 \in round_constants[m + 1] <=>
            (3 \in Registers[m + 1] <=> (5 \in Registers[m + 1] <=> 6 \in Registers[m + 1]))
  BY DEF Registers, round_constants
<1>7. \A m \in 0..23 :
        63 \in round_constants[m + 1] <=>
            (2 \in Registers[m + 1] <=> (4 \in Registers[m + 1] <=> 5 \in Registers[m + 1]))
  BY DEF Registers, round_constants
<1> SUFFICES ASSUME NEW m \in 0..23
             PROVE  AtPlaces(Ones(Registers[m + 1])) = round_constants[m + 1]
  OBVIOUS
<1> QED
  BY <1>0, <1>1, <1>2, <1>3, <1>4, <1>5, <1>6, <1>7 DEF AtPlaces, Ones

\* The round constants of the code are those that the register puts out.
LEMMA RoundConstants == \A m \in 0..23 : Specification!RC[m] = round_constants[m + 1]
<1> SUFFICES ASSUME NEW m \in 0..23 PROVE Specification!RC[m] = round_constants[m + 1]
  OBVIOUS
<1> DEFINE t == 7 * m
           o == Ones(Registers[m + 1])
<1>1. \A k \in 0..6 : 0 \in Specification!Register[k + t] <=> k \in o
  <2>1. t \in 0..247 /\ \A k \in 0..6 : k + t = t + k
    OBVIOUS
  <2>2. Specification!Register[t] = Registers[m + 1]
    BY RegisterBefore
  <2> HIDE DEF t
  <2>3. \A k \in 0..6 : 0 \in Specification!Register[t + k] <=> k \in o
    BY <2>1, <2>2, SevenSteps
  <2> QED
    BY <2>1, <2>3
<1>2. o \in SUBSET (0..6)
  BY DEF Ones
<1>3. Specification!RC[m] = {Specification!Places[j + 1] : j \in o}
  <2>1. Specification!RC[m] =
          {Specification!Places[j + 1] :
             j \in {k \in 0..6 : 0 \in Specification!Register[k + t]}}
    BY DEF Specification!RC
  <2>2. {k \in 0..6 : 0 \in Specification!Register[k + t]} = o
    <3> HIDE DEF o, t
    <3> QED
      BY <1>1, <1>2
  <2> QED
    BY <2>1, <2>2
<1>4. {Specification!Places[j + 1] : j \in o} = AtPlaces(o)
  <2> HIDE DEF o
  <2> QED
    BY <1>2, ImageAtPlaces
<1>5. AtPlaces(o) = round_constants[m + 1]
  BY RegistersRC
<1> QED
  BY <1>3, <1>4, <1>5

-----------------------------------------------------------------------------
(* Rounds are as specified.                                                *)

\* A round of the code, written out over 60 variables with listed offsets and constants, is
\* the round as specified: theta, rho, pi, chi and iota on whatever the lanes are, in each
\* of the 24 rounds.
THEOREM RoundAsSpecified ==
    ASSUME NEW L, Lanes(L), NEW m \in 0..23
    PROVE  LanesOf(Round(L, m)) = Specification!SpecRound(LanesOf(L), m)
<1> DEFINE Q == Rows(L, Deltas(Parities(L)))
           C == Specification!Chi(Specification!Pi(Specification!Rho(
                    Specification!Theta(LanesOf(L)))))
           k == round_constants[m + 1]
<1>1. Round(L, m) = [Q EXCEPT ![1] = Xor(Q[1], k)]
  BY DEF Round
<1>2. Q \in RowsOf(25)
  BY RowsAt, 0 \in 0..4
<1>3. \A x \in 0..4, y \in 0..4 : Q[5 * y + x + 1] = C[<<x, y>>]
  BY RowsAreChi
<1>4. C = [c \in Specification!Coordinates |-> C[c]]
  BY DEF Specification!Chi
<1>5. Specification!SpecRound(LanesOf(L), m) = [C EXCEPT ![<<0, 0>>] = Xor(C[<<0, 0>>], k)]
  BY RoundConstants, SameOperators DEF Specification!SpecRound, Specification!Iota
<1> HIDE DEF Q, C, k
<1> DEFINE G == LanesOf(Round(L, m))
           H == [C EXCEPT ![<<0, 0>>] = Xor(C[<<0, 0>>], k)]
<1>6. ASSUME NEW x \in 0..4, NEW y \in 0..4 PROVE G[<<x, y>>] = H[<<x, y>>]
  <2>1. G[<<x, y>>] = Round(L, m)[5 * y + x + 1]
    BY LaneAt
  <2>2. 5 * y + x + 1 \in 1..25 /\ (5 * y + x + 1 = 1 <=> x = 0 /\ y = 0)
    OBVIOUS
  <2>3. Q[5 * y + x + 1] = C[<<x, y>>]
    BY <1>3
  <2>4. CASE x = 0 /\ y = 0
    <3>1. Round(L, m)[1] = Xor(Q[1], k)
      BY <1>1, <1>2 DEF RowsOf
    <3>2. H[<<0, 0>>] = Xor(C[<<0, 0>>], k)
      <4>1. <<0, 0>> \in Specification!Coordinates
        BY PairCoordinate, 0 \in 0..4
      <4> QED
        BY <1>4, <4>1
    <3> QED
      BY <2>1, <2>2, <2>3, <2>4, <3>1, <3>2
  <2>5. CASE ~(x = 0 /\ y = 0)
    <3>1. Round(L, m)[5 * y + x + 1] = Q[5 * y + x + 1]
      BY <1>1, <1>2, <2>2, <2>5 DEF RowsOf
    <3>2. H[<<x, y>>] = C[<<x, y>>]
      <4>1. <<x, y>> \in Specification!Coordinates /\ <<x, y>> # <<0, 0>>
        BY <2>5, PairCoordinate
      <4> QED
        BY <1>4, <4>1
    <3> QED
      BY <2>1, <2>3, <3>1, <3>2
  <2> QED
    BY <2>4, <2>5
<1>7. G = [c \in Specification!Coordinates |-> G[c]]
  BY DEF LanesOf, Specification!Coordinates
<1>8. H = [c \in Specification!Coordinates |-> H[c]]
  BY <1>4
<1> HIDE DEF G, H
<1>9. ASSUME NEW c \in Specification!Coordinates PROVE G[c] = H[c]
  BY <1>6, CoordinatePair
<1>10. G = H
  BY <1>7, <1>8, <1>9
<1> QED
  BY <1>5, <1>10 DEF G, H

-----------------------------------------------------------------------------
(* Words of bytes, on hosts of either endianness                           *)

\* The lane that eight bytes are, the first byte lowest.
LittleEndian(m) == UNION {{8 * k + b : b \in m[k + 1]} : k \in 0..7}

LEMMA InLittleEndian ==
    ASSUME NEW m, IsWord(m), NEW i
    PROVE  i \in LittleEndian(m) <=> i \in Bit /\ i % 8 \in m[(i \div 8) + 1]
<1>1. ASSUME i \in LittleEndian(m) PROVE i \in Bit /\ i % 8 \in m[(i \div 8) + 1]
  <2>1. PICK k \in 0..7 : i \in {8 * k + b : b \in m[k + 1]}
    BY <1>1 DEF LittleEndian
  <2>2. PICK b \in m[k + 1] : i = 8 * k + b
    BY <2>1
  <2>3. b \in 0..7
    BY <2>2, k + 1 \in 1..8 DEF IsWord, Byte
  <2>4. i \in Bit /\ i \div 8 = k /\ i % 8 = b
    BY <2>2, <2>3 DEF Bit
  <2> QED
    BY <2>2, <2>4
<1>2. ASSUME i \in Bit, i % 8 \in m[(i \div 8) + 1] PROVE i \in LittleEndian(m)
  <2> DEFINE k == i \div 8
             b == i % 8
  <2>1. k \in 0..7 /\ b \in 0..7 /\ i = 8 * k + b
    BY <1>2 DEF Bit
  <2>2. b \in m[k + 1]
    BY <1>2
  <2> HIDE DEF k, b
  <2>3. i \in {8 * k + c : c \in m[k + 1]}
    BY <2>1, <2>2
  <2> QED
    BY <2>1, <2>3 DEF LittleEndian
<1> QED
  BY <1>1, <1>2

LEMMA InNumber ==
    ASSUME NEW m, IsWord(m), big \in BOOLEAN, NEW i
    PROVE  i \in Number(m) <=>
             i \in Bit /\ i % 8 \in m[(IF big THEN 7 - (i \div 8) ELSE i \div 8) + 1]
<1>1. ASSUME i \in Number(m)
      PROVE  i \in Bit /\ i % 8 \in m[(IF big THEN 7 - (i \div 8) ELSE i \div 8) + 1]
  <2>1. PICK k \in 0..7 : i \in {8 * (IF big THEN 7 - k ELSE k) + b : b \in m[k + 1]}
    BY <1>1 DEF Number
  <2>2. PICK b \in m[k + 1] : i = 8 * (IF big THEN 7 - k ELSE k) + b
    BY <2>1
  <2>3. b \in 0..7
    BY <2>2, k + 1 \in 1..8 DEF IsWord, Byte
  <2>4. i \in Bit /\ i % 8 = b /\ k = IF big THEN 7 - (i \div 8) ELSE i \div 8
    BY <2>2, <2>3 DEF Bit
  <2> QED
    BY <2>2, <2>4
<1>2. ASSUME i \in Bit, i % 8 \in m[(IF big THEN 7 - (i \div 8) ELSE i \div 8) + 1]
      PROVE  i \in Number(m)
  <2> DEFINE k == IF big THEN 7 - (i \div 8) ELSE i \div 8
             b == i % 8
  <2>1. k \in 0..7 /\ b \in 0..7 /\ i = 8 * (IF big THEN 7 - k ELSE k) + b
    BY <1>2 DEF Bit
  <2>2. b \in m[k + 1]
    BY <1>2
  <2> HIDE DEF k, b
  <2>3. i \in {8 * (IF big THEN 7 - k ELSE k) + c : c \in m[k + 1]}
    BY <2>1, <2>2
  <2> QED
    BY <2>1, <2>3 DEF Number
<1> QED
  BY <1>1, <1>2

LEMMA InToLE64 ==
    ASSUME NEW x \in SUBSET Bit, big \in BOOLEAN, NEW i
    PROVE  i \in to_le64(x) <=>
             i \in Bit /\ (IF big THEN 8 * (7 - (i \div 8)) + (i % 8) ELSE i) \in x
<1>1. CASE ~big
  BY <1>1 DEF to_le64
<1>2. CASE big
  <2>1. to_le64(x) = bswap64(x)
    BY <1>2 DEF to_le64
  <2>2. \A b \in Bit : LET c == 8 * (7 - (b \div 8)) + (b % 8)
                       IN  c \in Bit /\ b = 8 * (7 - (c \div 8)) + (c % 8)
    BY DEF Bit
  <2>3. i \in bswap64(x) <=> i \in Bit /\ 8 * (7 - (i \div 8)) + (i % 8) \in x
    BY <2>2 DEF bswap64
  <2> QED
    BY <1>2, <2>1, <2>3
<1> QED
  BY <1>1, <1>2

\* Whatever the host, loading a word and converting it gives the same lane.
LEMMA LoadedIsLittleEndian ==
    ASSUME NEW m, IsWord(m), big \in BOOLEAN
    PROVE  to_le64(Number(m)) = LittleEndian(m)
<1>1. ASSUME NEW i PROVE i \in to_le64(Number(m)) <=> i \in LittleEndian(m)
  <2> DEFINE j == IF big THEN 8 * (7 - (i \div 8)) + (i % 8) ELSE i
             k == IF big THEN 7 - (j \div 8) ELSE j \div 8
  <2>1. i \in to_le64(Number(m)) <=> i \in Bit /\ j \in Number(m)
    BY NumberType, InToLE64
  <2>2. j \in Number(m) <=> j \in Bit /\ j % 8 \in m[k + 1]
    <3> HIDE DEF j
    <3> QED
      BY InNumber
  <2>3. ASSUME i \in Bit PROVE j \in Bit /\ j % 8 = i % 8 /\ k = i \div 8
    BY <2>3 DEF Bit
  <2>4. i \in LittleEndian(m) <=> i \in Bit /\ i % 8 \in m[(i \div 8) + 1]
    BY InLittleEndian
  <2> HIDE DEF j, k
  <2> QED
    BY <2>1, <2>2, <2>3, <2>4
<1> QED
  BY <1>1 DEF to_le64, LittleEndian

\* Whatever the host, converting a lane and storing it gives the same bytes.
LEMMA StoredIsLittleEndian ==
    ASSUME NEW x \in SUBSET Bit, big \in BOOLEAN, NEW k \in 0..7
    PROVE  InMemory(to_le64(x))[k + 1] = {b \in 0..7 : 8 * k + b \in x}
<1> DEFINE y == to_le64(x)
<1>1. ASSUME NEW b \in 0..7
      PROVE  8 * (IF big THEN 7 - k ELSE k) + b \in y <=> 8 * k + b \in x
  <2> DEFINE i == 8 * (IF big THEN 7 - k ELSE k) + b
  <2>1. i \in Bit /\ (IF big THEN 8 * (7 - (i \div 8)) + (i % 8) ELSE i) = 8 * k + b
    BY DEF Bit
  <2> HIDE DEF i
  <2>2. i \in y <=> i \in Bit /\ (IF big THEN 8 * (7 - (i \div 8)) + (i % 8) ELSE i) \in x
    BY InToLE64
  <2>3. i \in y <=> 8 * k + b \in x
    BY <2>1, <2>2
  <2> QED
    BY <2>3 DEF i
<1> HIDE DEF y
<1>2. k + 1 \in 1..8 /\ 8 - (k + 1) = 7 - k /\ (k + 1) - 1 = k
  OBVIOUS
<1>3. InMemory(y)[k + 1] = {b \in 0..7 : 8 * (IF big THEN 7 - k ELSE k) + b \in y}
  BY <1>2 DEF InMemory
<1> QED
  BY <1>1, <1>3 DEF y

-----------------------------------------------------------------------------
(* What was taken in                                                       *)

\* Where the next block of the padded message starts, while it is taken in.
Start == pos - 8 * word - last_word_iter

StartInv == ~padded => Start \in Nat /\ Start % block_size = 0

\* The bytes of the tail are the last of the data, and zeros follow them.
LastWordInv ==
    ~padded =>
        \A k \in 1..8 :
            last_word[k] = IF k <= last_word_iter
                           THEN call.data[pos - last_word_iter + k] ELSE {}

RefInv == StartInv /\ LastWordInv /\ (pc # "done" => out = << >>)

LEMMA InitRefInv == Init => RefInv
<1> SUFFICES ASSUME Init PROVE RefInv
  OBVIOUS
<1>1. call \in Calls /\ pos = 0 /\ word = 0 /\ last_word_iter = 0 /\ out = << >>
  BY DEF Init
<1>2. block_size \in {136, 72}
  BY <1>1, BlockSizes
<1>3. Start \in Nat /\ Start % block_size = 0
  BY <1>1, <1>2 DEF Start
<1>4. \A k \in 1..8 : last_word[k] = {}
  BY DEF Init, Zeros
<1> QED
  BY <1>1, <1>3, <1>4 DEF RefInv, StartInv, LastWordInv

\* The numbers of a state, as the provers can use them.
Numbers ==
    /\ size \in Nat /\ pos \in Nat /\ word \in 0..24 /\ last_word_iter \in 0..8
    /\ DataLen \in Nat /\ block_size \in {136, 72} /\ block_size = 8 * Words
    /\ Words \in {9, 17}

LEMMA IInvNumbers == ASSUME IInv PROVE Numbers
<1>1. TypeInv
  BY DEF IInv
<1> QED
  BY <1>1, Sizes DEF Numbers, TypeInv

LEMMA RefInvStep == IInv /\ RefInv /\ [Next]_vars => RefInv'
<1> SUFFICES ASSUME IInv, RefInv, [Next]_vars PROVE RefInv'
  OBVIOUS
<1>n. Numbers
  BY IInvNumbers
<1>c. ASSUME UNCHANGED input
      PROVE  call' = call /\ block_size' = block_size
  BY <1>c, SameCall
<1>1. CASE AbsorbBlockWord \/ AbsorbWord
  <2>1. /\ pc # "done" /\ pos' = pos + 8 /\ word' = word + 1
        /\ UNCHANGED <<input, last_word, last_word_iter, padded, out>>
        /\ pc \in {"block", "word"}
    BY <1>1 DEF AbsorbBlockWord, AbsorbWord, word_size, tail
  <2>2. ~padded /\ last_word_iter = 0
    BY <2>1 DEF IInv, TailInv
  <2>3. call' = call /\ block_size' = block_size
    BY <2>1, <1>c
  <2>4. Start' = Start
    BY <2>1, <1>n DEF Start, Numbers
  <2>5. StartInv'
    BY <2>1, <2>3, <2>4 DEF RefInv, StartInv
  <2>6. \A k \in 1..8 : ~(k <= last_word_iter)
    BY <2>2
  <2>7. LastWordInv'
    BY <2>1, <2>6 DEF RefInv, LastWordInv
  <2> QED
    BY <2>1, <2>5, <2>7 DEF RefInv
<1>2. CASE BlocksDone
  <2>1. /\ pc = "block" /\ pc' = "word" /\ ~FullBlock /\ word' = 0
        /\ UNCHANGED <<input, pos, last_word, last_word_iter, padded, out>>
    BY <1>2 DEF BlocksDone, Goto, tail
  <2>2. word = 0
    BY <2>1, <1>n DEF IInv, BlockInv, TailInv, InBlock, Numbers
  <2>3. call' = call /\ block_size' = block_size
    BY <2>1, <1>c
  <2> QED
    BY <2>1, <2>2, <2>3 DEF RefInv, StartInv, LastWordInv, Start
<1>3. CASE WordsDone \/ LoadLanes \/ RoundAtoE \/ RoundEtoA \/ StoreLanes
  <2>1. /\ pc # "done"
        /\ UNCHANGED <<input, pos, word, last_word, last_word_iter, padded, out>>
    BY <1>3 DEF WordsDone, LoadLanes, RoundAtoE, RoundEtoA, Rounds, StoreLanes, tail
  <2>2. call' = call /\ block_size' = block_size
    BY <2>1, <1>c
  <2> QED
    BY <2>1, <2>2 DEF RefInv, StartInv, LastWordInv, Start
<1>4. CASE CopyByte
  <2> DEFINE byte == call.data[pos + 1]
  <2>1. /\ pc = "byte" /\ pos' = pos + 1 /\ last_word_iter' = last_word_iter + 1
        /\ last_word' = [last_word EXCEPT ![last_word_iter + 1] = byte]
        /\ UNCHANGED <<input, word, padded, out>>
    BY <1>4 DEF CopyByte
  <2>2. ~padded /\ last_word_iter < 8 /\ DOMAIN last_word = 1..8
    BY <2>1, <1>n DEF IInv, TypeInv, TailInv, Numbers
  <2>3. call' = call /\ block_size' = block_size
    BY <2>1, <1>c
  <2>4. Start' = Start
    BY <2>1, <1>n DEF Start, Numbers
  <2>5. StartInv'
    BY <2>1, <2>3, <2>4 DEF RefInv, StartInv
  <2>6. pos' - last_word_iter' = pos - last_word_iter
    BY <2>1, <1>n DEF Numbers
  <2>7. LastWordInv'
    <3> SUFFICES ASSUME NEW k \in 1..8
                 PROVE  last_word'[k] = IF k <= last_word_iter'
                                        THEN call'.data[pos' - last_word_iter' + k] ELSE {}
      BY DEF LastWordInv
    <3>1. last_word[k] = IF k <= last_word_iter THEN call.data[pos - last_word_iter + k]
                         ELSE {}
      BY <2>2 DEF RefInv, LastWordInv
    <3>2. CASE k = last_word_iter + 1
      <4>1. last_word'[k] = byte
        BY <2>1, <2>2, <3>2
      <4>2. pos - last_word_iter + k = pos + 1 /\ k <= last_word_iter'
        BY <2>1, <1>n, <3>2 DEF Numbers
      <4> QED
        BY <2>3, <2>6, <4>1, <4>2
    <3>3. CASE k # last_word_iter + 1
      <4>1. last_word'[k] = last_word[k]
        BY <2>1, <2>2, <3>3
      <4>2. k <= last_word_iter' <=> k <= last_word_iter
        BY <2>1, <1>n, <3>3 DEF Numbers
      <4> QED
        BY <2>3, <2>6, <3>1, <4>1, <4>2
    <3> QED
      BY <3>2, <3>3
  <2> QED
    BY <2>1, <2>5, <2>7 DEF RefInv
<1>5. CASE Pad
  BY <1>5 DEF Pad, RefInv, StartInv, LastWordInv
<1>6. CASE NextBlock
  <2>1. /\ pc = "store" /\ ~padded /\ word' = 0
        /\ UNCHANGED <<input, pos, last_word, last_word_iter, padded, out>>
    BY <1>6 DEF NextBlock, tail
  <2>2. word = Words
    BY <2>1 DEF IInv, BlockInv, InBlock
  <2>3. call' = call /\ block_size' = block_size
    BY <2>1, <1>c
  <2>4. Start \in Nat /\ Start % block_size = 0
    BY <2>1 DEF RefInv, StartInv
  <2>5. Start' = Start + block_size
    BY <2>1, <2>2, <1>n DEF Start, Numbers
  <2>6. Start' \in Nat /\ Start' % block_size = 0
    BY <2>4, <2>5, <1>n DEF Numbers
  <2>7. StartInv'
    BY <2>3, <2>6 DEF StartInv
  <2>8. LastWordInv'
    BY <2>1, <2>3 DEF RefInv, LastWordInv
  <2> QED
    BY <2>1, <2>7, <2>8 DEF RefInv
<1>7. CASE Squeeze
  <2>1. padded /\ padded' = padded /\ pc' = "done"
    BY <1>7 DEF Squeeze, Goto
  <2> QED
    BY <2>1 DEF RefInv, StartInv, LastWordInv
<1>8. CASE UNCHANGED vars
  <2>1. UNCHANGED <<input, pc, pos, word, last_word, last_word_iter, padded, out>>
    BY <1>8 DEF vars, input
  <2>2. call' = call /\ block_size' = block_size
    BY <2>1, <1>c
  <2> QED
    BY <2>1, <2>2 DEF RefInv, StartInv, LastWordInv, Start
<1> QED
  BY <1>1, <1>2, <1>3, <1>4, <1>5, <1>6, <1>7, <1>8 DEF Next

-----------------------------------------------------------------------------
(* The blocks of the padded message                                        *)

\* The data are whole blocks of b bytes up to s, and less than one after it.
WholeBlocks(b, s) ==
    /\ s \div b \in Nat /\ (s \div b) * b = s /\ ((s \div b) + 1) * b = s + b
    /\ \A r \in 0..b - 1 : (s + r) \div b = s \div b
    /\ (s \div b) - 1 = (s - b) \div b

LEMMA AreWholeBlocks ==
    ASSUME NEW b, b \in {136, 72}, NEW s \in Nat, s % b = 0 PROVE WholeBlocks(b, s)
<1>1. CASE b = 136
  BY <1>1 DEF WholeBlocks
<1>2. CASE b = 72
  BY <1>2 DEF WholeBlocks
<1> QED
  BY <1>1, <1>2

LEMMA RateIsBlockSize ==
    ASSUME call \in Calls
    PROVE  /\ Specification!rate = block_size
           /\ Specification!Outer = 0..Words - 1
           /\ Specification!PaddedLength = ((DataLen \div block_size) + 1) * block_size
<1>1. Specification!rate = block_size
  <2>1. call.bits \in {256, 512}
    BY ConstantsAssumption
  <2> QED
    BY <2>1 DEF Specification!rate, block_size
<1>2. Specification!Outer = 0..Words - 1
  BY <1>1 DEF Specification!Outer, Words, word_size
<1> QED
  BY <1>1, <1>2 DEF Specification!PaddedLength, DataLen

\* Which block of the message is being taken in.
LEMMA BlockAtStart ==
    ASSUME IInv, RefInv, ~padded, pc # "done"
    PROVE  /\ AbsBlock \in Nat /\ AbsBlock * block_size = Start
           /\ (AbsBlock + 1) * block_size = Start + block_size
           /\ AbsBlock = Start \div block_size
<1>1. Numbers /\ Start \in Nat /\ Start % block_size = 0
  BY IInvNumbers DEF RefInv, StartInv
<1>b. block_size \in {136, 72}
  BY <1>1 DEF Numbers
<1>w. WholeBlocks(block_size, Start)
  BY <1>1, <1>b, AreWholeBlocks
<1>2. AbsBlock = Start \div block_size
  <2>0. pc \in {"block", "word", "byte", "load", "rounds", "store"}
    BY DEF IInv, TypeInv
  <2>1. CASE pc = "block"
    <3>1. last_word_iter = 0
      BY <2>1 DEF IInv, TailInv
    <3>2. Start = pos - word_size * word
      BY <1>1, <3>1 DEF Start, Numbers, word_size
    <3> QED
      BY <2>1, <3>2 DEF AbsBlock
  <2>2. CASE pc \in {"load", "rounds", "store"}
    <3>1. last_word_iter = 0 /\ word = Words
      BY <2>2 DEF IInv, TailInv, BlockInv, InBlock
    <3>2. pos = Start + block_size
      BY <1>1, <3>1 DEF Start, Numbers
    <3>3. AbsBlock = (pos \div block_size) - 1
      BY <2>2 DEF AbsBlock, Permuting
    <3>4. pos \in Nat /\ pos % block_size = 0
      BY <1>1, <3>2 DEF Numbers
    <3>w. WholeBlocks(block_size, pos)
      BY <1>b, <3>4, AreWholeBlocks
    <3>5. (pos \div block_size) - 1 = (pos - block_size) \div block_size
      BY <3>w DEF WholeBlocks
    <3>6. pos - block_size = Start
      BY <1>1, <3>2 DEF Numbers
    <3> QED
      BY <3>3, <3>5, <3>6
  <2>3. CASE pc \in {"word", "byte"}
    <3>1. AbsBlock = DataLen \div block_size
      BY <2>3 DEF AbsBlock, Permuting, DataLen
    <3>2. pos + size = DataLen
      BY <1>1, <2>3 DEF IInv, PosInv, InBlock, Numbers
    <3> DEFINE r == 8 * word + last_word_iter + size
    <3>3. r \in 0..block_size - 1
      <4>1. CASE pc = "word"
        BY <1>1, <4>1 DEF IInv, TailInv, Numbers
      <4>2. CASE pc = "byte"
        <5>1. 8 * word < block_size /\ last_word_iter + size < 8
          BY <4>2 DEF IInv, TailInv
        <5>2. word < Words
          BY <1>1, <5>1 DEF Numbers
        <5> QED
          BY <1>1, <5>1, <5>2 DEF Numbers
      <4> QED
        BY <2>3, <4>1, <4>2
    <3>4. DataLen = Start + r
      BY <1>1, <3>2 DEF Start, Numbers
    <3> HIDE DEF r
    <3>5. (Start + r) \div block_size = Start \div block_size
      BY <1>w, <3>3 DEF WholeBlocks
    <3> QED
      BY <3>1, <3>4, <3>5
  <2> QED
    BY <2>0, <2>1, <2>2, <2>3
<1>3. /\ Start \div block_size \in Nat /\ (Start \div block_size) * block_size = Start
      /\ ((Start \div block_size) + 1) * block_size = Start + block_size
  BY <1>w DEF WholeBlocks
<1> QED
  BY <1>2, <1>3

\* A lane of the padded message, of its eight bytes.
LEMMA LaneOfBytes ==
    ASSUME NEW l \in Nat, NEW m, NEW base \in Nat, call \in Calls,
           AbsBlock * block_size + 8 * l = base,
           \A k \in 0..7 : Specification!PaddedByte(base + k + 1) = m[k + 1]
    PROVE  Specification!BlockLane(l) = LittleEndian(m)
<1>1. AbsBlock * Specification!rate + 8 * l = base
  BY RateIsBlockSize
<1>2. Specification!BlockLane(l) =
        UNION {{8 * k + b : b \in Specification!PaddedByte(base + k + 1)} : k \in 0..7}
  BY <1>1 DEF Specification!BlockLane
<1>3. \A k \in 0..7 : {8 * k + b : b \in Specification!PaddedByte(base + k + 1)}
                      = {8 * k + b : b \in m[k + 1]}
  OBVIOUS
<1> QED
  BY <1>2, <1>3 DEF LittleEndian

\* Words of the data are lanes of the padded message.
LEMMA LoadedLane ==
    ASSUME IInv, RefInv, pc \in {"block", "word"}, pos + 8 <= DataLen
    PROVE  Specification!BlockLane(word) = load_le(pos) /\ load_le(pos) \in SUBSET Bit
<1>1. /\ Numbers /\ call \in Calls /\ big \in BOOLEAN /\ ~padded /\ last_word_iter = 0
      /\ pc # "done"
  BY IInvNumbers DEF IInv, TypeInv, TailInv
<1>2. AbsBlock \in Nat /\ AbsBlock * block_size = Start
  BY <1>1, BlockAtStart
<1>3. AbsBlock * block_size + 8 * word = pos
  <2> DEFINE base == AbsBlock * block_size
  <2>1. base = pos - 8 * word - last_word_iter
    BY <1>2 DEF Start
  <2> HIDE DEF base
  <2>2. base + 8 * word = pos
    BY <1>1, <2>1 DEF Numbers
  <2> QED
    BY <2>2 DEF base
<1> DEFINE m == SubSeq(call.data, pos + 1, pos + word_size)
<1>4. \A k \in 1..8 : m[k] = call.data[pos + k]
  <2> DEFINE first == pos + 1
             last == pos + 8
  <2>1. first \in Int /\ last \in Int /\ last - first + 1 = 8
    BY <1>1 DEF Numbers
  <2>2. m = SubSeq(call.data, first, last)
    BY DEF word_size
  <2>3. \A k \in first..last : call.data[k] \in Byte
    BY <1>1, DataType DEF Numbers, DataLen
  <2>4. \A k \in 1..8 : first + k - 1 = pos + k
    BY <1>1 DEF Numbers
  <2> HIDE DEF m, first, last
  <2>5. \A k \in 1..last - first + 1 : SubSeq(call.data, first, last)[k] = call.data[first + k - 1]
    BY <2>1, <2>3, SubSeqProperties
  <2> QED
    BY <2>1, <2>2, <2>4, <2>5
<1>5. \A k \in 1..8 : pos + k \in 1..DataLen
  BY <1>1 DEF Numbers
<1>6. IsWord(m)
  BY <1>1, <1>4, <1>5, DataType DEF IsWord, DataLen
<1>7. \A k \in 0..7 : Specification!PaddedByte(pos + k + 1) = m[k + 1]
  <2> HIDE DEF m
  <2> SUFFICES ASSUME NEW k \in 0..7
               PROVE  Specification!PaddedByte(pos + k + 1) = m[k + 1]
    OBVIOUS
  <2>1. pos + k + 1 <= Len(call.data)
    <3>1. pos + k + 1 <= DataLen
      BY <1>1 DEF Numbers
    <3> QED
      BY <3>1 DEF DataLen
  <2>2. Specification!PaddedByte(pos + k + 1) = call.data[pos + k + 1]
    BY <2>1 DEF Specification!PaddedByte
  <2>3. k + 1 \in 1..8 /\ pos + (k + 1) = pos + k + 1
    BY <1>1 DEF Numbers
  <2> QED
    BY <1>4, <2>2, <2>3
<1>8. load_le(pos) = to_le64(Number(m))
  BY DEF load_le
<1> HIDE DEF m
<1>9. Specification!BlockLane(word) = LittleEndian(m)
  BY <1>1, <1>3, <1>7, LaneOfBytes DEF Numbers
<1>10. load_le(pos) = LittleEndian(m)
  BY <1>1, <1>6, <1>8, LoadedIsLittleEndian
<1>11. load_le(pos) \in SUBSET Bit
  <2>1. Number(m) \in SUBSET Bit
    BY <1>1, <1>6, NumberType
  <2> QED
    BY <1>8, <2>1, ToLE64Type
<1> QED
  BY <1>9, <1>10, <1>11

\* The tail with the padding's first byte.
PaddedWord == [last_word EXCEPT ![last_word_iter + 1] = {0}]

LEMMA PaddedByteAt ==
    ASSUME IInv, RefInv, pc = "byte", NEW j
    PROVE  Specification!PaddedByte(j) =
             IF j <= DataLen THEN call.data[j]
             ELSE (IF j = DataLen + 1 THEN {0} ELSE {})
                  \cup (IF j = Start + block_size THEN {7} ELSE {})
<1>1. call \in Calls /\ ~padded /\ pc # "done"
  BY DEF IInv, TypeInv, TailInv
<1>2. AbsBlock = DataLen \div block_size
  BY DEF AbsBlock, Permuting, DataLen
<1>3. Specification!PaddedLength = Start + block_size
  BY <1>1, <1>2, BlockAtStart, RateIsBlockSize
<1> QED
  BY <1>3 DEF Specification!PaddedByte, DataLen

LEMMA PaddedWordBytes ==
    ASSUME IInv, RefInv, pc = "byte"
    PROVE  /\ last_word_iter \in 0..7 /\ IsWord(PaddedWord) /\ DOMAIN PaddedWord = 1..8
           /\ \A k \in 1..8 :
                PaddedWord[k] =
                    IF k <= last_word_iter THEN call.data[pos - last_word_iter + k]
                    ELSE IF k = last_word_iter + 1 THEN {0} ELSE {}
           /\ 7 \notin PaddedWord[8]
<1>1. Numbers /\ ~padded /\ DOMAIN last_word = 1..8 /\ IsWord(last_word)
  BY IInvNumbers DEF IInv, TypeInv, TailInv
<1>2. last_word_iter \in 0..7
  BY <1>1 DEF IInv, TailInv, Numbers
<1>3. \A k \in 1..8 :
          last_word[k] = IF k <= last_word_iter THEN call.data[pos - last_word_iter + k] ELSE {}
  BY <1>1 DEF RefInv, LastWordInv
<1>4. \A k \in 1..8 :
          PaddedWord[k] = IF k = last_word_iter + 1 THEN {0} ELSE last_word[k]
  BY <1>1, <1>2 DEF PaddedWord
<1>5. IsWord(PaddedWord)
  BY <1>1, <1>4 DEF IsWord, Byte
<1>6. 7 \notin PaddedWord[8]
  <2>1. ~(8 <= last_word_iter) /\ 8 \in 1..8
    BY <1>2
  <2> QED
    BY <1>3, <1>4, <2>1
<1>7. \A k \in 1..8 : k <= last_word_iter => k # last_word_iter + 1
  BY <1>2
<1>8. DOMAIN PaddedWord = 1..8
  BY <1>1 DEF PaddedWord
<1> QED
  BY <1>2, <1>3, <1>4, <1>5, <1>6, <1>7, <1>8

\* The bytes of a lane that the padding takes in.
PadBytes(l) ==
    [k \in 1..8 |-> (IF l = word THEN PaddedWord[k] ELSE {})
                    \cup (IF l = PadWord /\ k = 8 THEN {7} ELSE {})]

LEMMA PaddedLane ==
    ASSUME IInv, RefInv, pc = "byte", size = 0, NEW l \in word..Words - 1
    PROVE  /\ Specification!BlockLane(l) =
                (IF l = word THEN LittleEndian(PaddedWord) ELSE {})
                \cup (IF l = PadWord THEN {63} ELSE {})
           /\ 63 \notin LittleEndian(PaddedWord)
<1>1. /\ Numbers /\ call \in Calls /\ ~padded /\ pc # "done" /\ PadWord = Words - 1
      /\ Start \in Nat
  BY IInvNumbers, BlockSizes DEF IInv, TypeInv, TailInv, RefInv, StartInv
<1>2. pos = DataLen /\ DataLen = Start + 8 * word + last_word_iter
  BY <1>1 DEF IInv, PosInv, InBlock, Numbers, Start
<1>3. /\ last_word_iter \in 0..7 /\ IsWord(PaddedWord)
      /\ \A k \in 1..8 :
           PaddedWord[k] =
               IF k <= last_word_iter THEN call.data[pos - last_word_iter + k]
               ELSE IF k = last_word_iter + 1 THEN {0} ELSE {}
      /\ 7 \notin PaddedWord[8]
  BY PaddedWordBytes
<1>4. l \in Nat /\ l < Words /\ word <= l
  BY <1>1 DEF Numbers
<1> DEFINE base == Start + 8 * l
<1>5. base \in Nat
  BY <1>1, <1>4
<1>6. ASSUME NEW k \in 0..7
      PROVE  Specification!PaddedByte(base + k + 1) = PadBytes(l)[k + 1]
  <2> DEFINE j == base + k + 1
  <2>1. Specification!PaddedByte(j) =
             IF j <= DataLen THEN call.data[j]
             ELSE (IF j = DataLen + 1 THEN {0} ELSE {})
                  \cup (IF j = Start + block_size THEN {7} ELSE {})
    <3> HIDE DEF j
    <3> QED
      BY PaddedByteAt
  <2>2. j = Start + block_size <=> l = PadWord /\ k + 1 = 8
    BY <1>1, <1>4 DEF Numbers
  <2>3. k + 1 \in 1..8
    OBVIOUS
  <2>4. PadBytes(l)[k + 1] = (IF l = word THEN PaddedWord[k + 1] ELSE {})
                             \cup (IF l = PadWord /\ k + 1 = 8 THEN {7} ELSE {})
    BY <2>3 DEF PadBytes
  <2>5. CASE l = word
    <3>1. j <= DataLen <=> k + 1 <= last_word_iter
      BY <1>1, <1>2, <1>3, <2>5 DEF Numbers
    <3>2. j = DataLen + 1 <=> k + 1 = last_word_iter + 1
      BY <1>1, <1>2, <1>3, <2>5 DEF Numbers
    <3>3. pos - last_word_iter + (k + 1) = j
      BY <1>1, <1>2, <1>3, <2>5 DEF Numbers
    <3>4. k + 1 <= last_word_iter => k + 1 # 8
      BY <1>3
    <3>5. PaddedWord[k + 1] =
               IF k + 1 <= last_word_iter THEN call.data[pos - last_word_iter + (k + 1)]
               ELSE IF k + 1 = last_word_iter + 1 THEN {0} ELSE {}
      BY <1>3, <2>3
    <3> HIDE DEF j
    <3>6. ASSUME k + 1 <= last_word_iter
          PROVE  Specification!PaddedByte(j) = PadBytes(l)[k + 1]
      BY <2>1, <2>4, <2>5, <3>1, <3>3, <3>4, <3>5, <3>6
    <3>7. ASSUME ~(k + 1 <= last_word_iter)
          PROVE  Specification!PaddedByte(j) = PadBytes(l)[k + 1]
      BY <2>1, <2>2, <2>4, <2>5, <3>1, <3>2, <3>5, <3>7
    <3> QED
      BY <3>6, <3>7 DEF j
  <2>6. CASE l # word
    <3>1. ~(j <= DataLen) /\ j # DataLen + 1
      BY <1>1, <1>2, <1>3, <1>4, <2>6 DEF Numbers
    <3> HIDE DEF j
    <3>2. Specification!PaddedByte(j) = PadBytes(l)[k + 1]
      BY <2>1, <2>2, <2>4, <2>6, <3>1
    <3> QED
      BY <3>2 DEF j
  <2> QED
    BY <2>5, <2>6
<1>7. AbsBlock * block_size + 8 * l = base
  <2> DEFINE first == AbsBlock * block_size
  <2>1. first = Start
    BY <1>1, BlockAtStart
  <2> HIDE DEF first
  <2>2. first + 8 * l = base
    BY <2>1
  <2> QED
    BY <2>2 DEF first
<1> HIDE DEF base
<1>8. Specification!BlockLane(l) = LittleEndian(PadBytes(l))
  BY <1>1, <1>4, <1>5, <1>6, <1>7, LaneOfBytes
<1>9. IsWord(PadBytes(l))
  BY <1>3 DEF IsWord, PadBytes, Byte
<1>10. ASSUME NEW i
       PROVE  i \in LittleEndian(PadBytes(l)) <=>
                (l = word /\ i \in LittleEndian(PaddedWord)) \/ (l = PadWord /\ i = 63)
  <2>1. i \in LittleEndian(PadBytes(l)) <=> i \in Bit /\ i % 8 \in PadBytes(l)[(i \div 8) + 1]
    BY <1>9, InLittleEndian
  <2>2. i \in LittleEndian(PaddedWord) <=> i \in Bit /\ i % 8 \in PaddedWord[(i \div 8) + 1]
    BY <1>3, InLittleEndian
  <2>3. ASSUME i \in Bit
        PROVE  (i \div 8) + 1 \in 1..8 /\ (i = 63 <=> (i \div 8) + 1 = 8 /\ i % 8 = 7)
    BY <2>3 DEF Bit
  <2>4. 63 \in Bit
    BY DEF Bit
  <2> DEFINE q == (i \div 8) + 1
             r == i % 8
  <2> HIDE DEF q, r
  <2>5. ASSUME i \in Bit
        PROVE  r \in PadBytes(l)[q] <=> (l = word /\ r \in PaddedWord[q])
                                        \/ (l = PadWord /\ q = 8 /\ r = 7)
    <3>1. q \in 1..8
      BY <2>3, <2>5 DEF q
    <3> QED
      BY <3>1 DEF PadBytes
  <2> QED
    BY <2>1, <2>2, <2>3, <2>4, <2>5 DEF q, r
<1>11. 63 \notin LittleEndian(PaddedWord)
  <2>1. 63 % 8 = 7 /\ (63 \div 8) + 1 = 8
    OBVIOUS
  <2> QED
    BY <1>3, <2>1, InLittleEndian
<1> QED
  BY <1>8, <1>10, <1>11

-----------------------------------------------------------------------------
(* The implementation                                                      *)

\* Which block of the message is being taken in, before and after a step.
BlockIs == ~padded /\ pc # "done" => AbsBlock = Start \div block_size

LEMMA BlockAlways == IInv /\ RefInv => BlockIs
  BY BlockAtStart DEF BlockIs

LEMMA SameBlock ==
    ASSUME IInv, RefInv, IInv', RefInv', UNCHANGED <<input, padded>>,
           pc # "done", pc' # "done", ~padded => Start' = Start,
           padded => Permuting /\ Permuting'
    PROVE  AbsBlock' = AbsBlock
<1>1. BlockIs /\ BlockIs'
  BY BlockAlways, PTL
<1>2. block_size' = block_size /\ call' = call
  BY SameCall
<1>3. CASE ~padded
  BY <1>1, <1>2, <1>3 DEF BlockIs
<1>4. CASE padded
  BY <1>2, <1>4 DEF AbsBlock, Permuting
<1> QED
  BY <1>3, <1>4

LEMMA LaneNumber ==
    ASSUME NEW c \in Specification!Coordinates
    PROVE  5 * c[2] + c[1] \in 0..24
  BY CoordinatePair

LEMMA RefineInit == Init => Specification!Init
<1> SUFFICES ASSUME Init PROVE Specification!Init
  OBVIOUS
<1>1. /\ call \in Calls /\ pc = "block" /\ pos = 0 /\ word = 0 /\ out = << >>
      /\ state = Zeros(25)
  BY DEF Init
<1>2. block_size \in {136, 72}
  BY <1>1, BlockSizes
<1>3. AbsBlock = 0
  <2>1. pos - word_size * word = 0
    BY <1>1 DEF word_size
  <2>2. AbsBlock = 0 \div block_size
    BY <1>1, <2>1 DEF AbsBlock
  <2> QED
    BY <1>2, <2>2
<1>4. AbsTaken = {} /\ AbsRounds = 0 /\ AbsState = LanesOf(state)
  BY <1>1 DEF AbsTaken, AbsRounds, AbsState, Permuting
<1>5. LanesOf(state) = [c \in Specification!Coordinates |-> {}]
  <2>1. \A l \in 0..24 : state[l + 1] = {}
    BY <1>1 DEF Zeros
  <2>2. \A c \in Specification!Coordinates : state[5 * c[2] + c[1] + 1] = {}
    BY <2>1, LaneNumber
  <2> QED
    BY <2>2 DEF LanesOf, Specification!Coordinates
<1> QED
  BY <1>1, <1>3, <1>4, <1>5 DEF Specification!Init

\* A word that is xored into the state is a lane that is taken in.
LEMMA TakeOne ==
    ASSUME IInv, NEW x, state' = [state EXCEPT ![word + 1] = Xor(state[word + 1], x)],
           Specification!BlockLane(word) = x
    PROVE  LanesOf(state') =
             [c \in Specification!Coordinates |->
                LET l == 5 * c[2] + c[1]
                IN  IF l \in {word}
                    THEN Specification!XorAll(LanesOf(state)[c], Specification!BlockLane(l))
                    ELSE LanesOf(state)[c]]
<1>1. Lanes(state) /\ word \in 0..24
  BY DEF IInv, TypeInv
<1>2. ASSUME NEW c \in Specification!Coordinates
      PROVE  LanesOf(state')[c] =
                LET l == 5 * c[2] + c[1]
                IN  IF l \in {word}
                    THEN Specification!XorAll(LanesOf(state)[c], Specification!BlockLane(l))
                    ELSE LanesOf(state)[c]
  <2> DEFINE l == 5 * c[2] + c[1]
  <2>1. LanesOf(state')[c] = state'[l + 1] /\ LanesOf(state)[c] = state[l + 1]
    BY DEF LanesOf, Specification!Coordinates
  <2>2. l \in 0..24
    BY LaneNumber
  <2> HIDE DEF l
  <2>3. state'[l + 1] = IF l = word THEN Xor(state[word + 1], x) ELSE state[l + 1]
    BY <1>1, <2>2 DEF Lanes
  <2>4. LanesOf(state')[c] =
            IF l \in {word}
            THEN Specification!XorAll(LanesOf(state)[c], Specification!BlockLane(l))
            ELSE LanesOf(state)[c]
    BY <2>1, <2>3, SameOperators
  <2> QED
    BY <2>4 DEF l
<1>3. LanesOf(state') = [c \in Specification!Coordinates |-> LanesOf(state')[c]]
  BY DEF LanesOf, Specification!Coordinates
<1> QED
  BY <1>2, <1>3

LEMMA RefineAbsorb ==
    ASSUME IInv, RefInv, IInv', RefInv', AbsorbBlockWord \/ AbsorbWord
    PROVE  \E l \in Specification!Outer : Specification!TakeLane(l)
<1>1. /\ pos' = pos + 8 /\ word' = word + 1
      /\ state' = [state EXCEPT ![word + 1] = Xor(state[word + 1], load_le(pos))]
      /\ UNCHANGED <<input, last_word_iter, padded, out>>
      /\ pc \in {"block", "word"} /\ ~padded
      /\ pc' = IF pc = "block" /\ ~(word + 1 < Words) THEN "load" ELSE pc
  BY DEF AbsorbBlockWord, AbsorbWord, XorInto, Goto, Words, word_size, tail, IInv, TailInv
<1>2. Numbers /\ call \in Calls
  BY IInvNumbers DEF IInv, TypeInv
<1>3. word < Words /\ pos + 8 <= DataLen
  <2>1. CASE AbsorbBlockWord
    <3>1. pc = "block" /\ FullBlock /\ InBlock
      BY <1>1, <2>1 DEF AbsorbBlockWord, InBlock
    <3>2. word < Words /\ size >= block_size /\ pos + size = DataLen + 8 * word
      BY <3>1 DEF IInv, PosInv, BlockInv, FullBlock
    <3> QED
      BY <1>2, <3>2 DEF Numbers
  <2>2. CASE AbsorbWord
    <3>1. pc = "word" /\ size >= 8 /\ ~InBlock
      BY <2>2 DEF AbsorbWord, FullWord, word_size, InBlock
    <3>2. 8 * word + size < block_size /\ pos + size = DataLen
      BY <1>2, <3>1 DEF IInv, PosInv, TailInv, Numbers
    <3> QED
      BY <1>2, <3>1, <3>2 DEF Numbers
  <2> QED
    BY <2>1, <2>2
<1>4. Specification!BlockLane(word) = load_le(pos)
  BY <1>1, <1>3, LoadedLane
<1>5. AbsBlock' = AbsBlock
  <2>1. Start' = Start
    BY <1>1, <1>2 DEF Start, Numbers
  <2>2. pc # "done" /\ pc' # "done"
    BY <1>1
  <2> QED
    BY <1>1, <2>1, <2>2, SameBlock
<1>6. AbsTaken = 0..word - 1 /\ AbsTaken' = 0..word
  <2>1. AbsTaken = 0..word - 1
    BY <1>1 DEF AbsTaken, Permuting
  <2>2. word' - 1 = word
    BY <1>1, <1>2 DEF Numbers
  <2>3. CASE pc' = pc
    <3>1. AbsTaken' = 0..word' - 1
      BY <1>1, <2>3 DEF AbsTaken, Permuting
    <3> QED
      BY <2>1, <2>2, <3>1
  <2>4. CASE pc' # pc
    <3>1. pc' = "load" /\ ~(word + 1 < Words)
      BY <1>1, <2>4
    <3>2. Words = word + 1
      BY <1>2, <1>3, <3>1 DEF Numbers
    <3>3. Words' = Words
      BY <1>1, SameCall
    <3>4. AbsTaken' = 0..Words' - 1
      BY <3>1 DEF AbsTaken, Permuting, Words
    <3>5. Words - 1 = word
      BY <1>2, <3>2 DEF Numbers
    <3> QED
      BY <2>1, <3>3, <3>4, <3>5
  <2> QED
    BY <2>3, <2>4
<1>7. AbsTaken' = AbsTaken \cup {word} /\ word \notin AbsTaken
  BY <1>2, <1>6 DEF Numbers
<1>8. AbsRounds' = AbsRounds /\ AbsState = LanesOf(state) /\ AbsState' = LanesOf(state')
  BY <1>1 DEF AbsRounds, AbsState
<1>9. call' = call /\ out' = out
  BY <1>1, SameCall
<1>10. Specification!Take({word})
  <2>1. LanesOf(state') =
             [c \in Specification!Coordinates |->
                LET l == 5 * c[2] + c[1]
                IN  IF l \in {word}
                    THEN Specification!XorAll(LanesOf(state)[c], Specification!BlockLane(l))
                    ELSE LanesOf(state)[c]]
    BY <1>1, <1>4, TakeOne
  <2> QED
    BY <1>5, <1>7, <1>8, <1>9, <2>1 DEF Specification!Take
<1>11. word \in Specification!Outer
  BY <1>2, <1>3, RateIsBlockSize DEF Numbers
<1> QED
  BY <1>7, <1>10, <1>11 DEF Specification!TakeLane

LEMMA XorOfUnion ==
    ASSUME NEW s, NEW x
    PROVE  /\ 63 \notin x => Xor(Xor(s, x), {63}) = Xor(s, x \cup {63})
           /\ Xor(s, {}) = s
<1>1. ASSUME NEW y, NEW z, NEW i PROVE i \in Xor(y, z) <=> ~(i \in y <=> i \in z)
  BY DEF Xor
<1>2. ASSUME 63 \notin x, NEW i
      PROVE  i \in Xor(Xor(s, x), {63}) <=> i \in Xor(s, x \cup {63})
  <2>1. /\ i \in Xor(Xor(s, x), {63}) <=> ~(i \in Xor(s, x) <=> i \in {63})
        /\ i \in Xor(s, x) <=> ~(i \in s <=> i \in x)
        /\ i \in Xor(s, x \cup {63}) <=> ~(i \in s <=> i \in x \cup {63})
    BY <1>1
  <2> QED
    BY <1>2, <2>1
<1>3. 63 \notin x => Xor(Xor(s, x), {63}) = Xor(s, x \cup {63})
  BY <1>2 DEF Xor
<1> QED
  BY <1>3 DEF Xor

\* What the padding leaves in the state.
LEMMA PadState ==
    ASSUME IInv, RefInv, Pad, NEW l \in 0..24
    PROVE  state'[l + 1] =
             IF l \in word..Words - 1 THEN Xor(state[l + 1], Specification!BlockLane(l))
             ELSE state[l + 1]
<1> DEFINE x == to_le64(Number(last_word'))
           first == [state EXCEPT ![word + 1] = Xor(state[word + 1], x)]
<1>1. pc = "byte" /\ size = 0 /\ last_word' = PaddedWord
  BY DEF Pad, PaddedWord
<1>2. state' = [first EXCEPT ![PadWord + 1] = Xor(first[PadWord + 1], {63})]
  BY DEF Pad
<1>3. /\ Numbers /\ call \in Calls /\ big \in BOOLEAN /\ Lanes(state) /\ PadWord = Words - 1
  BY IInvNumbers, BlockSizes DEF IInv, TypeInv
<1>4. word < Words
  BY <1>1, <1>3 DEF IInv, TailInv, Numbers
<1>5. x = LittleEndian(PaddedWord)
  <2>1. IsWord(PaddedWord)
    BY <1>1, PaddedWordBytes
  <2> QED
    BY <1>1, <1>3, <2>1, LoadedIsLittleEndian
<1> HIDE DEF x
<1>6. DOMAIN state = 1..25
  BY <1>3 DEF Lanes
<1>7. first[l + 1] = IF l = word THEN Xor(state[l + 1], x) ELSE state[l + 1]
  BY <1>3, <1>6 DEF Numbers
<1>8. DOMAIN first = 1..25
  BY <1>6
<1> HIDE DEF first
<1>9. state'[l + 1] = IF l = PadWord THEN Xor(first[l + 1], {63}) ELSE first[l + 1]
  BY <1>2, <1>3, <1>8 DEF Numbers
<1>10. CASE l \in word..Words - 1
  <2>1. /\ Specification!BlockLane(l) =
                (IF l = word THEN x ELSE {}) \cup (IF l = PadWord THEN {63} ELSE {})
        /\ 63 \notin x
    BY <1>1, <1>5, <1>10, PaddedLane
  <2> DEFINE s == state[l + 1]
  <2>2. /\ Xor(Xor(s, x), {63}) = Xor(s, x \cup {63}) /\ Xor(s, {}) = s
    BY <2>1, XorOfUnion
  <2>3. {} \cup {63} = {63} /\ x \cup {} = x /\ {} \cup {} = {}
    OBVIOUS
  <2> HIDE DEF s
  <2>4. state'[l + 1] = Xor(s, Specification!BlockLane(l))
    <3>1. CASE l = word /\ l = PadWord
      BY <1>7, <1>9, <2>1, <2>2, <3>1 DEF s
    <3>2. CASE l = word /\ l # PadWord
      BY <1>7, <1>9, <2>1, <2>3, <3>2 DEF s
    <3>3. CASE l # word /\ l = PadWord
      BY <1>7, <1>9, <2>1, <2>3, <3>3 DEF s
    <3>4. CASE l # word /\ l # PadWord
      BY <1>7, <1>9, <2>1, <2>2, <2>3, <3>4 DEF s
    <3> QED
      BY <3>1, <3>2, <3>3, <3>4
  <2> QED
    BY <1>10, <2>4 DEF s
<1>11. CASE l \notin word..Words - 1
  <2>1. l # word /\ l # PadWord
    BY <1>3, <1>4, <1>11 DEF Numbers
  <2> QED
    BY <1>7, <1>9, <1>11, <2>1
<1> QED
  BY <1>10, <1>11

LEMMA RefinePad ==
    ASSUME IInv, RefInv, IInv', RefInv', Pad PROVE Specification!TakeRest
<1>1. /\ pc = "byte" /\ pc' = "load" /\ ~padded /\ padded' = TRUE
      /\ UNCHANGED <<input, out>>
  BY DEF Pad, Goto, IInv, TailInv
<1>2. Numbers /\ call \in Calls
  BY IInvNumbers DEF IInv, TypeInv
<1>3. word < Words
  BY <1>1, <1>2 DEF IInv, TailInv, Numbers
<1>4. block_size' = block_size /\ call' = call /\ Words' = Words /\ out' = out
  BY <1>1, SameCall
<1>5. AbsBlock' = AbsBlock
  BY <1>1, <1>4 DEF AbsBlock, Permuting
<1>6. AbsTaken = 0..word - 1 /\ AbsTaken' = Specification!Outer
  <2>1. AbsTaken = 0..word - 1
    BY <1>1 DEF AbsTaken, Permuting
  <2>2. AbsTaken' = 0..Words' - 1
    BY <1>1 DEF AbsTaken, Permuting, Words
  <2> QED
    BY <1>2, <1>4, <2>1, <2>2, RateIsBlockSize
<1>7. Specification!Outer = 0..Words - 1
  BY <1>2, RateIsBlockSize
<1>8. /\ Specification!Outer \ AbsTaken = word..Words - 1
      /\ AbsTaken' = AbsTaken \cup (Specification!Outer \ AbsTaken)
      /\ AbsTaken # Specification!Outer
  BY <1>2, <1>3, <1>6, <1>7 DEF Numbers
<1>9. AbsRounds' = AbsRounds /\ AbsState = LanesOf(state) /\ AbsState' = LanesOf(state')
  BY <1>1 DEF AbsRounds, AbsState
<1>10. ASSUME NEW c \in Specification!Coordinates
       PROVE  LanesOf(state')[c] =
                LET l == 5 * c[2] + c[1]
                IN  IF l \in word..Words - 1
                    THEN Specification!XorAll(LanesOf(state)[c], Specification!BlockLane(l))
                    ELSE LanesOf(state)[c]
  <2> DEFINE l == 5 * c[2] + c[1]
  <2>1. LanesOf(state')[c] = state'[l + 1] /\ LanesOf(state)[c] = state[l + 1]
    BY DEF LanesOf, Specification!Coordinates
  <2>2. l \in 0..24
    BY LaneNumber
  <2> HIDE DEF l
  <2>3. state'[l + 1] =
             IF l \in word..Words - 1 THEN Xor(state[l + 1], Specification!BlockLane(l))
             ELSE state[l + 1]
    BY <2>2, PadState
  <2>4. LanesOf(state')[c] =
            IF l \in word..Words - 1
            THEN Specification!XorAll(LanesOf(state)[c], Specification!BlockLane(l))
            ELSE LanesOf(state)[c]
    BY <2>1, <2>3, SameOperators
  <2> QED
    BY <2>4 DEF l
<1>11. LanesOf(state') = [c \in Specification!Coordinates |-> LanesOf(state')[c]]
  BY DEF LanesOf, Specification!Coordinates
<1>12. Specification!Take(word..Words - 1)
  BY <1>4, <1>5, <1>8, <1>9, <1>10, <1>11 DEF Specification!Take
<1> QED
  BY <1>8, <1>12 DEF Specification!TakeRest

LEMMA RefineRounds ==
    ASSUME IInv, RefInv, IInv', RefInv', RoundAtoE \/ RoundEtoA PROVE Specification!DoRound
<1>1. /\ pc = "rounds" /\ n < 24 /\ n' = n + 1 /\ A' = Round(A, n)
      /\ UNCHANGED <<input, pc, pos, word, last_word_iter, padded, out>>
  BY DEF RoundAtoE, RoundEtoA, Rounds, tail
<1>2. Numbers /\ call \in Calls /\ n \in 0..23 /\ Lanes(A)
  BY <1>1, IInvNumbers DEF IInv, TypeInv
<1>3. block_size' = block_size /\ call' = call /\ Words' = Words /\ out' = out
  BY <1>1, SameCall
<1>4. AbsBlock' = AbsBlock
  <2>1. Start' = Start
    BY <1>1 DEF Start
  <2> QED
    BY <1>1, <2>1, SameBlock DEF Permuting
<1>5. AbsTaken = 0..Words - 1 /\ AbsTaken' = AbsTaken
  BY <1>1, <1>3 DEF AbsTaken, Permuting, Words
<1>6. AbsRounds = n /\ AbsRounds' = n' /\ AbsState = LanesOf(A) /\ AbsState' = LanesOf(A')
  BY <1>1 DEF AbsRounds, AbsState
<1>7. AbsState' = Specification!SpecRound(AbsState, n)
  BY <1>1, <1>2, <1>6, RoundAsSpecified
<1> QED
  BY <1>1, <1>2, <1>3, <1>4, <1>5, <1>6, <1>7, RateIsBlockSize DEF Specification!DoRound

LEMMA RefineNextBlock ==
    ASSUME IInv, RefInv, IInv', RefInv', NextBlock PROVE Specification!NextBlock
<1>1. /\ pc = "store" /\ ~padded /\ pc' = "block" /\ word' = 0
      /\ UNCHANGED <<input, pos, state, last_word_iter, padded, out>>
  BY DEF NextBlock, Goto, tail
<1>2. /\ Numbers /\ call \in Calls /\ word = Words /\ last_word_iter = 0
      /\ size >= block_size /\ pos + size = DataLen + 8 * word
  BY <1>1, IInvNumbers DEF IInv, TypeInv, BlockInv, TailInv, PosInv, InBlock, FullBlock
<1>3. block_size' = block_size /\ call' = call /\ out' = out
  BY <1>1, SameCall
<1>4. Start \in Nat /\ Start % block_size = 0 /\ Start' = Start + block_size /\ pos = Start'
  BY <1>1, <1>2 DEF RefInv, StartInv, Start, Numbers
<1>5. AbsBlock = Start \div block_size /\ AbsBlock' = (Start + block_size) \div block_size
  <2>1. BlockIs /\ BlockIs'
    BY BlockAlways, PTL
  <2> QED
    BY <1>1, <1>3, <1>4, <2>1 DEF BlockIs
<1>6. AbsBlock' = AbsBlock + 1
  BY <1>2, <1>4, <1>5 DEF Numbers
<1>7. (AbsBlock + 1) * Specification!rate < Specification!PaddedLength
  <2>1. (AbsBlock + 1) * block_size = Start + block_size
    BY <1>1, BlockAtStart
  <2>2. Start + block_size <= DataLen
    BY <1>2, <1>4 DEF Numbers
  <2>3. DataLen < ((DataLen \div block_size) + 1) * block_size
    <3>1. CASE block_size = 136
      BY <1>2, <3>1 DEF Numbers
    <3>2. CASE block_size = 72
      BY <1>2, <3>2 DEF Numbers
    <3> QED
      BY <1>2, <3>1, <3>2 DEF Numbers
  <2> DEFINE padlen == ((DataLen \div block_size) + 1) * block_size
  <2>4. padlen \in Int
    BY <1>2 DEF Numbers
  <2>5. Specification!PaddedLength = padlen /\ Specification!rate = block_size
    BY <1>2, RateIsBlockSize
  <2> DEFINE done == (AbsBlock + 1) * block_size
  <2> HIDE DEF padlen, done
  <2>6. done = Start + block_size /\ DataLen < padlen
    BY <2>1, <2>3 DEF padlen, done
  <2>7. done < padlen
    BY <1>2, <1>4, <2>2, <2>4, <2>6 DEF Numbers
  <2> QED
    BY <2>5, <2>7 DEF done
<1>8. AbsTaken' = {} /\ AbsRounds = 24 /\ AbsRounds' = 0
  BY <1>1 DEF AbsTaken, AbsRounds, Permuting
<1>9. AbsState = LanesOf(state) /\ AbsState' = AbsState
  BY <1>1 DEF AbsState, LanesOf
<1> QED
  BY <1>3, <1>6, <1>7, <1>8, <1>9 DEF Specification!NextBlock

LEMMA RefineSqueeze ==
    ASSUME IInv, RefInv, IInv', RefInv', Squeeze PROVE Specification!Finish
<1>1. /\ pc = "store" /\ padded /\ pc' = "done"
      /\ UNCHANGED <<input, state, padded>>
  BY DEF Squeeze, Goto
<1>2. Numbers /\ call \in Calls /\ big \in BOOLEAN /\ Lanes(state) /\ out = << >>
  BY <1>1, IInvNumbers DEF IInv, TypeInv, RefInv
<1>3. block_size' = block_size /\ call' = call
  BY <1>1, SameCall
<1>4. AbsBlock = DataLen \div block_size /\ AbsBlock' = AbsBlock
  BY <1>1, <1>3 DEF AbsBlock, Permuting, DataLen
<1>5. (AbsBlock + 1) * Specification!rate = Specification!PaddedLength
  BY <1>2, <1>4, RateIsBlockSize
<1>6. AbsTaken' = AbsTaken /\ AbsRounds = 24 /\ AbsRounds' = 24
  BY <1>1, <1>3 DEF AbsTaken, AbsRounds, Permuting
<1>7. AbsState = LanesOf(state) /\ AbsState' = AbsState
  BY <1>1 DEF AbsState, LanesOf
<1>8. ASSUME NEW k \in 1..call.bits \div 8
      PROVE  InMemory(to_le64(state[((k - 1) \div 8) + 1]))[((k - 1) % 8) + 1] =
                LET l == (k - 1) \div 8
                IN  {b \in 0..7 : 8 * ((k - 1) % 8) + b \in AbsState[<<l % 5, l \div 5>>]}
  <2> DEFINE l == (k - 1) \div 8
             j == (k - 1) % 8
             x == l % 5
             y == l \div 5
  <2>1. call.bits \in {256, 512}
    BY <1>2, ConstantsAssumption
  <2>2. k - 1 \in 0..63
    BY <2>1
  <2>3. l \in 0..7 /\ j \in 0..7
    BY <2>2
  <2>4. x \in 0..4 /\ y \in 0..4 /\ 5 * y + x = l
    <3> HIDE DEF l
    <3> QED
      BY <2>3
  <2> HIDE DEF l, j, x, y
  <2>5. AbsState[<<x, y>>] = state[l + 1]
    BY <1>7, <2>4, LaneAt
  <2>6. state[l + 1] \in SUBSET Bit
    <3>1. l + 1 \in 1..25
      BY <2>3
    <3> QED
      BY <1>2, <3>1 DEF Lanes
  <2>7. InMemory(to_le64(state[l + 1]))[j + 1] = {b \in 0..7 : 8 * j + b \in state[l + 1]}
    BY <1>2, <2>3, <2>6, StoredIsLittleEndian
  <2>8. InMemory(to_le64(state[l + 1]))[j + 1] =
            {b \in 0..7 : 8 * j + b \in AbsState[<<x, y>>]}
    BY <2>5, <2>7
  <2> QED
    BY <2>8 DEF l, j, x, y
<1>9. out' = [k \in 1..call.bits \div 8 |->
                InMemory(to_le64(state[((k - 1) \div 8) + 1]))[((k - 1) % 8) + 1]]
  BY DEF Squeeze
<1>10. out' = [k \in 1..call.bits \div 8 |->
            LET l == (k - 1) \div 8
            IN  {b \in 0..7 : 8 * ((k - 1) % 8) + b \in AbsState[<<l % 5, l \div 5>>]}]
  BY <1>8, <1>9
<1> QED
  BY <1>2, <1>3, <1>4, <1>5, <1>6, <1>7, <1>10 DEF Specification!Finish

\* The other steps do not show: the loops end, the tail is copied, and the state is loaded
\* into the lanes and stored.
LEMMA RefineStutter ==
    ASSUME IInv, RefInv, IInv', RefInv',
           BlocksDone \/ WordsDone \/ CopyByte \/ LoadLanes \/ StoreLanes
    PROVE  UNCHANGED Specification!vars
<1>1. /\ UNCHANGED <<input, padded, out>>
      /\ pc # "done" /\ pc' # "done"
  BY DEF BlocksDone, WordsDone, CopyByte, LoadLanes, StoreLanes, Goto
<1>2. Numbers
  BY IInvNumbers
<1>3. block_size' = block_size /\ call' = call /\ Words' = Words /\ out' = out
  BY <1>1, SameCall
<1>4. CASE BlocksDone
  <2>1. /\ pc = "block" /\ ~padded /\ pc' = "word" /\ word' = 0 /\ word = 0
        /\ UNCHANGED <<pos, state, last_word_iter>>
    BY <1>2, <1>4 DEF BlocksDone, Goto, tail, IInv, BlockInv, TailInv, InBlock, Numbers
  <2>2. AbsBlock' = AbsBlock
    BY <1>1, <2>1, SameBlock DEF Start
  <2>3. AbsTaken' = AbsTaken /\ AbsRounds' = AbsRounds /\ AbsState' = AbsState
    BY <2>1 DEF AbsTaken, AbsRounds, AbsState, Permuting, LanesOf
  <2> QED
    BY <1>3, <2>2, <2>3 DEF Specification!vars
<1>5. CASE WordsDone \/ CopyByte
  <2>1. /\ pc \in {"word", "byte"} /\ ~padded /\ pc' = "byte"
        /\ UNCHANGED <<state, word>> /\ Start' = Start
    BY <1>2, <1>5 DEF WordsDone, CopyByte, Goto, tail, IInv, TailInv, Start, Numbers
  <2>2. AbsBlock' = AbsBlock
    BY <1>1, <2>1, SameBlock
  <2>3. AbsTaken' = AbsTaken /\ AbsRounds' = AbsRounds /\ AbsState' = AbsState
    BY <2>1 DEF AbsTaken, AbsRounds, AbsState, Permuting, LanesOf
  <2> QED
    BY <1>3, <2>2, <2>3 DEF Specification!vars
<1>6. CASE LoadLanes \/ StoreLanes
  <2>1. /\ Permuting /\ Permuting' /\ UNCHANGED <<pos, word, last_word_iter>>
    BY <1>6 DEF LoadLanes, StoreLanes, Goto, tail, Permuting
  <2>2. AbsBlock' = AbsBlock
    BY <1>1, <2>1, SameBlock DEF Start
  <2>3. AbsTaken' = AbsTaken
    BY <1>3, <2>1 DEF AbsTaken, Words
  <2>4. AbsRounds' = AbsRounds /\ AbsState' = AbsState
    <3>1. CASE LoadLanes
      <4>1. pc = "load" /\ pc' = "rounds" /\ A' = state /\ n' = 0
        BY <3>1 DEF LoadLanes, Goto
      <4> QED
        BY <4>1 DEF AbsRounds, AbsState, LanesOf
    <3>2. CASE StoreLanes
      <4>1. pc = "rounds" /\ pc' = "store" /\ state' = A /\ n = 24
        <5>1. n \in 0..24
          BY DEF IInv, TypeInv
        <5> QED
          BY <3>2, <5>1 DEF StoreLanes, Goto
      <4> QED
        BY <4>1 DEF AbsRounds, AbsState, LanesOf
    <3> QED
      BY <1>6, <3>1, <3>2
  <2> QED
    BY <1>3, <2>2, <2>3, <2>4 DEF Specification!vars
<1> QED
  BY <1>4, <1>5, <1>6

LEMMA RefineStep ==
    IInv /\ RefInv /\ IInv' /\ RefInv' /\ [Next]_vars
        => [Specification!Next]_(Specification!vars)
<1> SUFFICES ASSUME IInv, RefInv, IInv', RefInv', [Next]_vars
             PROVE  [Specification!Next]_(Specification!vars)
  OBVIOUS
<1>1. CASE AbsorbBlockWord \/ AbsorbWord
  BY <1>1, RefineAbsorb DEF Specification!Next
<1>2. CASE Pad
  BY <1>2, RefinePad DEF Specification!Next
<1>3. CASE RoundAtoE \/ RoundEtoA
  BY <1>3, RefineRounds DEF Specification!Next
<1>4. CASE NextBlock
  BY <1>4, RefineNextBlock DEF Specification!Next
<1>5. CASE Squeeze
  BY <1>5, RefineSqueeze DEF Specification!Next
<1>6. CASE BlocksDone \/ WordsDone \/ CopyByte \/ LoadLanes \/ StoreLanes
  BY <1>6, RefineStutter
<1>7. CASE UNCHANGED vars
  <2>1. /\ UNCHANGED <<call, pc, size, pos, state, word, padded, A, n, out>>
    BY <1>7 DEF vars
  <2>2. block_size' = block_size
    BY <2>1 DEF block_size
  <2>3. AbsBlock' = AbsBlock /\ AbsTaken' = AbsTaken
    BY <2>1, <2>2 DEF AbsBlock, AbsTaken, Permuting
  <2>4. AbsRounds' = AbsRounds /\ AbsState' = AbsState
    BY <2>1 DEF AbsRounds, AbsState, LanesOf
  <2> QED
    BY <2>1, <2>3, <2>4 DEF Specification!vars
<1> QED
  BY <1>1, <1>2, <1>3, <1>4, <1>5, <1>6, <1>7 DEF Next

\* For data of every length, both digest sizes and hosts of either endianness keccak() is
\* the specified sponge: every word it xors in is the lane of the padded message that it
\* should be, its unrolled rounds are the step mappings theta to iota with the specified
\* offsets and constants, and the bytes it returns are those of the specified digest.
THEOREM KeccakImplemented == Spec => ImplementsKeccak
<1>1. Init => RefInv
  BY InitRefInv
<1>2. Spec => []RefInv
  BY <1>1, RefInvStep, Inductive, PTL DEF Spec
<1> QED
  BY <1>2, RefineInit, RefineStep, Inductive, PTL
  DEF Spec, Specification!Spec, ImplementsKeccak

=============================================================================
