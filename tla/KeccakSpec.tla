---- MODULE KeccakSpec ----
(***************************************************************************)
(* Keccak as it is specified: the five step mappings of Keccak-f[1600] on  *)
(* lanes with coordinates x and y, the padding pad10*1, and the sponge     *)
(* over them: the lanes of a block are taken in, in any order, then all    *)
(* rounds are done, block after block.  Rotations and round constants are  *)
(* derived, not listed.  A lane is the set of its one bits.                *)
(***************************************************************************)
EXTENDS Integers, Sequences

CONSTANTS Calls   \* digests asked for: [bits |-> 256 or 512, data |-> bytes]

VARIABLES
    call,    \* the digest asked for
    block,   \* how many blocks are done with
    taken,   \* the lanes of the next block, by number, that are taken in
    rounds,  \* how many rounds were done since
    S,       \* the state
    digest   \* the bytes of the digest, none before the end

vars == <<call, block, taken, rounds, S, digest>>

Coordinates == (0..4) \X (0..4)

XorAll(x, y) == {b \in x \cup y : b \notin x \cap y}

Rotate(x, s) == {(b + s) % 64 : b \in x}

-----------------------------------------------------------------------------

Column(A, x) ==
    XorAll(A[<<x, 0>>], XorAll(A[<<x, 1>>],
        XorAll(A[<<x, 2>>], XorAll(A[<<x, 3>>], A[<<x, 4>>]))))

Theta(A) ==
    [c \in Coordinates |->
        XorAll(A[c], XorAll(Column(A, (c[1] + 4) % 5),
                            Rotate(Column(A, (c[1] + 1) % 5), 1)))]

\* The lanes are rotated by triangular numbers along this walk, the lane in the origin not.
Walk[t \in 0..23] ==
    IF t = 0 THEN <<1, 0>>
    ELSE LET c == Walk[t - 1] IN <<c[2], (2 * c[1] + 3 * c[2]) % 5>>

Offset ==
    [c \in Coordinates |->
        IF c = <<0, 0>> THEN 0
        ELSE LET t == CHOOSE t \in 0..23 : Walk[t] = c
             IN  (((t + 1) * (t + 2)) \div 2) % 64]

Rho(A) == [c \in Coordinates |-> Rotate(A[c], Offset[c])]

Pi(A) == [c \in Coordinates |-> A[<<(c[1] + 3 * c[2]) % 5, c[1]>>]]

Chi(A) ==
    [c \in Coordinates |->
        XorAll(A[c], A[<<(c[1] + 2) % 5, c[2]>>] \ A[<<(c[1] + 1) % 5, c[2]>>])]

\* The register after t steps; the round constants are made of its bit 0.
Register[t \in 0..254] ==
    IF t = 0 THEN {0}
    ELSE LET shifted == {b + 1 : b \in Register[t - 1]}
         IN  IF 8 \in shifted THEN XorAll(shifted \ {8}, {0, 4, 5, 6}) ELSE shifted

\* Place j + 1 is 2^j - 1.
Places == <<0, 1, 3, 7, 15, 31, 63>>

RC == [n \in 0..23 |-> {Places[j + 1] : j \in {k \in 0..6 : 0 \in Register[k + 7 * n]}}]

Iota(A, n) == [A EXCEPT ![<<0, 0>>] = XorAll(@, RC[n])]

SpecRound(A, n) == Iota(Chi(Pi(Rho(Theta(A)))), n)

-----------------------------------------------------------------------------

rate == 200 - (call.bits \div 4)

\* The lanes that take in data.
Outer == 0..(rate \div 8) - 1

\* The bytes of the message, then one bit, as many zeros as needed, and one bit.
PaddedLength == ((Len(call.data) \div rate) + 1) * rate

PaddedByte(k) ==
    IF k <= Len(call.data) THEN call.data[k]
    ELSE (IF k = Len(call.data) + 1 THEN {0} ELSE {})
         \cup (IF k = PaddedLength THEN {7} ELSE {})

\* What lane l of the next block is.
BlockLane(l) ==
    LET first == block * rate + 8 * l
    IN  UNION {{8 * k + b : b \in PaddedByte(first + k + 1)} : k \in 0..7}

Init ==
    /\ call \in Calls
    /\ block = 0 /\ taken = {} /\ rounds = 0
    /\ S = [c \in Coordinates |-> {}]
    /\ digest = << >>

Take(lanes) ==
    /\ S' = [c \in Coordinates |->
                LET l == 5 * c[2] + c[1]
                IN  IF l \in lanes THEN XorAll(S[c], BlockLane(l)) ELSE S[c]]
    /\ taken' = taken \cup lanes
    /\ UNCHANGED <<call, block, rounds, digest>>

TakeLane(l) == l \notin taken /\ Take({l})

TakeRest == taken # Outer /\ Take(Outer \ taken)

DoRound ==
    /\ taken = Outer /\ rounds < 24
    /\ S' = SpecRound(S, rounds)
    /\ rounds' = rounds + 1
    /\ UNCHANGED <<call, block, taken, digest>>

NextBlock ==
    /\ rounds = 24 /\ (block + 1) * rate < PaddedLength
    /\ block' = block + 1
    /\ taken' = {} /\ rounds' = 0
    /\ UNCHANGED <<call, S, digest>>

\* The first bits of the state are the digest.
Finish ==
    /\ rounds = 24 /\ (block + 1) * rate = PaddedLength
    /\ digest = << >>
    /\ digest' = [k \in 1..call.bits \div 8 |->
            LET l == (k - 1) \div 8
            IN  {b \in 0..7 : 8 * ((k - 1) % 8) + b \in S[<<l % 5, l \div 5>>]}]
    /\ UNCHANGED <<call, block, taken, rounds, S>>

Next ==
    \/ \E l \in Outer : TakeLane(l)
    \/ TakeRest \/ DoRound \/ NextBlock \/ Finish

Spec == Init /\ [][Next]_vars

=============================================================================
