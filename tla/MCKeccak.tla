---- MODULE MCKeccak ----
(***************************************************************************)
(* The messages of test/unittests/test_keccak.cpp: prefixes of its text,   *)
(* of lengths around the word and the block sizes, with three answers it   *)
(* expects.                                                                *)
(***************************************************************************)
EXTENDS Keccak

BitsOf(byte) == {b \in 0..7 : (byte \div 2^b) % 2 = 1}

test_text == <<
    65, 115, 32, 69, 115, 116, 104, 97, 32, 115, 116, 105, 114, 114, 101, 100, 32, 116,
    104, 101, 32, 116, 104, 105, 99, 107, 32, 106, 97, 109, 32, 104, 101, 32, 116, 104,
    111, 117, 103, 104, 116, 32, 84, 119, 111, 32, 84, 104, 111, 117, 103, 104, 116,
    115, 32, 97, 110, 100, 32, 116, 104, 101, 32, 84, 119, 111, 32, 84, 104, 111, 117,
    103, 104, 116, 115, 32, 104, 101, 32, 116, 104, 111, 117, 103, 104, 116, 32, 119,
    101, 114, 101, 32, 116, 104, 101, 115, 101, 58, 32, 97, 41, 32, 65, 110, 121, 116,
    104, 105, 110, 103, 32, 99, 97, 110, 32, 104, 97, 112, 112, 101, 110, 32, 116, 111,
    32, 97, 110, 121, 111, 110, 101, 46, 32, 97, 110, 100, 32, 98, 41, 32, 73, 116, 32,
    105, 115, 32, 98, 101, 115, 116, 32, 116, 111, 32, 98, 101, 32, 112, 114, 101, 112,
    97, 114, 101, 100, 46>>

Prefix(len) == [k \in 1..len |-> BitsOf(test_text[k])]

MCCalls ==
    {[bits |-> 256, data |-> Prefix(s)] : s \in {0, 7, 8, 32, 96, 135, 136, 144}}
    \cup
    {[bits |-> 512, data |-> Prefix(s)] : s \in {1, 32, 40, 64, 71, 72, 81, 144}}

KnownAnswers == {
    [size |-> 0, bits |-> 256, digest |-> <<
        197, 210, 70, 1, 134, 247, 35, 60, 146, 126, 125, 178, 220, 199, 3, 192, 229, 0,
        182, 83, 202, 130, 39, 59, 123, 250, 216, 4, 93, 133, 164, 112>>],
    [size |-> 136, bits |-> 256, digest |-> <<
        40, 34, 172, 3, 107, 155, 197, 208, 201, 32, 217, 231, 240, 171, 214, 214, 3,
        103, 1, 181, 19, 210, 67, 145, 4, 25, 159, 214, 205, 109, 78, 164>>],
    [size |-> 72, bits |-> 512, digest |-> <<
        99, 200, 197, 222, 95, 41, 125, 250, 202, 160, 131, 38, 51, 217, 124, 127, 31,
        118, 176, 93, 255, 134, 85, 82, 241, 216, 74, 112, 239, 201, 100, 210, 128, 105,
        192, 74, 67, 80, 72, 119, 81, 44, 95, 29, 104, 116, 79, 235, 238, 167, 213, 36,
        231, 70, 172, 7, 95, 152, 196, 133, 209, 179, 179, 45>>]}

\* The digests are those that the tests expect (test_keccak.cpp:27 on), on both hosts.
DigestsAsTested ==
    pc = "done" =>
        \A a \in KnownAnswers :
            call = [bits |-> a.bits, data |-> Prefix(a.size)] =>
                out = [k \in 1..a.bits \div 8 |-> BitsOf(a.digest[k])]
=============================================================================
