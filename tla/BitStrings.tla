----------------------------- MODULE BitStrings -----------------------------
(***************************************************************************)
(* What Base64 and Base32 are (RFC 4648), as definitions to measure the    *)
(* encoders of this program by: the bits of a byte string, of each byte    *)
(* the highest first, are cut into digits of six or five bits, the last    *)
(* one filled up with 0, and the digits are padded to whole groups.        *)
(***************************************************************************)
EXTENDS Integers, SequencesExt

Bit(bytes, k) ==
    IF k \div 8 < Len(bytes) THEN (bytes[k \div 8 + 1] \div 2^(7 - (k % 8))) % 2 ELSE 0

Pair(bytes, k) == 2 * Bit(bytes, k) + Bit(bytes, k + 1)

\* The digits whose bits are those from bit k on.
Quintet(bytes, k) == 8 * Pair(bytes, k) + 2 * Pair(bytes, k + 2) + Bit(bytes, k + 4)

Sextet(bytes, k) == 16 * Pair(bytes, k) + 4 * Pair(bytes, k + 2) + Pair(bytes, k + 4)

\* The padding is the number after the last digit.
Base32Of(bytes) ==
    LET n == (8 * Len(bytes) + 4) \div 5
    IN  [i \in 1..n |-> Quintet(bytes, 5 * (i - 1))] \o [i \in 1..((-n) % 8) |-> 32]

Base64Digits(bytes) ==
    [i \in 1..((8 * Len(bytes) + 5) \div 6) |-> Sextet(bytes, 6 * (i - 1))]

Base64Of(bytes) ==
    Base64Digits(bytes) \o [i \in 1..((-Len(Base64Digits(bytes))) % 4) |-> 64]

=============================================================================
