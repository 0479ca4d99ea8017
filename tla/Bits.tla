-------------------------------- MODULE Bits --------------------------------
(***************************************************************************)
(* Bytes, symbols and shift registers of the coding stages, as sets of the *)
(* positions of their one bits (bit 0 is the least significant), the       *)
(* streams of 0s and 1s the stages exchange, and numpy's rounding.  A byte *)
(* has ByteBits bits: eight in the program, fewer where a run needs every  *)
(* byte value.                                                             *)
(***************************************************************************)
EXTENDS Integers, Sequences, SequencesExt

CONSTANT ByteBits

ASSUME ByteBitsAssumption == ByteBits \in Nat \ {0}

Byte == SUBSET (0 .. ByteBits - 1)

Xor(a, b) == (a \ b) \cup (b \ a)

ShiftRight(word, n) == {i - n : i \in {j \in word : j >= n}}

ShiftLeft(word, n) == {i + n : i \in word}

\* The other way round in a word of `width` bits.
Reflect(word, width) == {width - 1 - i : i \in word}

\* The same function: TLC, to compare it with itself, computes each of its values
\* once and keeps them, so that a fold over tables does.
Table(f) == CHOOSE table \in {f} : table = f

\* The number a word stands for.
ToNat(word) == MapThenSumSet(LAMBDA i : 2 ^ i, word)

FromNat(n, width) == {i \in 0 .. width - 1 : (n \div 2 ^ i) % 2 = 1}

\* The parity of the bits a register and a mask share.
Parity(word) == Cardinality(word) % 2

\* Bytes to bits, most significant bit first (np.unpackbits).
BytesToBits(bytes) ==
    [p \in 1 .. Len(bytes) * ByteBits |->
        IF ByteBits - 1 - ((p - 1) % ByteBits) \in bytes[1 + (p - 1) \div ByteBits]
        THEN 1 ELSE 0]

\* Bits to bytes; a last byte that is not full is filled up with zeros
\* (np.packbits).
BitsToBytes(bits) ==
    [k \in 1 .. (Len(bits) + ByteBits - 1) \div ByteBits |->
        {i \in 0 .. ByteBits - 1 :
            LET p == k * ByteBits - i IN p <= Len(bits) /\ bits[p] = 1}]

Zeros(n) == [i \in 1 .. n |-> 0]

\* The stream with the bits at the positions of `at` turned over.
Flip(bits, at) == [p \in DOMAIN bits |-> IF p \in at THEN 1 - bits[p] ELSE bits[p]]

-----------------------------------------------------------------------------
\* What a decoder hands back: a value, or the ValueError it raises.
Returns(v) == [ok |-> TRUE, val |-> v]

Raises == [ok |-> FALSE, val |-> <<>>]
-----------------------------------------------------------------------------
\* numpy rounds to the even one of two equally near integers; np.linspace(0,
\* last, count).round() places the pilots and the header bits.

\* The nearest integer to a / b.
HalfEven(a, b) ==
    LET q == a \div b
        r == a % b
    IN  IF 2 * r < b \/ (2 * r = b /\ q % 2 = 0) THEN q ELSE q + 1

\* Place i, from 0, of `count` places spread evenly over 0 .. last.
SpreadPlace(i, last, count) == IF count = 1 THEN 0 ELSE HalfEven(i * last, count - 1)
=============================================================================
