-------------------------------- MODULE Modem --------------------------------
(***************************************************************************)
(* spectracuda.modem.Modem: Gray-coded square constellations.  A point is  *)
(* a pair <<re, im>> of integers, Fine to one unit of PAM level and with   *)
(* the constant power normalization left out, so that the levels of an     *)
(* axis are 2 * Fine apart and a received point is any pair.               *)
(***************************************************************************)
EXTENDS Bits

Fine == 2

BitsPerSymbol == [bpsk |-> 1, qpsk |-> 2, qam16 |-> 4, qam64 |-> 6, qam256 |-> 8]

\* Bits per axis.
Half(mod) == IF mod = "bpsk" THEN 1 ELSE BitsPerSymbol[mod] \div 2

BinaryToGray(word) == Xor(word, ShiftRight(word, 1))

GrayToBinary(word, nbits) ==
    FoldLeft(LAMBDA b, shift : IF shift < nbits THEN Xor(b, ShiftRight(b, shift)) ELSE b,
             word, << 1, 2, 4 >>)

\* Bits, most significant first, as the word they spell, and back.
WordOf(bits) == {Len(bits) - p : p \in {p \in DOMAIN bits : bits[p] = 1}}

BitsOf(word, n) == [p \in 1 .. n |-> IF n - p \in word THEN 1 ELSE 0]

PamLevel(index, nbits) == Fine * (2 * index - (2 ^ nbits - 1))

\* One axis: its bits to a level, and the nearest level back to bits.
AxisLevel(bits) == PamLevel(ToNat(GrayToBinary(WordOf(bits), Len(bits))), Len(bits))

NearestIndex(level, nbits) ==
    LET top == 2 ^ nbits - 1
    IN  Max({0, Min({top, HalfEven(level + Fine * top, 2 * Fine)})})

AxisBits(level, nbits) == BitsOf(BinaryToGray(FromNat(NearestIndex(level, nbits), nbits)), nbits)

Point(mod, bits) ==
    IF mod = "bpsk" THEN << Fine * (2 * bits[1] - 1), 0 >>
    ELSE << AxisLevel(SubSeq(bits, 1, Half(mod))),
            AxisLevel(SubSeq(bits, Half(mod) + 1, 2 * Half(mod))) >>

HardDecision(mod, z) ==
    IF mod = "bpsk" THEN << IF z[1] >= 0 THEN 1 ELSE 0 >>
    ELSE AxisBits(z[1], Half(mod)) \o AxisBits(z[2], Half(mod))

Modulate(mod, bits) ==
    LET bps == BitsPerSymbol[mod]
    IN  Table([s \in 1 .. Len(bits) \div bps |->
            Point(mod, SubSeq(bits, (s - 1) * bps + 1, s * bps))])

Demodulate(mod, points) == FlattenSeq([s \in DOMAIN points |-> HardDecision(mod, points[s])])

-----------------------------------------------------------------------------
(* Bits and the two power sums of the error vector magnitude.              *)

Power(z) == z[1] * z[1] + z[2] * z[2]

Minus(a, b) == << a[1] - b[1], a[2] - b[2] >>

SumOf(seq) == FoldLeft(LAMBDA acc, x : acc + x, 0, seq)

\* numpy: demodulate, modulate again, compare.
DemodulateStats(mod, points) ==
    LET bits == Demodulate(mod, points)
        ideal == Modulate(mod, bits)
    IN  [bits |-> bits,
         err |-> SumOf([s \in DOMAIN points |-> Power(Minus(points[s], ideal[s]))]),
         ref |-> SumOf([s \in DOMAIN points |-> Power(ideal[s])])]

\* The jitted kernel: one pass; the ideal point comes from the decided index.
JitHardDecision(mod, points) ==
    LET n == Half(mod)
        Index(level) == IF mod = "bpsk" THEN (IF level >= 0 THEN 1 ELSE 0) ELSE NearestIndex(level, n)
        Ideal(z) == << PamLevel(Index(z[1]), n), IF mod = "bpsk" THEN 0 ELSE PamLevel(Index(z[2]), n) >>
        Gray(i) == BitsOf(BinaryToGray(FromNat(i, n)), n)
        Step(acc, z) ==
            [bits |-> acc.bits \o Gray(Index(z[1])) \o (IF mod = "bpsk" THEN <<>> ELSE Gray(Index(z[2]))),
             err |-> acc.err + Power(Minus(z, Ideal(z))),
             ref |-> acc.ref + Power(Ideal(z))]
    IN  FoldLeft(Step, [bits |-> <<>>, err |-> 0, ref |-> 0], points)
=============================================================================
