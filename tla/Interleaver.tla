----------------------------- MODULE Interleaver -----------------------------
(***************************************************************************)
(* The fixed permutations of spectracuda.interleaver.  A permutation of n  *)
(* units is the sequence of the original places (from 0) in the order they *)
(* are sent; a unit is a bit, or a whole byte in front of a byte-oriented  *)
(* code.                                                                   *)
(***************************************************************************)
EXTENDS Bits

CONSTANT SeededPermutation(_, _)     \* numpy's default_rng(seed).permutation(n)

\* The integer square root the default dimensions rest on.
FloorSqrt(n) == CHOOSE r \in 0 .. n : r * r <= n /\ (r + 1) * (r + 1) > n

\* `rows` of the block interleaver when the caller gives none (0 here).
BlockRows(rows, n) == IF rows > 0 THEN rows ELSE 1 + FloorSqrt(n)

RowLength(rows, n) == (n + BlockRows(rows, n) - 1) \div BlockRows(rows, n)

\* Written row by row, read column by column, cells past the end dropped.
BlockUnits(rows, n) ==
    LET M == BlockRows(rows, n)
        N == RowLength(rows, n)
        cells == [t \in 1 .. M * N |-> ((t - 1) % M) * N + ((t - 1) \div M)]
    IN  SelectSeq(cells, LAMBDA cell : cell < n)

\* `branches` delay lines fed in turn, line i rotated by i * base_delay, and
\* emptied in turn.
ConvolutionalUnits(branches, baseDelay, n) ==
    LET Line(i) == (n - i + branches - 1) \div branches
        slots == [t \in 1 .. branches * n |->
                    [branch |-> (t - 1) % branches, nth |-> (t - 1) \div branches]]
        filled == SelectSeq(slots, LAMBDA s : s.nth < Line(s.branch))
    IN  [p \in 1 .. n |->
            LET s == filled[p]
            IN  s.branch + branches * ((s.nth + s.branch * baseDelay) % Line(s.branch))]

-----------------------------------------------------------------------------
(* The liquid-dsp permutation: passes of swaps between the even and the    *)
(* odd bytes, the first of whole bytes, the others of some bits only.      *)

LiquidRows(nBytes) == 1 + FloorSqrt(nBytes)

\* The smallest row length, from nBytes / rows up, with more cells than bytes.
LiquidColumns(nBytes) ==
    CHOOSE N \in (nBytes \div LiquidRows(nBytes)) .. nBytes + 1 :
        /\ LiquidRows(nBytes) * N > nBytes
        /\ \A N2 \in (nBytes \div LiquidRows(nBytes)) .. N - 1 :
                LiquidRows(nBytes) * N2 <= nBytes

\* The partners of the even bytes in the order of the walk over the grid, one
\* candidate cell a step; cells in the upper half are passed over.
IndexWalk(nBytes, M, N) ==
    LET column(k) == IF k = 0 THEN nBytes \div 3 ELSE (nBytes \div 3 + k) % N
        candidates == [c \in 1 .. M * (N + 1) |-> ((c - 1) % M) * N + column((c - 1) \div M)]
    IN  SubSeq(SelectSeq(candidates, LAMBDA j : j < nBytes \div 2), 1, nBytes \div 2)

\* One pass: bit k of byte 2i and of byte 2j + 1 change places, for the bits of
\* `swapped` (numbered from the most significant).
SwapPass(labels, nBytes, M, N, swapped) ==
    LET walk == IndexWalk(nBytes, M, N)
        Swap(acc, i) ==
            Table([p \in DOMAIN acc |->
                LET even == 8 * (2 * (i - 1))
                    odd == 8 * (2 * walk[i] + 1)
                IN  IF \E k \in swapped : p = even + k + 1 THEN acc[p - even + odd]
                    ELSE IF \E k \in swapped : p = odd + k + 1 THEN acc[p - odd + even]
                    ELSE acc[p]])
    IN  FoldLeftDomain(Swap, labels, walk)

LiquidPasses == << [wider |-> 0, swapped |-> 0 .. 7],
                   [wider |-> 2, swapped |-> {4, 5, 6, 7}],
                   [wider |-> 4, swapped |-> {1, 3, 5, 7}],
                   [wider |-> 8, swapped |-> {2, 3, 6, 7}] >>

LiquidBits(depth, nBits) ==
    LET nBytes == nBits \div 8
    IN  FoldLeft(LAMBDA labels, pass :
                    SwapPass(labels, nBytes, LiquidRows(nBytes),
                             LiquidColumns(nBytes) + pass.wider, pass.swapped),
                 [p \in 1 .. nBits |-> p - 1],
                 SubSeq(LiquidPasses, 1, depth))

-----------------------------------------------------------------------------
(* An interleaver is a record: kind, unit and the parameters of its kind.  *)

UnitPermutation(il, n) ==
    CASE il.kind = "block" -> BlockUnits(il.rows, n)
      [] il.kind = "convolutional" -> ConvolutionalUnits(il.branches, il.delay, n)
      [] il.kind = "permutation" -> SeededPermutation(il.seed, n)
      [] il.kind = "liquid" -> LiquidBits(il.depth, n)

\* The lengths the constructors take.
AcceptsLength(il, nBits) ==
    /\ nBits >= 1
    /\ nBits % il.unit = 0
    /\ il.kind = "liquid" => nBits % 8 = 0 /\ il.unit = 1

\* Mutant: bits move on their own in front of a byte-oriented code.
BitPermutationLoose(il, nBits) ==
    LET units == UnitPermutation(il, nBits) IN [p \in 1 .. nBits |-> units[p]]

\* The table of one instance, on bits: a unit moves as a whole.
BitPermutation(il, nBits) ==
    LET units == UnitPermutation(il, nBits \div il.unit)
    IN  [p \in 1 .. nBits |-> (units[1 + (p - 1) \div il.unit] * il.unit) + ((p - 1) % il.unit)]

InterleaveBits(il, bits) ==
    LET perm == BitPermutation(il, Len(bits))
    IN  [p \in DOMAIN bits |-> bits[1 + perm[p]]]

DeinterleaveBits(il, bits) ==
    LET perm == BitPermutation(il, Len(bits))
        place == [o \in 0 .. Len(bits) - 1 |-> CHOOSE p \in DOMAIN bits : perm[p] = o]
    IN  [p \in DOMAIN bits |-> bits[place[p - 1]]]
=============================================================================
