-------------------------------- MODULE Ldpc --------------------------------
(***************************************************************************)
(* spectracuda.fec.ldpc: a quasi-cyclic LDPC code, encoded systematically  *)
(* and decoded by normalized min-sum belief propagation over hard bits.    *)
(* The program takes its base matrices from the twelve tables of IEEE      *)
(* 802.11n; here the base matrix is a parameter, and the smallest of those *)
(* tables is given.  A message the decoder passes is an integer: the       *)
(* log-likelihood in units of 4^-LdpcIterations of the magnitude of one    *)
(* received bit, so that the factor 3/4 of each iteration is exact.        *)
(***************************************************************************)
EXTENDS Bits

CONSTANTS LdpcBase,         \* rows of circulant shifts, -1 where there is no block
          LdpcZ,            \* the size of a block
          LdpcIterations    \* max_iterations

LdpcN == Len(LdpcBase[1]) * LdpcZ
LdpcChecks == Len(LdpcBase) * LdpcZ
LdpcK == LdpcN - LdpcChecks

ASSUME LdpcAssumption ==
    /\ LdpcZ \in Nat \ {0} /\ LdpcBase \in Seq(Seq(Int)) /\ LdpcBase /= <<>>
    /\ LdpcK > 0
    /\ \A r \in DOMAIN LdpcBase : \A c \in DOMAIN LdpcBase[r] : LdpcBase[r][c] \in -1 .. LdpcZ - 1

\* The table "ldpc_648_r56", whose blocks are of 27.
Ldpc648r56 ==
    << << 17, 13, 8, 21, 9, 3, 18, 12, 10, 0, 4, 15, 19, 2, 5, 10, 26, 19, 13, 13, 1, 0, -1, -1 >>,
       << 3, 12, 11, 14, 11, 25, 5, 18, 0, 9, 2, 26, 26, 10, 24, 7, 14, 20, 4, 2, -1, 0, 0, -1 >>,
       << 22, 16, 4, 3, 10, 21, 12, 5, 21, 14, 19, 5, -1, 8, 5, 18, 11, 5, 5, 15, 0, -1, 0, 0 >>,
       << 7, 7, 14, 14, 4, 16, 16, 24, 24, 10, 1, 7, 15, 6, 10, 26, 8, 18, 21, 14, 1, -1, -1, 0 >> >>

\* The variables (from 1) of each check: block (r, c) with shift s joins check z
\* of row r to variable (z + s) % Z of column c.
CheckVars ==
    [check \in 1 .. LdpcChecks |->
        LET r == 1 + (check - 1) \div LdpcZ
            z == (check - 1) % LdpcZ
        IN  {(c - 1) * LdpcZ + ((z + LdpcBase[r][c]) % LdpcZ) + 1 :
                c \in {c \in DOMAIN LdpcBase[r] : LdpcBase[r][c] >= 0}}]

VarChecks == [var \in 1 .. LdpcN |-> {check \in 1 .. LdpcChecks : var \in CheckVars[check]}]

\* Gauss-Jordan elimination over GF(2) of the parity columns: rows are sets of
\* columns, the check numbers (negated) stand for the identity on the right.
\* <<>> when the parity columns are singular, which the constructor refuses.
ParityInverse ==
    LET Eliminate(A, col) ==
            IF A = <<>> \/ \A r \in col .. LdpcChecks : LdpcK + col \notin A[r] THEN <<>>
            ELSE LET pivot == CHOOSE r \in col .. LdpcChecks :
                                /\ LdpcK + col \in A[r]
                                /\ \A r2 \in col .. r - 1 : LdpcK + col \notin A[r2]
                     swapped == [A EXCEPT ![col] = A[pivot], ![pivot] = A[col]]
                 IN  Table([r \in 1 .. LdpcChecks |->
                        IF r /= col /\ LdpcK + col \in swapped[r]
                        THEN Xor(swapped[r], swapped[col]) ELSE swapped[r]])
        augmented == [r \in 1 .. LdpcChecks |-> (CheckVars[r] \ (1 .. LdpcK)) \cup {-r}]
        after[col \in 0 .. LdpcChecks] ==
            IF col = 0 THEN augmented ELSE Eliminate(after[col - 1], col)
        solved == after[LdpcChecks]
    IN  IF solved = <<>> THEN <<>>
        ELSE [r \in 1 .. LdpcChecks |-> {-x : x \in {y \in solved[r] : y < 0}}]

\* Parity bit r sums, over the checks its row of the inverse names, the message
\* bits in those checks.
LdpcEncode(bits) ==
    LET pad == LdpcK - Len(bits)
        ones == {pad + i : i \in {i \in DOMAIN bits : bits[i] = 1}}
        unbalanced == {check \in 1 .. LdpcChecks : Parity(CheckVars[check] \cap ones) = 1}
    IN  IF Len(bits) \notin 1 .. LdpcK THEN Raises
        ELSE Returns(bits \o [r \in 1 .. LdpcChecks |-> Parity(ParityInverse[r] \cap unbalanced)])

-----------------------------------------------------------------------------
Unit == 4 ^ LdpcIterations  \* the magnitude of a received bit
Certain == 1000 * Unit      \* that of a bit never sent, and of an empty slot of a check

MaxCheckDegree == Max({Cardinality(CheckVars[check]) : check \in 1 .. LdpcChecks})

Abs(x) == IF x < 0 THEN -x ELSE x

\* The messages of one check: to each variable three quarters of the smallest
\* magnitude among the others, with the product of all the signs and its own.
CheckToVar(q, check) ==
    LET vars == CheckVars[check]
        others(v) == {Abs(q[check][u]) : u \in vars \ {v}}
        mags(v) == others(v) \cup (IF Cardinality(vars) < MaxCheckDegree THEN {Certain} ELSE {})
        negative == {u \in vars : q[check][u] < 0}
    IN  Table([v \in vars |->
            LET magnitude == (3 * Min(mags(v))) \div 4
            IN  IF Parity(negative \ {v}) = 1 THEN -magnitude ELSE magnitude])

TotalLlr(channel, r) ==
    Table([v \in 1 .. LdpcN |->
            channel[v] + MapThenSumSet(LAMBDA check : r[check][v], VarChecks[v])])

\* LdpcIterations rounds, a hard decision, and the check that it is a codeword.
LdpcDecode(received) ==
    LET realK == Len(received) - LdpcChecks
        shortened == LdpcK - realK
        channel == Table([v \in 1 .. LdpcN |->
                            IF v <= shortened THEN Certain
                            ELSE (1 - 2 * received[v - shortened]) * Unit])
        start == [check \in 1 .. LdpcChecks |-> [v \in CheckVars[check] |-> channel[v]]]
        Round(st, i) ==
            LET r == Table([check \in 1 .. LdpcChecks |-> CheckToVar(st.q, check)])
                total == TotalLlr(channel, r)
            IN  [total |-> total,
                 q |-> Table([check \in 1 .. LdpcChecks |->
                          Table([v \in CheckVars[check] |-> total[v] - r[check][v]])])]
        final == FoldLeft(Round, [total |-> channel, q |-> start],
                          [i \in 1 .. LdpcIterations |-> i])
        hard == {v \in 1 .. LdpcN : final.total[v] < 0}
    IN  IF \/ realK \notin 1 .. LdpcK
           \/ \E check \in 1 .. LdpcChecks : Parity(CheckVars[check] \cap hard) = 1
        THEN Raises
        ELSE Returns([i \in 1 .. realK |-> IF shortened + i \in hard THEN 1 ELSE 0])
=============================================================================
