---------------------------- MODULE Convolutional ----------------------------
(***************************************************************************)
(* spectracuda.fec.viterbi: a rate-1/2 convolutional code and its hard-    *)
(* decision Viterbi decoder.  The program's code has ConstraintLength 7    *)
(* and the polynomials 171 and 133 (octal).                                *)
(***************************************************************************)
EXTENDS Bits

CONSTANTS ConstraintLength,
          G1, G2            \* the taps of the two outputs, bit 0 the newest bit

ASSUME ConvolutionalAssumption ==
    /\ ConstraintLength \in Nat \ {0, 1}
    /\ {G1, G2} \subseteq SUBSET (0 .. ConstraintLength - 1)

TailBits == ConstraintLength - 1
States == 0 .. 2 ^ TailBits - 1

Register(state, bit) == 2 * state + bit

\* Both output bits of every register value.
OutputTable ==
    [reg \in 0 .. 2 ^ ConstraintLength - 1 |->
        LET bits == FromNat(reg, ConstraintLength)
        IN  << Parity(bits \cap G1), Parity(bits \cap G2) >>]

NextState(state, bit) == Register(state, bit) % 2 ^ TailBits

\* The encoder starts and, after the zero tail, ends in state 0.
ConvEncode(bits) ==
    LET Step(acc, b) ==
            [state |-> NextState(acc.state, b),
             out |-> acc.out \o OutputTable[Register(acc.state, b)]]
    IN  FoldLeft(Step, [state |-> 0, out |-> <<>>], bits \o Zeros(TailBits)).out

\* The jitted encoder: the bits and then the tail, each written at its place.
JitEncode(bits) ==
    LET k == Len(bits)
        Input(t) == IF t \in 1 .. k THEN bits[t] ELSE 0
        \* the register after step t: the input of step t and the TailBits before it
        reg(t) == ToNat({i \in 0 .. TailBits : Input(t - i) = 1})
    IN  [p \in 1 .. 2 * (k + TailBits) |->
            OutputTable[reg((p + 1) \div 2)][1 + ((p - 1) % 2)]]

-----------------------------------------------------------------------------
Unreachable == 2 ^ 20       \* the infinite metric of the other start states

\* The two states a state can be entered from; its lowest bit is the input.
Predecessors(state) == << state \div 2, state \div 2 + 2 ^ (TailBits - 1) >>

BranchMetric(pred, state, r1, r2) ==
    LET out == OutputTable[Register(pred, state % 2)]
    IN  (IF out[1] /= r1 THEN 1 ELSE 0) + (IF out[2] /= r2 THEN 1 ELSE 0)

\* Add, compare, select: on a tie the first predecessor survives.
Select(column, r1, r2) ==
    Table([state \in States |->
        LET pred == Predecessors(state)
            cost == [i \in 1 .. 2 |-> column[pred[i]].metric + BranchMetric(pred[i], state, r1, r2)]
        IN  IF cost[2] < cost[1] THEN [metric |-> cost[2], from |-> pred[2]]
                                 ELSE [metric |-> cost[1], from |-> pred[1]]])

\* Forward over the received pairs, then back from state 0; the tail is dropped.
ConvDecode(bits) ==
    LET T == Len(bits) \div 2
        start == [state \in States |->
                    [metric |-> IF state = 0 THEN 0 ELSE Unreachable, from |-> 0]]
        columns == FoldLeft(LAMBDA acc, t :
                                Append(acc, Select(acc[t], bits[2 * t - 1], bits[2 * t])),
                            << start >>, [t \in 1 .. T |-> t])
        path == FoldLeft(LAMBDA acc, t : << columns[T + 2 - t][acc[1]].from >> \o acc,
                         << 0 >>, [t \in 1 .. T |-> t])
    IN  [t \in 1 .. T - TailBits |-> path[t + 1] % 2]
=============================================================================
