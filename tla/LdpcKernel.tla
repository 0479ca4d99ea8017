----------------------------- MODULE LdpcKernel -----------------------------
(***************************************************************************)
(* The CUDA kernels of examples/prototype_ldpc_cuda_kernel.py: one block   *)
(* of BlockSize threads decodes one codeword.  A phase ends at a           *)
(* __syncthreads(); in it thread t handles the items whose index is t      *)
(* modulo BlockSize, and nothing orders it and the others.                 *)
(*                                                                         *)
(* A block's memory is a record of arrays: llr and hard by variable, q and *)
(* r by edge.  Magnitudes are those of Ldpc; 3.0e38f is one none reaches.  *)
(***************************************************************************)
EXTENDS Ldpc

CONSTANT BlockSize

ASSUME LdpcKernelAssumption == BlockSize \in Nat \ {0}

Threads == 0 .. BlockSize - 1

\* for (i = threadIdx.x; ...; i += blockDim.x), items counted from 1
Mine(t, item) == (item - 1) % BlockSize = t

\* The blocks of the base matrix that are not empty, by row and column.
BaseBlocks ==
    LET columns == Len(LdpcBase[1])
    IN  SelectSeq([i \in 1 .. Len(LdpcBase) * columns |->
                      << 1 + (i - 1) \div columns, 1 + ((i - 1) % columns) >>],
                  LAMBDA b : LdpcBase[b[1]][b[2]] >= 0)

\* The edges in the order they are numbered: what each one joins.
Edges ==
    Table([e \in 1 .. Len(BaseBlocks) * LdpcZ |->
        LET b == BaseBlocks[1 + (e - 1) \div LdpcZ]
            z == (e - 1) % LdpcZ
        IN  [check |-> (b[1] - 1) * LdpcZ + z + 1,
             var |-> (b[2] - 1) * LdpcZ + ((z + LdpcBase[b[1]][b[2]]) % LdpcZ) + 1]])

\* check_slot_edges and var_slot_edges, without their unused slots.
CheckSlots == Table([c \in 1 .. LdpcChecks |->
    SelectSeq([e \in DOMAIN Edges |-> e], LAMBDA e : Edges[e].check = c)])

VarSlots == Table([v \in 1 .. LdpcN |->
    SelectSeq([e \in DOMAIN Edges |-> e], LAMBDA e : Edges[e].var = v)])

-----------------------------------------------------------------------------
\* What a check keeps of its edges: the two smallest magnitudes, the first's
\* edge, and the product of the signs.
Scanned(q, slots) ==
    LET Scan(s, e) ==
            LET mag == Abs(q[e])
                signed == [s EXCEPT !.sign = IF q[e] < 0 THEN -@ ELSE @]
            IN  CASE mag < s.min1 -> [signed EXCEPT !.min1 = mag, !.min2 = s.min1, !.at = e]
                  [] mag >= s.min1 /\ mag < s.min2 -> [signed EXCEPT !.min2 = mag]
                  [] OTHER -> signed
    IN  FoldLeft(Scan, [min1 |-> Certain, min2 |-> Certain, at |-> 0, sign |-> 1], slots)

\* To an edge: the other edges' smallest magnitude, and their signs.
CheckMessage(q, e) ==
    LET s == Scanned(q, CheckSlots[Edges[e].check])
        magnitude == (3 * (IF e = s.at THEN s.min2 ELSE s.min1)) \div 4
    IN  (IF q[e] < 0 THEN -s.sign ELSE s.sign) * magnitude

\* channel and messages of a variable
VarTotal(mem, v) == FoldLeft(LAMBDA total, e : total + mem.r[e], mem.llr[v], VarSlots[v])

\* What thread t does in a phase.  The channel is read from global memory.
Thread(phase, channel, mem, t) ==
    CASE phase = "load" ->
            [mem EXCEPT !.llr = [v \in DOMAIN @ |-> IF Mine(t, v) THEN channel[v] ELSE @[v]]]
      [] phase = "init" ->
            [mem EXCEPT !.q = [e \in DOMAIN @ |->
                IF Mine(t, e) THEN mem.llr[Edges[e].var] ELSE @[e]]]
      [] phase = "check" ->
            [mem EXCEPT !.r = [e \in DOMAIN @ |->
                IF Mine(t, Edges[e].check) THEN CheckMessage(mem.q, e) ELSE @[e]]]
      [] phase = "var" ->
            [mem EXCEPT !.q = [e \in DOMAIN @ |->
                IF Mine(t, Edges[e].var) THEN VarTotal(mem, Edges[e].var) - mem.r[e] ELSE @[e]]]
      [] phase = "decide" ->
            [mem EXCEPT !.hard = [v \in DOMAIN @ |->
                IF Mine(t, v) THEN (IF VarTotal(mem, v) < 0 THEN 1 ELSE 0) ELSE @[v]]]

\* A stage is the phases between two barriers, run thread after thread: the
\* threads of one stage in any order.
Stage(phases, channel, mem, order) ==
    LET Whole(m, t) == FoldLeft(LAMBDA m2, phase : Thread(phase, channel, m2, t), m, phases)
        Kept(m) == [llr |-> Table(m.llr), q |-> Table(m.q), r |-> Table(m.r), hard |-> Table(m.hard)]
    IN  FoldLeft(LAMBDA m, t : Kept(Whole(m, t)), mem, order)

\* Mutant: no __syncthreads() between the two updates.
IterationUnsynced == << << "check", "var" >> >>

\* One iteration: the check update, a barrier, the variable update, a barrier.
Iteration == << << "check" >>, << "var" >> >>

Iterations == FlattenSeq([i \in 1 .. LdpcIterations |-> Iteration])

\* ldpc_min_sum_decode, and the variant that first loads the channel into the
\* block's shared memory.
GlobalKernel == << << "init" >> >> \o Iterations \o << << "decide" >> >>

SharedKernel == << << "load" >> >> \o GlobalKernel

\* The launch of a kernel on one codeword.  Its q and r are what the memory held.
Launch(kernel, channel, llr, order) ==
    FoldLeft(LAMBDA mem, phases : Stage(phases, channel, mem, order),
             [llr |-> llr, q |-> [e \in DOMAIN Edges |-> 0], r |-> [e \in DOMAIN Edges |-> 0],
              hard |-> [v \in 1 .. LdpcN |-> 0]],
             kernel).hard

ChannelLlrs(bits) == [v \in 1 .. LdpcN |-> (1 - 2 * bits[v]) * Unit]

\* Full codewords only, and whatever the decision: the syndrome is not checked.
CudaDecode(bits, order) ==
    IF Len(bits) /= LdpcN THEN Raises
    ELSE Returns(SubSeq(Launch(GlobalKernel, ChannelLlrs(bits), ChannelLlrs(bits), order), 1, LdpcK))

CudaDecodeShared(bits, order) ==
    IF Len(bits) /= LdpcN THEN Raises
    ELSE Returns(SubSeq(Launch(SharedKernel, ChannelLlrs(bits), Zeros(LdpcN), order), 1, LdpcK))
=============================================================================
