----------------------------- MODULE NativeFec -----------------------------
(***************************************************************************)
(* The compiled stand-ins for the array code of the codecs: the classes of *)
(* fec/_native.py around libcorrect, whose convolutional coder is below,   *)
(* and the jitted kernels.  libcorrect works in bytes, and hands back the  *)
(* whole ones it has.                                                      *)
(***************************************************************************)
EXTENDS Fec, LdpcKernel

CONSTANT DecodePadPairs     \* pairs of zeros appended to what is decoded, 24

\* correct_convolutional_encode: order + 1 zeros flush the register.
LibEncode(bytes) ==
    LET bits == BytesToBits(bytes) \o Zeros(ConstraintLength + 1)
        At(t) == IF t \in DOMAIN bits THEN bits[t] ELSE 0
        reg(t) == ToNat({i \in 0 .. TailBits : At(t - i) = 1})
    IN  FlattenSeq([t \in DOMAIN bits |-> OutputTable[reg(t)]])

\* correct_convolutional_decode.
\*   - warmup: a state has one path yet; the swap of the error buffers forgets
\*     the first pair;
\*   - inner: of equal paths the one from the low state survives;
\*   - tail: only zeros enter, so ever fewer states are left; of equal paths the
\*     one from the high state survives;
\*   - a history of Cap steps is traced back from the best state, and all but
\*     its last MinTraceback steps are written.
MinTraceback == 5 * ConstraintLength
Cap == MinTraceback + 15 * ConstraintLength

\* The bits that left the register along the path back from `state`.
TraceBack(history, state) ==
    LET Back(acc, i) ==
            LET high == acc.state \in history[Len(history) + 1 - i]
            IN  [state |-> Predecessors(acc.state)[IF high THEN 2 ELSE 1],
                 out |-> << IF high THEN 1 ELSE 0 >> \o acc.out]
    IN  FoldLeft(Back, [state |-> state, out |-> <<>>], [i \in DOMAIN history |-> i]).out

LibDecode(bits) ==
    LET T == Len(bits) \div 2
        Distance(register, t) ==
            LET out == OutputTable[register]
            IN  (IF out[1] /= bits[2 * t - 1] THEN 1 ELSE 0) + (IF out[2] /= bits[2 * t] THEN 1 ELSE 0)
        warm == Table([s \in States |->
            FoldLeft(LAMBDA e, t : e + Distance(s \div 2 ^ (TailBits - t), t), 0,
                     [i \in 1 .. TailBits - 1 |-> i + 1])])
        Live(t) == LET flushed == t - (T - TailBits)
                   IN  {s \in States : flushed > 0 => s % 2 ^ flushed = 0}
        Cost(errors, s, t) ==
            [i \in 1 .. 2 |-> LET pred == Predecessors(s)[i]
                              IN  errors[pred] + Distance(Register(pred, s % 2), t)]
        HighWins(cost, t) == IF t <= T - TailBits THEN cost[2] < cost[1] ELSE cost[2] <= cost[1]
        Best(errors, t) ==
            CHOOSE s \in Live(t) : \A u \in Live(t) :
                errors[s] < errors[u] \/ (errors[s] = errors[u] /\ s <= u)
        Step(st, t) ==
            LET cost == Table([s \in Live(t) |-> Cost(st.errors, s, t)])
                high == {s \in Live(t) : HighWins(cost[s], t)}
                errors == Table([s \in States |-> IF s \notin Live(t) THEN 0
                                 ELSE cost[s][IF s \in high THEN 2 ELSE 1]])
                history == Append(st.history, high)
            IN  IF Len(history) < Cap
                THEN [errors |-> errors, history |-> history, out |-> st.out]
                ELSE [errors |-> errors, history |-> SubSeq(history, Cap - MinTraceback + 1, Cap),
                      out |-> st.out \o SubSeq(TraceBack(history, Best(errors, t)), 1, Cap - MinTraceback)]
        final == FoldLeft(Step, [errors |-> warm, history |-> <<>>, out |-> <<>>],
                          [i \in 1 .. T - TailBits |-> TailBits + i])
        written == final.out \o TraceBack(final.history, 0)
    IN  SubSeq(written, 1, (Len(written) \div ByteBits) * ByteBits)

-----------------------------------------------------------------------------
\* Drop-ins for ConvolutionalCode (four classes, one text).
NativeEncode(bits) ==
    SubSeq(LibEncode(BitsToBytes(bits \o Zeros(TailBits))), 1, 2 * (Len(bits) + TailBits))

\* numpy's [:k]
UpTo(seq, k) == SubSeq(seq, 1, Min({k, Len(seq)}))

NativeDecode(bits) ==
    UpTo(LibDecode(bits \o Zeros(2 * DecodePadPairs)), Len(bits) \div 2 - TailBits)

\* LibcorrectConvolutional of the examples, without the padding.
UnpaddedDecode(bits) == UpTo(LibDecode(bits), Len(bits) \div 2 - TailBits)

\* The jitted decoder: a survivor by step and state, read back as it goes.
JitConvDecode(bits) ==
    LET T == Len(bits) \div 2
        Lowest(metric, t) ==
            [state \in States |->
                LET Through(pred) == metric[pred] + BranchMetric(pred, state, bits[2 * t - 1], bits[2 * t])
                    pa == Predecessors(state)[1]
                    pb == Predecessors(state)[2]
                IN  IF Through(pb) < Through(pa) THEN << Through(pb), pb >> ELSE << Through(pa), pa >>]
        Forward(st, best) ==
            [metric |-> [state \in States |-> best[state][1]],
             survivor |-> Append(st.survivor, [state \in States |-> best[state][2]])]
        survivor ==
            FoldLeft(LAMBDA st, t : Forward(st, Table(Lowest(st.metric, t))),
                     [metric |-> [state \in States |-> IF state = 0 THEN 0 ELSE Unreachable],
                      survivor |-> <<>>],
                     [t \in 1 .. T |-> t]).survivor
        Back(acc, from) == [state |-> from[acc.state], out |-> << acc.state % 2 >> \o acc.out]
    IN  SubSeq(FoldLeft(Back, [state |-> 0, out |-> <<>>], Reverse(survivor)).out, 1, T - TailBits)

\* The jitted key: the key is cut to the register at each step.
JitKey(scheme, msg) ==
    LET Step(key, b) == Xor(ShiftRight(key, ByteBits),
                            CrcTable[scheme][Xor(key, b) \cap (0 .. ByteBits - 1)]) \cap RegMask
    IN  ((RegMask \ FoldLeft(Step, RegMask, msg)) \cap RegMask) \cap WidthMask(scheme)

\* The jitted Reed-Solomon decoder: a status for the exceptions; what is found
\* beyond NRoots locations is counted and not kept.
Message(status, symbols) == [status |-> status, val |-> SubSeq(symbols, 1, RsK)]

JitMended(codeword, kept, solved) ==
    IF ~solved.ok THEN Message(2, codeword)
    ELSE Message(0, FoldLeft(LAMBDA acc, l : [acc EXCEPT ![RsN - kept[l]] = Xor(@, solved.val[l])],
                             codeword, [l \in DOMAIN kept |-> l]))

JitKept(codeword, synd, kept) == JitMended(codeword, kept, ErrorMagnitudes(synd, kept))

JitFound(codeword, synd, degree, found) ==
    IF Len(found) /= degree THEN Message(1, codeword)
    ELSE JitKept(codeword, synd, SubSeq(found, 1, Min({degree, NRoots})))

JitLocated(codeword, synd, locator) ==
    JitFound(codeword, synd, locator.degree, ChienSearch(locator.lambda))

JitRsDecodeOne(codeword, synd) ==
    IF \A i \in DOMAIN synd : synd[i] = {} THEN Message(0, codeword)
    ELSE JitLocated(codeword, synd, BerlekampMassey(synd))

\* Blocks of one length: each is padded, all are decoded, one failure fails all.
JitRsDecode(codewords) ==
    LET realK == Len(codewords[1]) - NRoots
        Full(word) == ZeroSymbols(RsK - realK) \o word
        Cut(result) == IF result.status /= 0 THEN Raises
                       ELSE Returns(SubSeq(result.val, RsK - realK + 1, RsK))
        One(word) == Cut(JitRsDecodeOne(word, Syndromes(word)))
    IN  IF realK \notin 1 .. RsK THEN Raises
        ELSE Join([b \in DOMAIN codewords |-> One(Full(codewords[b]))])

\* libcorrect's coder behind the same padding, one call for all blocks: a count of
\* bytes written, none for a block it gives up.
LibRsEncode(msg) == msg \o RsParity(msg)

Written(decoded) == [written |-> IF decoded.ok THEN RsK ELSE 0, msg |-> decoded.val]

LibRsDecode(codeword) == Written(RsDecodeFull(codeword))

NativeRsEncode(msgs) ==
    [b \in DOMAIN msgs |->
        msgs[b] \o SubSeq(LibRsEncode(ZeroSymbols(RsK - Len(msgs[b])) \o msgs[b]), RsK + 1, RsN)]

NativeRsMessages(results, realK) ==
    IF \E b \in DOMAIN results : results[b].written <= 0 THEN Raises
    ELSE Returns(FlattenSeq([b \in DOMAIN results |->
                    SubSeq(results[b].msg, RsK - realK + 1, RsK)]))

NativeRsDecode(codewords) ==
    LET realK == Len(codewords[1]) - NRoots
    IN  NativeRsMessages([b \in DOMAIN codewords |->
                            LibRsDecode(ZeroSymbols(RsK - realK) \o codewords[b])],
                         realK)
=============================================================================
