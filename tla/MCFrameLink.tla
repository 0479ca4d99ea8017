----------------------------- MODULE MCFrameLink -----------------------------
(***************************************************************************)
(* A small FrameLink: 3-bit bytes, RS(7, 3) over GF(8), a convolutional    *)
(* code of constraint length 3, an 18-bit LDPC code, 16 subcarriers.       *)
(***************************************************************************)
EXTENDS FrameLink

MCKeyBytes == [none |-> 0, checksum |-> 1, crc8 |-> 1, crc16 |-> 2, crc24 |-> 3, crc32 |-> 4]
MCPolyOrig == [crc8 |-> {1, 0}, crc16 |-> {1, 0}, crc24 |-> {4, 1, 0}, crc32 |-> {6, 4, 1, 0}]
MCGfPoly == {3, 1, 0}
MCG1 == {0, 1, 2}
MCG2 == {0, 2}
MCLdpcBase == << << 0, 1, 1, 1, 0, -1 >>, << 2, 2, -1, 0, 0, 0 >>, << 2, 0, 2, 1, -1, 0 >> >>
MCScrambleMask == {i \in 1 .. 112 : (i * i) % 7 \in {1, 2}}
MCFiller(i) == (i * i) % 3
MCTrainingPoint(d) == Rotate(<< Fine, Fine >>, d * d)
MCSeededPermutation(seed, n) == [p \in 1 .. n |-> n - p]

NoInterleaver == [kind |-> "none", unit |-> 1]
ByteLines == [kind |-> "convolutional", unit |-> 3, branches |-> 3, delay |-> 1]
ByteBlock == [kind |-> "block", unit |-> 3, rows |-> 0]

Scheme(mod, crc, fec, fec1, il) ==
    [mod |-> mod, crc |-> crc, fec |-> fec, fec1 |-> fec1, il |-> il]
Plain(mod, crc, fec) == Scheme(mod, crc, fec, "none", NoInterleaver)

\* Two ends that only agree on the grid; two that agree on the codes; two with an
\* interleaver between two codes.
OpenSchemes == {Plain("bpsk", "crc16", "conv_v27"), Plain("qpsk", "none", "none"),
                Plain("qpsk", "crc16", "none"), Plain("qpsk", "checksum", "rs_m8"),
                Plain("qam16", "crc32", "conv_v27"), Plain("qpsk", "crc16", "ldpc")}
Open == [own |-> Plain("qpsk", "crc16", "none"), strict |-> FALSE, schemes |-> OpenSchemes]
Strict == [own |-> Plain("qpsk", "crc16", "conv_v27"), strict |-> TRUE,
           schemes |-> {Plain("qpsk", "crc16", "conv_v27"), Plain("qam16", "crc24", "conv_v27"),
                        Plain("qpsk", "crc16", "none")}]
Spread(il) == [own |-> Scheme("qpsk", "crc16", "rs_m8", "conv_v27", il), strict |-> FALSE,
               schemes |-> {Scheme("qpsk", "crc16", "rs_m8", "conv_v27", il)}]
MCLinks == {Open, Strict, Spread(ByteLines), Spread(ByteBlock)}

MCPayloads == {<< 1, 0, 1 >>, << 0, 1, 1, 0, 1, 0 >>, << 1, 0, 1, 1 >>}
\* What generate_frame makes of a length is what FrameFits says of it.
ASSUME LengthsDecide ==
    \A l \in MCLinks, k \in 1 .. 40 : \A scheme \in l.schemes :
        FrameFits(scheme, k) = GenerateFrame(scheme, [i \in 1 .. k |-> i % 2]).ok

\* decoded_length is the inverse of encoded_length, and takes what that makes.
ASSUME LengthsInvert ==
    \A scheme \in FecSchemes, k \in 1 .. 40 :
        LET n == FecEncodedLength(scheme, k)
        IN  /\ FecDecodedLength(scheme, n) = k
            /\ scheme = "conv_v27" => StreamDecodable(n, TailBits)

\* What a constructor and a codec make of a table of the program itself: its parity
\* columns are independent, what is encoded satisfies every check, and one iteration
\* corrects a bit turned over in a shortened block.
Wlan == INSTANCE Ldpc WITH LdpcBase <- Ldpc648r56, LdpcZ <- 27, LdpcIterations <- 1

ASSUME TableUsable ==
    LET k == 100
        bits == Table([i \in 1 .. k |-> (i * i) % 3])
        word == Table(Wlan!LdpcEncode(bits).val)
        ones == {Wlan!LdpcK - k + i : i \in {i \in DOMAIN word : word[i] = 1}}
    IN  /\ Wlan!ParityInverse /= <<>>
        /\ \A check \in 1 .. Wlan!LdpcChecks : Parity(Wlan!CheckVars[check] \cap ones) = 0
        /\ Wlan!LdpcDecode(Flip(word, {3})) = Returns(bits)

\* Without the padding libcorrect withholds the end of a message, and nothing else.
ASSUME UnpaddedWithholds ==
    \A msg \in [1 .. 7 -> 0 .. 1] :
        LET word == ConvEncode(msg)
            short == UnpaddedDecode(word)
        IN  /\ Len(short) < Len(msg)
            /\ short = SubSeq(NativeDecode(word), 1, Len(short))

MCNoises == {<< 5, 0 >>, << 0, -5 >>}
MCKeyReach == [none |-> 0, checksum |-> 1, crc8 |-> 2, crc16 |-> 4, crc24 |-> 4, crc32 |-> 4]
=============================================================================
