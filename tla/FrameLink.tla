------------------------------ MODULE FrameLink ------------------------------
(***************************************************************************)
(* One Ofdm object transmitting frames to another over a channel that      *)
(* damages them: bits to subcarriers and back through the key, the codes,  *)
(* the interleaver, the modem and the header, with the receiver's memo of  *)
(* the last codec living from frame to frame.                              *)
(***************************************************************************)
EXTENDS OfdmFrame, NativeFec

CONSTANTS Links,        \* records: own, the receiver's scheme; strict; schemes sent
          Payloads,     \* the payloads to send
          Noises,       \* what is added to one point
          BurstReach,   \* wire bits in a row two codes and an interleaver correct
          ConvWindow,   \* how far apart damage must be to count as separate
          KeyReach,     \* wire bits in a row each key detects
          MaxRun,       \* bound: adjacent subcarriers interfered with
          Delays,       \* quarter turns per bin of the channel
          MaxFrames     \* bound: frames of a behaviour; only the first is damaged

\* The channel turns by whole quarters, and the packetizer knows the keys.
ASSUME FrameLinkAssumption ==
    /\ Delays \subseteq Int
    /\ \A l \in Links : \A scheme \in l.schemes : scheme.crc \in DOMAIN CrcCodes

VARIABLES link,     \* the configuration of both ends
          sent,     \* the last frame: scheme, payload, and what generate_frame returned
          air,      \* the frame on the air
          damage,   \* wire bits that arrive wrong, from 1, but for the phase corrections
          fault,    \* what happened to the frame
          cache,    \* Ofdm._rx_payload_codec_cache of the receiver
          got,      \* what the receiver made of the last frame
          frames    \* frames sent

frameVars == << link, sent, air, damage, fault, cache, got, frames >>

Nothing == [ok |-> FALSE, val |-> <<>>]

FrameInit ==
    /\ link \in Links
    /\ sent = [scheme |-> link.own, payload |-> <<>>, frame |-> Nothing]
    /\ air = Nothing /\ damage = {} /\ fault = "none"
    /\ cache = NoCodec /\ got = Nothing /\ frames = 0

\* Through a channel of some delay, onto the air.
Through(frame, delay) ==
    LET Turned(grid) == [bin \in Bins |-> Rotate(grid[bin], delay * bin)]
    IN  [training |-> Turned(frame.training),
         header |-> [s \in DOMAIN frame.header |-> Turned(frame.header[s])],
         payload |-> [s \in DOMAIN frame.payload |-> Turned(frame.payload[s])]]

Transmit(scheme, payload, delay) ==
    /\ air = Nothing /\ frames < MaxFrames
    /\ scheme \in link.schemes
    /\ sent' = [scheme |-> scheme, payload |-> payload, frame |-> GenerateFrame(scheme, payload)]
    /\ air' = IF sent'.frame.ok THEN Returns(Through(sent'.frame.val, delay)) ELSE Nothing
    /\ damage' = {} /\ fault' = "none" /\ got' = Nothing /\ frames' = frames + 1
    /\ UNCHANGED << link, cache >>

-----------------------------------------------------------------------------
(* What happens on the air.                                                *)

OnAir == IF air.ok THEN DOMAIN air.val.payload ELSE {}

Undamaged == air.ok /\ fault = "none" /\ frames = 1

\* The wire bits of a run of subcarriers that a change of their points alters.
Altered(s, run, Change(_)) ==
    LET mod == sent.scheme.mod
        bps == BitsPerSymbol[mod]
        old(d) == sent.frame.val.payload[s][Data[d]]
        place(d, b) == (s - 1) * BitsPerOfdmSymbol(mod) + (d - 1) * bps + b
    IN  UNION {{place(d, b) : b \in {b \in 1 .. bps :
            HardDecision(mod, old(d))[b] /= HardDecision(mod, Change(old(d)))[b]}} : d \in run}

\* A change of the points of a run, through the channel of that bin.
Changed(s, bins, Change(_)) ==
    [air EXCEPT !.val.payload[s] =
        [bin \in Bins |->
            IF bin \in bins
            THEN LET turns == CHOOSE q \in 0 .. 3 :
                                Rotate(TrainingGrid[bin], q) = air.val.training[bin]
                 IN  Rotate(Change(Rotate(@[bin], -turns)), turns)
            ELSE @[bin]]]

\* Interference turns the points of adjacent subcarriers of one symbol.
Interfere(s, first, width, turns) ==
    LET run == first .. first + width - 1
        Change(z) == Rotate(z, turns)
    IN  /\ Undamaged /\ run \subseteq 1 .. NData
        /\ air' = Changed(s, {Data[d] : d \in run}, Change)
        /\ damage' = Altered(s, run, Change)
        /\ fault' = "interference"
        /\ UNCHANGED << link, sent, cache, got, frames >>

\* Noise moves one point along one axis.
Noise(s, d, offset) ==
    LET Change(z) == << z[1] + offset[1], z[2] + offset[2] >>
    IN  /\ Undamaged
        /\ air' = Changed(s, {Data[d]}, Change)
        /\ damage' = Altered(s, {d}, Change)
        /\ fault' = "noise"
        /\ UNCHANGED << link, sent, cache, got, frames >>

\* A subcarrier is lost in every payload symbol.
Fade(d) ==
    LET Erase(z) == << 0, 0 >>
        symbols == OnAir
    IN  /\ Undamaged
        /\ air' = [air EXCEPT !.val.payload =
                    [s \in symbols |-> [@[s] EXCEPT ![Data[d]] = << 0, 0 >>]]]
        /\ damage' = UNION {Altered(s, {d}, Erase) : s \in symbols}
        /\ fault' = "fade"
        /\ UNCHANGED << link, sent, cache, got, frames >>

\* The phase jumps at a symbol and stays; `lost` pilots of that symbol are lost.
Jump(from, turns, lost) ==
    /\ Undamaged /\ lost /= 1 .. NPilot
    /\ air' = [air EXCEPT !.val.payload =
                [s \in DOMAIN @ |->
                    [bin \in Bins |->
                        IF s = from /\ bin \in {Pilots[p] : p \in lost} THEN << 0, 0 >>
                        ELSE Rotate(@[s][bin], IF s >= from THEN turns ELSE 0)]]]
    /\ fault' = "phase"
    /\ UNCHANGED << link, sent, damage, cache, got, frames >>

\* One header bit arrives turned over.
HeaderError(i) ==
    LET slot == HeaderSlot[i]
        s == 1 + (slot - 1) \div NData
        bin == Data[1 + ((slot - 1) % NData)]
    IN  /\ Undamaged
        /\ air' = [air EXCEPT !.val.header[s][bin] = Rotate(@, 2)]
        /\ fault' = "header"
        /\ UNCHANGED << link, sent, damage, cache, got, frames >>

\* The samples end before the frame does.
Truncate ==
    /\ Undamaged
    /\ air' = [air EXCEPT !.val.payload = Front(@)]
    /\ fault' = "cut"
    /\ UNCHANGED << link, sent, damage, cache, got, frames >>

-----------------------------------------------------------------------------
Accept(rx) == cache' = rx.cache /\ got' = rx.result

Receive ==
    /\ air.ok
    /\ Accept(RxProcess(link.own, link.strict, cache, air.val))
    /\ air' = Nothing
    /\ UNCHANGED << link, sent, damage, fault, frames >>

FrameNext ==
    \/ \E scheme \in link.schemes, payload \in Payloads, delay \in Delays :
            Transmit(scheme, payload, delay)
    \/ \E s \in OnAir : \E d \in 1 .. NData :
            \/ \E width \in 1 .. MaxRun, turns \in 1 .. 3 : Interfere(s, d, width, turns)
            \/ \E offset \in Noises : Noise(s, d, offset)
    \/ \E d \in 1 .. NData : Fade(d)
    \/ \E s \in OnAir, turns \in 1 .. 3, lost \in SUBSET (1 .. NPilot) :
            Jump(s, turns, lost)
    \/ \E i \in 1 .. 49 : HeaderError(i)
    \/ Truncate
    \/ Receive

FrameSpec == FrameInit /\ [][FrameNext]_frameVars

-----------------------------------------------------------------------------
(* What the codes guarantee about damaged wire bits.                       *)

\* No block of n bits has more than `limit` damaged units of `unit` bits.
FewPerBlock(wrong, n, unit, limit) ==
    \A p \in wrong :
        Cardinality({(q - 1) \div unit :
            q \in {q \in wrong : (q - 1) \div n = (p - 1) \div n}}) <= limit

\* No more than two damaged bits this close: the free distance of the code is 5.
FewNearby(wrong) == \A p \in wrong : Cardinality(wrong \cap (p .. p + ConvWindow - 1)) <= 2

Burst(wrong) == IF wrong = {} THEN 0 ELSE 1 + Max(wrong) - Min(wrong)

Correctable(scheme, wrong) ==
    IF scheme.fec1 /= "none" THEN Burst(wrong) <= BurstReach
    ELSE CASE scheme.fec = "none" -> wrong = {}
           [] scheme.fec = "conv_v27" -> FewNearby(wrong)
           [] scheme.fec \in SymbolSchemes ->
                FewPerBlock(wrong, NBits(scheme.fec), ByteBits, NRoots \div 2)
           [] scheme.fec \in BlockSchemes -> FewPerBlock(wrong, NBits(scheme.fec), 1, 1)

\* The damaged bits that are not filler.
Wrong == damage \cap (1 .. PacketEncodedLength(sent.scheme, Len(sent.payload)))

Received == sent.frame.ok /\ frames > 0 /\ ~air.ok

Foreign == link.strict /\ << sent.scheme.fec, sent.scheme.fec1 >> /= << link.own.fec, link.own.fec1 >>

-----------------------------------------------------------------------------
(* What must hold.                                                         *)

\* A frame whose header arrives and whose damage the codes it was sent with can
\* correct comes out as the payload that went in, whatever was sent before it:
\* lengths, filler, interleaver, memo and phase correction all have to agree
\* (Ofdm.generate_frame and rx_process, Packetizer, FEC, ResourceGrid, Modem).
CorrectedWithinReach ==
    Received /\ fault \notin {"header", "cut"} /\ ~Foreign /\ Correctable(sent.scheme, Wrong)
        => /\ got.ok
           /\ got.val.bits = sent.payload
           /\ got.val.crc = IF sent.scheme.crc = "none" THEN "unchecked" ELSE "valid"

\* Damage no longer than a key detects is never taken for a valid payload of a
\* frame without FEC (CRC.check_key; the order of bits, bytes and key matters).
DamageNoticed ==
    Received /\ fault \notin {"header", "cut"} /\ ~Foreign
            /\ sent.scheme.fec = "none" /\ sent.scheme.fec1 = "none"
            /\ Burst(Wrong) \in 1 .. KeyReach[sent.scheme.crc]
        => got.ok /\ got.val.crc = "invalid"

\* The keys whose code in the header one wrong bit turns into that of no key.
NearNone ==
    {crc \in DOMAIN CrcCodes : \E a \in CrcCodes[crc], b \in CrcCodes["none"] :
        Cardinality(Xor(FromNat(a, 3), FromNat(b, 3))) = 1}

\* A frame sent with a key is never handed over as one without, for the MAC takes
\* crc_valid = None for an accepted frame (mac.py, _apply_rx_result); unless the
\* header, which has no check, is wrong in the one bit that tells crc8 or crc24
\* from none.
UncheckedOnlyAsSent ==
    Received /\ got.ok /\ got.val.crc = "unchecked" =>
        sent.scheme.crc \in {"none"} \cup (IF fault = "header" THEN NearNone ELSE {})

\* What the compiled codecs make of a payload, and of its codeword with a few
\* errors, is what the array codecs make of it.
Flipped(word, wrong) == [i \in DOMAIN word |-> IF i \in wrong THEN 1 - word[i] ELSE word[i]]

CompiledConv(payload, word) ==
    /\ NativeEncode(payload) = word
    /\ \A i, j \in DOMAIN word :
            LET bits == Flipped(word, {i, j})
            IN  /\ i = j => NativeDecode(bits) = payload
                /\ i < j => JitConvDecode(bits) = ConvDecode(bits)

BatchesAgree(words) ==
    {JitRsDecode(words), NativeRsDecode(words)}
        = {Join([w \in DOMAIN words |-> RsDecode(words[w])])}

CompiledRs(msg, word) ==
    LET Garbled(wrong) == [i \in DOMAIN word |-> IF i \in wrong THEN Xor(word[i], {0}) ELSE word[i]]
    IN  /\ NativeRsEncode(<< msg >>) = << word >>
        /\ \A i, j \in DOMAIN word : i <= j => BatchesAgree(<< word, Garbled({1, i, j}) >>)

\* Whatever arrives, the order of the threads and the memory they use is no matter.
CudaAgrees(bits, decided, threads, correctable) ==
    /\ decided = CudaDecodeShared(bits, Reverse(threads))
    /\ correctable => decided = LdpcDecode(bits)

CompiledLdpc(word, threads) ==
    \A i \in DOMAIN word : \A j \in DOMAIN word \cap (i .. i + 3) :
        LET bits == Flipped(word, {i, j})
        IN  CudaAgrees(bits, CudaDecode(bits, threads), threads, i = j)

\* The jitted, compiled and CUDA kernels do what the code they stand in for does,
\* up to the errors every decoder is to correct: the encoder, the hard decision
\* with its power sums, the key, libcorrect's decoder behind its padding, the
\* batch decoder of Reed-Solomon, and the threads of a block in either order.
KernelsAgree ==
    /\ JitEncode(sent.payload) = ConvEncode(sent.payload)
    /\ \A s \in OnAir :
            LET points == ExtractData(air.val.payload[s])
            IN  JitHardDecision(sent.scheme.mod, points) = DemodulateStats(sent.scheme.mod, points)
    /\ sent.scheme.crc \in DOMAIN PolyOrig =>
            LET bytes == BitsToBytes(sent.payload)
            IN  JitKey(sent.scheme.crc, bytes) = TableKey(sent.scheme.crc, bytes)
    /\ Undamaged => CASE sent.scheme.fec = "conv_v27" ->
                            CompiledConv(sent.payload, ConvEncode(sent.payload))
                      [] sent.scheme.fec = "rs_m8" ->
                            CompiledRs(BitsToBytes(sent.payload), RsEncode(BitsToBytes(sent.payload)).val)
                      [] sent.scheme.fec = "ldpc" ->
                            CompiledLdpc(LdpcEncode(Zeros(LdpcK - Len(sent.payload)) \o sent.payload).val,
                                         [t \in 1 .. BlockSize |-> t - 1])
                      [] OTHER -> TRUE
=============================================================================
