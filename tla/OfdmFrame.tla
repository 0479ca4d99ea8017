------------------------------ MODULE OfdmFrame ------------------------------
(***************************************************************************)
(* spectracuda.pipeline.ofdm, one frame in the frequency domain: what      *)
(* generate_frame puts on the subcarriers and how the receiver, once       *)
(* synchronised, gets the payload back with the codec the header names.    *)
(* Phases are quarter turns, so that the arithmetic on points is exact.    *)
(***************************************************************************)
EXTENDS Framing

(* ofdm/resource_grid.py: which bins of a symbol are null, pilot and data. *)

CONSTANTS FftSize, NData, NPilot, DcNull

Bins == 0 .. FftSize - 1

NGuard == FftSize - NData - NPilot - (IF DcNull THEN 1 ELSE 0)

\* What the constructor refuses.
ASSUME ResourceGridAssumption ==
    /\ FftSize \in Nat /\ FftSize >= 4
    /\ NData \in Nat \ {0} /\ NPilot \in Nat \ {0} /\ DcNull \in BOOLEAN
    /\ NGuard >= 0

\* The guard band, centred on the Nyquist bin, and the DC bin.
GuardLow == (FftSize \div 2) - (NGuard \div 2)

NullBins == (IF DcNull THEN {0} ELSE {}) \cup (GuardLow .. GuardLow + NGuard - 1)

Ascending(bins) ==
    [i \in 1 .. Cardinality(bins) |->
        CHOOSE bin \in bins : Cardinality({lower \in bins : lower < bin}) = i - 1]

Eligible == Ascending(Bins \ NullBins)

PilotBins == {Eligible[1 + SpreadPlace(i, Len(Eligible) - 1, NPilot)] : i \in 0 .. NPilot - 1}

Pilots == Ascending(PilotBins)

Data == Ascending(Bins \ (NullBins \cup PilotBins))

ExtractPilots(grid) == [p \in 1 .. NPilot |-> grid[Pilots[p]]]

ExtractData(grid) == [d \in 1 .. NData |-> grid[Data[d]]]

\* Null bins carry nothing.
Scatter(pilots, data) ==
    [bin \in Bins |->
        IF bin \in PilotBins THEN pilots[CHOOSE p \in DOMAIN pilots : Pilots[p] = bin]
        ELSE IF bin \in NullBins THEN << 0, 0 >>
        ELSE data[CHOOSE d \in DOMAIN data : Data[d] = bin]]
-----------------------------------------------------------------------------

CONSTANTS MaxPayloadSymbols,
          Filler(_),            \* bit i, from 1, of the fixed filler
          TrainingPoint(_)      \* the QPSK point of data subcarrier d in training

\* The points of the training symbol have power.
ASSUME TrainingAssumption ==
    \A d \in 1 .. NData : TrainingPoint(d) \in (Int \X Int) \ {<< 0, 0 >>}

Rotate(z, turns) ==
    CASE turns % 4 = 0 -> z
      [] turns % 4 = 1 -> << -z[2], z[1] >>
      [] turns % 4 = 2 -> << -z[1], -z[2] >>
      [] turns % 4 = 3 -> << z[2], -z[1] >>

CeilDiv(a, b) == (a + b - 1) \div b

PilotValues == [p \in 1 .. NPilot |-> << Fine, 0 >>]

TrainingGrid == Scatter(PilotValues, [d \in 1 .. NData |-> TrainingPoint(d)])

BitsPerOfdmSymbol(mod) == NData * BitsPerSymbol[mod]

-----------------------------------------------------------------------------
(* The header: its bits spread over whole BPSK symbols of its own.         *)

NumSymbolsHeader == CeilDiv(HeaderBits, NData)

HeaderSlots == NumSymbolsHeader * NData

\* Slot (from 1) of header bit i (from 1).
HeaderSlot == [i \in 1 .. HeaderBits |-> 1 + SpreadPlace(i - 1, HeaderSlots - 1, HeaderBits)]

Grids(points) ==
    [s \in 1 .. Len(points) \div NData |->
        Scatter(PilotValues, SubSeq(points, (s - 1) * NData + 1, s * NData))]

BuildHeaderSymbols(content) ==
    LET used == {HeaderSlot[i] : i \in 1 .. HeaderBits}
        flat == [slot \in 1 .. HeaderSlots |->
                    IF slot \in used THEN content[CHOOSE i \in 1 .. HeaderBits : HeaderSlot[i] = slot]
                    ELSE Filler(Cardinality((1 .. slot) \ used))]
    IN  Grids(Modulate("bpsk", flat))

-----------------------------------------------------------------------------
(* The transmitter.  A scheme is a Packetizer configuration with mod.      *)

\* The bits of the payload symbols, the last one filled up.
Filled(scheme, wire) ==
    LET size == BitsPerOfdmSymbol(scheme.mod)
        count == CeilDiv(Len(wire), size)
    IN  IF count > MaxPayloadSymbols THEN Raises
        ELSE Returns(wire \o [i \in 1 .. count * size - Len(wire) |-> Filler(i)])

FrameOf(scheme, content, wire) ==
    IF ~wire.ok \/ ~content.ok THEN Raises
    ELSE Returns([training |-> TrainingGrid,
                  header |-> BuildHeaderSymbols(content.val),
                  payload |-> Grids(Modulate(scheme.mod, wire.val))])

GenerateFrame(scheme, payload) ==
    FrameOf(scheme,
        EncodeHeader([len |-> Len(payload), mod |-> scheme.mod, crc |-> scheme.crc,
                      fec0 |-> scheme.fec, fec1 |-> scheme.fec1]),
        Then(PacketEncode(scheme, payload), LAMBDA wire : Filled(scheme, wire)))

\* Whether a stage can encode n bits: whole symbols only.
StageAccepts(scheme, n) ==
    scheme \in SymbolSchemes => (n % KBits(scheme)) % ByteBits = 0

\* Whether a payload of k bits gets through generate_frame, from its length alone.
FrameFits(scheme, k) ==
    LET keyed == k + KeyBits(scheme)
        inner == IF scheme.fec = "none" THEN keyed ELSE FecEncodedLength(scheme.fec, keyed)
    IN  /\ k <= MaxPayloadLen
        /\ WholeBytes(scheme, k)
        /\ StageAccepts(scheme.fec, keyed) /\ StageAccepts(scheme.fec1, inner)
        /\ scheme.il.kind /= "none" => AcceptsLength(scheme.il, inner)
        /\ CeilDiv(PacketEncodedLength(scheme, k), BitsPerOfdmSymbol(scheme.mod)) <= MaxPayloadSymbols

-----------------------------------------------------------------------------
(* The receiver.                                                           *)

\* The channel of each bin that carries something, from the training symbol.
ChannelEstimate(training) ==
    Table([bin \in Bins \ NullBins |->
        CHOOSE turns \in 0 .. 3 : Rotate(TrainingGrid[bin], turns) = training[bin]])

Equalize(grid, estimate) ==
    Table([bin \in Bins |->
        IF bin \in NullBins THEN grid[bin] ELSE Rotate(grid[bin], -estimate[bin])])

\* The common phase of a symbol, from its own pilots; none when they cancel.
CommonPhase(pilots) ==
    LET total == << SumOf([p \in DOMAIN pilots |-> pilots[p][1]]),
                    SumOf([p \in DOMAIN pilots |-> pilots[p][2]]) >>
    IN  IF total = << 0, 0 >> THEN 0
        ELSE CHOOSE turns \in 0 .. 3 : Rotate(total, -turns)[1] > 0 /\ Rotate(total, -turns)[2] = 0

\* The data points of one payload symbol.
PayloadPoints(grid, estimate) ==
    LET equalized == Equalize(grid, estimate)
        phase == CommonPhase(ExtractPilots(equalized))
        data == ExtractData(equalized)
    IN  [d \in 1 .. NData |-> Rotate(data[d], -phase)]

DecodeHeaderSymbols(header, estimate) ==
    LET flat == FlattenSeq([s \in DOMAIN header |->
                    Demodulate("bpsk", ExtractData(Equalize(header[s], estimate)))])
    IN  DecodeHeader([i \in 1 .. HeaderBits |-> flat[HeaderSlot[i]]])

\* Mutant: the memo forgets which key a codec was made with.
CodecKeyWithoutCrc(h) == << h.mod, h.fec0, h.fec1 >>

\* What the single-entry memo of the receiver is looked up by.
CodecKey(h) == << h.mod, h.crc, h.fec0, h.fec1 >>

NoCodec == [key |-> <<>>]

\* The codec for a header: the kept one, or a new one with this receiver's own
\* interleaver.  own: the receiver's scheme; strict: its strict_fec_check.
ResolveCodec(own, strict, cache, h) ==
    LET scheme == [mod |-> h.mod, crc |-> h.crc, fec |-> h.fec0, fec1 |-> h.fec1, il |-> own.il]
    IN  IF strict /\ << h.fec0, h.fec1 >> /= << own.fec, own.fec1 >> THEN Raises
        ELSE IF cache.key = CodecKey(h) THEN Returns(cache)
        ELSE IF PacketizerAccepts(scheme) THEN Returns([key |-> CodecKey(h), scheme |-> scheme])
        ELSE Raises

\* How many payload symbols a decoded header announces.
AnnouncedLength(codec, h) ==
    IF ~WholeBytes(codec.scheme, h.len) THEN Raises
    ELSE LET count == PacketEncodedLength(codec.scheme, h.len)
             symbols == CeilDiv(count, BitsPerOfdmSymbol(codec.scheme.mod))
         IN  IF symbols > MaxPayloadSymbols THEN Raises
             ELSE Returns([bits |-> count, symbols |-> symbols])

\* The payload symbols to bits, the filler dropped, decoded.
DecodePayload(codec, announced, payload, estimate) ==
    LET points == FlattenSeq([s \in 1 .. announced.symbols |-> PayloadPoints(payload[s], estimate)])
    IN  IF announced.symbols > Len(payload) THEN Raises
        ELSE PacketDecode(codec.scheme,
                SubSeq(Demodulate(codec.scheme.mod, points), 1, announced.bits))

\* The payload of a frame with a codec found for its header.
RxPayload(codec, h, payload, estimate) ==
    Then(AnnouncedLength(codec, h), LAMBDA a : DecodePayload(codec, a, payload, estimate))

\* The result of a frame, and the memo it leaves behind.
RxWith(codec, cache, h, payload, estimate) ==
    [cache |-> IF codec.ok THEN codec.val ELSE cache,
     result |-> Then(codec, LAMBDA c : RxPayload(c, h, payload, estimate))]

RxHeader(own, strict, cache, header, payload, estimate) ==
    IF ~header.ok THEN [cache |-> cache, result |-> Raises]
    ELSE RxWith(ResolveCodec(own, strict, cache, header.val), cache, header.val, payload, estimate)

RxEstimated(own, strict, cache, air, estimate) ==
    RxHeader(own, strict, cache, DecodeHeaderSymbols(air.header, estimate), air.payload, estimate)

\* One received frame.
RxProcess(own, strict, cache, air) ==
    RxEstimated(own, strict, cache, air, ChannelEstimate(air.training))
=============================================================================
