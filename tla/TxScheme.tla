------------------------------ MODULE TxScheme ------------------------------
(***************************************************************************)
(* The sending side of spectracuda.mac.mac.Mac over an Ofdm whose scheme   *)
(* changes: send_iq, a retransmission by the caller, set_tx_scheme, and    *)
(* the bind handshake that compares capacities.  A PDU is its length.      *)
(*                                                                         *)
(* In front of it spectracuda.mac.capacity: how many bits of an SDU fit    *)
(* into one frame, by bisection on Packetizer.encoded_length.              *)
(***************************************************************************)
EXTENDS OfdmFrame

CONSTANT MacHeaderBits      \* HEADER_LEN_BITS of mac/pdu.py

Limit(scheme) == MaxPayloadSymbols * BitsPerOfdmSymbol(scheme.mod)

Fits(scheme, n) == WholeBytes(scheme, n) /\ PacketEncodedLength(scheme, n) <= Limit(scheme)

\* The variables of the search's loop.
Searches == [lo : Nat, hi : Int, best : Nat]

Middle(search) == ((search.lo + search.hi) \div (2 * ByteBits)) * ByteBits

Over(search) == search.lo > search.hi \/ Middle(search) < ByteBits

\* One turn of the loop.
Halved(scheme, search) ==
    IF Fits(scheme, Middle(search))
    THEN [search EXCEPT !.lo = Middle(search) + ByteBits, !.best = Middle(search)]
    ELSE [search EXCEPT !.hi = Middle(search) - ByteBits]

WholeRange(scheme) == [lo |-> ByteBits, hi |-> Limit(scheme), best |-> ByteBits]

\* Mutant: the bisection stops when one candidate is left.
LargestFittingEarly(scheme) ==
    LET bisect[search \in Searches] ==
            IF search.lo >= search.hi \/ Middle(search) < ByteBits THEN search.best
            ELSE bisect[Halved(scheme, search)]
    IN  bisect[WholeRange(scheme)]

\* Every FEC scheme there is takes a shortened block, so this is the search made.
LargestFitting(scheme) ==
    LET bisect[search \in Searches] ==
            IF Over(search) THEN search.best ELSE bisect[Halved(scheme, search)]
    IN  bisect[WholeRange(scheme)]

MaxSegmentBits(scheme, hasHeader) ==
    IF hasHeader THEN Max({ByteBits, LargestFitting(scheme) - MacHeaderBits})
    ELSE LargestFitting(scheme)
-----------------------------------------------------------------------------

CONSTANTS Schemes,      \* schemes a Mac is built with
          Modems, Fecs, \* what set_tx_scheme is called with; <<fec, fec1>>
          SduSizes,     \* lengths of the SDUs sent
          PeerLimits,   \* max_segment_bits of the peers a Mac may bind to
          MaxBuffered,  \* bound: different lengths in the buffer when an SDU is sent
          SoLimit       \* the first offset the header's SO field cannot hold

FecNames == {"none"} \cup FecSchemes

\* What the constructors of Mac and Ofdm take.
ASSUME TxAssumption ==
    /\ MacHeaderBits \in Nat /\ MacHeaderBits % ByteBits = 0 /\ MaxPayloadSymbols \in Nat
    /\ \A scheme \in Schemes :
        /\ scheme \in [mod : DOMAIN BitsPerSymbol, crc : DOMAIN KeyBytes,
                       fec : FecNames, fec1 : FecNames, il : {scheme.il}]
        /\ PacketizerAccepts(scheme) /\ scheme.il.unit \in Nat \ {0}
    /\ Modems \subseteq DOMAIN BitsPerSymbol /\ Fecs \subseteq FecNames \X FecNames
    /\ SduSizes \subseteq Nat \ {0}

VARIABLES mode,         \* "tm", "um" or "am"
          ofdm,         \* the scheme generate_frame uses
          maxSegment,   \* Mac.max_segment_bits
          segmenter,    \* max_segment_bits of the entity's segmenter
          bound,
          retx,         \* lengths of the PDUs AmEntity keeps for retransmission
          rejected,     \* a set_tx_scheme has raised
          last          \* the last operation, and whether it returned

txVars == << mode, ofdm, maxSegment, segmenter, bound, retx, rejected, last >>

HasHeader == mode /= "tm"

PduBits(chunk) == IF HasHeader THEN chunk + MacHeaderBits ELSE chunk

\* Lengths of the segments of an SDU: full ones, and what is left over.
Chunks(n) ==
    {Min({n, segmenter})} \cup (IF n > segmenter /\ n % segmenter > 0 THEN {n % segmenter} ELSE {})

LastOffset(n) == ((n - 1) \div segmenter) * segmenter

\* What the entity's transmit refuses; the segmenter takes whole bytes.
Transmits(n) ==
    IF mode = "tm" THEN n % ByteBits = 0 /\ n <= segmenter
    ELSE n % ByteBits = 0 /\ LastOffset(n) < SoLimit

TxInit ==
    /\ mode \in {"tm", "um", "am"}
    /\ ofdm \in Schemes
    /\ maxSegment = MaxSegmentBits(ofdm, HasHeader)
    /\ segmenter = maxSegment
    /\ bound = FALSE /\ retx = {} /\ rejected = FALSE
    /\ last = [op |-> "scheme", ok |-> TRUE]

\* Both sides of the handshake, when neither message is lost.
Bind(peerLimit) ==
    /\ bound' = (maxSegment <= peerLimit)
    /\ last' = [op |-> "bind", ok |-> TRUE]
    /\ UNCHANGED << mode, ofdm, maxSegment, segmenter, retx, rejected >>

\* AmEntity has buffered every PDU before the first frame is made of one.
SendIq(n) ==
    LET pdus == {PduBits(chunk) : chunk \in Chunks(n)}
    IN  /\ bound /\ Cardinality(retx) < MaxBuffered
        /\ last' = [op |-> "send", size |-> n,
                    ok |-> Transmits(n) /\ \A k \in pdus : FrameFits(ofdm, k)]
        /\ retx' = IF mode = "am" /\ Transmits(n) THEN retx \cup pdus ELSE retx
        /\ UNCHANGED << mode, ofdm, maxSegment, segmenter, bound, rejected >>

\* The caller makes a frame of a PDU that pending_pdus or receive_status returned.
Retransmit(k) ==
    /\ k \in retx
    /\ last' = [op |-> "retransmit", size |-> k, ok |-> FrameFits(ofdm, k)]
    /\ UNCHANGED << mode, ofdm, maxSegment, segmenter, bound, retx, rejected >>

\* A status report settles all PDUs of one length.
Acknowledge(k) ==
    /\ k \in retx
    /\ retx' = retx \ {k}
    /\ last' = [op |-> "status", ok |-> TRUE]
    /\ UNCHANGED << mode, ofdm, maxSegment, segmenter, bound, rejected >>

\* Mutant: only UM's segmenter follows.
SetTxSchemeUmOnly(scheme) ==
    /\ ofdm' = scheme
    /\ rejected' = (rejected \/ ~PacketizerAccepts(scheme))
    /\ maxSegment' = IF PacketizerAccepts(scheme) THEN MaxSegmentBits(scheme, HasHeader) ELSE maxSegment
    /\ segmenter' = IF PacketizerAccepts(scheme) /\ mode = "um" THEN maxSegment' ELSE segmenter
    /\ last' = [op |-> "scheme", ok |-> PacketizerAccepts(scheme)]

\* reconfigure_tx_scheme, then the new capacity down to the entity.  The modem
\* is replaced before the new Packetizer is made, which may raise.
SetTxScheme(scheme) ==
    LET accepted == PacketizerAccepts(scheme)
    IN  /\ ofdm' = IF accepted THEN scheme ELSE [ofdm EXCEPT !.mod = scheme.mod]
        /\ maxSegment' = IF accepted THEN MaxSegmentBits(scheme, HasHeader) ELSE maxSegment
        /\ segmenter' = IF accepted THEN maxSegment' ELSE segmenter
        /\ rejected' = (rejected \/ ~accepted)
        /\ last' = [op |-> "scheme", ok |-> accepted]

CallerSetsScheme(mod, fecs) ==
    /\ SetTxScheme([ofdm EXCEPT !.mod = mod, !.fec = fecs[1], !.fec1 = fecs[2]])
    /\ UNCHANGED << mode, bound, retx >>

TxNext ==
    \/ \E limit \in PeerLimits : Bind(limit)
    \/ \E n \in SduSizes : SendIq(n)
    \/ \E k \in retx : Retransmit(k) \/ Acknowledge(k)
    \/ \E mod \in Modems, fecs \in Fecs : CallerSetsScheme(mod, fecs)

-----------------------------------------------------------------------------
(* What the arithmetic of lengths takes for granted.                       *)

\* What a code makes of whole bytes is whole bytes.
KeepsBytes(code) == code \in {"none"} \cup SymbolSchemes

\* Every stage takes what the one before makes of whole bytes.
StagesAgree(scheme) ==
    /\ scheme.fec1 \in SymbolSchemes => KeepsBytes(scheme.fec)
    /\ scheme.il.kind /= "none" =>
        \/ scheme.il.unit = 1 /\ scheme.il.kind /= "liquid"
        \/ /\ KeepsBytes(scheme.fec) /\ ByteBits % scheme.il.unit = 0
           /\ scheme.il.kind = "liquid" => scheme.il.unit = 1 /\ ByteBits % 8 = 0

\* The shortest PDU gets into a frame, and none that gets in is too long for the
\* header's length field.  Nothing in the code looks at either.
Carries(scheme) ==
    /\ StagesAgree(scheme)
    /\ Fits(scheme, MacHeaderBits + ByteBits)
    /\ ~Fits(scheme, (1 + MaxPayloadLen \div ByteBits) * ByteBits)

-----------------------------------------------------------------------------
(* What must hold.                                                         *)

\* What a Mac segments into PDUs, generate_frame makes frames of: send_iq does
\* not raise for a PDU of its own making, after any sequence of set_tx_scheme
\* calls none of which raised ("segments against the new PHY capacity instead of
\* a stale one", Mac.set_tx_scheme).  A PDU kept from an earlier scheme may be too
\* long for this one, and only such a one fails.
SegmentsFit ==
    ~rejected /\ ~last.ok =>
        \/ last.op = "send" /\ ~Transmits(last.size)
        \/ last.op = "retransmit" /\ last.size > PduBits(maxSegment)

\* The capacity found by bisection is the largest there is: nothing between it
\* and the limit fits (compute_max_segment_bits).  It depends on the scheme alone,
\* so steps with something else going on are passed over.
CapacityIsLargest ==
    [][maxSegment' /= maxSegment /\ retx = {} /\ ~bound =>
        \A bytes \in (PduBits(maxSegment') \div ByteBits) + 1 .. Limit(ofdm') \div ByteBits :
            ~Fits(ofdm', bytes * ByteBits)]_txVars
=============================================================================
