------------------------------ MODULE Framing -------------------------------
(***************************************************************************)
(* spectracuda.framing.packetizer: the key of the message, the inner code, *)
(* the interleaver and the outer code, and the way back.  A configuration  *)
(* is a record: crc, fec, fec1 (names, "none" for no stage) and il, the    *)
(* interleaver (kind "none" for no interleaver).                           *)
(***************************************************************************)
EXTENDS Fec, Interleaver, Modem

\* What the constructor refuses: an interleaver with nothing after it.
PacketizerAccepts(cfg) == cfg.il.kind /= "none" => cfg.fec1 /= "none"

KeyBits(cfg) == KeyBytes[cfg.crc] * ByteBits

WholeBytes(cfg, k) == cfg.crc = "none" \/ k % ByteBits = 0

\* The next stage, unless an earlier one raised.
Then(result, stage(_)) == IF result.ok THEN stage(result.val) ELSE Raises

EncodeStage(scheme, bits) == IF scheme = "none" THEN Returns(bits) ELSE FecEncode(scheme, bits)

DecodeStage(scheme, bits) == IF scheme = "none" THEN Returns(bits) ELSE FecDecode(scheme, bits)

\* The interleaver for this length is made on first use and kept; `op` is the
\* direction.
InterleaveStage(op, il, bits) ==
    CASE il.kind = "none" -> Returns(bits)
      [] il.kind /= "none" /\ ~AcceptsLength(il, Len(bits)) -> Raises
      [] OTHER -> Returns(IF op = "encode" THEN InterleaveBits(il, bits)
                          ELSE DeinterleaveBits(il, bits))

PacketEncodedLength(cfg, k) ==
    LET stage(scheme, n) == IF scheme = "none" THEN n ELSE FecEncodedLength(scheme, n)
    IN  stage(cfg.fec1, stage(cfg.fec, k + KeyBits(cfg)))

\* The message with its key; raises on a broken byte.
Keyed(cfg, bits) ==
    CASE cfg.crc = "none" -> Returns(bits)
      [] cfg.crc /= "none" /\ ~WholeBytes(cfg, Len(bits)) -> Raises
      [] OTHER -> Returns(BytesToBits(AppendKey(cfg.crc, BitsToBytes(bits))))

PacketEncode(cfg, bits) ==
    Then(Then(Then(Keyed(cfg, bits),
        LAMBDA v : EncodeStage(cfg.fec, v)),
        LAMBDA v : InterleaveStage("encode", cfg.il, v)),
        LAMBDA v : EncodeStage(cfg.fec1, v))

\* The bits and the verdict of the key on them, "unchecked" without a key.
Checked(cfg, bytes) ==
    Then(CheckKey(cfg.crc, bytes), LAMBDA valid :
        Returns([bits |-> BytesToBits(SubSeq(bytes, 1, Len(bytes) - KeyBytes[cfg.crc])),
                 crc |-> IF valid THEN "valid" ELSE "invalid"]))

CheckStage(cfg, bits) ==
    IF cfg.crc = "none" THEN Returns([bits |-> bits, crc |-> "unchecked"])
    ELSE Checked(cfg, BitsToBytes(bits))

PacketDecode(cfg, bits) ==
    Then(Then(Then(DecodeStage(cfg.fec1, bits),
        LAMBDA v : InterleaveStage("decode", cfg.il, v)),
        LAMBDA v : DecodeStage(cfg.fec, v)),
        LAMBDA v : CheckStage(cfg, v))
-----------------------------------------------------------------------------
(***************************************************************************)
(* spectracuda.framing.header: the 112 bits in front of a payload, every   *)
(* field most significant bit first, the whole scrambled with a fixed      *)
(* mask.  The header has no check of its own: a code that names no scheme  *)
(* is all a receiver can notice.  The twelve LDPC variants are one code    *)
(* here.                                                                   *)
(***************************************************************************)

CONSTANT ScrambleMask       \* the places of the ones of the mask

HeaderBits == 112

MaxPayloadLen == 2 ^ 16 - 1

ProtocolVersion == 1

ModCodes == [bpsk |-> {0}, qpsk |-> {1}, qam16 |-> {2}, qam64 |-> {3}, qam256 |-> {4}]
CrcCodes == [none |-> {1}, checksum |-> {2}, crc8 |-> {3}, crc16 |-> {4}, crc24 |-> {5}, crc32 |-> {6}]
FecCodes == [none |-> {0}, conv_v27 |-> {1}, rs_m8 |-> {2}, ldpc |-> 3 .. 14]

\* The user data, eight bytes; the program's callers here leave it to default.
NoUserData == Zeros(64)

Scramble(bits) == Flip(bits, ScrambleMask)

\* The code of a scheme in a field of n bits.
CodeBits(codes, n) == BitsOf(FromNat(Min(codes), n), n)

\* fields: len, mod, crc, fec0, fec1.
EncodeHeader(fields) ==
    IF fields.len \notin 0 .. MaxPayloadLen THEN Raises
    ELSE Returns(Scramble(
            CodeBits({ProtocolVersion}, 8) \o CodeBits({fields.len}, 16)
            \o CodeBits(ModCodes[fields.mod], 8)
            \o CodeBits(CrcCodes[fields.crc], 3) \o CodeBits(FecCodes[fields.fec0], 5)
            \o CodeBits(FecCodes[fields.fec1], 8) \o NoUserData))

Named(codes, code) == {name \in DOMAIN codes : code \in codes[name]}

\* The version and the upper bits of byte 5 are not looked at.
DecodeHeader(bits) ==
    LET content == Scramble(bits)
        Field(first, last) == ToNat(WordOf(SubSeq(content, first, last)))
        names == << Named(ModCodes, Field(25, 32)), Named(CrcCodes, Field(33, 35)),
                    Named(FecCodes, Field(36, 40)), Named(FecCodes, Field(44, 48)) >>
        TheName(i) == CHOOSE name \in names[i] : TRUE
    IN  IF {} \in ToSet(names) THEN Raises
        ELSE Returns([len |-> Field(9, 24), mod |-> TheName(1), crc |-> TheName(2),
                      fec0 |-> TheName(3), fec1 |-> TheName(4)])
=============================================================================
