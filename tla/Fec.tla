--------------------------------- MODULE Fec ---------------------------------
(***************************************************************************)
(* spectracuda.fec.FEC: one interface over the three families of codes.  A *)
(* stream is cut into full blocks and at most one shorter block; the       *)
(* byte-oriented code packs bits into symbols around each block.           *)
(*                                                                         *)
(* Beside it spectracuda.fec.crc: liquid-dsp's keys, computed through a    *)
(* register of four bytes whatever the width of the scheme, then cut to    *)
(* that width.                                                             *)
(***************************************************************************)
EXTENDS ReedSolomon, Convolutional, Ldpc

CONSTANTS KeyBytes,     \* scheme -> key length: "none", "checksum" and the CRCs
          PolyOrig      \* CRC scheme -> its polynomial, not reflected

ASSUME CrcAssumption ==
    /\ {"none", "checksum"} \cap DOMAIN PolyOrig = {}
    /\ DOMAIN KeyBytes = {"none", "checksum"} \cup DOMAIN PolyOrig
    /\ KeyBytes["none"] = 0 /\ KeyBytes["checksum"] = 1
    /\ \A s \in DOMAIN PolyOrig :
            KeyBytes[s] \in 1 .. 4 /\ PolyOrig[s] \subseteq 0 .. KeyBytes[s] * ByteBits - 1

RegMask == 0 .. 4 * ByteBits - 1

WidthMask(scheme) == 0 .. KeyBytes[scheme] * ByteBits - 1

\* One entry of the table: ByteBits single shifts of the register.
TableEntry(scheme, byte) ==
    LET poly == Reflect(PolyOrig[scheme], KeyBytes[scheme] * ByteBits)
        Shift(word) == Xor(ShiftRight(word, 1), IF 0 \in word THEN poly ELSE {})
        shifted[k \in 0 .. ByteBits] == IF k = 0 THEN byte ELSE Shift(shifted[k - 1])
    IN  shifted[ByteBits]

CrcTable == [scheme \in DOMAIN PolyOrig |-> Table([byte \in Byte |-> TableEntry(scheme, byte)])]

\* The table-driven loop over the message.
TableKey(scheme, msg) ==
    LET Step(key, b) == Xor(ShiftRight(key, ByteBits),
                            CrcTable[scheme][Xor(key, b) \cap (0 .. ByteBits - 1)])
    IN  (RegMask \ FoldLeft(Step, RegMask, msg)) \cap WidthMask(scheme)

\* The two's complement of the sum of the bytes.
ChecksumKey(msg) ==
    LET total == FoldLeft(LAMBDA acc, b : acc + ToNat(b), 0, msg) % 2 ^ ByteBits
    IN  FromNat((2 ^ ByteBits - total) % 2 ^ ByteBits, ByteBits)

GenerateKey(scheme, msg) ==
    CASE scheme = "none" -> {}
      [] scheme = "checksum" -> ChecksumKey(msg)
      [] OTHER -> TableKey(scheme, msg)

\* The key goes after the message, its most significant byte first.
AppendKey(scheme, msg) ==
    LET key == GenerateKey(scheme, msg)
    IN  msg \o [i \in 1 .. KeyBytes[scheme] |->
                    ShiftRight(key, (KeyBytes[scheme] - i) * ByteBits) \cap (0 .. ByteBits - 1)]

\* Mutant: only the last byte of the key is compared.
CheckKeyLastByte(scheme, msgWithKey) ==
    LET n == Len(msgWithKey) - KeyBytes[scheme]
        key == GenerateKey(scheme, SubSeq(msgWithKey, 1, n))
    IN  Returns(msgWithKey[Len(msgWithKey)] = key \cap (0 .. ByteBits - 1))

\* The key is computed again over all but the last bytes and compared; a
\* message shorter than its key is refused.
CheckKey(scheme, msgWithKey) ==
    LET n == Len(msgWithKey) - KeyBytes[scheme]
        received == UNION {ShiftLeft(msgWithKey[n + i], (KeyBytes[scheme] - i) * ByteBits) :
                                i \in 1 .. KeyBytes[scheme]}
    IN  IF n < 0 THEN Raises
        ELSE Returns(received = GenerateKey(scheme, SubSeq(msgWithKey, 1, n)))
-----------------------------------------------------------------------------

\* encoded_length and decoded_length of a code of blocks of kBits -> nBits, the
\* last one shortened, and of a rate-1/2 stream with a tail.
BlocksEncoded(k, kBits, nBits) ==
    (k \div kBits) * nBits
        + (IF k % kBits > 0 THEN (k % kBits) + (nBits - kBits) ELSE 0)

BlocksDecoded(n, kBits, nBits) ==
    (n \div nBits) * kBits
        + (IF n % nBits > 0 THEN (n % nBits) - (nBits - kBits) ELSE 0)

StreamEncoded(k, tail) == 2 * (k + tail)

\* The lengths decoded_length refuses are those of no encoded stream.
StreamDecodable(n, tail) == n % 2 = 0 /\ n \div 2 >= tail

StreamDecoded(n, tail) == (n \div 2) - tail
-----------------------------------------------------------------------------

SymbolSchemes == {"rs_m8"}
BlockSchemes == {"ldpc"}
FecSchemes == SymbolSchemes \cup BlockSchemes \cup {"conv_v27"}

KBits(scheme) == IF scheme \in SymbolSchemes THEN RsK * ByteBits ELSE LdpcK
NBits(scheme) == IF scheme \in SymbolSchemes THEN RsN * ByteBits ELSE LdpcN

FecEncodedLength(scheme, k) ==
    IF scheme = "conv_v27" THEN StreamEncoded(k, TailBits)
    ELSE BlocksEncoded(k, KBits(scheme), NBits(scheme))

FecDecodedLength(scheme, n) ==
    IF scheme = "conv_v27" THEN StreamDecoded(n, TailBits)
    ELSE BlocksDecoded(n, KBits(scheme), NBits(scheme))

\* Full blocks of `size` bits, then what is left over.
Blocks(bits, size) ==
    [i \in 1 .. (Len(bits) + size - 1) \div size |->
        SubSeq(bits, (i - 1) * size + 1, Min({i * size, Len(bits)}))]

\* All blocks or, when one of them raises or there is none, a ValueError.
Join(results) ==
    IF results = <<>> \/ \E i \in DOMAIN results : ~results[i].ok THEN Raises
    ELSE Returns(FlattenSeq([i \in DOMAIN results |-> results[i].val]))

\* What the byte-oriented code made of the symbols of a block, as bits.
Unpacked(result) == IF result.ok THEN Returns(BytesToBits(result.val)) ELSE Raises

WholeSymbols(bits, size) == (Len(bits) % size) % ByteBits = 0

\* One code on each block of a stream.
EncodeBlocks(scheme, blocks) ==
    Join([i \in DOMAIN blocks |->
            IF scheme \in SymbolSchemes THEN Unpacked(RsEncode(BitsToBytes(blocks[i])))
            ELSE LdpcEncode(blocks[i])])

DecodeBlocks(scheme, blocks) ==
    Join([i \in DOMAIN blocks |->
            IF scheme \in SymbolSchemes THEN Unpacked(RsDecode(BitsToBytes(blocks[i])))
            ELSE LdpcDecode(blocks[i])])

FecEncode(scheme, bits) ==
    IF scheme = "conv_v27" THEN Returns(ConvEncode(bits))
    ELSE IF scheme \in SymbolSchemes /\ ~WholeSymbols(bits, KBits(scheme)) THEN Raises
    ELSE EncodeBlocks(scheme, Blocks(bits, KBits(scheme)))

FecDecode(scheme, bits) ==
    IF scheme = "conv_v27" THEN Returns(ConvDecode(bits))
    ELSE IF scheme \in SymbolSchemes /\ ~WholeSymbols(bits, NBits(scheme)) THEN Raises
    ELSE DecodeBlocks(scheme, Blocks(bits, NBits(scheme)))
=============================================================================
