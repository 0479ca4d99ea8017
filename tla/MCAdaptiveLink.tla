--------------------------- MODULE MCAdaptiveLink ---------------------------
(***************************************************************************)
(* AdaptiveLink with bytes of four bits and RS(15, 11); only the lengths   *)
(* of the codes matter here.  No scheme uses LDPC.                         *)
(***************************************************************************)
EXTENDS AdaptiveLink

MCKeyBytes == [none |-> 0, checksum |-> 1, crc8 |-> 1, crc16 |-> 2, crc24 |-> 3, crc32 |-> 4]
MCPolyOrig == [crc8 |-> {1, 0}, crc16 |-> {2, 0}, crc24 |-> {4, 1, 0}, crc32 |-> {6, 0}]
MCGfPoly == {4, 1, 0}
MCG1 == {0, 1, 2}
MCG2 == {0, 2}
MCLdpcBase == << << 0, 0 >> >>
MCScrambleMask == {}
MCFiller(i) == 0
MCTrainingPoint(d) == << Fine, Fine >>
MCSeededPermutation(seed, n) == [p \in 1 .. n |-> n - p]

NoInterleaver == [kind |-> "none", unit |-> 1]
ByteBlock == [kind |-> "block", unit |-> 4, rows |-> 0]

Scheme(mod, fec, fec1, il) == [mod |-> mod, crc |-> "crc16", fec |-> fec, fec1 |-> fec1, il |-> il]

MCMcsTable == << "bpsk", "qam16", "qam64" >>
MCModems == {"bpsk", "qam16", "qam64"}
MCFecs == {<< "none", "none" >>, << "rs_m8", "none" >>, << "rs_m8", "conv_v27" >>}
MCSchemes == {Scheme("bpsk", "conv_v27", "none", NoInterleaver),
              Scheme("bpsk", "rs_m8", "conv_v27", ByteBlock),
              Scheme("qam64", "rs_m8", "conv_v27", ByteBlock)}
MCAdaptiveSchemes == {Scheme(mod, "rs_m8", "conv_v27", ByteBlock) : mod \in {"bpsk", "qam64"}}
MCSduSizes == {8, 8000, 70000, 8001}
MCPeerLimits == {7000, 100000}

ASSUME SchemesCarry
=============================================================================
