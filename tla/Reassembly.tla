----------------------------- MODULE Reassembly -----------------------------
(***************************************************************************)
(* The numbered stream both UM and AM are built on: Segmenter and          *)
(* UmEntity.transmit on the sending side, ReassemblyBuffer on the          *)
(* receiving side (mac/reassembly.py, mac/um.py).                          *)
(*                                                                         *)
(* A PDU is its position in the stream.  What it carries on the wire is    *)
(* SnOf(position) and the segment indicator sent[position + 1]; its bits   *)
(* stay abstract, the position stands for them.  So a segment that ends up *)
(* in the wrong SDU, or twice in one, is visible as a position.            *)
(***************************************************************************)
EXTENDS Integers, Sequences, FiniteSets

(* Sequence numbers (mac/pdu.py).  The wire carries an SN of SN_BITS bits; *)
(* a PDU's identity is its position 0, 1, 2, ... in the stream of PDUs its *)
(* sender ever numbered, and SnOf is what the receiver sees of it.         *)

CONSTANT SnModulus      \* SN_MODULUS, 1024 in the code

ASSUME SnModulusAssumption == SnModulus \in Nat /\ SnModulus >= 2

SN == 0 .. SnModulus - 1

SnOf(position) == position % SnModulus

SnAdd(sn, delta) == (sn + delta) % SnModulus

\* Forward distance from a to b around the SN space.
SnDistance(a, b) == (b - a) % SnModulus

SnPrecedesUnwrapped(a, b) == a < b          \* fault

SnPrecedes(a, b) == 0 < SnDistance(a, b) /\ SnDistance(a, b) < SnModulus \div 2

-----------------------------------------------------------------------------

CONSTANTS
  WindowSize,     \* pending segments the receiver holds before it gives up
  SoLimit,        \* segments of one SDU whose offset fits the 16-bit SO field
  SduSizes,       \* segments an SDU of the caller may have
  MaxPdus         \* bound of the model: PDUs numbered in a behaviour

ASSUME WindowAssumption == WindowSize \in Nat \ {0}
ASSUME SoAssumption == SoLimit \in Nat \ {0}
ASSUME SduAssumption == SduSizes \subseteq Nat \ {0}
ASSUME MaxPdusAssumption == MaxPdus \in Nat

VARIABLES
  sent,           \* segment indicators of every PDU numbered so far, in order
  burnt,          \* positions numbered by a transmit() that then raised
  expected,       \* ReassemblyBuffer._expected_sn
  pending,        \* ReassemblyBuffer._pending: positions, one for each held SN
  inProgress,     \* ReassemblyBuffer._in_progress
  delivered       \* positions handed to the caller, one completed SDU after
                  \* another; an SDU ends where the indicator is FULL or LAST

(* The SN stream never wraps far enough for sn_precedes to mistake an old  *)
(* PDU for a new one, nor for two PDUs to share a number.                  *)
OneGeneration == MaxPdus < SnModulus \div 2

txVars == <<sent, burnt>>
rxVars == <<expected, pending, inProgress, delivered>>

FULL   == "full"
FIRST  == "first"
MIDDLE == "middle"
LAST   == "last"

SegmentIndicator == {FULL, FIRST, MIDDLE, LAST}

Positions == 0 .. Len(sent) - 1

Indicator(position) == sent[position + 1]

EndsSdu(position) == Indicator(position) \in {FULL, LAST}

StartsSdu(position) == Indicator(position) \in {FULL, FIRST}

-----------------------------------------------------------------------------

(* Segmenter.segment: the indicators of an SDU cut into count segments. *)
SegmentAs(count) ==
  [i \in 1 .. count |-> CASE count = 1           -> FULL
                          [] i = 1 /\ count > 1  -> FIRST
                          [] 1 < i /\ i < count  -> MIDDLE
                          [] i = count /\ i > 1  -> LAST]

(* UmEntity.transmit: the next count sequence numbers go to the segments.  *)
(* encode_header raises at the first segment whose offset does not fit SO; *)
(* the numbers already taken stay taken and the caller gets no PDU.        *)
Numbered(count) == Len(sent) .. Len(sent) + count - 1

Transmit(count) ==
  /\ count <= SoLimit
  /\ sent' = sent \o SegmentAs(count)
  /\ burnt' = burnt

TransmitTooLong(count) ==
  /\ count > SoLimit
  /\ sent' = sent \o SubSeq(SegmentAs(count), 1, SoLimit)
  /\ burnt' = burnt \cup Numbered(SoLimit)

-----------------------------------------------------------------------------

SnsOf(positions) == {SnOf(p) : p \in positions}

WithSn(positions, sn) == CHOOSE p \in positions : SnOf(p) = sn

(* self._pending[sn] = ...: a later segment replaces one with the same SN. *)
Insert(positions, p) == {q \in positions : SnOf(q) # SnOf(p)} \cup {p}

(* The expected SN has been missing for too long. *)
GapTooOldLate(held) ==                                          \* fault
  Cardinality(held) > WindowSize + 1 /\ expected \notin SnsOf(held)

GapTooOldEarly(held) ==                                         \* fault
  Cardinality(held) >= WindowSize /\ expected \notin SnsOf(held)

GapTooOld(held) == Cardinality(held) > WindowSize /\ expected \notin SnsOf(held)

(* The while loop of ingest, entered with SN from expected, segments so    *)
(* far collected and held pending: count segments leave held, and those up *)
(* to the last one that ends an SDU are completed.                         *)
Drain(from, collected, held) ==
  \E count \in 0 .. Cardinality(held) :
    LET run  == [i \in 1 .. count |-> WithSn(held, SnAdd(from, i - 1))]
        all  == collected \o run
    IN  /\ \A i \in 0 .. count - 1 : SnAdd(from, i) \in SnsOf(held)
        /\ expected' = SnAdd(from, count)
        /\ pending' = held \ {run[i] : i \in 1 .. count}
        /\ expected' \notin SnsOf(pending')
        /\ \E last \in 0 .. Len(all) :
             /\ last > 0 => EndsSdu(all[last])
             /\ \A i \in last + 1 .. Len(all) : ~EndsSdu(all[i])
             /\ delivered' = delivered \o SubSeq(all, 1, last)
             /\ inProgress' = SubSeq(all, last + 1, Len(all))

(* ReassemblyBuffer.ingest *)
NeverStale(p) == FALSE                                          \* fault

Stale(p) == SnPrecedes(SnOf(p), expected)

DropStale(p) ==
  /\ Stale(p)
  /\ UNCHANGED rxVars

Accept(p) ==
  LET held == Insert(pending, p)
  IN  /\ ~Stale(p)
      /\ ~GapTooOld(held)
      /\ Drain(expected, inProgress, held)

ResyncKeepingProgress(p) ==                                     \* fault
  LET held == Insert(pending, p)
  IN  /\ ~Stale(p)
      /\ GapTooOld(held)
      /\ \E sn \in SnsOf(held) :
           /\ \A other \in SnsOf(held) : sn <= other
           /\ Drain(sn, inProgress, held)

Resync(p) ==
  LET held == Insert(pending, p)
  IN  /\ ~Stale(p)
      /\ GapTooOld(held)
      /\ \E sn \in SnsOf(held) :
           /\ \A other \in SnsOf(held) : sn <= other
           /\ Drain(sn, <<>>, held)

Ingest(p) == DropStale(p) \/ Accept(p) \/ Resync(p)

-----------------------------------------------------------------------------

ReassemblyInit ==
  /\ sent = <<>>
  /\ burnt = {}
  /\ expected = 0
  /\ pending = {}
  /\ inProgress = <<>>
  /\ delivered = <<>>

ReassemblyTypeOK ==
  /\ sent \in Seq(SegmentIndicator) /\ Len(sent) <= MaxPdus
  /\ burnt \subseteq Positions
  /\ expected \in SN
  /\ pending \subseteq Positions
  /\ inProgress \in Seq(Positions)
  /\ delivered \in Seq(Positions)

=============================================================================
