---------------------------- MODULE EntityProofs ----------------------------
(***************************************************************************)
(* What holds of the MAC's entities whoever drives them: facts about the   *)
(* reassembly buffer, which UmEntity and AmEntity both stand on, for every *)
(* window, SN modulus and number of PDUs; the steps of AmEntity, within    *)
(* one generation of the SN space; and the theorem of UmLink, across any   *)
(* number of wraps.                                                        *)
(***************************************************************************)
EXTENDS AmEntity, UmLink, SequenceTheorems, FiniteSetTheorems, TLAPS

-----------------------------------------------------------------------------
(* Type correctness; it holds in any generation of the SN space.           *)

LEMMA SnOfType == \A n \in Int : SnOf(n) \in SN
  BY SnModulusAssumption DEF SnOf, SN

LEMMA SnAddType == \A sn, delta \in Int : SnAdd(sn, delta) \in SN
  BY SnModulusAssumption DEF SnAdd, SN

(* Arithmetic modulo SnModulus. *)
LEMMA ModFacts ==
  \A a \in Int :
    /\ a % SnModulus \in 0 .. SnModulus - 1
    /\ a \div SnModulus \in Int
    /\ a = SnModulus * (a \div SnModulus) + (a % SnModulus)
  BY SnModulusAssumption

LEMMA ModUnique ==
  \A a, q, r \in Int :
    0 <= r /\ r < SnModulus /\ a = SnModulus * q + r => a % SnModulus = r
  BY SnModulusAssumption, Z3

LEMMA ModShift == \A a, k \in Int : (a + SnModulus * k) % SnModulus = a % SnModulus
<1> TAKE a, k \in Int
<1>1. /\ a % SnModulus \in 0 .. SnModulus - 1
      /\ a = SnModulus * (a \div SnModulus) + (a % SnModulus) /\ a \div SnModulus \in Int
  BY ModFacts
<1>2. a + SnModulus * k = SnModulus * ((a \div SnModulus) + k) + (a % SnModulus)
  BY <1>1, SnModulusAssumption
<1>3. /\ a + SnModulus * k \in Int /\ (a \div SnModulus) + k \in Int
      /\ a % SnModulus \in Int /\ 0 <= a % SnModulus /\ a % SnModulus < SnModulus
  BY <1>1, SnModulusAssumption
<1> QED BY <1>2, <1>3, ModUnique, Zenon

(* Adding to a number and numbering the sum are the same. *)
LEMMA SnAddOf == \A a, i \in Int : SnAdd(SnOf(a), i) = SnOf(a + i)
<1> TAKE a, i \in Int
<1> DEFINE r == a % SnModulus  k == a \div SnModulus
<1>1. r \in Int /\ k \in Int /\ a = SnModulus * k + r
  BY ModFacts, SnModulusAssumption
<1>2. (r + i) + SnModulus * k = a + i /\ r + i \in Int
  BY <1>1, SnModulusAssumption
<1>3. ((r + i) + SnModulus * k) % SnModulus = (r + i) % SnModulus
  BY <1>1, <1>2, ModShift, Zenon
<1> QED BY <1>2, <1>3, Zenon DEF SnAdd, SnOf

(* The distance between two numbers is that of the positions, in one turn. *)
LEMMA SnDistanceOf == \A a, b \in Int : SnDistance(SnOf(a), SnOf(b)) = (b - a) % SnModulus
<1> TAKE a, b \in Int
<1> DEFINE r == a % SnModulus  k == a \div SnModulus
           s == b % SnModulus  l == b \div SnModulus
<1>1. /\ r \in Int /\ k \in Int /\ a = SnModulus * k + r
      /\ s \in Int /\ l \in Int /\ b = SnModulus * l + s
  BY ModFacts, SnModulusAssumption
<1>2. l - k \in Int /\ s - r \in Int
  BY <1>1
<1>3. (s - r) + SnModulus * (l - k) = b - a
  BY <1>1, SnModulusAssumption
<1>4. ((s - r) + SnModulus * (l - k)) % SnModulus = (s - r) % SnModulus
  BY <1>2, ModShift, Zenon
<1> QED BY <1>3, <1>4, Zenon DEF SnDistance, SnOf

(* Positions less than a turn apart have different numbers. *)
LEMMA SnOfInjective ==
  \A a, b \in Int : a <= b /\ b - a < SnModulus /\ SnOf(a) = SnOf(b) => a = b
<1> TAKE a, b \in Int
<1> SUFFICES ASSUME a <= b, b - a < SnModulus, SnOf(a) = SnOf(b) PROVE a = b
  OBVIOUS
<1>1. SnDistance(SnOf(a), SnOf(b)) = SnDistance(SnOf(a), SnOf(a))
  BY Zenon
<1>2. (b - a) % SnModulus = (a - a) % SnModulus
  BY <1>1, SnDistanceOf, Zenon
<1>3. b - a \in 0 .. SnModulus - 1 /\ a - a = 0
  BY SnModulusAssumption
<1>4. \A d \in 0 .. SnModulus - 1 : d % SnModulus = d
  BY SnModulusAssumption
<1>5. b - a = 0
  BY <1>2, <1>3, <1>4, SnModulusAssumption
<1> QED BY <1>5

(* A position up to half a turn ahead does not look stale. *)
LEMMA AheadNotStale ==
  \A e, p \in Int :
    e <= p /\ p - e <= SnModulus \div 2 => ~SnPrecedes(SnOf(p), SnOf(e))
<1> TAKE e, p \in Int
<1> SUFFICES ASSUME e <= p, p - e <= SnModulus \div 2
             PROVE  ~SnPrecedes(SnOf(p), SnOf(e))
  OBVIOUS
<1>1. SnDistance(SnOf(p), SnOf(e)) = (e - p) % SnModulus
  BY SnDistanceOf, Zenon
<1>2. CASE e = p
  BY <1>1, <1>2, SnModulusAssumption DEF SnPrecedes
<1>3. CASE e # p
  <2>1. /\ e - p \in Int /\ e - p + SnModulus \in Int /\ -1 \in Int
        /\ e - p = SnModulus * (-1) + (e - p + SnModulus)
        /\ 0 <= e - p + SnModulus /\ e - p + SnModulus < SnModulus
        /\ SnModulus \div 2 <= e - p + SnModulus
    BY <1>3, SnModulusAssumption
  <2>2. (e - p) % SnModulus = e - p + SnModulus
    BY <2>1, ModUnique, Zenon
  <2>3. ~(e - p + SnModulus < SnModulus \div 2)
    BY <2>1, SnModulusAssumption
  <2> QED BY <1>1, <2>2, <2>3, Zenon DEF SnPrecedes
<1> QED BY <1>2, <1>3

(* The drain loop takes only positions that were collected or held, and    *)
(* every one of them at most once.                                         *)
LEMMA DrainType ==
  ASSUME NEW P, NEW from \in SN, NEW collected \in Seq(P), NEW held \in SUBSET P,
         IsFiniteSet(held), delivered \in Seq(P), Drain(from, collected, held)
  PROVE  /\ expected' \in SN
         /\ pending' \subseteq held
         /\ inProgress' \in Seq(P)
         /\ delivered' \in Seq(P)
<1>1. PICK count \in 0 .. Cardinality(held) :
        LET run == [i \in 1 .. count |-> WithSn(held, SnAdd(from, i - 1))]
            all == collected \o run
        IN  /\ \A i \in 0 .. count - 1 : SnAdd(from, i) \in SnsOf(held)
            /\ expected' = SnAdd(from, count)
            /\ pending' = held \ {run[i] : i \in 1 .. count}
            /\ \E last \in 0 .. Len(all) :
                 /\ delivered' = delivered \o SubSeq(all, 1, last)
                 /\ inProgress' = SubSeq(all, last + 1, Len(all))
  BY DEF Drain
<1>0. count \in Nat
  BY FS_CardinalityType
<1> DEFINE run == [i \in 1 .. count |-> WithSn(held, SnAdd(from, i - 1))]
           all == collected \o run
<1>2. \A sn \in SnsOf(held) : WithSn(held, sn) \in held
  BY DEF SnsOf, WithSn
<1>3. run \in Seq(P)
  <2>1. \A i \in 1 .. count : i - 1 \in 0 .. count - 1
    BY <1>0
  <2>2. \A i \in 1 .. count : run[i] \in P
    BY <1>1, <1>2, <2>1
  <2> QED BY <1>0, <2>2
<1>4. all \in Seq(P)
  BY <1>3, ConcatProperties
<1>5. PICK last \in 0 .. Len(all) :
        /\ delivered' = delivered \o SubSeq(all, 1, last)
        /\ inProgress' = SubSeq(all, last + 1, Len(all))
  BY <1>1
<1>5a. Len(all) \in Nat
  BY <1>4, LenProperties
<1> HIDE DEF all, run
<1>6. ASSUME NEW m \in 0 .. Len(all), NEW n \in 0 .. Len(all)
      PROVE  SubSeq(all, m + 1, n) \in Seq(P)
  <2>1. \A i \in m + 1 .. n : all[i] \in P
    BY <1>4, <1>5a, ElementOfSeq
  <2> QED BY <2>1, <1>5a, SubSeqProperties
<1>7. SubSeq(all, 1, last) \in Seq(P) /\ SubSeq(all, last + 1, Len(all)) \in Seq(P)
  <2>1. SubSeq(all, 0 + 1, last) \in Seq(P)
    BY <1>5a, <1>6
  <2>2. SubSeq(all, last + 1, Len(all)) \in Seq(P)
    BY <1>5a, <1>6
  <2> QED BY <2>1, <2>2
<1>8. expected' \in SN
  BY <1>0, <1>1, SnAddType DEF SN
<1>9. delivered' \in Seq(P)
  BY <1>5, <1>7, ConcatProperties
<1> QED
  BY <1>1, <1>5, <1>7, <1>8, <1>9

LEMMA PositionsFinite ==
  ASSUME sent \in Seq(SegmentIndicator)
  PROVE  /\ Positions \subseteq Nat
         /\ IsFiniteSet(Positions)
         /\ Cardinality(Positions) = Len(sent)
<1>1. Len(sent) \in Nat
  BY LenProperties
<1> DEFINE top == Len(sent) - 1
<1>2. top \in Int /\ top >= -1 /\ top + 1 = Len(sent)
  BY <1>1
<1> HIDE DEF top
<1>3. IsFiniteSet(0 .. top) /\ Cardinality(0 .. top) = top + 1
  BY <1>2, FS_Interval
<1>4. Positions = 0 .. top
  BY DEF Positions, top
<1> QED BY <1>1, <1>2, <1>3, <1>4

LEMMA HeldType ==
  ASSUME ReassemblyTypeOK, NEW p \in Positions
  PROVE  /\ Insert(pending, p) \subseteq Positions
         /\ IsFiniteSet(Insert(pending, p))
         /\ Cardinality(Insert(pending, p)) <= Len(sent)
         /\ SnsOf(Insert(pending, p)) \subseteq SN
<1>1. Insert(pending, p) \subseteq Positions
  BY DEF Insert, ReassemblyTypeOK
<1>2. sent \in Seq(SegmentIndicator)
  BY DEF ReassemblyTypeOK
<1>3. SnsOf(Insert(pending, p)) \subseteq SN
  BY <1>1, <1>2, PositionsFinite, SnOfType DEF SnsOf
<1> QED BY <1>1, <1>2, <1>3, PositionsFinite, FS_Subset

LEMMA EmptyIsSeq == \A S : <<>> \in Seq(S)
  BY EmptySeq

(* ingest keeps the receiver's state well typed. *)
LEMMA IngestType ==
  ASSUME ReassemblyTypeOK, NEW p \in Positions, Ingest(p), UNCHANGED txVars
  PROVE  ReassemblyTypeOK'
<1> DEFINE held == Insert(pending, p)
<1>1. sent' = sent /\ burnt' = burnt /\ Positions' = Positions
  BY DEF txVars, Positions
<1>2. CASE DropStale(p)
  BY <1>1, <1>2 DEF DropStale, rxVars, ReassemblyTypeOK
<1>3. ASSUME NEW from \in SN, NEW collected \in Seq(Positions),
             Drain(from, collected, held)
      PROVE  ReassemblyTypeOK'
  <2>1. /\ held \in SUBSET Positions
        /\ IsFiniteSet(held)
        /\ delivered \in Seq(Positions)
    BY HeldType DEF ReassemblyTypeOK
  <2>2. /\ expected' \in SN
        /\ pending' \subseteq held
        /\ inProgress' \in Seq(Positions)
        /\ delivered' \in Seq(Positions)
    BY <1>3, <2>1, DrainType
  <2> QED BY <1>1, <2>1, <2>2 DEF ReassemblyTypeOK
<1>4. CASE Accept(p)
  BY <1>3, <1>4 DEF Accept, ReassemblyTypeOK
<1>5. CASE Resync(p)
  <2>1. SnsOf(held) \subseteq SN
    BY HeldType
  <2> QED BY <1>3, <1>5, <2>1, EmptyIsSeq DEF Resync
<1> QED BY <1>2, <1>4, <1>5 DEF Ingest

-----------------------------------------------------------------------------
(* The sending side only appends.                                          *)

(* sent grew by n indicators, the receiver did not move. *)
Grown(n) ==
  /\ Len(sent') = Len(sent) + n
  /\ Positions' = 0 .. Len(sent) + n - 1
  /\ Positions \subseteq Positions'
  /\ Numbered(n) \subseteq Positions'
  /\ Positions' = Positions \cup Numbered(n)
  /\ \A p \in Positions : Indicator(p)' = Indicator(p)
  /\ UNCHANGED rxVars

LEMMA SegmentAsType ==
  ASSUME NEW count \in Nat \ {0}
  PROVE  SegmentAs(count) \in Seq(SegmentIndicator) /\ Len(SegmentAs(count)) = count
<1>1. \A i \in 1 .. count : SegmentAs(count)[i] \in SegmentIndicator
  BY DEF SegmentAs, SegmentIndicator
<1>2. SegmentAs(count) = [i \in 1 .. count |-> SegmentAs(count)[i]]
  BY DEF SegmentAs
<1>3. SegmentAs(count) \in [1 .. count -> SegmentIndicator]
  BY <1>1, <1>2
<1> QED BY <1>3

LEMMA AppendGrows ==
  ASSUME ReassemblyTypeOK, NEW s \in Seq(SegmentIndicator), sent' = sent \o s,
         Len(sent) + Len(s) <= MaxPdus, UNCHANGED rxVars,
         burnt' = burnt \/ burnt' = burnt \cup Numbered(Len(s))
  PROVE  ReassemblyTypeOK' /\ Grown(Len(s))
<1>1. Len(sent) \in Nat /\ Len(s) \in Nat /\ sent \in Seq(SegmentIndicator)
  BY LenProperties DEF ReassemblyTypeOK
<1>2. /\ sent' \in Seq(SegmentIndicator)
      /\ Len(sent') = Len(sent) + Len(s)
      /\ \A i \in 1 .. Len(sent) : sent'[i] = sent[i]
  BY <1>1, ConcatProperties
<1>3. /\ Positions' = 0 .. Len(sent) + Len(s) - 1
      /\ Positions \subseteq Positions'
      /\ Numbered(Len(s)) \subseteq Positions'
      /\ Positions' = Positions \cup Numbered(Len(s))
  BY <1>1, <1>2 DEF Positions, Numbered
<1>4. \A p \in Positions : Indicator(p)' = Indicator(p)
  BY <1>1, <1>2 DEF Positions, Indicator
<1>5. burnt' \subseteq Positions'
  BY <1>3 DEF ReassemblyTypeOK
<1>6. inProgress \in Seq(Positions') /\ delivered \in Seq(Positions')
  BY <1>3, SeqMonotonic DEF ReassemblyTypeOK
<1> QED
  BY <1>1, <1>2, <1>3, <1>4, <1>5, <1>6 DEF ReassemblyTypeOK, rxVars, Grown

LEMMA TransmitGrows ==
  ASSUME ReassemblyTypeOK, NEW count \in Nat \ {0}, Len(sent) + count <= MaxPdus,
         Transmit(count), UNCHANGED rxVars
  PROVE  ReassemblyTypeOK' /\ Grown(count)
BY SegmentAsType, AppendGrows DEF Transmit

LEMMA TransmitTooLongGrows ==
  ASSUME ReassemblyTypeOK, NEW count \in Nat \ {0}, Len(sent) + count <= MaxPdus,
         TransmitTooLong(count), UNCHANGED rxVars
  PROVE  /\ ReassemblyTypeOK'
         /\ Grown(SoLimit)
         /\ SoLimit \in Nat
         /\ burnt' = burnt \cup Numbered(SoLimit)
<1> DEFINE s == SubSeq(SegmentAs(count), 1, SoLimit)
<1>1. SoLimit \in Nat \ {0} /\ SoLimit < count
  BY SoAssumption DEF TransmitTooLong
<1>2. s \in Seq(SegmentIndicator) /\ Len(s) = SoLimit
  <2>1. SegmentAs(count) \in Seq(SegmentIndicator) /\ Len(SegmentAs(count)) = count
    BY SegmentAsType
  <2>2. \A i \in 1 .. SoLimit : SegmentAs(count)[i] \in SegmentIndicator
    BY <1>1, <2>1, ElementOfSeq
  <2> QED BY <1>1, <2>2, SubSeqProperties
<1>3. sent' = sent \o s /\ burnt' = burnt \cup Numbered(Len(s))
  BY <1>2 DEF TransmitTooLong
<1>4. Len(sent) + Len(s) <= MaxPdus
  BY <1>1, <1>2, LenProperties, MaxPdusAssumption DEF ReassemblyTypeOK
<1> HIDE DEF s
<1> QED BY <1>1, <1>2, <1>3, <1>4, AppendGrows

-----------------------------------------------------------------------------
(* The window: ingest leaves at most WindowSize segments pending, and none *)
(* that bears the expected SN; this too holds in any generation.           *)

Stalled ==
  /\ Cardinality(pending) <= WindowSize
  /\ expected \notin SnsOf(pending)

(* Entered at an SN that is held, the drain loop takes at least one out.   *)
LEMMA DrainTakes ==
  ASSUME NEW from \in SN, NEW collected, NEW held, IsFiniteSet(held),
         Drain(from, collected, held)
  PROVE  /\ expected' \notin SnsOf(pending')
         /\ Cardinality(pending') <= Cardinality(held)
         /\ from \in SnsOf(held) => Cardinality(pending') < Cardinality(held)
<1>1. PICK count \in 0 .. Cardinality(held) :
        LET run == [i \in 1 .. count |-> WithSn(held, SnAdd(from, i - 1))]
        IN  /\ expected' = SnAdd(from, count)
            /\ pending' = held \ {run[i] : i \in 1 .. count}
            /\ \A i \in 0 .. count - 1 : SnAdd(from, i) \in SnsOf(held)
            /\ expected' \notin SnsOf(pending')
  BY DEF Drain
<1> DEFINE run == [i \in 1 .. count |-> WithSn(held, SnAdd(from, i - 1))]
<1>2. count \in Nat /\ Cardinality(held) \in Nat
  BY FS_CardinalityType
<1>3. pending' \subseteq held
  BY <1>1
<1>4. Cardinality(pending') <= Cardinality(held)
  BY <1>3, FS_Subset
<1>5. ASSUME from \in SnsOf(held) PROVE Cardinality(pending') < Cardinality(held)
  <2>1. SnAdd(from, 0) = from
    BY SnModulusAssumption DEF SnAdd, SN
  <2>2. count # 0
    <3>1. CASE count = 0
      <4>1. pending' = held
        BY <1>1, <3>1
      <4>2. expected' = from
        BY <1>1, <2>1, <3>1
      <4> QED BY <1>1, <1>5, <4>1, <4>2
    <3> QED BY <3>1
  <2>3. 1 \in 1 .. count /\ run[1] = WithSn(held, from)
    BY <1>2, <2>1, <2>2
  <2>4. WithSn(held, from) \in held
    BY <1>5 DEF SnsOf, WithSn
  <2>5. run[1] \in held /\ run[1] \notin pending'
    BY <1>1, <2>3, <2>4
  <2>6. Cardinality(pending') # Cardinality(held)
    BY <1>3, <2>5, FS_Subset
  <2>7. Cardinality(pending') \in Nat
    BY <1>3, FS_Subset, FS_CardinalityType
  <2> QED BY <1>2, <1>4, <2>6, <2>7
<1> QED BY <1>1, <1>4, <1>5

LEMMA IngestStalled ==
  ASSUME ReassemblyTypeOK, Stalled, NEW p \in Positions, Ingest(p)
  PROVE  Stalled'
<1> DEFINE held == Insert(pending, p)
<1>1. WindowSize \in Nat
  BY WindowAssumption
<1>2. IsFiniteSet(held) /\ SnsOf(held) \subseteq SN /\ expected \in SN
  BY HeldType DEF ReassemblyTypeOK
<1>3. Cardinality(held) <= WindowSize + 1
  <2>0. sent \in Seq(SegmentIndicator) /\ pending \subseteq Positions
    BY DEF ReassemblyTypeOK
  <2>1. IsFiniteSet(pending) /\ IsFiniteSet(pending \cup {p})
    BY <2>0, PositionsFinite, FS_Subset, FS_AddElement
  <2>2. Cardinality(pending \cup {p}) <= Cardinality(pending) + 1
        /\ Cardinality(pending) \in Nat
    BY <2>1, FS_AddElement, FS_CardinalityType
  <2>3. held \subseteq pending \cup {p}
    BY DEF Insert
  <2>4. Cardinality(held) <= Cardinality(pending \cup {p})
    BY <2>1, <2>3, FS_Subset
  <2>5. Cardinality(held) \in Nat /\ Cardinality(pending \cup {p}) \in Nat
    BY <1>2, <2>1, FS_CardinalityType
  <2> QED BY <1>1, <2>2, <2>4, <2>5 DEF Stalled
<1> HIDE DEF held
<1>4. ASSUME NEW from \in SN, NEW collected, Drain(from, collected, held),
             from \in SnsOf(held) \/ Cardinality(held) <= WindowSize
      PROVE  Stalled'
  <2>1. pending' \subseteq held
    BY <1>4 DEF Drain
  <2>2. Cardinality(held) \in Nat /\ Cardinality(pending') \in Nat
    BY <1>2, <2>1, FS_Subset, FS_CardinalityType
  <2>3. /\ expected' \notin SnsOf(pending')
        /\ Cardinality(pending') <= Cardinality(held)
        /\ from \in SnsOf(held) => Cardinality(pending') < Cardinality(held)
    BY <1>2, <1>4, DrainTakes
  <2>4. Cardinality(pending') <= WindowSize
    BY <1>1, <1>3, <1>4, <2>2, <2>3
  <2>5. SnsOf(pending)' = SnsOf(pending')
    BY DEF SnsOf
  <2> QED BY <2>3, <2>4, <2>5 DEF Stalled
<1>5. CASE DropStale(p)
  BY <1>5 DEF DropStale, rxVars, Stalled, SnsOf
<1>6. CASE Accept(p)
  <2>1. expected \in SnsOf(held) \/ Cardinality(held) <= WindowSize
    <3>1. Cardinality(held) \in Nat
      BY <1>2, FS_CardinalityType
    <3> QED BY <1>1, <1>6, <3>1 DEF Accept, GapTooOld, held
  <2> QED BY <1>2, <1>4, <1>6, <2>1 DEF Accept, held
<1>7. CASE Resync(p)
  <2>1. PICK sn \in SnsOf(held) : Drain(sn, <<>>, held)
    BY <1>7 DEF Resync, held
  <2> QED BY <1>2, <1>4, <2>1
<1> QED BY <1>5, <1>6, <1>7 DEF Ingest

-----------------------------------------------------------------------------
(* Within one generation the SN space behaves like the natural numbers.    *)

LEMMA SnOfPosition ==
  ASSUME OneGeneration, ReassemblyTypeOK
  PROVE  /\ Positions \subseteq 0 .. MaxPdus
         /\ \A p \in Positions : SnOf(p) = p
<1>1. Len(sent) \in Nat /\ Len(sent) <= MaxPdus
  BY LenProperties DEF ReassemblyTypeOK
<1>2. MaxPdus < SnModulus
  BY SnModulusAssumption, MaxPdusAssumption DEF OneGeneration
<1> QED
  BY <1>1, <1>2, SnModulusAssumption, MaxPdusAssumption DEF Positions, SnOf

LEMMA SnAddLinear ==
  ASSUME OneGeneration, NEW a \in 0 .. MaxPdus, NEW b \in 0 .. MaxPdus
  PROVE  SnAdd(a, b) = a + b
<1>1. a + b \in 0 .. SnModulus - 1
  BY SnModulusAssumption, MaxPdusAssumption DEF OneGeneration
<1> QED BY <1>1, SnModulusAssumption DEF SnAdd

LEMMA SnPrecedesLinear ==
  ASSUME OneGeneration, NEW a \in 0 .. MaxPdus, NEW b \in 0 .. MaxPdus
  PROVE  SnPrecedes(a, b) <=> a < b
<1>1. a < b => SnDistance(a, b) = b - a
  BY SnModulusAssumption, MaxPdusAssumption DEF OneGeneration, SnDistance
<1>2. b < a => SnDistance(a, b) = b - a + SnModulus
  BY SnModulusAssumption, MaxPdusAssumption DEF OneGeneration, SnDistance
<1>3. a = b => SnDistance(a, b) = 0
  BY SnModulusAssumption, MaxPdusAssumption DEF OneGeneration, SnDistance
<1> QED
  BY <1>1, <1>2, <1>3, SnModulusAssumption, MaxPdusAssumption
  DEF OneGeneration, SnPrecedes

LEMMA SnsOfPositions ==
  ASSUME OneGeneration, ReassemblyTypeOK, NEW S \in SUBSET Positions
  PROVE  /\ SnsOf(S) = S
         /\ \A q \in S : WithSn(S, q) = q
<1>1. \A q \in S : SnOf(q) = q
  BY SnOfPosition
<1>2. SnsOf(S) = S
  BY <1>1 DEF SnsOf
<1>3. \A q \in S : \A r \in S : SnOf(r) = q => r = q
  BY <1>1
<1>4. \A q \in S : WithSn(S, q) = q
  BY <1>1, <1>3 DEF WithSn
<1> QED BY <1>2, <1>4

(* What the drain loop does: the segments from .. from + count - 1 move    *)
(* from held to the end of collected, and up to the last end of an SDU on  *)
(* to delivered.                                                           *)
Taken(from, collected, held, count, all, last) ==
  /\ Len(all) = Len(collected) + count
  /\ \A i \in 1 .. Len(collected) : all[i] = collected[i]
  /\ \A i \in 1 .. count : all[Len(collected) + i] = from + i - 1
  /\ from .. from + count - 1 \subseteq held
  /\ expected' = SnOf(from + count)
  /\ pending' = held \ (from .. from + count - 1)
  /\ from + count \notin pending'
  /\ last > 0 => EndsSdu(all[last])
  /\ \A i \in last + 1 .. Len(all) : ~EndsSdu(all[i])
  /\ delivered' = delivered \o SubSeq(all, 1, last)
  /\ inProgress' = SubSeq(all, last + 1, Len(all))

(* In any generation: what is held, and what the loop may come to, lies    *)
(* within one turn of the SN space from position low on.                   *)
LEMMA DrainTaken ==
  ASSUME ReassemblyTypeOK, NEW low \in Nat, NEW from \in Nat,
         NEW collected \in Seq(Positions), NEW held \in SUBSET Positions,
         held \subseteq low .. low + SnModulus - 1,
         low <= from, from + Cardinality(held) <= low + SnModulus,
         Drain(SnOf(from), collected, held)
  PROVE  \E count \in 0 .. Cardinality(held), all \in Seq(Positions) :
           \E last \in 0 .. Len(all) : Taken(from, collected, held, count, all, last)
<1>1. PICK count \in 0 .. Cardinality(held) :
        LET run == [i \in 1 .. count |-> WithSn(held, SnAdd(SnOf(from), i - 1))]
            all == collected \o run
        IN  /\ \A i \in 0 .. count - 1 : SnAdd(SnOf(from), i) \in SnsOf(held)
            /\ expected' = SnAdd(SnOf(from), count)
            /\ pending' = held \ {run[i] : i \in 1 .. count}
            /\ expected' \notin SnsOf(pending')
            /\ \E last \in 0 .. Len(all) :
                 /\ last > 0 => EndsSdu(all[last])
                 /\ \A i \in last + 1 .. Len(all) : ~EndsSdu(all[i])
                 /\ delivered' = delivered \o SubSeq(all, 1, last)
                 /\ inProgress' = SubSeq(all, last + 1, Len(all))
  BY DEF Drain
<1> DEFINE run == [i \in 1 .. count |-> WithSn(held, SnAdd(SnOf(from), i - 1))]
           all == collected \o run
<1>2. count \in Nat /\ count <= Cardinality(held) /\ SnModulus \in Nat
      /\ Cardinality(held) \in Nat
  <2>1. IsFiniteSet(held)
    BY PositionsFinite, FS_Subset DEF ReassemblyTypeOK
  <2> QED BY <2>1, FS_CardinalityType, SnModulusAssumption
<1>3. \A i \in Int : SnAdd(SnOf(from), i) = SnOf(from + i)
  BY SnAddOf
<1>4. \A q \in held, r \in low .. low + SnModulus - 1 : SnOf(q) = SnOf(r) => q = r
  <2> TAKE q \in held, r \in low .. low + SnModulus - 1
  <2>1. /\ q \in Int /\ r \in Int
        /\ q <= r => r - q < SnModulus
        /\ r <= q => q - r < SnModulus
        /\ q <= r \/ r <= q
    BY <1>2
  <2> QED BY <2>1, SnOfInjective
<1>5. \A i \in 0 .. count - 1 : from + i \in held /\ WithSn(held, SnOf(from + i)) = from + i
  <2> TAKE i \in 0 .. count - 1
  <2>1. i \in Int /\ from + i \in low .. low + SnModulus - 1
    BY <1>2
  <2>2. SnOf(from + i) \in SnsOf(held)
    BY <1>1, <1>3, <2>1
  <2>3. PICK q \in held : SnOf(q) = SnOf(from + i)
    BY <2>2 DEF SnsOf
  <2>4. q = from + i
    BY <1>4, <2>1, <2>3
  <2>5. \A r \in held : SnOf(r) = SnOf(from + i) => r = from + i
    BY <1>4, <2>1
  <2> QED BY <2>3, <2>4, <2>5 DEF WithSn
<1>6. \A i \in 1 .. count : run[i] = from + i - 1 /\ run[i] \in held
  <2> TAKE i \in 1 .. count
  <2>1. i - 1 \in 0 .. count - 1 /\ i - 1 \in Int /\ from + (i - 1) = from + i - 1
    BY <1>2
  <2>2. run[i] = from + (i - 1) /\ from + (i - 1) \in held
    BY <2>1, <1>3, <1>5
  <2> QED BY <2>1, <2>2
<1>7. run \in Seq(Positions) /\ Len(run) = count
  BY <1>2, <1>6
<1>8. /\ all \in Seq(Positions)
      /\ Len(all) = Len(collected) + count
      /\ \A i \in 1 .. Len(collected) : all[i] = collected[i]
      /\ \A i \in 1 .. count : all[Len(collected) + i] = from + i - 1
  BY <1>2, <1>6, <1>7, ConcatProperties, LenProperties
<1>9. from .. from + count - 1 \subseteq held
  <2>1. ASSUME NEW q \in from .. from + count - 1
        PROVE  q \in held
    <3>1. q - from \in 0 .. count - 1 /\ from + (q - from) = q
      BY <1>2
    <3> QED BY <3>1, <1>5
  <2> QED BY <2>1
<1>10. {run[i] : i \in 1 .. count} = from .. from + count - 1
  <2>1. ASSUME NEW q \in from .. from + count - 1
        PROVE  q \in {run[i] : i \in 1 .. count}
    <3>1. q - from + 1 \in 1 .. count /\ from + (q - from + 1) - 1 = q
      BY <1>2
    <3>2. run[q - from + 1] = q
      BY <3>1, <1>6
    <3> QED BY <3>1, <3>2
  <2>2. ASSUME NEW i \in 1 .. count
        PROVE  run[i] \in from .. from + count - 1
    BY <1>2, <1>6
  <2> QED BY <2>1, <2>2
<1>11. expected' = SnOf(from + count)
  BY <1>1, <1>2, <1>3
<1>12. pending' = held \ (from .. from + count - 1)
  BY <1>1, <1>10
<1>13. from + count \notin pending'
  BY <1>1, <1>11 DEF SnsOf
<1> HIDE DEF all, run
<1>14. PICK last \in 0 .. Len(all) :
         /\ last > 0 => EndsSdu(all[last])
         /\ \A i \in last + 1 .. Len(all) : ~EndsSdu(all[i])
         /\ delivered' = delivered \o SubSeq(all, 1, last)
         /\ inProgress' = SubSeq(all, last + 1, Len(all))
  BY <1>1 DEF all, run
<1>15. Taken(from, collected, held, count, all, last)
  BY <1>8, <1>9, <1>11, <1>12, <1>13, <1>14 DEF Taken
<1> QED BY <1>8, <1>15

(* In the first generation. *)
Drained(from, collected, held, count, all, last) ==
  /\ Taken(from, collected, held, count, all, last)
  /\ expected' = from + count

LEMMA DrainLinear ==
  ASSUME OneGeneration, ReassemblyTypeOK,
         NEW from \in 0 .. MaxPdus, NEW collected \in Seq(Positions),
         NEW held \in SUBSET Positions, Drain(from, collected, held)
  PROVE  \E count \in 0 .. MaxPdus, all \in Seq(Positions) : \E last \in 0 .. Len(all) :
           Drained(from, collected, held, count, all, last)
<1>1. Len(sent) <= MaxPdus /\ Len(sent) \in Nat /\ sent \in Seq(SegmentIndicator)
  BY LenProperties DEF ReassemblyTypeOK
<1>2. Cardinality(held) \in 0 .. MaxPdus
  BY <1>1, PositionsFinite, FS_Subset, FS_CardinalityType, MaxPdusAssumption
<1>3. /\ from \in Nat /\ from + Cardinality(held) < SnModulus
      /\ SnModulus \in Nat /\ MaxPdus \in Nat
  BY <1>2, MaxPdusAssumption, SnModulusAssumption DEF OneGeneration
<1>4. \A n \in 0 .. SnModulus - 1 : SnOf(n) = n
  BY <1>3 DEF SnOf
<1>5. held \subseteq 0 .. 0 + SnModulus - 1
  <2>1. held \subseteq 0 .. MaxPdus
    BY SnOfPosition
  <2>2. MaxPdus < SnModulus
    BY <1>3 DEF OneGeneration
  <2> QED BY <1>3, <2>1, <2>2
<1>6. SnOf(from) = from
  BY <1>2, <1>3, <1>4
<1>7. PICK count \in 0 .. Cardinality(held), all \in Seq(Positions) :
        \E last \in 0 .. Len(all) : Taken(from, collected, held, count, all, last)
  <2>1. 0 \in Nat /\ 0 <= from /\ from + Cardinality(held) <= 0 + SnModulus
    BY <1>2, <1>3
  <2>2. Drain(SnOf(from), collected, held)
    BY <1>6
  <2> QED BY <1>3, <1>5, <2>1, <2>2, DrainTaken
<1>8. PICK last \in 0 .. Len(all) : Taken(from, collected, held, count, all, last)
  BY <1>7
<1>9. from + count \in 0 .. SnModulus - 1 /\ count \in 0 .. MaxPdus
  BY <1>2, <1>3
<1>10. expected' = from + count
  BY <1>4, <1>8, <1>9 DEF Taken
<1> QED BY <1>8, <1>9, <1>10 DEF Drained

-----------------------------------------------------------------------------
(* The receiver's inductive invariant of one generation: segments wait     *)
(* only ahead of the expected one, the unfinished SDU is the run that ends *)
(* just before it, and what was delivered lies before that run, in order,  *)
(* made of runs that end where an SDU ends.                                *)

Contiguous(s, next) ==
  \A i \in 1 .. Len(s) : s[i] = next - Len(s) + i - 1 /\ ~EndsSdu(s[i])

DeliveredBefore(next) ==
  /\ \A i \in 1 .. Len(delivered) : delivered[i] < next
  /\ \A i \in 1 .. Len(delivered) - 1 : delivered[i] < delivered[i + 1]
  /\ \A i \in 1 .. Len(delivered) :
       \/ EndsSdu(delivered[i])
       \/ i < Len(delivered) /\ delivered[i + 1] = delivered[i] + 1

ReceiverOrdered ==
  /\ expected <= Len(sent)
  /\ \A q \in pending : expected < q
  /\ Len(inProgress) <= expected
  /\ Contiguous(inProgress, expected)
  /\ DeliveredBefore(expected - Len(inProgress))

(* The drain loop establishes it, whether entered in sequence or by a      *)
(* resync.                                                                 *)
LEMMA DrainedOrdered ==
  ASSUME ReassemblyTypeOK, UNCHANGED txVars,
         NEW from \in 0 .. Len(sent), NEW collected \in Seq(Positions),
         NEW held \in SUBSET Positions,
         NEW count \in Nat, NEW all \in Seq(Positions), NEW last \in 0 .. Len(all),
         Drained(from, collected, held, count, all, last),
         \A q \in held : from <= q,
         Len(collected) <= from,
         Contiguous(collected, from),
         DeliveredBefore(from - Len(collected))
  PROVE  ReceiverOrdered'
<1> DEFINE base == from - Len(collected)
<1>1. /\ sent' = sent /\ Positions' = Positions
      /\ Len(sent) \in Nat /\ Len(collected) \in Nat /\ Len(all) \in Nat
      /\ Len(all) = Len(collected) + count
      /\ delivered \in Seq(Positions) /\ Len(delivered) \in Nat
      /\ Positions \subseteq Nat
  BY LenProperties, PositionsFinite DEF txVars, Positions, Drained, Taken, ReassemblyTypeOK
<1>2. base \in Nat
  BY <1>1
<1>3. \A p : EndsSdu(p)' <=> EndsSdu(p)
  BY <1>1 DEF EndsSdu, Indicator
<1>4. \A i \in 1 .. Len(all) : all[i] = base + i - 1
  <2> TAKE i \in 1 .. Len(all)
  <2>1. CASE i <= Len(collected)
    BY <1>1, <2>1 DEF Drained, Taken, Contiguous
  <2>2. CASE i > Len(collected)
    <3>1. i - Len(collected) \in 1 .. count /\ Len(collected) + (i - Len(collected)) = i
      BY <1>1, <2>2
    <3>2. all[i] = from + (i - Len(collected)) - 1
      BY <3>1 DEF Drained, Taken
    <3> QED BY <1>1, <3>2
  <2> QED BY <1>1, <2>1, <2>2
<1>5. expected' = from + count /\ expected' \in Nat /\ expected' <= Len(sent)
  <2>1. count > 0 => from + count - 1 \in Positions
    BY <1>1 DEF Drained, Taken
  <2> QED BY <1>1, <2>1 DEF Positions, Drained
<1>6. \A q \in pending' : expected' < q
  <2> TAKE q \in pending'
  <2>1. q \in held /\ q \notin from .. from + count - 1 /\ q # from + count
    BY <1>5 DEF Drained, Taken
  <2>2. q \in Nat /\ from <= q
    BY <1>1, <2>1
  <2> QED BY <1>1, <1>5, <2>1, <2>2
<1>7. /\ Len(inProgress') = Len(all) - last
      /\ \A i \in 1 .. Len(all) - last : inProgress'[i] = all[last + i]
  <2>1. \A i \in last + 1 .. Len(all) : all[i] \in Positions
    BY <1>1, ElementOfSeq
  <2>2. /\ Len(SubSeq(all, last + 1, Len(all))) =
             IF last + 1 <= Len(all) THEN Len(all) - (last + 1) + 1 ELSE 0
        /\ \A i \in 1 .. Len(all) - (last + 1) + 1 :
             SubSeq(all, last + 1, Len(all))[i] = all[last + 1 + i - 1]
    BY <1>1, <2>1, SubSeqProperties
  <2> QED BY <1>1, <2>2 DEF Drained, Taken
<1>8. expected' - Len(inProgress') = base + last /\ base + last <= expected'
  BY <1>1, <1>5, <1>7
<1>9. Contiguous(inProgress, expected)'
  <2>1. \A i \in 1 .. Len(inProgress') :
          inProgress'[i] = expected' - Len(inProgress') + i - 1 /\ ~EndsSdu(inProgress'[i])
    <3> TAKE i \in 1 .. Len(inProgress')
    <3>1. last + i \in last + 1 .. Len(all) /\ last + i \in 1 .. Len(all)
      BY <1>1, <1>7
    <3>2. inProgress'[i] = all[last + i] /\ all[last + i] = base + (last + i) - 1
      BY <3>1, <1>4, <1>7
    <3>3. ~EndsSdu(all[last + i])
      BY <3>1 DEF Drained, Taken
    <3> QED BY <1>1, <1>2, <1>5, <1>7, <1>8, <3>2, <3>3
  <2> QED BY <2>1, <1>3 DEF Contiguous
<1>10. /\ Len(delivered') = Len(delivered) + last
       /\ \A i \in 1 .. Len(delivered) : delivered'[i] = delivered[i]
       /\ \A i \in Len(delivered) + 1 .. Len(delivered) + last :
            delivered'[i] = base + (i - Len(delivered)) - 1
  <2>1. \A i \in 1 .. last : all[i] \in Positions
    BY <1>1, ElementOfSeq
  <2>2. /\ SubSeq(all, 1, last) \in Seq(Positions)
        /\ Len(SubSeq(all, 1, last)) = IF 1 <= last THEN last - 1 + 1 ELSE 0
        /\ \A i \in 1 .. last - 1 + 1 : SubSeq(all, 1, last)[i] = all[1 + i - 1]
    BY <1>1, <2>1, SubSeqProperties
  <2> DEFINE new == SubSeq(all, 1, last)
  <2>3. new \in Seq(Positions) /\ Len(new) = last /\ \A i \in 1 .. last : new[i] = base + i - 1
    BY <1>1, <1>2, <1>4, <2>2
  <2>4. delivered' = delivered \o new
    BY DEF Drained, Taken
  <2> HIDE DEF new
  <2>5. /\ Len(delivered') = Len(delivered) + last
        /\ \A i \in 1 .. Len(delivered) + last : delivered'[i] =
             IF i <= Len(delivered) THEN delivered[i] ELSE new[i - Len(delivered)]
    BY <1>1, <2>3, <2>4, ConcatProperties
  <2>6. ASSUME NEW i \in Len(delivered) + 1 .. Len(delivered) + last
        PROVE  delivered'[i] = base + (i - Len(delivered)) - 1
    <3>1. /\ i \in 1 .. Len(delivered) + last /\ ~ i <= Len(delivered)
          /\ i - Len(delivered) \in 1 .. last
      BY <1>1
    <3> QED BY <2>3, <2>5, <3>1
  <2> QED BY <1>1, <2>5, <2>6
<1>11. DeliveredBefore(expected - Len(inProgress))'
  <2> DEFINE n == Len(delivered)
  <2>0. /\ n \in Nat /\ base \in Nat /\ last \in Nat
        /\ Len(delivered') = n + last
        /\ \A i \in 1 .. n : delivered'[i] = delivered[i]
        /\ \A i \in n + 1 .. n + last : delivered'[i] = base + (i - n) - 1
    BY <1>1, <1>2, <1>10
  <2>a. \A i \in 1 .. n : delivered[i] \in Nat
    BY <1>1, ElementOfSeq
  <2>b. /\ \A i \in 1 .. n : delivered[i] < base
        /\ \A i \in 1 .. n - 1 : delivered[i] < delivered[i + 1]
        /\ \A i \in 1 .. n :
             \/ EndsSdu(delivered[i])
             \/ i < n /\ delivered[i + 1] = delivered[i] + 1
    BY DEF DeliveredBefore
  <2> HIDE DEF n, base
  <2>2. \A i \in 1 .. n + last : delivered'[i] < base + last
    <3> TAKE i \in 1 .. n + last
    <3>1. CASE i \in 1 .. n
      <4>1. delivered'[i] = delivered[i] /\ delivered[i] \in Nat /\ delivered[i] < base
        BY <2>0, <2>a, <2>b, <3>1
      <4> QED BY <2>0, <4>1
    <3>2. CASE i \in n + 1 .. n + last
      <4>1. delivered'[i] = base + (i - n) - 1
        BY <2>0, <3>2
      <4> QED BY <2>0, <3>2, <4>1
    <3> QED BY <2>0, <3>1, <3>2
  <2>3. \A i \in 1 .. n + last - 1 : delivered'[i] < delivered'[i + 1]
    <3> TAKE i \in 1 .. n + last - 1
    <3>1. CASE i \in 1 .. n - 1
      <4>1. i \in 1 .. n /\ i + 1 \in 1 .. n
        BY <2>0, <3>1
      <4> QED BY <2>0, <2>b, <3>1, <4>1
    <3>2. CASE i = n
      <4>1. i \in 1 .. n /\ i + 1 \in n + 1 .. n + last
        BY <2>0, <3>2
      <4>2. delivered'[i + 1] = base + (i + 1 - n) - 1
        BY <2>0, <4>1
      <4>3. delivered'[i] < base
        BY <2>0, <2>b, <4>1
      <4>4. delivered'[i + 1] = base
        BY ONLY <2>0, <3>2, <4>2
      <4> QED BY ONLY <4>3, <4>4
    <3>3. CASE i > n
      <4>1. i \in n + 1 .. n + last /\ i + 1 \in n + 1 .. n + last
        BY <2>0, <3>3
      <4>2. delivered'[i] = base + (i - n) - 1 /\ delivered'[i + 1] = base + (i + 1 - n) - 1
        BY <2>0, <4>1
      <4> QED BY <2>0, <4>1, <4>2
    <3> QED BY <2>0, <3>1, <3>2, <3>3
  <2>4. \A i \in 1 .. n + last :
          \/ EndsSdu(delivered'[i])
          \/ i < n + last /\ delivered'[i + 1] = delivered'[i] + 1
    <3> TAKE i \in 1 .. n + last
    <3>1. CASE i <= n
      <4>1. i \in 1 .. n
        BY <2>0, <3>1
      <4>2. i < n => i + 1 \in 1 .. n
        BY <2>0, <4>1
      <4>3. CASE EndsSdu(delivered[i])
        BY <2>0, <4>1, <4>3
      <4>4. CASE i < n /\ delivered[i + 1] = delivered[i] + 1
        BY <2>0, <4>1, <4>2, <4>4
      <4> QED BY <2>b, <4>1, <4>3, <4>4
    <3>2. CASE n < i /\ i < n + last
      <4>1. i \in n + 1 .. n + last /\ i + 1 \in n + 1 .. n + last
        BY <2>0, <3>2
      <4>2. delivered'[i] = base + (i - n) - 1 /\ delivered'[i + 1] = base + (i + 1 - n) - 1
        BY <2>0, <4>1
      <4> QED BY <2>0, <3>2, <4>1, <4>2
    <3>3. CASE n < i /\ i = n + last
      <4>1. last > 0 /\ last \in 1 .. Len(all) /\ i \in n + 1 .. n + last
        BY <1>1, <2>0, <3>3
      <4>2. delivered'[i] = base + (i - n) - 1
        BY <2>0, <4>1
      <4>3. all[last] = base + last - 1 /\ EndsSdu(all[last])
        BY <1>4, <4>1 DEF Drained, Taken
      <4>4. delivered'[i] = all[last]
        BY <2>0, <3>3, <4>2, <4>3
      <4> QED BY <4>3, <4>4
    <3> QED BY <2>0, <3>1, <3>2, <3>3
  <2>5. Len(delivered)' = n + last
    BY <2>0
  <2>6. (expected - Len(inProgress))' = base + last
    BY <1>8
  <2>7. \A i \in 1 .. Len(delivered') : delivered'[i] < expected' - Len(inProgress')
    BY <2>2, <2>5, <2>6
  <2>8. \A i \in 1 .. Len(delivered') - 1 : delivered'[i] < delivered'[i + 1]
    BY <2>0, <2>3
  <2>9. \A i \in 1 .. Len(delivered') :
          \/ EndsSdu(delivered[i])'
          \/ i < Len(delivered') /\ delivered'[i + 1] = delivered'[i] + 1
    BY <1>1, <2>4, <2>5 DEF EndsSdu, Indicator
  <2> QED BY <2>7, <2>8, <2>9 DEF DeliveredBefore
<1>12. Len(inProgress') <= expected'
  BY <1>1, <1>2, <1>5, <1>7
<1> QED
  BY <1>1, <1>5, <1>6, <1>9, <1>11, <1>12 DEF ReceiverOrdered

LEMMA DeliveredBeforeLater ==
  ASSUME delivered \in Seq(Nat), NEW a \in Int, NEW b \in Int, a <= b, DeliveredBefore(a)
  PROVE  DeliveredBefore(b)
<1>1. \A i \in 1 .. Len(delivered) : delivered[i] \in Nat
  BY ElementOfSeq
<1> QED BY <1>1 DEF DeliveredBefore

LEMMA AppendedAt ==
  ASSUME NEW S, NEW a \in Seq(S), NEW b \in Seq(S), NEW c, c = a \o b
  PROVE  /\ Len(a) \in Nat /\ Len(b) \in Nat /\ Len(c) = Len(a) + Len(b)
         /\ \A k \in 1 .. Len(a) : c[k] = a[k]
         /\ \A k \in 1 .. Len(b) : c[Len(a) + k] = b[k]
<1>1. Len(a) \in Nat /\ Len(b) \in Nat
  BY LenProperties
<1>2. /\ Len(c) = Len(a) + Len(b)
      /\ \A k \in 1 .. Len(a) + Len(b) : c[k] = IF k <= Len(a) THEN a[k] ELSE b[k - Len(a)]
  BY ConcatProperties
<1>3. ASSUME NEW k \in 1 .. Len(b) PROVE c[Len(a) + k] = b[k]
  <2>1. PICK j \in Nat : j = Len(a) + k
    BY <1>1
  <2>2. j \in 1 .. Len(a) + Len(b) /\ ~ (j <= Len(a)) /\ j - Len(a) = k
    BY <1>1, <2>1
  <2> QED BY <1>2, <2>1, <2>2
<1> QED BY <1>1, <1>2, <1>3

(* ingest of a PDU that is not stale runs the drain loop; a resync enters  *)
(* it, with nothing collected, at a segment ahead of the missing one.      *)
DrainsFrom(from, collected, p) ==
  LET held == Insert(pending, p)
  IN  /\ Drain(from, collected, held)
      /\ \A q \in held : from <= q
      /\ Len(collected) <= from
      /\ Contiguous(collected, from)
      /\ DeliveredBefore(from - Len(collected))

LEMMA IngestDrains ==
  ASSUME OneGeneration, ReassemblyTypeOK, ReceiverOrdered,
         NEW p \in Positions, Ingest(p)
  PROVE  \/ UNCHANGED rxVars
         \/ \E from \in expected .. Len(sent) :
              \E collected \in {inProgress, <<>>} : DrainsFrom(from, collected, p)
<1> DEFINE held == Insert(pending, p)
<1>1. /\ Len(sent) \in Nat /\ Len(sent) <= MaxPdus /\ MaxPdus \in Nat
      /\ Positions \subseteq Nat /\ Positions \subseteq 0 .. MaxPdus
      /\ pending \subseteq Positions /\ expected \in Nat
      /\ delivered \in Seq(Positions)
      /\ Len(inProgress) \in Nat
      /\ expected \in 0 .. Len(sent)
  BY LenProperties, PositionsFinite, SnOfPosition, MaxPdusAssumption
     DEF Positions, ReassemblyTypeOK, ReceiverOrdered, SN
<1>2. held \subseteq Positions /\ held \subseteq pending \cup {p}
  BY <1>1 DEF Insert
<1>3. Stale(p) <=> p < expected
  <2>1. SnOf(p) = p /\ p \in 0 .. MaxPdus /\ expected \in 0 .. MaxPdus
    BY <1>1, SnOfPosition
  <2> QED BY <2>1, SnPrecedesLinear DEF Stale
<1>4. CASE Accept(p)
  <2>1. ASSUME NEW q \in held PROVE expected <= q
    <3>1. q \in Nat /\ expected \in Nat /\ q \in pending \cup {p}
      BY <1>1, <1>2
    <3>2. CASE q \in pending
      BY <3>1, <3>2 DEF ReceiverOrdered
    <3>3. CASE q = p
      <4>1. ~Stale(p)
        BY <1>4 DEF Accept
      <4> QED BY <1>3, <3>1, <3>3, <4>1
    <3> QED BY <3>1, <3>2, <3>3
  <2>2. /\ Len(inProgress) <= expected
        /\ Contiguous(inProgress, expected)
        /\ DeliveredBefore(expected - Len(inProgress))
    BY DEF ReceiverOrdered
  <2>3. expected \in expected .. Len(sent)
    BY <1>1
  <2>4. Drain(expected, inProgress, held)
    BY <1>4 DEF Accept
  <2>5. DrainsFrom(expected, inProgress, p)
    BY <2>1, <2>2, <2>4 DEF DrainsFrom
  <2> QED BY <2>3, <2>5
<1>5. CASE Resync(p)
  <2>1. SnsOf(held) = held
    BY <1>2, SnsOfPositions
  <2>2. PICK sn \in held : (\A q \in held : sn <= q) /\ Drain(sn, <<>>, held)
    BY <1>5, <2>1 DEF Resync
  <2>3. sn \in expected .. Len(sent)
    BY <1>1, <1>2, <1>3, <1>5, <2>2 DEF Resync, ReceiverOrdered, Positions
  <2>4. Len(<<>>) = 0
    BY EmptySeq
  <2>5. Contiguous(<<>>, sn)
    BY <2>4 DEF Contiguous
  <2>6. DeliveredBefore(sn - Len(<<>>))
    <3>1. delivered \in Seq(Nat)
      BY <1>1, SeqMonotonic
    <3>2. DeliveredBefore(expected - Len(inProgress))
      BY DEF ReceiverOrdered
    <3>3. expected - Len(inProgress) \in Int /\ sn \in Int
          /\ expected - Len(inProgress) <= sn /\ sn - Len(<<>>) = sn
      BY <1>1, <2>3, <2>4
    <3> QED BY <3>1, <3>2, <3>3, DeliveredBeforeLater
  <2>7. Len(<<>>) <= sn
    BY <1>1, <2>3, <2>4
  <2>8. DrainsFrom(sn, <<>>, p)
    BY <2>2, <2>5, <2>6, <2>7 DEF DrainsFrom
  <2> QED BY <2>3, <2>8
<1> QED BY <1>4, <1>5 DEF Ingest, DropStale

(* ingest keeps the invariant and never moves the expected SN backward.    *)
LEMMA IngestOrdered ==
  ASSUME OneGeneration, ReassemblyTypeOK, ReceiverOrdered,
         NEW p \in Positions, Ingest(p), UNCHANGED txVars
  PROVE  ReceiverOrdered' /\ expected <= expected'
<1>1. /\ sent' = sent
      /\ Len(sent) \in Nat /\ Len(sent) <= MaxPdus /\ MaxPdus \in Nat
      /\ pending \subseteq Positions /\ expected \in Nat
      /\ inProgress \in Seq(Positions)
  BY LenProperties, MaxPdusAssumption, SnModulusAssumption
  DEF txVars, ReassemblyTypeOK, SN
<1>2. Insert(pending, p) \in SUBSET Positions
  BY <1>1 DEF Insert
<1>3. CASE UNCHANGED rxVars
  <2>1. UNCHANGED <<sent, expected, pending, inProgress, delivered>>
    BY <1>1, <1>3 DEF rxVars
  <2>2. expected <= expected'
    BY <1>1, <2>1
  <2> QED
    BY <2>1, <2>2
    DEF ReceiverOrdered, Contiguous, DeliveredBefore, EndsSdu, Indicator
<1>4. ASSUME NEW from \in expected .. Len(sent),
             NEW collected \in {inProgress, <<>>}, DrainsFrom(from, collected, p)
      PROVE  ReceiverOrdered' /\ expected <= expected'
  <2>1. from \in 0 .. MaxPdus /\ from \in 0 .. Len(sent) /\ collected \in Seq(Positions)
    <3>1. <<>> \in Seq(Positions)
      BY EmptyIsSeq, Zenon
    <3>2. collected \in Seq(Positions)
      BY <1>1, <3>1, Zenon
    <3> QED BY <1>1, <3>2
  <2>2. PICK held \in SUBSET Positions : held = Insert(pending, p)
    BY <1>2
  <2>3. /\ Drain(from, collected, held)
        /\ \A q \in held : from <= q
        /\ Len(collected) <= from
        /\ Contiguous(collected, from)
        /\ DeliveredBefore(from - Len(collected))
    BY <1>4, <2>2 DEF DrainsFrom
  <2>4. PICK count \in 0 .. MaxPdus, all \in Seq(Positions) : \E last \in 0 .. Len(all) :
          Drained(from, collected, held, count, all, last)
    BY <2>1, <2>3, DrainLinear
  <2>5. PICK last \in 0 .. Len(all) : Drained(from, collected, held, count, all, last)
    BY <2>4
  <2>6. count \in Nat
    BY <1>1
  <2>7. ReceiverOrdered'
    BY <2>1, <2>3, <2>5, <2>6, DrainedOrdered
  <2>8. expected' = from + count
    BY <2>5 DEF Drained, Taken
  <2> QED BY <1>1, <2>1, <2>6, <2>7, <2>8
<1> QED BY <1>3, <1>4, IngestDrains

(* Nothing is handed over or collected anew that lies before the expected  *)
(* segment.                                                                *)
LEMMA IngestAdds ==
  ASSUME OneGeneration, ReassemblyTypeOK, ReceiverOrdered,
         NEW p \in Positions, Ingest(p)
  PROVE  /\ \E new \in Seq(Positions) : delivered' = delivered \o new
         /\ \A i \in 1 .. Len(inProgress') :
              \/ inProgress'[i] >= expected
              \/ \E j \in 1 .. Len(inProgress) : inProgress'[i] = inProgress[j]
         /\ \A i \in Len(delivered) + 1 .. Len(delivered') :
              \/ delivered'[i] >= expected
              \/ \E j \in 1 .. Len(inProgress) : delivered'[i] = inProgress[j]
<1>1. /\ Len(sent) \in Nat /\ Len(sent) <= MaxPdus /\ MaxPdus \in Nat
      /\ pending \subseteq Positions /\ expected \in Nat
      /\ inProgress \in Seq(Positions) /\ Len(inProgress) \in Nat
      /\ delivered \in Seq(Positions) /\ Len(delivered) \in Nat
  BY LenProperties, MaxPdusAssumption, SnModulusAssumption DEF ReassemblyTypeOK, SN
<1>2. Insert(pending, p) \in SUBSET Positions
  BY <1>1 DEF Insert
<1>3. CASE UNCHANGED rxVars
  <2>1. inProgress' = inProgress /\ delivered' = delivered /\ <<>> \in Seq(Positions)
    BY <1>3, EmptyIsSeq DEF rxVars
  <2>2. delivered' = delivered \o <<>>
    BY <1>1, <2>1
  <2>3. Len(delivered) + 1 .. Len(delivered') = {}
    BY <1>1, <2>1
  <2> QED BY <2>1, <2>2, <2>3
<1>4. ASSUME NEW from \in expected .. Len(sent),
             NEW collected \in {inProgress, <<>>}, DrainsFrom(from, collected, p)
      PROVE  /\ \E new \in Seq(Positions) : delivered' = delivered \o new
             /\ \A i \in 1 .. Len(inProgress') :
                  \/ inProgress'[i] >= expected
                  \/ \E j \in 1 .. Len(inProgress) : inProgress'[i] = inProgress[j]
             /\ \A i \in Len(delivered) + 1 .. Len(delivered') :
                  \/ delivered'[i] >= expected
                  \/ \E j \in 1 .. Len(inProgress) : delivered'[i] = inProgress[j]
  <2>1. from \in 0 .. MaxPdus /\ collected \in Seq(Positions) /\ Len(collected) \in Nat
    <3>1. <<>> \in Seq(Positions)
      BY EmptyIsSeq, Zenon
    <3>2. collected \in Seq(Positions)
      BY <1>1, <3>1, Zenon
    <3> QED BY <1>1, <3>2, LenProperties
  <2>2. PICK held \in SUBSET Positions : held = Insert(pending, p)
    BY <1>2
  <2>3. Drain(from, collected, held)
    BY <1>4, <2>2 DEF DrainsFrom
  <2>4. PICK count \in 0 .. MaxPdus, all \in Seq(Positions) : \E last \in 0 .. Len(all) :
          Drained(from, collected, held, count, all, last)
    BY <2>1, <2>3, DrainLinear
  <2>5. PICK last \in 0 .. Len(all) : Drained(from, collected, held, count, all, last)
    BY <2>4
  <2>6. Len(all) = Len(collected) + count /\ Len(all) \in Nat /\ last \in Nat
    BY <2>1, <2>5, LenProperties DEF Drained, Taken
  <2>7. ASSUME NEW i \in 1 .. Len(all)
        PROVE  \/ all[i] >= expected
               \/ \E j \in 1 .. Len(inProgress) : all[i] = inProgress[j]
    <3>1. CASE i <= Len(collected)
      <4>1. i \in 1 .. Len(collected) /\ all[i] = collected[i]
        BY <2>1, <2>5, <2>6, <3>1 DEF Drained, Taken
      <4>2. collected = inProgress
        BY <4>1, EmptySeq
      <4> QED BY <4>1, <4>2
    <3>2. CASE i > Len(collected)
      <4>1. i - Len(collected) \in 1 .. count /\ Len(collected) + (i - Len(collected)) = i
        BY <2>1, <2>6, <3>2
      <4>2. all[i] = from + (i - Len(collected)) - 1
        BY <2>5, <4>1 DEF Drained, Taken
      <4> QED BY <1>1, <2>1, <4>1, <4>2
    <3> QED BY <2>1, <3>1, <3>2
  <2>8. PICK out : out = SubSeq(all, 1, last)
    OBVIOUS
  <2>9. /\ out \in Seq(Positions) /\ Len(out) = last
        /\ \A i \in 1 .. last : out[i] = all[i]
        /\ delivered' = delivered \o out
    BY <2>5, <2>6, <2>8 DEF Drained, Taken
  <2>10. ASSUME NEW i \in Len(delivered) + 1 .. Len(delivered')
         PROVE  \E k \in 1 .. Len(all) : delivered'[i] = all[k]
    <3>1. Len(delivered') = Len(delivered) + last
          /\ \A k \in 1 .. last : delivered'[Len(delivered) + k] = out[k]
      <4>1. delivered \in Seq(Positions) /\ out \in Seq(Positions)
        BY <1>1, <2>9
      <4>2. delivered' = delivered \o out
        BY <2>9
      <4>3. /\ Len(delivered') = Len(delivered) + Len(out)
            /\ \A k \in 1 .. Len(out) : delivered'[Len(delivered) + k] = out[k]
        BY ONLY <4>1, <4>2, AppendedAt
      <4> QED BY <2>9, <4>3
    <3>2. PICK n \in Nat, size \in Nat : n = Len(delivered) /\ size = Len(all)
      BY <1>1, <2>6
    <3>3. i \in n + 1 .. n + last /\ last \in 0 .. size
      BY <2>6, <3>1, <3>2
    <3>4. PICK k \in Int : k = i - n
      BY ONLY <3>3, n \in Nat
    <3>5. k \in 1 .. last /\ i = n + k /\ k \in 1 .. size
      BY ONLY <3>3, <3>4, n \in Nat, size \in Nat
    <3> QED BY <2>9, <3>1, <3>2, <3>5
  <2>11. ASSUME NEW i \in 1 .. Len(inProgress')
         PROVE  \E k \in 1 .. Len(all) : inProgress'[i] = all[k]
    <3>1. PICK from1 \in Nat : from1 = last + 1
      BY <2>6
    <3>2. inProgress' = SubSeq(all, from1, Len(all))
      BY <2>5, <3>1 DEF Drained, Taken
    <3>3. \A k \in from1 .. Len(all) : all[k] \in Positions
      BY <2>6, <3>1, ElementOfSeq
    <3>4. /\ Len(inProgress') = IF from1 <= Len(all) THEN Len(all) - from1 + 1 ELSE 0
          /\ \A k \in 1 .. Len(all) - from1 + 1 : inProgress'[k] = all[from1 + k - 1]
      BY <2>6, <3>1, <3>2, <3>3, SubSeqProperties
    <3>5. i \in 1 .. Len(all) - from1 + 1 /\ from1 + i - 1 \in 1 .. Len(all)
      BY <2>6, <3>1, <3>4
    <3> QED BY <3>4, <3>5
  <2>12. \A i \in 1 .. Len(inProgress') :
           \/ inProgress'[i] >= expected
           \/ \E j \in 1 .. Len(inProgress) : inProgress'[i] = inProgress[j]
    BY <2>7, <2>11
  <2>13. \A i \in Len(delivered) + 1 .. Len(delivered') :
           \/ delivered'[i] >= expected
           \/ \E j \in 1 .. Len(inProgress) : delivered'[i] = inProgress[j]
    BY <2>7, <2>10
  <2> QED BY <2>9, <2>12, <2>13
<1> QED BY <1>3, <1>4, IngestDrains

-----------------------------------------------------------------------------
(* A stream of which nothing is missing, in any generation.                *)

(* What was handed over and collected is the first n positions.            *)
ExactUpTo(n) ==
  /\ n = Len(delivered) + Len(inProgress)
  /\ \A i \in 1 .. Len(delivered) : delivered[i] = i - 1
  /\ \A i \in 1 .. Len(inProgress) : inProgress[i] = Len(delivered) + i - 1
  /\ expected = SnOf(n)

LEMMA ExactConcat ==
  ASSUME ReassemblyTypeOK, NEW n, ExactUpTo(n)
  PROVE  /\ n \in Nat
         /\ Len(delivered \o inProgress) = n
         /\ delivered \o inProgress = [i \in 1 .. n |-> i - 1]
<1>1. /\ delivered \in Seq(Positions) /\ inProgress \in Seq(Positions)
      /\ Len(delivered) \in Nat /\ Len(inProgress) \in Nat
  BY LenProperties DEF ReassemblyTypeOK
<1> DEFINE handed == delivered \o inProgress
<1>2. /\ handed \in Seq(Positions) /\ Len(handed) = n /\ n \in Nat
      /\ \A i \in 1 .. Len(delivered) : handed[i] = delivered[i]
      /\ \A i \in 1 .. Len(inProgress) : handed[Len(delivered) + i] = inProgress[i]
  BY <1>1 DEF ExactUpTo
<1> HIDE DEF handed
<1>3. ASSUME NEW i \in 1 .. n PROVE handed[i] = i - 1
  <2>1. CASE i <= Len(delivered)
    BY <1>1, <1>2, <2>1 DEF ExactUpTo
  <2>2. CASE i > Len(delivered)
    <3>1. i - Len(delivered) \in 1 .. Len(inProgress)
          /\ Len(delivered) + (i - Len(delivered)) = i
      BY <1>1, <1>2, <2>2 DEF ExactUpTo
    <3>2. handed[i] = inProgress[i - Len(delivered)]
      BY <1>2, <3>1
    <3>3. inProgress[i - Len(delivered)] = Len(delivered) + (i - Len(delivered)) - 1
      BY <3>1 DEF ExactUpTo
    <3> QED BY <1>1, <3>1, <3>2, <3>3
  <2> QED BY <1>1, <1>2, <2>1, <2>2
<1>4. handed = [i \in 1 .. n |-> i - 1]
  <2>1. handed = [i \in 1 .. n |-> handed[i]]
    BY <1>2
  <2> QED BY <1>3, <2>1
<1> QED BY <1>2, <1>4 DEF handed

(* The drain loop continues it. *)
LEMMA TakenExact ==
  ASSUME ReassemblyTypeOK, NEW n \in Nat, ExactUpTo(n), NEW held, NEW count \in Nat,
         NEW all \in Seq(Positions), NEW last \in 0 .. Len(all),
         Taken(n, inProgress, held, count, all, last)
  PROVE  ExactUpTo(n + count)'
<1> DEFINE d == Len(delivered)  m == Len(inProgress)
<1>1. /\ delivered \in Seq(Positions) /\ inProgress \in Seq(Positions)
      /\ d \in Nat /\ m \in Nat /\ n = d + m
      /\ Len(all) = m + count /\ last \in Nat /\ Len(all) \in Nat
  BY LenProperties DEF ReassemblyTypeOK, ExactUpTo, Taken
<1>2. ASSUME NEW i \in 1 .. Len(all) PROVE all[i] = d + i - 1
  <2>1. CASE i <= m
    BY <1>1, <2>1 DEF Taken, ExactUpTo
  <2>2. CASE i > m
    <3>1. i - m \in 1 .. count /\ m + (i - m) = i
      BY <1>1, <2>2
    <3>2. all[i] = n + (i - m) - 1
      BY <3>1 DEF Taken
    <3> QED BY <1>1, <3>1, <3>2
  <2> QED BY <1>1, <2>1, <2>2
<1>3. /\ delivered' = delivered \o SubSeq(all, 1, last)
      /\ inProgress' = SubSeq(all, last + 1, Len(all))
      /\ expected' = SnOf(n + count)
  BY DEF Taken
<1>4. /\ SubSeq(all, 1, last) \in Seq(Positions)
      /\ Len(SubSeq(all, 1, last)) = last
      /\ \A i \in 1 .. last : SubSeq(all, 1, last)[i] = all[i]
  BY <1>1
<1>5. /\ Len(inProgress') = Len(all) - last
      /\ \A i \in 1 .. Len(all) - last : inProgress'[i] = all[last + i]
  <2> HIDE DEF d, m
  <2>1. PICK k \in Nat : k = last + 1
    BY <1>1
  <2>2. /\ last <= Len(all) /\ Len(all) \in Int
        /\ \A i \in k .. Len(all) : all[i] \in Positions
    BY <1>1, <2>1
  <2>3. /\ Len(inProgress') = IF k <= Len(all) THEN Len(all) - k + 1 ELSE 0
        /\ \A i \in 1 .. Len(all) - k + 1 : inProgress'[i] = all[k + i - 1]
    <3>1. inProgress' = SubSeq(all, k, Len(all)) /\ k \in Int
      BY <1>3, <2>1
    <3> QED BY ONLY all \in Seq(Positions), <2>2, <3>1, SubSeqProperties
  <2>4. ASSUME NEW i \in 1 .. Len(all) - last PROVE inProgress'[i] = all[last + i]
    <3>1. i \in 1 .. Len(all) - k + 1 /\ k + i - 1 = last + i
      BY ONLY <1>1, <2>1, <2>2, i \in 1 .. Len(all) - last
    <3> QED BY <2>3, <3>1
  <2>5. Len(inProgress') = Len(all) - last
    BY ONLY <1>1, <2>1, <2>2, <2>3
  <2> QED BY <2>4, <2>5
<1>6. /\ Len(delivered') = d + last
      /\ \A i \in 1 .. d : delivered'[i] = delivered[i]
      /\ \A i \in 1 .. last : delivered'[d + i] = all[i]
  <2>1. PICK out : out = SubSeq(all, 1, last)
    OBVIOUS
  <2>2. out \in Seq(Positions) /\ Len(out) = last /\ \A i \in 1 .. last : out[i] = all[i]
    BY <1>4, <2>1
  <2>3. delivered \in Seq(Positions) /\ out \in Seq(Positions) /\ delivered' = delivered \o out
    BY <1>1, <1>3, <2>1, <2>2
  <2>4. /\ Len(delivered') = Len(delivered) + Len(out)
        /\ \A i \in 1 .. Len(delivered) : delivered'[i] = delivered[i]
        /\ \A i \in 1 .. Len(out) : delivered'[Len(delivered) + i] = out[i]
    BY ONLY <2>3, AppendedAt
  <2> QED BY <2>2, <2>4
<1> HIDE DEF d, m
<1>7. ASSUME NEW i \in 1 .. d + last PROVE delivered'[i] = i - 1
  <2>1. CASE i <= d
    BY <1>1, <1>6, <2>1 DEF ExactUpTo, d
  <2>2. CASE i > d
    <3>1. i - d \in 1 .. last /\ i - d \in 1 .. Len(all) /\ d + (i - d) = i
      BY <1>1, <2>2
    <3>2. delivered'[i] = all[i - d]
      BY <1>6, <3>1
    <3> QED BY <1>1, <1>2, <3>1, <3>2
  <2> QED BY <1>1, <2>1, <2>2
<1>8. ASSUME NEW i \in 1 .. Len(all) - last PROVE inProgress'[i] = d + last + i - 1
  <2>1. last + i \in 1 .. Len(all)
    BY <1>1
  <2> QED BY <1>1, <1>2, <1>5, <2>1
<1>9. n + count = (d + last) + (Len(all) - last)
  BY <1>1
<1> QED BY <1>3, <1>5, <1>6, <1>7, <1>8, <1>9 DEF ExactUpTo

LEMMA IntervalSize ==
  \A a \in Int : \A k \in Nat :
    IsFiniteSet(a .. a + k - 1) /\ Cardinality(a .. a + k - 1) = k
<1> TAKE a \in Int
<1> TAKE k \in Nat
<1> DEFINE b == a + k - 1
<1>1. b \in Int /\ (a > b <=> k = 0) /\ b - a + 1 = k
  OBVIOUS
<1> HIDE DEF b
<1>2. IsFiniteSet(a .. b) /\ Cardinality(a .. b) = IF a > b THEN 0 ELSE b - a + 1
  BY <1>1, FS_Interval
<1>3. IsFiniteSet(a .. b) /\ Cardinality(a .. b) = k
  BY <1>1, <1>2
<1> QED BY <1>3 DEF b

(* What stays open after n positions: the segments held back by number n,  *)
(* which is among the next of them.                                        *)
HeldBack(n, reach) == pending \subseteq n + 1 .. n + reach

(* ingest of a PDU near enough to the first missing one is exact: it never *)
(* looks stale, no other held segment has its number, and no gap is given  *)
(* up.                                                                     *)
LEMMA IngestExact ==
  ASSUME ReassemblyTypeOK, UNCHANGED txVars, NEW n \in Nat, ExactUpTo(n),
         NEW reach \in Nat, reach <= WindowSize, reach <= SnModulus \div 2,
         HeldBack(n, reach),
         NEW p \in Positions, p \in n .. n + reach, Ingest(p)
  PROVE  \E count \in Nat :
           /\ ExactUpTo(n + count)'
           /\ n .. n + count - 1 \subseteq pending \cup {p}
           /\ pending' = (pending \cup {p}) \ (n .. n + count - 1)
           /\ n + count \notin pending'
<1> DEFINE held == pending \cup {p}
<1>1. /\ SnModulus \in Nat /\ SnModulus >= 2 /\ WindowSize \in Nat
      /\ reach < SnModulus /\ reach <= SnModulus \div 2
      /\ p \in Nat /\ expected = SnOf(n)
      /\ held \subseteq n .. n + reach /\ held \subseteq Positions
      /\ inProgress \in Seq(Positions) /\ Positions \subseteq Nat
  BY SnModulusAssumption, WindowAssumption, PositionsFinite
  DEF ReassemblyTypeOK, ExactUpTo, HeldBack
<1>2. \A q, r \in n .. n + reach : SnOf(q) = SnOf(r) => q = r
  <2> TAKE q, r \in n .. n + reach
  <2>1. /\ q \in Int /\ r \in Int
        /\ q <= r => r - q < SnModulus
        /\ r <= q => q - r < SnModulus
        /\ q <= r \/ r <= q
    BY <1>1
  <2> QED BY <2>1, SnOfInjective
<1>3. Insert(pending, p) = held
  <2>1. \A q \in pending : SnOf(q) = SnOf(p) => q = p
    BY <1>1, <1>2
  <2> QED BY <2>1 DEF Insert
<1>4. ~Stale(p)
  <2>1. n <= p /\ p - n <= SnModulus \div 2 /\ p \in Int /\ n \in Int
    BY <1>1
  <2> QED BY <1>1, <2>1, AheadNotStale DEF Stale
<1>5. IsFiniteSet(held) /\ Cardinality(held) \in Nat /\ Cardinality(held) <= reach + 1
  <2>1. IsFiniteSet(n .. n + reach) /\ Cardinality(n .. n + reach) = reach + 1
    <3>1. n \in Int /\ reach + 1 \in Nat /\ n + (reach + 1) - 1 = n + reach
      OBVIOUS
    <3>2. /\ IsFiniteSet(n .. n + (reach + 1) - 1)
          /\ Cardinality(n .. n + (reach + 1) - 1) = reach + 1
      BY <3>1, IntervalSize, Zenon
    <3> QED BY <3>1, <3>2, Zenon
  <2> QED BY <1>1, <2>1, FS_Subset, FS_CardinalityType
<1>6. ~GapTooOld(held)
  <2>1. CASE n \in held
    BY <1>1, <2>1 DEF GapTooOld, SnsOf
  <2>2. CASE n \notin held
    <3>1. held \subseteq n + 1 .. n + reach
      BY <1>1, <2>2
    <3>2. IsFiniteSet(n + 1 .. n + reach) /\ Cardinality(n + 1 .. n + reach) = reach
      <4>1. n + 1 \in Int /\ n + 1 + reach - 1 = n + reach
        OBVIOUS
      <4>2. /\ IsFiniteSet(n + 1 .. n + 1 + reach - 1)
            /\ Cardinality(n + 1 .. n + 1 + reach - 1) = reach
        BY <4>1, IntervalSize, Zenon
      <4> QED BY <4>1, <4>2, Zenon
    <3>3. Cardinality(held) <= reach
      BY <3>1, <3>2, FS_Subset
    <3> QED BY <1>1, <1>5, <3>3 DEF GapTooOld
  <2> QED BY <2>1, <2>2
<1>7. Drain(SnOf(n), inProgress, held)
  BY <1>1, <1>3, <1>4, <1>6 DEF Ingest, DropStale, Accept, Resync
<1>8. /\ held \subseteq n .. n + SnModulus - 1
      /\ n <= n /\ n + Cardinality(held) <= n + SnModulus
  BY <1>1, <1>5
<1> HIDE DEF held
<1>9. PICK count \in 0 .. Cardinality(held), all \in Seq(Positions) :
        \E last \in 0 .. Len(all) : Taken(n, inProgress, held, count, all, last)
  BY <1>1, <1>7, <1>8, DrainTaken
<1>10. PICK last \in 0 .. Len(all) : Taken(n, inProgress, held, count, all, last)
  BY <1>9
<1>11. count \in Nat
  BY <1>5
<1>12. ExactUpTo(n + count)'
  BY <1>10, <1>11, TakenExact
<1>13. /\ n .. n + count - 1 \subseteq held
       /\ pending' = held \ (n .. n + count - 1)
       /\ n + count \notin pending'
  BY <1>10 DEF Taken
<1> QED BY <1>11, <1>12, <1>13 DEF held

-----------------------------------------------------------------------------
(* The acknowledged entity: types, in any generation of the SN space.      *)

LEMMA AmInitType == AmInit => AmTypeOK /\ Stalled
<1> SUFFICES ASSUME AmInit PROVE AmTypeOK /\ Stalled
  OBVIOUS
<1>1. sent = <<>> /\ Len(sent) = 0 /\ Positions = {}
  BY DEF AmInit, ReassemblyInit, Positions
<1>2. ReassemblyTypeOK
  BY <1>1, EmptyIsSeq, SnModulusAssumption, MaxPdusAssumption
     DEF AmInit, ReassemblyInit, ReassemblyTypeOK, SN
<1>3. DOMAIN retx = {} /\ retx \in [DOMAIN retx -> 0 .. MaxRetries]
  <2>1. retx = <<>>
    BY DEF AmInit
  <2> QED BY <2>1
<1>4. AmTypeOK
  BY <1>2, <1>3 DEF AmInit, AmTypeOK
<1>5. Cardinality({}) = 0
  BY FS_EmptySet
<1>6. Stalled
  BY <1>5, WindowAssumption DEF AmInit, ReassemblyInit, Stalled, SnsOf
<1> QED BY <1>4, <1>6

LEMMA BuildStatusType ==
  ASSUME AmTypeOK
  PROVE  BuildStatus \in Status
BY DEF BuildStatus, Status, AmTypeOK, ReassemblyTypeOK

LEMMA AmTransmitType ==
  ASSUME AmTypeOK, Stalled, NEW count \in Nat \ {0}, Len(sent) + count <= MaxPdus,
         AmTransmit(count)
  PROVE  AmTypeOK' /\ Stalled' /\ Grown(count)
<1>1. Transmit(count) /\ UNCHANGED rxVars
  BY DEF AmTransmit
<1>2. ReassemblyTypeOK' /\ Grown(count)
  BY <1>1, TransmitGrows DEF AmTypeOK
<1>3. retx' \in [DOMAIN retx' -> 0 .. MaxRetries] /\ DOMAIN retx' \subseteq Positions'
  <2> DEFINE new  == Numbered(count)
             kept == {p \in DOMAIN retx : SnOf(p) \notin SnsOf(new)}
  <2>1. retx' = [p \in kept \cup new |-> IF p \in new THEN 0 ELSE retx[p]]
    BY DEF AmTransmit
  <2>2. kept \subseteq DOMAIN retx /\ kept \cup new \subseteq Positions'
    BY <1>2 DEF Grown, AmTypeOK
  <2> HIDE DEF new, kept
  <2>3. \A p \in kept \cup new : (IF p \in new THEN 0 ELSE retx[p]) \in 0 .. MaxRetries
    BY <2>2, MaxRetriesAssumption DEF AmTypeOK
  <2> QED BY <2>1, <2>2, <2>3
<1>4. failed' = failed /\ received' = received
  BY DEF AmTransmit
<1>5. AmTypeOK'
  BY <1>2, <1>3, <1>4 DEF AmTypeOK, Grown
<1> QED BY <1>1, <1>2, <1>5 DEF Stalled, rxVars, SnsOf

LEMMA AmTransmitTooLongType ==
  ASSUME AmTypeOK, Stalled, NEW count \in Nat \ {0}, Len(sent) + count <= MaxPdus,
         AmTransmitTooLong(count)
  PROVE  AmTypeOK' /\ Stalled' /\ Grown(SoLimit)
<1>1. TransmitTooLong(count) /\ UNCHANGED <<rxVars, retx, failed, received>>
  BY DEF AmTransmitTooLong
<1>2. ReassemblyTypeOK' /\ Grown(SoLimit)
  BY <1>1, TransmitTooLongGrows DEF AmTypeOK
<1>3. AmTypeOK'
  BY <1>1, <1>2 DEF AmTypeOK, Grown
<1> QED BY <1>1, <1>2, <1>3 DEF Stalled, rxVars, SnsOf

LEMMA ReceiveDataType ==
  ASSUME AmTypeOK, Stalled, NEW p \in Positions, ReceiveData(p)
  PROVE  AmTypeOK' /\ Stalled' /\ Positions' = Positions
<1>1. /\ Ingest(p) /\ UNCHANGED <<txVars, retx, failed>> /\ ReassemblyTypeOK
      /\ received' = received \cup {p}
  BY DEF ReceiveData, AmTypeOK
<1>2. ReassemblyTypeOK'
  BY <1>1, IngestType
<1>3. Stalled'
  BY <1>1, IngestStalled
<1>4. Positions' = Positions
  BY <1>1 DEF txVars, Positions
<1>5. AmTypeOK'
  BY <1>1, <1>2, <1>4 DEF AmTypeOK
<1> QED BY <1>3, <1>4, <1>5

LEMMA ReceiveStatusType ==
  ASSUME AmTypeOK, Stalled, NEW status, ReceiveStatus(status)
  PROVE  /\ AmTypeOK' /\ Stalled' /\ Positions' = Positions
         /\ DOMAIN retx' = {p \in DOMAIN retx : ~Acked(p, status)} \ GivenUp(status)
         /\ ToRetransmit(status) \subseteq DOMAIN retx
<1>1. UNCHANGED <<txVars, rxVars, received>> /\ failed' = failed \cup GivenUp(status)
  BY DEF ReceiveStatus
<1>2. ReassemblyTypeOK' /\ Positions' = Positions /\ Stalled'
  BY <1>1 DEF txVars, rxVars, AmTypeOK, ReassemblyTypeOK, Positions, Stalled, SnsOf
<1>3. ToRetransmit(status) \subseteq DOMAIN retx /\ GivenUp(status) \subseteq DOMAIN retx
  BY DEF ToRetransmit, GivenUp
<1> DEFINE kept == {p \in DOMAIN retx : ~Acked(p, status)} \ GivenUp(status)
<1>4. retx' = [p \in kept |-> IF p \in ToRetransmit(status) THEN retx[p] + 1 ELSE retx[p]]
  BY DEF ReceiveStatus
<1>5. ASSUME NEW p \in kept
      PROVE  (IF p \in ToRetransmit(status) THEN retx[p] + 1 ELSE retx[p])
               \in 0 .. MaxRetries
  <2>1. retx[p] \in 0 .. MaxRetries /\ p \in DOMAIN retx
    BY DEF AmTypeOK
  <2>2. CASE p \in ToRetransmit(status)
    <3>1. ~(retx[p] + 1 > MaxRetries)
      BY <2>1, <2>2 DEF ToRetransmit, GivenUp
    <3> QED BY <2>1, <2>2, <3>1, MaxRetriesAssumption
  <2> QED BY <2>1, <2>2
<1>6. kept \subseteq DOMAIN retx
  OBVIOUS
<1>7. DOMAIN retx' = kept
  BY <1>4
<1>8. retx' \in [DOMAIN retx' -> 0 .. MaxRetries]
  <2> HIDE DEF kept
  <2> QED BY <1>4, <1>5
<1>9. AmTypeOK'
  BY <1>1, <1>2, <1>3, <1>6, <1>7, <1>8 DEF AmTypeOK
<1> QED BY <1>2, <1>3, <1>7, <1>9

LEMMA AmUnchanged ==
  ASSUME AmTypeOK, Stalled, UNCHANGED amVars
  PROVE  AmTypeOK' /\ Stalled' /\ Positions' = Positions
BY DEF amVars, txVars, rxVars, AmTypeOK, ReassemblyTypeOK, Positions, Stalled, SnsOf

-----------------------------------------------------------------------------
(* The acknowledged entity: order and account, within one generation.      *)

(* Accounted alone is not inductive: what is delivered, and which PDU a    *)
(* report speaks of, depends on where the receiver stands.                 *)
EntityInv == AmTypeOK /\ Stalled /\ ReceiverOrdered /\ Accounted

LEMMA InitEntityInv == AmInit => EntityInv
<1> SUFFICES ASSUME AmInit PROVE EntityInv
  OBVIOUS
<1>1. AmTypeOK /\ Stalled
  BY AmInitType
<1>2. /\ sent = <<>> /\ expected = 0 /\ pending = {} /\ inProgress = <<>>
      /\ delivered = <<>>
      /\ Len(sent) = 0 /\ Len(inProgress) = 0 /\ Len(delivered) = 0 /\ Positions = {}
  BY DEF AmInit, ReassemblyInit, Positions
<1>3. ReceiverOrdered
  BY <1>2 DEF ReceiverOrdered, Contiguous, DeliveredBefore
<1>4. Accounted
  BY <1>2 DEF Accounted
<1> QED BY <1>1, <1>3, <1>4 DEF EntityInv

(* What the invariant says of the numbers involved. *)
LEMMA EntityFacts ==
  ASSUME OneGeneration, EntityInv
  PROVE  /\ AmTypeOK /\ Stalled /\ ReceiverOrdered /\ Accounted /\ ReassemblyTypeOK
         /\ sent \in Seq(SegmentIndicator) /\ Len(sent) \in Nat /\ Len(sent) <= MaxPdus
         /\ MaxPdus \in Nat
         /\ Positions \subseteq 0 .. MaxPdus /\ Positions \subseteq Nat
         /\ expected \in 0 .. MaxPdus /\ expected \in Nat /\ expected <= Len(sent)
         /\ DOMAIN retx \subseteq Positions /\ pending \subseteq Positions
         /\ received \subseteq Positions
<1>1. /\ AmTypeOK /\ ReassemblyTypeOK /\ Stalled /\ ReceiverOrdered /\ Accounted
      /\ DOMAIN retx \subseteq Positions /\ pending \subseteq Positions
      /\ received \subseteq Positions /\ sent \in Seq(SegmentIndicator)
  BY DEF EntityInv, AmTypeOK, ReassemblyTypeOK
<1>2. Len(sent) \in Nat /\ Len(sent) <= MaxPdus /\ MaxPdus \in Nat
  BY <1>1, LenProperties, MaxPdusAssumption DEF ReassemblyTypeOK
<1>3. Positions \subseteq 0 .. MaxPdus /\ Positions \subseteq Nat
  BY <1>1, <1>2, SnOfPosition DEF Positions
<1>4. expected \in SN /\ expected <= Len(sent)
  BY <1>1 DEF ReassemblyTypeOK, ReceiverOrdered
<1>5. expected \in 0 .. MaxPdus /\ expected \in Nat
  BY <1>2, <1>4, SnModulusAssumption DEF SN
<1> QED BY <1>1, <1>2, <1>3, <1>4, <1>5

LEMMA SnOfLinear ==
  ASSUME OneGeneration, NEW n \in 0 .. MaxPdus
  PROVE  SnOf(n) = n
BY SnModulusAssumption, MaxPdusAssumption DEF OneGeneration, SnOf

LEMMA SnDistanceLinear ==
  ASSUME OneGeneration, NEW a \in 0 .. MaxPdus, NEW b \in 0 .. MaxPdus, a <= b
  PROVE  SnDistance(a, b) = b - a
BY SnModulusAssumption, MaxPdusAssumption DEF OneGeneration, SnDistance

(* What a report says was true when it was built, and stays so.            *)
ReportTrue(status) ==
  /\ status.base <= expected
  /\ \A p \in 0 .. MaxPdus :
       status.base <= p /\ p - status.base \in status.bits => p \in received

(* A true report that acknowledges a PDU acknowledges one that arrived or  *)
(* that the receiver is past.                                              *)
LEMMA AckedMeans ==
  ASSUME OneGeneration, NEW status \in Status, status.base \in 0 .. MaxPdus,
         ReportTrue(status), expected \in Int, NEW p \in 0 .. MaxPdus, Acked(p, status)
  PROVE  p \in received \/ p < status.base
<1>1. SnOf(p) = p
  BY SnOfLinear
<1>2. SnPrecedes(p, status.base) <=> p < status.base
  BY SnPrecedesLinear
<1>3. status.base <= p => SnDistance(status.base, p) = p - status.base
  BY SnDistanceLinear
<1> QED BY <1>1, <1>2, <1>3, MaxPdusAssumption DEF Acked, ReportTrue

(* A report says what is so. *)
LEMMA BuildStatusTrue ==
  ASSUME OneGeneration, AmTypeOK, expected \in 0 .. MaxPdus
  PROVE  ReportTrue(BuildStatus)
<1> DEFINE status == BuildStatus
<1>1. status.base = expected /\
      status.bits = {o \in Offsets : SnAdd(expected, o) \in SnsOf(received)}
  BY DEF BuildStatus
<1>2. expected \in Nat /\ expected <= MaxPdus /\ MaxPdus \in Nat
  BY MaxPdusAssumption
<1>3. SnsOf(received) = received
  BY SnsOfPositions DEF AmTypeOK
<1>4. ASSUME NEW p \in 0 .. MaxPdus, status.base <= p, p - status.base \in status.bits
      PROVE  p \in received
  <2>1. SnAdd(expected, p - expected) \in received
    BY <1>1, <1>3, <1>4
  <2>2. p - expected \in 0 .. MaxPdus
    BY <1>1, <1>2, <1>4
  <2>3. SnAdd(expected, p - expected) = p
    BY <1>2, <2>2, SnAddLinear
  <2> QED BY <2>1, <2>3
<1> QED BY <1>1, <1>2, <1>4 DEF ReportTrue

(* Positions appended to the stream disturb nothing the receiver holds.    *)
LEMMA GrownOrdered ==
  ASSUME ReassemblyTypeOK, ReceiverOrdered, NEW n \in Nat, Grown(n)
  PROVE  ReceiverOrdered'
<1>1. /\ UNCHANGED <<expected, pending, inProgress, delivered>>
      /\ Len(sent) \in Nat /\ Len(sent') = Len(sent) + n /\ expected \in Int
      /\ inProgress \in Seq(Positions) /\ delivered \in Seq(Positions)
  BY LenProperties, SnModulusAssumption DEF Grown, rxVars, ReassemblyTypeOK, SN
<1>2. \A p \in Positions : EndsSdu(p)' <=> EndsSdu(p)
  BY DEF Grown, EndsSdu
<1>3. \A i \in 1 .. Len(inProgress) : EndsSdu(inProgress[i])' <=> EndsSdu(inProgress[i])
  BY <1>1, <1>2, ElementOfSeq DEF EndsSdu, Indicator
<1>4. \A i \in 1 .. Len(delivered) : EndsSdu(delivered[i])' <=> EndsSdu(delivered[i])
  BY <1>1, <1>2, ElementOfSeq DEF EndsSdu, Indicator
<1>5. Contiguous(inProgress, expected)'
  BY <1>1, <1>3 DEF ReceiverOrdered, Contiguous
<1>6. DeliveredBefore(expected - Len(inProgress))'
  BY <1>1, <1>4 DEF ReceiverOrdered, DeliveredBefore
<1> QED BY <1>1, <1>5, <1>6 DEF ReceiverOrdered

(* transmit: no two PDUs of a generation share a number, so the buffer     *)
(* keeps what it has.                                                      *)
LEMMA AmTransmitKeeps ==
  ASSUME OneGeneration, EntityInv, NEW count \in Nat \ {0}, Len(sent) + count <= MaxPdus,
         AmTransmit(count)
  PROVE  /\ EntityInv' /\ Grown(count)
         /\ DOMAIN retx' = DOMAIN retx \cup Numbered(count)
         /\ UNCHANGED <<burnt, failed, received, expected>>
<1>1. AmTypeOK' /\ Stalled' /\ Grown(count)
  BY AmTransmitType DEF EntityInv
<1>2. Transmit(count) /\ UNCHANGED <<rxVars, burnt, failed, received, expected>>
  BY DEF AmTransmit, Transmit, rxVars
<1>3. ReceiverOrdered'
  BY <1>1, GrownOrdered, EntityFacts
<1>4. DOMAIN retx' = DOMAIN retx \cup Numbered(count)
  <2> DEFINE new  == Numbered(count)
             kept == {p \in DOMAIN retx : SnOf(p) \notin SnsOf(new)}
  <2>1. retx' = [p \in kept \cup new |-> IF p \in new THEN 0 ELSE retx[p]]
    BY DEF AmTransmit
  <2>2. \A p \in Positions' : SnOf(p) = p
    <3>1. Positions' \subseteq 0 .. MaxPdus
      BY <1>1, EntityFacts DEF Grown
    <3> QED BY <3>1, SnOfLinear
  <2>3. new \subseteq Positions' /\ DOMAIN retx \subseteq Positions'
    BY <1>1, EntityFacts DEF Grown
  <2>4. SnsOf(new) = new
    BY <2>2, <2>3 DEF SnsOf
  <2>5. \A p \in DOMAIN retx : p \in kept \/ p \in new
    BY <2>2, <2>3, <2>4
  <2>6. DOMAIN retx' = kept \cup new
    BY <2>1
  <2>7. kept \subseteq DOMAIN retx
    OBVIOUS
  <2> HIDE DEF kept
  <2> QED BY <2>5, <2>6, <2>7
<1>5. Accounted'
  BY <1>1, <1>2, <1>4, EntityFacts DEF Accounted, Grown
<1> QED BY <1>1, <1>2, <1>3, <1>4, <1>5 DEF EntityInv

LEMMA AmTransmitTooLongKeeps ==
  ASSUME OneGeneration, EntityInv, NEW count \in Nat \ {0}, Len(sent) + count <= MaxPdus,
         AmTransmitTooLong(count)
  PROVE  /\ EntityInv' /\ Grown(SoLimit) /\ SoLimit \in Nat \ {0}
         /\ burnt' = burnt \cup Numbered(SoLimit)
         /\ UNCHANGED <<retx, failed, received, expected>>
<1>1. AmTypeOK' /\ Stalled' /\ Grown(SoLimit)
  BY AmTransmitTooLongType DEF EntityInv
<1>2. /\ SoLimit \in Nat \ {0} /\ burnt' = burnt \cup Numbered(SoLimit)
      /\ UNCHANGED <<retx, failed, received, expected>>
  BY SoAssumption DEF AmTransmitTooLong, TransmitTooLong, rxVars
<1>3. ReceiverOrdered'
  BY <1>1, <1>2, GrownOrdered, EntityFacts
<1>4. Accounted'
  BY <1>1, <1>2, EntityFacts DEF Accounted, Grown
<1> QED BY <1>1, <1>2, <1>3, <1>4 DEF EntityInv

(* receive_data, of any PDU of the stream, new or repeated. *)
LEMMA ReceiveDataKeeps ==
  ASSUME OneGeneration, EntityInv, NEW p \in Positions, ReceiveData(p)
  PROVE  /\ EntityInv' /\ expected <= expected'
         /\ UNCHANGED <<sent, burnt, retx, failed, Positions>>
         /\ received' = received \cup {p}
<1>1. AmTypeOK' /\ Stalled' /\ Positions' = Positions
  BY ReceiveDataType DEF EntityInv
<1>2. /\ Ingest(p) /\ UNCHANGED <<txVars, sent, burnt, retx, failed>>
      /\ received' = received \cup {p}
  BY DEF ReceiveData, txVars
<1>3. ReceiverOrdered' /\ expected <= expected'
  BY <1>2, IngestOrdered, EntityFacts
<1>4. expected' \in Int
  BY <1>1, SnModulusAssumption DEF AmTypeOK, ReassemblyTypeOK, SN
<1>5. Accounted'
  BY <1>1, <1>2, <1>3, <1>4, EntityFacts DEF Accounted
<1> QED BY <1>1, <1>2, <1>3, <1>5 DEF EntityInv

(* receive_status, of a report that says nothing but what is so. *)
LEMMA ReceiveStatusKeeps ==
  ASSUME OneGeneration, EntityInv, NEW status \in Status, ReportTrue(status),
         ReceiveStatus(status)
  PROVE  /\ EntityInv'
         /\ UNCHANGED <<sent, burnt, expected, received, Positions>>
         /\ failed' = failed \cup GivenUp(status)
         /\ DOMAIN retx' = {p \in DOMAIN retx : ~Acked(p, status)} \ GivenUp(status)
<1>1. /\ AmTypeOK' /\ Stalled' /\ Positions' = Positions
      /\ DOMAIN retx' = {p \in DOMAIN retx : ~Acked(p, status)} \ GivenUp(status)
  BY ReceiveStatusType DEF EntityInv
<1>2. /\ UNCHANGED <<sent, burnt, expected, pending, inProgress, delivered, received>>
      /\ failed' = failed \cup GivenUp(status)
  BY DEF ReceiveStatus, txVars, rxVars
<1>3. ReceiverOrdered'
  BY <1>2, EntityFacts DEF ReceiverOrdered, Contiguous, DeliveredBefore, EndsSdu, Indicator
<1>4. status.base \in 0 .. MaxPdus /\ status.base <= expected
  <2>1. status.base \in SN /\ status.base <= expected
    BY DEF Status, ReportTrue
  <2> QED BY <2>1, EntityFacts, SnModulusAssumption DEF SN
<1>5. \A p \in DOMAIN retx : Acked(p, status) => p \in received \/ p < expected
  <2> TAKE p \in DOMAIN retx
  <2>1. p \in 0 .. MaxPdus
    BY EntityFacts
  <2>2. Acked(p, status) => p \in received \/ p < status.base
    BY <1>4, <2>1, AckedMeans, EntityFacts
  <2> QED BY <1>4, <2>1, <2>2, EntityFacts
<1>6. Accounted'
  BY <1>1, <1>2, <1>5, EntityFacts DEF Accounted
<1> QED BY <1>1, <1>2, <1>3, <1>6 DEF EntityInv

LEMMA EntityUnchanged ==
  ASSUME EntityInv, UNCHANGED amVars
  PROVE  EntityInv'
<1>1. AmTypeOK' /\ Stalled' /\ Positions' = Positions
  BY AmUnchanged DEF EntityInv
<1>2. UNCHANGED <<sent, burnt, expected, pending, inProgress, delivered,
                  retx, failed, received>>
  BY DEF amVars, txVars, rxVars
<1>3. ReceiverOrdered'
  BY <1>2 DEF EntityInv, ReceiverOrdered, Contiguous, DeliveredBefore, EndsSdu, Indicator
<1> QED BY <1>1, <1>2, <1>3 DEF EntityInv, Accounted

-----------------------------------------------------------------------------
(* The acknowledged entity: exactness, while the receiver gives nothing up. *)

(* All up to the expected PDU was handed over or is being collected, and   *)
(* nothing else has arrived than what is held back.                        *)
ExactSoFar ==
  /\ ExactUpTo(expected)
  /\ \A q \in received : q < expected \/ q \in pending

LEMMA InitExactSoFar == AmInit => ExactSoFar
<1> SUFFICES ASSUME AmInit PROVE ExactSoFar
  OBVIOUS
<1>1. /\ expected = 0 /\ inProgress = <<>> /\ delivered = <<>> /\ received = {}
  BY DEF AmInit, ReassemblyInit
<1>2. SnOf(0) = 0
  BY SnModulusAssumption DEF SnOf
<1> QED BY <1>1, <1>2 DEF ExactSoFar, ExactUpTo

(* It stays so as long as nothing is sent that lies further than the       *)
(* window beyond the PDU the receiver waits for.                           *)
LEMMA ReceiveExact ==
  ASSUME OneGeneration, EntityInv, ExactSoFar, NEW p \in Positions, ReceiveData(p),
         expected <= p => Len(sent) - expected <= WindowSize + 1
  PROVE  ExactSoFar'
<1>1. /\ ReassemblyTypeOK /\ ReceiverOrdered
      /\ received \subseteq Positions /\ pending \subseteq Positions
      /\ Len(sent) \in Nat /\ Len(sent) <= MaxPdus /\ MaxPdus \in Nat
      /\ expected \in Nat /\ expected <= Len(sent) /\ Positions \subseteq Nat
      /\ WindowSize \in Nat \ {0} /\ SnModulus \in Nat /\ SnModulus >= 2
  BY EntityFacts, WindowAssumption, SnModulusAssumption
<1>2. /\ Ingest(p) /\ received' = received \cup {p} /\ UNCHANGED <<txVars, sent>>
  BY DEF ReceiveData, txVars
<1>3. /\ ExactUpTo(expected)
      /\ \A q \in received : q < expected \/ q \in pending
  BY DEF ExactSoFar
<1>4. CASE p < expected
  <2>1. SnOf(p) = p /\ p \in 0 .. MaxPdus /\ expected \in 0 .. MaxPdus
    BY <1>1, SnOfPosition
  <2>2. Stale(p)
    BY <1>4, <2>1, SnPrecedesLinear DEF Stale
  <2>3. UNCHANGED <<expected, pending, inProgress, delivered>>
    BY <1>2, <2>2 DEF Ingest, DropStale, Accept, Resync, rxVars
  <2> QED BY <1>2, <1>3, <1>4, <2>3 DEF ExactSoFar, ExactUpTo
<1>5. CASE expected <= p
  <2> DEFINE reach == IF WindowSize <= MaxPdus THEN WindowSize ELSE MaxPdus
  <2>1. /\ reach \in Nat /\ reach <= WindowSize /\ reach <= SnModulus \div 2
        /\ Len(sent) - expected <= reach + 1
    BY <1>1, <1>5 DEF OneGeneration
  <2> HIDE DEF reach
  <2>2. PICK n \in Nat : n = expected
    BY <1>1
  <2>3. HeldBack(n, reach)
    <3> SUFFICES ASSUME NEW q \in pending PROVE q \in n + 1 .. n + reach
      BY DEF HeldBack
    <3>1. expected < q /\ q \in Nat /\ q <= Len(sent) - 1
      BY <1>1 DEF ReceiverOrdered, Positions
    <3> QED BY <1>1, <2>1, <2>2, <3>1
  <2>4. p \in n .. n + reach
    BY <1>1, <1>5, <2>1, <2>2 DEF Positions
  <2>5. PICK count \in Nat :
          /\ ExactUpTo(n + count)'
          /\ n .. n + count - 1 \subseteq pending \cup {p}
          /\ pending' = (pending \cup {p}) \ (n .. n + count - 1)
          /\ n + count \notin pending'
    BY <1>1, <1>2, <1>3, <2>1, <2>2, <2>3, <2>4, IngestExact
  <2>6. n + count \in 0 .. MaxPdus
    <3>1. CASE count = 0
      BY <1>1, <2>2, <3>1
    <3>2. CASE count # 0
      <4>1. n + count - 1 \in n .. n + count - 1
        BY <3>2
      <4>2. n + count - 1 \in Positions
        BY <1>1, <2>5, <4>1
      <4> QED BY <1>1, <4>2 DEF Positions
    <3> QED BY <3>1, <3>2
  <2>7. expected' = n + count
    <3>1. expected' = SnOf(n + count)
      BY <2>5 DEF ExactUpTo
    <3> QED BY <2>6, <3>1, SnOfLinear
  <2>8. ASSUME NEW q \in received' PROVE q < expected' \/ q \in pending'
    <3>1. q \in Nat /\ (q < expected \/ q \in pending \cup {p})
      BY <1>1, <1>2, <1>3
    <3>2. CASE q < expected
      BY <1>1, <2>2, <2>7, <3>1, <3>2
    <3>3. CASE q \in pending \cup {p} /\ ~(q < expected)
      BY <1>1, <2>2, <2>5, <2>7, <3>1, <3>3
    <3> QED BY <3>1, <3>2, <3>3
  <2>9. ExactUpTo(expected)'
    BY <2>5, <2>7 DEF ExactUpTo
  <2> QED BY <2>8, <2>9 DEF ExactSoFar
<1> QED BY <1>1, <1>4, <1>5

-----------------------------------------------------------------------------
(* The unacknowledged link.                                                *)

(* As long as nothing is missing, some n positions were handed over or     *)
(* collected, every later one is either on the air or held back, and       *)
(* position n, which the receiver waits for, is not held back.             *)
Complete(n) ==
  /\ ExactUpTo(n)
  /\ inFlight \cup pending = n .. Len(sent) - 1
  /\ inFlight \cap pending = {}
  /\ n \notin pending
  /\ \A p \in inFlight : Len(sent) - p <= MaxSpread

UmInv ==
  /\ ReassemblyTypeOK
  /\ inFlight \subseteq Positions
  /\ Missing = {} => \E n \in 0 .. Len(sent) : Complete(n)

LEMMA InitUmInv == UmInit => UmInv
<1> SUFFICES ASSUME UmInit PROVE UmInv
  OBVIOUS
<1>1. /\ sent = <<>> /\ Len(sent) = 0 /\ Positions = {}
      /\ expected = 0 /\ pending = {} /\ inProgress = <<>> /\ delivered = <<>>
      /\ burnt = {} /\ inFlight = {}
  BY DEF UmInit, ReassemblyInit, Positions
<1>2. ReassemblyTypeOK
  BY <1>1, EmptyIsSeq, SnModulusAssumption, MaxPdusAssumption DEF ReassemblyTypeOK, SN
<1>3. Complete(0)
  <2>1. SnOf(0) = 0
    BY SnModulusAssumption DEF SnOf
  <2> QED BY <1>1, <2>1 DEF Complete, ExactUpTo
<1> QED BY <1>1, <1>2, <1>3 DEF UmInv

(* A segment that reaches the receiver.                                    *)
LEMMA ReceiveComplete ==
  ASSUME AirWithinWindow, UmInv, Missing = {}, NEW p \in inFlight, UmReceive(p)
  PROVE  \E n \in 0 .. Len(sent) : Complete(n)'
<1>1. /\ Ingest(p) /\ inFlight' = inFlight \ {p} /\ UNCHANGED txVars /\ sent' = sent
      /\ p \in Positions /\ ReassemblyTypeOK /\ Len(sent) \in Nat
      /\ MaxSpread \in Nat /\ WindowSize \in Nat
  BY LenProperties, UmAssumption, WindowAssumption
  DEF UmReceive, txVars, UmInv, ReassemblyTypeOK
<1>2. PICK n \in 0 .. Len(sent) : Complete(n)
  BY DEF UmInv
<1> DEFINE reach == MaxSpread - 1
<1>3. p \in n .. Len(sent) - 1 /\ n \in inFlight
  <2>1. p \in n .. Len(sent) - 1
    BY <1>2 DEF Complete
  <2>2. n \in n .. Len(sent) - 1
    BY <1>1, <2>1
  <2> QED BY <1>2, <2>1, <2>2 DEF Complete
<1>4. /\ reach \in Nat /\ reach <= WindowSize /\ reach <= SnModulus \div 2
      /\ n .. Len(sent) - 1 \subseteq n .. n + reach /\ n \in Nat
  <2>1. Len(sent) - n <= MaxSpread /\ n < Len(sent)
    BY <1>1, <1>2, <1>3 DEF Complete
  <2> QED BY <1>1, <2>1, SnModulusAssumption DEF AirWithinWindow
<1>5. HeldBack(n, reach)
  <2>1. pending \subseteq n .. n + reach /\ n \notin pending
    BY <1>2, <1>4 DEF Complete
  <2> QED BY <1>4, <2>1 DEF HeldBack
<1>6. ExactUpTo(n) /\ p \in n .. n + reach
  BY <1>2, <1>3, <1>4 DEF Complete
<1> HIDE DEF reach
<1>7. PICK count \in Nat :
        /\ ExactUpTo(n + count)'
        /\ n .. n + count - 1 \subseteq pending \cup {p}
        /\ pending' = (pending \cup {p}) \ (n .. n + count - 1)
        /\ n + count \notin pending'
  BY <1>1, <1>4, <1>5, <1>6, IngestExact
<1>8. n + count \in 0 .. Len(sent)
  <2>1. CASE count = 0
    BY <2>1
  <2>2. CASE count # 0
    <3>1. n + count - 1 \in n .. n + count - 1
      BY <2>2
    <3>2. n + count - 1 \in n .. Len(sent) - 1
      BY <1>2, <1>3, <1>7, <3>1 DEF Complete
    <3> QED BY <1>1, <3>2
  <2> QED BY <2>1, <2>2
<1>9. inFlight' \cap (n .. n + count - 1) = {}
  BY <1>1, <1>2, <1>7 DEF Complete
<1>10. inFlight' \cup pending' = (inFlight \cup pending) \ (n .. n + count - 1)
  BY <1>1, <1>7, <1>9
<1>11. (n .. Len(sent) - 1) \ (n .. n + count - 1) = n + count .. Len(sent) - 1
  BY <1>1, <1>8
<1>12. inFlight' \cap pending' = {}
  BY <1>1, <1>2, <1>7 DEF Complete
<1>13. Complete(n + count)'
  BY <1>1, <1>2, <1>7, <1>10, <1>11, <1>12 DEF Complete
<1> QED BY <1>8, <1>13

LEMMA NextUmInv == ASSUME AirWithinWindow, UmInv, [UmNext]_umVars PROVE UmInv'
<1>1. /\ ReassemblyTypeOK /\ inFlight \subseteq Positions
      /\ SduSizes \subseteq Nat \ {0} /\ MaxSpread \in Nat /\ Len(sent) \in Nat
  BY LenProperties, UmAssumption, SduAssumption DEF UmInv, ReassemblyTypeOK
<1>2. ASSUME NEW count \in SduSizes, UmSend(count) PROVE UmInv'
  <2>1. /\ Len(sent) + count <= MaxPdus /\ Transmit(count) /\ UNCHANGED rxVars
        /\ inFlight' = inFlight \cup Numbered(count) /\ UNCHANGED <<lost, burnt>>
        /\ count <= MaxSpread /\ count \in Nat
        /\ \A p \in inFlight : Len(sent) + count - p <= MaxSpread
    BY <1>1, <1>2 DEF UmSend, Transmit
  <2>2. ReassemblyTypeOK' /\ Grown(count)
    BY <1>1, <2>1, TransmitGrows
  <2>3. inFlight' \subseteq Positions'
    BY <1>1, <2>1, <2>2 DEF Grown
  <2>4. ASSUME Missing' = {} PROVE \E n \in 0 .. Len(sent)' : Complete(n)'
    <3>1. PICK n \in 0 .. Len(sent) : Complete(n)
      BY <2>1, <2>4 DEF UmInv, Missing
    <3>2. Len(sent') = Len(sent) + count
      BY <2>2 DEF Grown
    <3>3. ExactUpTo(n)' /\ pending' = pending
      BY <2>1, <3>1 DEF Complete, ExactUpTo, rxVars
    <3>4. inFlight' \cup pending' = n .. Len(sent') - 1
      BY <1>1, <2>1, <3>1, <3>2, <3>3 DEF Complete, Numbered
    <3>5. inFlight' \cap pending' = {}
      BY <1>1, <2>1, <3>1, <3>3 DEF Complete, Numbered
    <3>6. ASSUME NEW p \in inFlight' PROVE Len(sent') - p <= MaxSpread
      <4>1. CASE p \in inFlight
        <5>1. Len(sent) + count - p <= MaxSpread
          BY <2>1, <4>1, Zenon
        <5>2. p \in Int
          BY <1>1, <4>1, PositionsFinite DEF ReassemblyTypeOK
        <5> QED BY <1>1, <2>1, <3>2, <5>1, <5>2
      <4>2. CASE p \in Numbered(count)
        <5>1. p \in Int /\ p >= Len(sent)
          BY <1>1, <2>1, <4>2 DEF Numbered
        <5>2. Len(sent) + count - p <= count
          BY <1>1, <2>1, <5>1
        <5> QED BY <1>1, <2>1, <3>2, <5>1, <5>2
      <4> QED BY <2>1, <4>1, <4>2
    <3> QED BY <1>1, <2>1, <3>1, <3>2, <3>3, <3>4, <3>5, <3>6 DEF Complete
  <2> QED BY <2>2, <2>3, <2>4 DEF UmInv
<1>3. ASSUME NEW count \in SduSizes, UmSendTooLong(count) PROVE UmInv'
  <2>1. /\ Len(sent) + count <= MaxPdus /\ TransmitTooLong(count)
        /\ UNCHANGED <<rxVars, inFlight>>
    BY <1>3 DEF UmSendTooLong
  <2>2. /\ ReassemblyTypeOK' /\ Grown(SoLimit) /\ SoLimit \in Nat \ {0}
        /\ burnt' = burnt \cup Numbered(SoLimit)
    BY <1>1, <2>1, TransmitTooLongGrows, SoAssumption
  <2>3. Len(sent) \in Missing'
    BY <1>1, <2>2 DEF Missing, Numbered
  <2>4. inFlight' \subseteq Positions'
    BY <1>1, <2>1, <2>2 DEF Grown
  <2> QED BY <2>2, <2>3, <2>4 DEF UmInv
<1>4. ASSUME NEW p \in inFlight, UmReceive(p) PROVE UmInv'
  <2>1. /\ p \in Positions /\ Ingest(p) /\ UNCHANGED txVars /\ Positions' = Positions
        /\ inFlight' \subseteq inFlight /\ UNCHANGED <<sent, burnt, lost>>
    BY <1>1, <1>4 DEF UmReceive, txVars, Positions
  <2>2. ReassemblyTypeOK'
    BY <1>1, <2>1, IngestType
  <2>3. Missing' = {} => \E n \in 0 .. Len(sent)' : Complete(n)'
    BY <1>4, <2>1, ReceiveComplete DEF Missing
  <2> QED BY <1>1, <2>1, <2>2, <2>3 DEF UmInv
<1>5. ASSUME NEW p \in inFlight, UmLose(p) PROVE UmInv'
  <2>1. /\ UNCHANGED <<sent, burnt, expected, pending, inProgress, delivered>>
        /\ inFlight' \subseteq inFlight /\ p \in Missing'
    BY <1>5 DEF UmLose, txVars, rxVars, Missing
  <2> QED BY <1>1, <2>1 DEF UmInv, ReassemblyTypeOK, Positions
<1>6. CASE UNCHANGED umVars
  <2>1. UNCHANGED <<sent, burnt, expected, pending, inProgress, delivered, inFlight, lost>>
    BY <1>6 DEF umVars, txVars, rxVars
  <2> QED
    BY <2>1 DEF UmInv, ReassemblyTypeOK, Positions, Missing, Complete, ExactUpTo
<1> QED BY <1>2, <1>3, <1>4, <1>5, <1>6 DEF UmNext

(* Over an air that loses nothing and reorders within the window, the      *)
(* receiver hands over exactly what was sent, each segment once and in     *)
(* order, however often the sequence numbers wrap (UmEntity.receive,       *)
(* ReassemblyBuffer.ingest): no late segment is taken for an old one, none *)
(* replaces another that has its number, no gap is given up.               *)
THEOREM Lossless == ASSUME AirWithinWindow PROVE UmSpec => []LosslessExact
<1>1. UmInv /\ [UmNext]_umVars => UmInv'
  BY NextUmInv
<1>2. UmInv => LosslessExact
  <2> SUFFICES ASSUME UmInv, Missing = {}
               PROVE  LET handed == delivered \o inProgress
                      IN  /\ \A i \in 1 .. Len(handed) : handed[i] = i - 1
                          /\ inFlight = {} => Len(handed) = Len(sent)
    BY DEF LosslessExact
  <2>1. PICK n \in 0 .. Len(sent) : Complete(n)
    BY DEF UmInv
  <2>2. Len(delivered \o inProgress) = n /\ delivered \o inProgress = [i \in 1 .. n |-> i - 1]
    BY <2>1, ExactConcat DEF UmInv, Complete
  <2>3. Len(sent) \in Nat
    BY LenProperties DEF UmInv, ReassemblyTypeOK
  <2>4. inFlight = {} => n = Len(sent)
    BY <2>1, <2>3 DEF Complete
  <2> QED BY <2>2, <2>4
<1> QED BY <1>1, <1>2, InitUmInv, PTL DEF UmSpec

=============================================================================
