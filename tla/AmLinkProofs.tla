---------------------------- MODULE AmLinkProofs ----------------------------
(***************************************************************************)
(* Theorems of AmLink for every window, SN modulus, retry budget, set of   *)
(* SDU sizes and caller, whatever the air loses, repeats or reorders.      *)
(***************************************************************************)
EXTENDS AmLink, EntityProofs, WellFoundedInduction

-----------------------------------------------------------------------------
(* Type correctness, and the window; both in any generation of the SN      *)
(* space.                                                                  *)

(* The set of reports on the air: finite and bounded. *)
ReportsFinite == IsFiniteSet(reports)

TypeInv == TypeOK /\ Stalled /\ ReportsFinite

LEMMA InitTypeInv == Init => TypeInv
<1> SUFFICES ASSUME Init PROVE TypeInv
  OBVIOUS
<1>1. AmTypeOK /\ Stalled
  BY AmInitType DEF Init
<1>2. Cardinality({}) = 0 /\ IsFiniteSet({})
  BY FS_EmptySet
<1>3. TypeOK
  BY <1>1, <1>2, CallerAssumption DEF Init, TypeOK
<1> QED BY <1>1, <1>2, <1>3 DEF Init, TypeInv, ReportsFinite

LEMMA NextTypeInv == ASSUME TypeInv, [Next]_vars PROVE TypeInv'
<1>1. /\ AmTypeOK /\ Stalled /\ MaxReports \in Nat /\ SduSizes \subseteq Nat \ {0}
      /\ data \subseteq Positions /\ reports \subseteq Status
      /\ IsFiniteSet(reports) /\ Cardinality(reports) <= MaxReports
      /\ DOMAIN retx \subseteq Positions
  BY CallerAssumption, SduAssumption DEF TypeInv, TypeOK, ReportsFinite, AmTypeOK
\* The entity has its types; what the step takes from the air, or puts there.
<1>2. ASSUME AmTypeOK', Stalled', data' \subseteq Positions', UNCHANGED reports
      PROVE  TypeInv'
  BY <1>1, <1>2 DEF TypeInv, TypeOK, ReportsFinite
<1>3. ASSUME AmTypeOK', Stalled', data' \subseteq Positions',
             NEW status, reports' = reports \ {status}
      PROVE  TypeInv'
  <2>1. IsFiniteSet(reports') /\ Cardinality(reports') <= Cardinality(reports)
        /\ Cardinality(reports) \in Nat /\ Cardinality(reports') \in Nat
    BY <1>1, <1>3, FS_Subset, FS_CardinalityType
  <2> QED BY <1>1, <1>3, <2>1 DEF TypeInv, TypeOK, ReportsFinite
<1>4. ASSUME NEW count \in SduSizes, Send(count) PROVE TypeInv'
  <2>1. AmTypeOK' /\ Stalled' /\ Grown(count)
    BY <1>1, <1>4, AmTransmitType DEF Send
  <2> QED BY <1>1, <1>2, <1>4, <2>1 DEF Send, Grown
<1>5. ASSUME NEW count \in SduSizes, SendTooLong(count) PROVE TypeInv'
  <2>1. AmTypeOK' /\ Stalled' /\ Grown(SoLimit)
    BY <1>1, <1>5, AmTransmitTooLongType DEF SendTooLong
  <2> QED BY <1>1, <1>2, <1>5, <2>1 DEF SendTooLong, Grown
<1>6. ASSUME NEW p \in data, DeliverData(p) PROVE TypeInv'
  <2>1. p \in Positions /\ ReceiveData(p) /\ UNCHANGED <<data, reports>>
    BY <1>1, <1>6 DEF DeliverData
  <2>2. AmTypeOK' /\ Stalled' /\ Positions' = Positions
    BY <1>1, <2>1, ReceiveDataType
  <2> QED BY <1>1, <1>2, <2>1, <2>2
<1>7. CASE Report
  <2>1. UNCHANGED <<amVars, data>> /\ reports' = reports \cup {BuildStatus}
        /\ Cardinality(reports) < MaxReports
    BY <1>7 DEF Report
  <2>2. AmTypeOK' /\ Stalled' /\ Positions' = Positions /\ BuildStatus \in Status
    BY <1>1, <2>1, AmUnchanged, BuildStatusType
  <2>3. IsFiniteSet(reports') /\ Cardinality(reports') <= Cardinality(reports) + 1
        /\ Cardinality(reports) \in Nat /\ Cardinality(reports') \in Nat
    <3>1. IsFiniteSet(reports')
          /\ Cardinality(reports') = IF BuildStatus \in reports THEN Cardinality(reports)
                                     ELSE Cardinality(reports) + 1
      BY <1>1, <2>1, FS_AddElement, Zenon
    <3>2. Cardinality(reports) \in Nat
      BY <1>1, FS_CardinalityType
    <3> QED BY <3>1, <3>2
  <2>4. Cardinality(reports') <= MaxReports
    BY <1>1, <2>1, <2>3
  <2> QED BY <1>1, <2>1, <2>2, <2>3, <2>4 DEF TypeInv, TypeOK, ReportsFinite
<1>8. ASSUME NEW status \in reports, DeliverReport(status) PROVE TypeInv'
  <2>1. ReceiveStatus(status) /\ data' = data \cup ToRetransmit(status)
        /\ reports' = reports \ {status}
    BY <1>8 DEF DeliverReport
  <2>2. AmTypeOK' /\ Stalled' /\ Positions' = Positions
        /\ ToRetransmit(status) \subseteq DOMAIN retx
    BY <1>1, <2>1, ReceiveStatusType
  <2> QED BY <1>1, <1>3, <2>1, <2>2
<1>9. ASSUME UNCHANGED amVars, data' \subseteq data \cup PendingPdus
      PROVE  AmTypeOK' /\ Stalled' /\ data' \subseteq Positions'
  BY <1>1, <1>9, AmUnchanged DEF PendingPdus
<1>10. CASE ResendAll
  BY <1>2, <1>9, <1>10 DEF ResendAll
<1>11. ASSUME NEW p \in data, LoseData(p) PROVE TypeInv'
  BY <1>2, <1>9, <1>11 DEF LoseData
<1>12. ASSUME NEW status \in reports, LoseReport(status) PROVE TypeInv'
  BY <1>3, <1>9, <1>12 DEF LoseReport
<1>13. CASE UNCHANGED vars
  BY <1>2, <1>9, <1>13 DEF vars
<1> QED
  BY <1>4, <1>5, <1>6, <1>7, <1>8, <1>10, <1>11, <1>12, <1>13 DEF Next

(* Every variable keeps its type. *)
THEOREM TypeCorrect == Spec => []TypeOK
<1>1. TypeInv /\ [Next]_vars => TypeInv'
  BY NextTypeInv
<1>2. TypeInv => TypeOK
  BY DEF TypeInv
<1> QED BY <1>1, <1>2, InitTypeInv, PTL DEF Spec

(* ingest never leaves more than WindowSize segments pending, in any       *)
(* generation of the SN space and whatever the other end does.             *)
THEOREM WindowKept == Spec => []PendingBounded
<1>1. TypeInv /\ [Next]_vars => TypeInv'
  BY NextTypeInv
<1>2. TypeInv => PendingBounded
  BY DEF TypeInv, Stalled, PendingBounded
<1> QED BY <1>1, <1>2, InitTypeInv, PTL DEF Spec

-----------------------------------------------------------------------------
(* One generation of the SN space: order and account.                      *)

ReportsTrue == \A status \in reports : ReportTrue(status)

(* The inductive invariant: a report that claimed too much would make the  *)
(* sender forget what has not arrived.                                     *)
LinkInv == TypeInv /\ EntityInv /\ ReportsTrue

LEMMA InitLinkInv == Init => LinkInv
<1> SUFFICES ASSUME Init PROVE LinkInv
  OBVIOUS
<1>1. TypeInv /\ EntityInv
  BY InitTypeInv, InitEntityInv DEF Init
<1> QED BY <1>1 DEF LinkInv, Init, ReportsTrue

(* A step of the receiver that takes no earlier promise back keeps every   *)
(* report true.                                                            *)
LEMMA ReportsStayTrue ==
  ASSUME ReportsTrue, reports \subseteq Status, reports' \subseteq reports,
         expected \in Int, expected' \in Int,
         expected <= expected', received \subseteq received'
  PROVE  ReportsTrue'
<1> SUFFICES ASSUME NEW status \in reports PROVE ReportTrue(status)'
  BY DEF ReportsTrue
<1>1. status.base \in Int /\ ReportTrue(status)
  BY SnModulusAssumption DEF Status, SN, ReportsTrue
<1> QED BY <1>1 DEF ReportTrue

LEMMA NextLinkInv ==
  ASSUME OneGeneration, LinkInv, [Next]_vars
  PROVE  LinkInv' /\ expected <= expected'
<1>1. TypeInv'
  BY NextTypeInv DEF LinkInv
<1>2. /\ EntityInv /\ ReportsTrue /\ AmTypeOK /\ reports \subseteq Status
      /\ data \subseteq Positions /\ SduSizes \subseteq Nat \ {0}
      /\ expected \in 0 .. MaxPdus /\ expected \in Int
  BY EntityFacts, SduAssumption DEF LinkInv, TypeInv, TypeOK
<1>3. expected' \in Int
  BY <1>1, SnModulusAssumption DEF TypeInv, TypeOK, AmTypeOK, ReassemblyTypeOK, SN
<1>4. ASSUME EntityInv', expected <= expected', received \subseteq received',
             reports' \subseteq reports
      PROVE  LinkInv' /\ expected <= expected'
  BY <1>1, <1>2, <1>3, <1>4, ReportsStayTrue DEF LinkInv
<1>5. ASSUME NEW count \in SduSizes, Send(count)
      PROVE  LinkInv' /\ expected <= expected'
  <2>1. EntityInv' /\ UNCHANGED <<expected, received>>
    BY <1>2, <1>5, AmTransmitKeeps DEF Send
  <2> QED BY <1>2, <1>4, <1>5, <2>1 DEF Send
<1>6. ASSUME NEW count \in SduSizes, SendTooLong(count)
      PROVE  LinkInv' /\ expected <= expected'
  <2>1. EntityInv' /\ UNCHANGED <<expected, received>>
    BY <1>2, <1>6, AmTransmitTooLongKeeps DEF SendTooLong
  <2> QED BY <1>2, <1>4, <1>6, <2>1 DEF SendTooLong
<1>7. ASSUME NEW p \in data, DeliverData(p)
      PROVE  LinkInv' /\ expected <= expected'
  <2>1. p \in Positions /\ ReceiveData(p) /\ reports' = reports
    BY <1>2, <1>7 DEF DeliverData
  <2>2. EntityInv' /\ expected <= expected' /\ received' = received \cup {p}
    BY <1>2, <2>1, ReceiveDataKeeps
  <2> QED BY <1>4, <2>1, <2>2
<1>8. ASSUME UNCHANGED amVars, reports' \subseteq reports \cup {BuildStatus}
      PROVE  LinkInv' /\ expected <= expected'
  <2>1. EntityInv' /\ UNCHANGED <<expected, received>>
    BY <1>2, <1>8, EntityUnchanged DEF amVars, rxVars
  <2>2. \A status \in reports \cup {BuildStatus} : ReportTrue(status)
    BY <1>2, BuildStatusTrue DEF ReportsTrue
  <2>3. ReportsTrue'
    BY <1>8, <2>1, <2>2 DEF ReportsTrue, ReportTrue
  <2> QED BY <1>1, <1>2, <2>1, <2>3 DEF LinkInv
<1>9. ASSUME NEW status \in reports, DeliverReport(status)
      PROVE  LinkInv' /\ expected <= expected'
  <2>1. ReceiveStatus(status) /\ reports' = reports \ {status}
        /\ status \in Status /\ ReportTrue(status)
    BY <1>2, <1>9 DEF DeliverReport, ReportsTrue
  <2>2. EntityInv' /\ UNCHANGED <<expected, received>>
    BY <1>2, <2>1, ReceiveStatusKeeps
  <2> QED BY <1>2, <1>4, <2>1, <2>2
<1>10. CASE \/ Report \/ ResendAll \/ UNCHANGED vars
            \/ \E p \in data : LoseData(p)
            \/ \E status \in reports : LoseReport(status)
  <2>1. UNCHANGED amVars /\ reports' \subseteq reports \cup {BuildStatus}
    BY <1>10 DEF Report, ResendAll, vars, LoseData, LoseReport
  <2> QED BY <1>8, <2>1
<1> QED BY <1>5, <1>6, <1>7, <1>9, <1>10 DEF Next

LEMMA LinkInvariant == ASSUME OneGeneration PROVE Spec => []LinkInv
<1>1. LinkInv /\ [Next]_vars => LinkInv'
  BY NextLinkInv
<1> QED BY <1>1, InitLinkInv, PTL DEF Spec

(* What is handed over, and then the unfinished SDU, ascend.               *)
LEMMA OrderedAscending ==
  ASSUME ReassemblyTypeOK, ReceiverOrdered
  PROVE  InOrderAtMostOnce
<1> DEFINE n == Len(delivered)
           m == Len(inProgress)
           handed == delivered \o inProgress
<1>1. /\ delivered \in Seq(Positions) /\ inProgress \in Seq(Positions)
      /\ n \in Nat /\ m \in Nat /\ expected \in Int
      /\ Positions \subseteq Nat
  BY LenProperties, PositionsFinite, SnModulusAssumption DEF ReassemblyTypeOK, SN
<1>2. /\ Len(handed) = n + m
      /\ \A i \in 1 .. n : handed[i] = delivered[i]
      /\ \A j \in 1 .. m : handed[n + j] = inProgress[j]
  BY <1>1
<1>3. /\ \A i \in 1 .. m : inProgress[i] = expected - m + i - 1
      /\ \A i \in 1 .. n : delivered[i] < expected - m
      /\ \A i \in 1 .. n - 1 : delivered[i] < delivered[i + 1]
  BY DEF ReceiverOrdered, Contiguous, DeliveredBefore
<1>4. \A i \in 1 .. n : delivered[i] \in Nat
  BY <1>1, ElementOfSeq
<1> HIDE DEF n, m, handed
<1>5. ASSUME NEW i \in 1 .. n + m - 1
      PROVE  handed[i] < handed[i + 1]
  <2>1. CASE i < n
    <3>1. i \in 1 .. n - 1 /\ i \in 1 .. n /\ i + 1 \in 1 .. n
      BY <1>1, <2>1
    <3> QED BY <1>2, <1>3, <3>1
  <2>2. CASE i = n
    <3>1. i \in 1 .. n /\ i + 1 = n + 1 /\ 1 \in 1 .. m
      BY <1>1, <2>2
    <3>2. handed[i] = delivered[i] /\ handed[i + 1] = inProgress[1]
      BY <1>2, <3>1
    <3>3. delivered[i] < expected - m /\ inProgress[1] = expected - m + 1 - 1
      BY <1>3, <3>1
    <3> QED BY <1>1, <1>4, <3>1, <3>2, <3>3
  <2>3. CASE n < i
    <3>1. i = n + (i - n) /\ i + 1 = n + (i + 1 - n)
          /\ i - n \in 1 .. m /\ i + 1 - n \in 1 .. m
      BY <1>1, <2>3
    <3>2. handed[i] = inProgress[i - n] /\ handed[i + 1] = inProgress[i + 1 - n]
      BY <1>2, <3>1
    <3>3. inProgress[i - n] = expected - m + (i - n) - 1
          /\ inProgress[i + 1 - n] = expected - m + (i + 1 - n) - 1
      BY <1>3, <3>1
    <3> QED BY <1>1, <3>1, <3>2, <3>3
  <2> QED BY <1>1, <2>1, <2>2, <2>3
<1>6. Ascending(handed)
  <2>1. 1 .. Len(handed) - 1 = 1 .. n + m - 1
    BY <1>1, <1>2
  <2> QED BY <1>5, <2>1 DEF Ascending
<1> QED BY <1>6 DEF InOrderAtMostOnce, handed

LEMMA OrderedIntact == ReceiverOrdered => SduIntact
  BY DEF ReceiverOrdered, DeliveredBefore, SduIntact

(* No segment is handed over twice or out of order, whatever the air       *)
(* repeats, reorders or loses and however the caller drives the entity.    *)
THEOREM InOrder == ASSUME OneGeneration PROVE Spec => []InOrderAtMostOnce
<1>1. LinkInv => InOrderAtMostOnce
  BY OrderedAscending DEF LinkInv, EntityInv, AmTypeOK
<1> QED BY <1>1, LinkInvariant, PTL

(* A completed SDU has no segment of another and no gap up to its end.     *)
THEOREM Intact == ASSUME OneGeneration PROVE Spec => []SduIntact
<1>1. LinkInv => SduIntact
  BY OrderedIntact DEF LinkInv, EntityInv
<1> QED BY <1>1, LinkInvariant, PTL

(* The sender forgets only PDUs that arrived, that it reported as failed,  *)
(* or that the receiver passed.                                            *)
THEOREM EveryPduAccounted == ASSUME OneGeneration PROVE Spec => []Accounted
<1>1. LinkInv => Accounted
  BY DEF LinkInv, EntityInv
<1> QED BY <1>1, LinkInvariant, PTL

(* The cumulative acknowledgment point never moves backward.               *)
THEOREM NeverRewinds == ASSUME OneGeneration PROVE Spec => ExpectedForward
<1>1. LinkInv /\ [Next]_vars => [expected' >= expected]_vars
  <2> SUFFICES ASSUME LinkInv, [Next]_vars PROVE expected' >= expected
    OBVIOUS
  <2>1. expected <= expected' /\ LinkInv'
    BY NextLinkInv
  <2>2. expected \in Int /\ expected' \in Int
    BY <2>1, SnModulusAssumption
    DEF LinkInv, EntityInv, AmTypeOK, ReassemblyTypeOK, SN
  <2> QED BY <2>1, <2>2
<1> QED BY <1>1, LinkInvariant, PTL DEF Spec, ExpectedForward

-----------------------------------------------------------------------------
(* A caller that keeps within the window.                                  *)

(* As long as no PDU is given up on: what the receiver handed over and     *)
(* collected is all of the stream up to the expected segment, and the      *)
(* sender is not further ahead of a PDU it keeps than the caller allows.   *)
Exact ==
  failed = {} /\ burnt = {} =>
    /\ ExactSoFar
    /\ \A p \in DOMAIN retx : Len(sent) - p <= MaxAhead

LEMMA InitExact == Init => Exact
<1> SUFFICES ASSUME Init PROVE Exact
  OBVIOUS
<1>1. AmInit /\ retx = <<>> /\ DOMAIN retx = {}
  BY DEF Init, AmInit
<1> QED BY <1>1, InitExactSoFar DEF Exact

(* A PDU that reaches the receiver: as long as the receiver has not passed *)
(* it, the sender still keeps the expected one.                            *)
LEMMA DeliverExact ==
  ASSUME OneGeneration, MaxAhead <= WindowSize + 1, LinkInv, Exact,
         failed = {}, burnt = {}, NEW p \in data, DeliverData(p)
  PROVE  ExactSoFar'
<1>1. /\ EntityInv /\ p \in Positions /\ ReceiveData(p)
  BY DEF LinkInv, TypeInv, TypeOK, DeliverData
<1>2. ExactSoFar /\ \A q \in DOMAIN retx : Len(sent) - q <= MaxAhead
  BY DEF Exact
<1>3. ASSUME expected <= p PROVE Len(sent) - expected <= WindowSize + 1
  <2>1. expected \in Positions /\ expected \notin received
    BY <1>1, <1>2, <1>3, EntityFacts DEF Positions, ExactSoFar, ReceiverOrdered
  <2>2. expected \in DOMAIN retx
    BY <2>1, <1>1, EntityFacts DEF Accounted
  <2>3. Len(sent) - expected <= MaxAhead /\ MaxAhead \in Nat /\ WindowSize \in Nat
        /\ Len(sent) \in Nat /\ expected \in Nat
    BY <1>1, <1>2, <2>2, EntityFacts, CallerAssumption, WindowAssumption
  <2> QED BY <2>3
<1> QED BY <1>1, <1>2, <1>3, ReceiveExact

LEMMA NextExact ==
  ASSUME OneGeneration, MaxAhead <= WindowSize + 1, LinkInv, Exact, [Next]_vars
  PROVE  Exact'
<1>1. /\ EntityInv /\ ReassemblyTypeOK /\ SduSizes \subseteq Nat \ {0}
      /\ DOMAIN retx \subseteq Positions /\ Positions \subseteq Nat
      /\ MaxAhead \in Nat /\ Len(sent) \in Nat
  BY EntityFacts, CallerAssumption, SduAssumption DEF LinkInv
<1> SUFFICES ASSUME failed' = {}, burnt' = {}
             PROVE  /\ ExactSoFar'
                    /\ \A p \in DOMAIN retx' : Len(sent') - p <= MaxAhead
  BY DEF Exact
<1>2. ASSUME UNCHANGED <<rxVars, received>>, failed = {}, burnt = {}
      PROVE  ExactSoFar'
  BY <1>2 DEF Exact, ExactSoFar, ExactUpTo, rxVars
<1>3. ASSUME NEW count \in SduSizes, Send(count)
      PROVE  /\ ExactSoFar'
             /\ \A p \in DOMAIN retx' : Len(sent') - p <= MaxAhead
  <2>1. /\ AmTransmit(count) /\ UNCHANGED <<rxVars, received, failed, burnt>>
        /\ count \in Nat \ {0} /\ Len(sent) + count <= MaxPdus /\ WithinWindow(count)
    BY <1>1, <1>3 DEF Send, AmTransmit, Transmit
  <2>2. /\ Len(sent') = Len(sent) + count
        /\ DOMAIN retx' = DOMAIN retx \cup Numbered(count)
    BY <1>1, <2>1, AmTransmitKeeps DEF Grown
  <2>3. ASSUME NEW p \in DOMAIN retx' PROVE Len(sent') - p <= MaxAhead
    <3>1. CASE p \in DOMAIN retx
      <4>1. p \in Nat /\ Len(sent) + count - p <= MaxAhead
        BY <1>1, <2>1, <3>1 DEF WithinWindow
      <4> QED BY <1>1, <2>1, <2>2, <4>1
    <3>2. CASE p \in Numbered(count)
      <4>1. p \in Int /\ p >= Len(sent) /\ count <= MaxAhead
        BY <1>1, <2>1, <3>2 DEF Numbered, WithinWindow
      <4> QED BY <1>1, <2>1, <2>2, <4>1
    <3> QED BY <2>2, <3>1, <3>2
  <2> QED BY <1>2, <2>1, <2>3
<1>4. ASSUME NEW count \in SduSizes, SendTooLong(count)
      PROVE  FALSE
  <2>1. AmTransmitTooLong(count) /\ Len(sent) + count <= MaxPdus
    BY <1>4 DEF SendTooLong
  <2>2. SoLimit \in Nat \ {0} /\ burnt' = burnt \cup Numbered(SoLimit)
    BY <1>1, <2>1, AmTransmitTooLongKeeps
  <2>3. Len(sent) \in Numbered(SoLimit)
    BY <1>1, <2>2 DEF Numbered
  <2> QED BY <2>2, <2>3
<1>5. ASSUME UNCHANGED <<sent, burnt>>, failed = {}, DOMAIN retx' \subseteq DOMAIN retx
      PROVE  \A p \in DOMAIN retx' : Len(sent') - p <= MaxAhead
  BY <1>5 DEF Exact
<1>6. ASSUME NEW p \in data, DeliverData(p)
      PROVE  /\ ExactSoFar'
             /\ \A q \in DOMAIN retx' : Len(sent') - q <= MaxAhead
  <2>1. UNCHANGED <<sent, burnt, retx, failed>>
    BY <1>6 DEF DeliverData, ReceiveData, txVars
  <2> QED BY <1>5, <1>6, <2>1, DeliverExact
<1>7. ASSUME NEW status \in reports, DeliverReport(status)
      PROVE  /\ UNCHANGED <<sent, burnt, rxVars, received>> /\ failed = {}
             /\ DOMAIN retx' \subseteq DOMAIN retx
  BY <1>7 DEF DeliverReport, ReceiveStatus, txVars
<1>8. CASE \E status \in reports : DeliverReport(status)
  BY <1>2, <1>5, <1>7, <1>8
<1>9. CASE \/ UNCHANGED vars \/ Report \/ ResendAll
           \/ \E p \in data : LoseData(p)
           \/ \E status \in reports : LoseReport(status)
  <2>1. UNCHANGED amVars
    BY <1>9 DEF vars, Report, ResendAll, LoseData, LoseReport
  <2> QED BY <1>2, <1>5, <2>1 DEF amVars, txVars
<1> QED BY <1>3, <1>4, <1>6, <1>8, <1>9 DEF Next

(* With a caller that keeps new PDUs within the window of the oldest       *)
(* unacknowledged one, the receiver hands over exactly what was sent until *)
(* the sender gives a PDU up: ingest never gives up a gap that a           *)
(* retransmission would still fill.                                        *)
THEOREM ExactDelivery ==
  ASSUME OneGeneration, MaxAhead <= WindowSize + 1
  PROVE  Spec => []ExactUntilGiveUp
<1>1. LinkInv /\ Exact => ExactUntilGiveUp
  <2> SUFFICES ASSUME LinkInv, Exact, failed = {}, burnt = {}
               PROVE  delivered \o inProgress = [i \in 1 .. expected |-> i - 1]
    BY DEF ExactUntilGiveUp
  <2>1. ReassemblyTypeOK /\ ExactUpTo(expected)
    BY DEF LinkInv, EntityInv, AmTypeOK, Exact, ExactSoFar
  <2> QED BY <2>1, ExactConcat
<1>2. LinkInv /\ Exact /\ [Next]_vars => LinkInv' /\ Exact'
  BY NextLinkInv, NextExact
<1> QED BY <1>1, <1>2, InitLinkInv, InitExact, PTL DEF Spec

-----------------------------------------------------------------------------
(* Counting.  A least counterexample takes the place of an induction.      *)

Below == {pair \in Nat \X Nat : pair[1] < pair[2]}

LEMMA LeastElement ==
  ASSUME NEW T \in SUBSET Nat, T # {}
  PROVE  \E x \in T : \A y \in T : x <= y
<1>1. IsWellFoundedOn(Below, Nat)
  BY NatLessThanWellFounded DEF OpToRel, Below
<1>2. \E x \in T : \A y \in T : ~ (<<y, x>> \in Below)
  BY <1>1, WFMin
<1>3. \A x, y \in T : ~ (<<y, x>> \in Below) => x <= y
  BY DEF Below
<1> QED BY <1>2, <1>3

LEMMA UpToFacts ==
  ASSUME NEW S \in SUBSET Nat, NEW n \in Nat
  PROVE  /\ IsFiniteSet({x \in S : x <= n}) /\ UpTo(S, n) \in Nat
         /\ \A m \in Nat : m <= n => UpTo(S, m) <= UpTo(S, n)
         /\ n \in S => \A m \in Nat : m < n => UpTo(S, m) < UpTo(S, n)
<1> DEFINE upTo(m) == {x \in S : x <= m}
<1>1. IsFiniteSet(upTo(n))
  BY FS_BoundedSetOfNaturals
<1>2. Cardinality(upTo(n)) \in Nat
  BY <1>1, FS_CardinalityType
<1>3. ASSUME NEW m \in Nat, m <= n
      PROVE  /\ Cardinality(upTo(m)) <= Cardinality(upTo(n))
             /\ n \in S /\ m < n => Cardinality(upTo(m)) < Cardinality(upTo(n))
  <2>1. upTo(m) \in SUBSET upTo(n)
    <3>1. \A x \in S : x \in Nat /\ (x <= m => x <= n)
      BY <1>3
    <3> QED BY <3>1
  <2>2. /\ IsFiniteSet(upTo(m)) /\ Cardinality(upTo(m)) <= Cardinality(upTo(n))
        /\ Cardinality(upTo(n)) = Cardinality(upTo(m)) => upTo(n) = upTo(m)
    BY <1>1, <2>1, FS_Subset
  <2>3. Cardinality(upTo(m)) \in Nat
    BY <2>2, FS_CardinalityType
  <2>4. ASSUME n \in S, m < n PROVE upTo(n) # upTo(m)
    <3>1. n \in upTo(n) /\ n \notin upTo(m)
      BY <2>4
    <3> QED BY <3>1
  <2> HIDE DEF upTo
  <2> QED BY <1>2, <2>2, <2>3, <2>4
<1> QED BY <1>1, <1>2, <1>3 DEF UpTo

LEMMA UpToNext ==
  ASSUME NEW S \in SUBSET Nat, NEW n \in Nat
  PROVE  UpTo(S, n + 1) = IF n + 1 \in S THEN UpTo(S, n) + 1 ELSE UpTo(S, n)
<1> DEFINE upTo == {x \in S : x <= n}
<1>1. IsFiniteSet(upTo) /\ n + 1 \notin upTo
  <2>1. IsFiniteSet(upTo)
    BY UpToFacts
  <2>2. ~ (n + 1 <= n)
    OBVIOUS
  <2> QED BY <2>1, <2>2
<1>2. CASE n + 1 \in S
  <2>1. {x \in S : x <= n + 1} = upTo \cup {n + 1}
    <3>1. \A x \in S : x <= n + 1 <=> x <= n \/ x = n + 1
      OBVIOUS
    <3> QED BY <1>2, <3>1
  <2>2. Cardinality(upTo \cup {n + 1}) = Cardinality(upTo) + 1
    BY <1>1, FS_AddElement
  <2> QED BY <1>2, <2>1, <2>2 DEF UpTo
<1>3. CASE n + 1 \notin S
  <2>1. {x \in S : x <= n + 1} = upTo
    <3>1. \A x \in S : x <= n + 1 <=> x <= n
      BY <1>3
    <3> QED BY <3>1
  <2> QED BY <1>3, <2>1 DEF UpTo
<1> QED BY <1>2, <1>3

LEMMA UpToZero ==
  ASSUME NEW S \in SUBSET Nat
  PROVE  UpTo(S, 0) = IF 0 \in S THEN 1 ELSE 0
<1>1. CASE 0 \in S
  <2>1. {x \in S : x <= 0} = {0}
    <3>1. \A x \in S : x <= 0 <=> x = 0
      OBVIOUS
    <3> QED BY <1>1, <3>1
  <2> QED BY <1>1, <2>1, FS_Singleton DEF UpTo
<1>2. CASE 0 \notin S
  <2>1. {x \in S : x <= 0} = {}
    <3>1. \A x \in S : ~ (x <= 0)
      BY <1>2
    <3> QED BY <3>1
  <2> QED BY <1>2, <2>1, FS_EmptySet DEF UpTo
<1> QED BY <1>1, <1>2

(* The elements of a finite set are numbered from 1 without a gap.         *)
LEMMA UpToNumbers ==
  ASSUME NEW S \in SUBSET (Nat \ {0}), IsFiniteSet(S)
  PROVE  {UpTo(S, x) : x \in S} = 1 .. Cardinality(S)
<1> DEFINE n == Cardinality(S)
           rank == [x \in S |-> UpTo(S, x)]
<1>0. n \in Nat /\ S \subseteq Nat
  BY FS_CardinalityType
<1>1. ASSUME NEW x \in S PROVE UpTo(S, x) \in 1 .. n
  <2>1. {y \in S : y <= x} \in SUBSET S
    OBVIOUS
  <2>2. UpTo(S, x) <= n
    BY <2>1, FS_Subset DEF UpTo
  <2>3. UpTo(S, 0) \in Nat /\ UpTo(S, x) \in Nat /\ UpTo(S, 0) < UpTo(S, x)
    <3>1. S \in SUBSET Nat /\ x \in Nat /\ 0 \in Nat /\ 0 < x
      BY <1>0
    <3> QED BY <3>1, UpToFacts
  <2> QED BY <1>0, <2>2, <2>3
<1>2. ASSUME NEW x \in S, NEW y \in S, UpTo(S, x) = UpTo(S, y) PROVE x = y
  <2>1. /\ x < y => UpTo(S, x) < UpTo(S, y)
        /\ y < x => UpTo(S, y) < UpTo(S, x)
        /\ UpTo(S, x) \in Nat
    BY <1>0, UpToFacts
  <2> QED BY <1>0, <1>2, <2>1
<1> HIDE DEF n
<1>3. rank \in Injection(S, 1 .. n)
  BY <1>1, <1>2 DEF Injection, IsInjective
<1>4. IsFiniteSet(1 .. n) /\ Cardinality(1 .. n) = n
  BY <1>0, FS_Interval
<1>5. rank \in Surjection(S, 1 .. n)
  BY <1>3, <1>4, FS_Injection DEF n
<1> QED BY <1>1, <1>5 DEF Surjection, n

LEMMA PairsAscend ==
  ASSUME NEW s, NEW n \in Nat, \A i \in 1 .. n : s[i] \in Nat,
         \A i \in 1 .. n - 1 : s[i] < s[i + 1],
         NEW i \in 1 .. n, NEW j \in 1 .. n, i < j
  PROVE  s[i] < s[j]
<1> DEFINE T == {k \in Nat : i < k /\ k <= n /\ ~ s[i] < s[k]}
<1> SUFFICES ASSUME T # {} PROVE FALSE
  OBVIOUS
<1>1. PICK k \in T : \A l \in T : k <= l
  BY LeastElement
<1>2. k \in Nat /\ i < k /\ k <= n /\ ~ s[i] < s[k] /\ k - 1 \notin T
  BY <1>1
<1>3. k - 1 \in 1 .. n - 1 /\ k - 1 \in 1 .. n /\ k - 1 + 1 = k /\ k \in 1 .. n
  BY <1>2
<1>4. s[k - 1] < s[k]
  BY <1>3
<1>5. i = k - 1 \/ s[i] < s[k - 1]
  BY <1>2, <1>3
<1> QED BY <1>2, <1>3, <1>4, <1>5

-----------------------------------------------------------------------------
(* The stream of segments: how transmit cuts it into SDUs.                 *)

(* An SDU starts first, or after the end of another; as long as none was   *)
(* refused half way, the stream is whole SDUs, one after the other.        *)
SduShape ==
  /\ Positions # {} => StartsSdu(0)
  /\ \A p \in Positions : EndsSdu(p) /\ p + 1 \in Positions => StartsSdu(p + 1)
  /\ burnt = {} =>
       \A p \in Positions : EndsSdu(p) <=> (p + 1 \in Positions => StartsSdu(p + 1))

LEMMA SegmentMarks ==
  ASSUME NEW count \in Nat \ {0}, NEW i \in 1 .. count
  PROVE  /\ SegmentAs(count)[i] \in {FULL, FIRST} <=> i = 1
         /\ SegmentAs(count)[i] \in {FULL, LAST} <=> i = count
<1>1. CASE count = 1
  BY <1>1 DEF SegmentAs, FULL, FIRST, MIDDLE, LAST
<1>2. CASE count > 1 /\ i = 1
  BY <1>2 DEF SegmentAs, FULL, FIRST, MIDDLE, LAST
<1>3. CASE count > 1 /\ 1 < i /\ i < count
  BY <1>3 DEF SegmentAs, FULL, FIRST, MIDDLE, LAST
<1>4. CASE count > 1 /\ i = count
  BY <1>4 DEF SegmentAs, FULL, FIRST, MIDDLE, LAST
<1> QED BY <1>1, <1>2, <1>3, <1>4

(* The first n segments of an SDU, all of them or the part numbered before *)
(* the refusal, are appended.                                              *)
SegmentsAppended(n, s) ==
  /\ sent' = sent \o s /\ s \in Seq(SegmentIndicator) /\ Len(s) = n
  /\ \A i \in 1 .. n : s[i] \in {FULL, FIRST} <=> i = 1
  /\ \A i \in 1 .. n : s[i] \in {FULL, LAST} => i = n
  /\ burnt' = {} => burnt = {} /\ s[n] \in {FULL, LAST}

LEMMA ShapeAppended ==
  ASSUME ReassemblyTypeOK, SduShape, NEW n \in Nat \ {0}, NEW s,
         Grown(n), SegmentsAppended(n, s)
  PROVE  SduShape' /\ Starts' = Starts \cup {Len(sent)} /\ Len(sent) \notin Starts
<1>1. PICK len \in Nat : len = Len(sent)
  BY LenProperties DEF ReassemblyTypeOK
<1>2. Positions = 0 .. len - 1 /\ Positions' = 0 .. len + n - 1
  BY <1>1 DEF Positions, Grown
<1>3. ASSUME NEW p \in Positions
      PROVE  /\ StartsSdu(p)' <=> StartsSdu(p)
             /\ EndsSdu(p)' <=> EndsSdu(p)
             /\ p \in Positions' /\ p \in Nat
  BY <1>2 DEF Grown, StartsSdu, EndsSdu
<1>4. ASSUME NEW p \in len .. len + n - 1
      PROVE  /\ StartsSdu(p)' <=> p = len
             /\ EndsSdu(p)' => p = len + n - 1
             /\ p = len + n - 1 /\ burnt' = {} => EndsSdu(p)'
  <2>1. PICK i \in 1 .. n : i = p - len + 1
    BY <1>1
  <2>2. sent \in Seq(SegmentIndicator) /\ s \in Seq(SegmentIndicator) /\ sent' = sent \o s
    BY DEF ReassemblyTypeOK, SegmentsAppended
  <2>3. \A k \in 1 .. Len(s) : sent'[Len(sent) + k] = s[k]
    BY ONLY <2>2, AppendedAt
  <2>4. sent'[len + i] = s[i] /\ len + i = p + 1
    BY <1>1, <2>1, <2>3 DEF SegmentsAppended
  <2>5. Indicator(p)' = s[i]
    BY <2>4 DEF Indicator
  <2>6. (i = 1 <=> p = len) /\ (i = n <=> p = len + n - 1)
    BY <1>1, <2>1
  <2> QED BY <2>5, <2>6 DEF StartsSdu, EndsSdu, SegmentsAppended
<1>5. Positions' # {} => StartsSdu(0)'
  <2>1. CASE len = 0
    BY <1>4, <2>1
  <2>2. CASE len > 0
    <3>1. 0 \in Positions
      BY <1>2, <2>2
    <3> QED BY <1>3, <3>1 DEF SduShape
  <2> QED BY <1>1, <2>1, <2>2
<1>6. ASSUME NEW p \in Positions'
      PROVE  /\ EndsSdu(p)' /\ p + 1 \in Positions' => StartsSdu(p + 1)'
             /\ burnt' = {} =>
                  (EndsSdu(p)' <=> (p + 1 \in Positions' => StartsSdu(p + 1)'))
  <2>1. PICK q \in Nat : q = p + 1
    BY <1>2
  <2>2. CASE q < len
    <3>1. p \in Positions /\ q \in Positions
      BY <1>2, <2>1, <2>2
    <3>2. /\ EndsSdu(p) /\ q \in Positions => StartsSdu(q)
          /\ burnt = {} => (EndsSdu(p) <=> (q \in Positions => StartsSdu(q)))
      BY <2>1, <3>1 DEF SduShape
    <3>3. burnt' = {} => burnt = {}
      BY DEF SegmentsAppended
    <3> QED BY <1>3, <2>1, <3>1, <3>2, <3>3
  <2>3. CASE q = len
    <3>1. p \in Positions /\ q \notin Positions /\ q \in len .. len + n - 1
      BY <1>2, <2>1, <2>3
    <3>2. StartsSdu(q)' /\ q \in Positions'
      BY <1>2, <1>4, <2>3, <3>1
    <3>3. burnt' = {} => EndsSdu(p)
      BY <2>1, <3>1 DEF SegmentsAppended, SduShape
    <3> QED BY <1>3, <2>1, <3>1, <3>2, <3>3
  <2>4. CASE q > len /\ q < len + n
    <3>1. /\ p \in len .. len + n - 1 /\ q \in len .. len + n - 1
          /\ p # len + n - 1 /\ q # len /\ q \in Positions'
      BY <1>2, <2>1, <2>4
    <3>2. ~EndsSdu(p)' /\ ~StartsSdu(q)'
      BY <1>4, <3>1
    <3> QED BY <2>1, <3>1, <3>2
  <2>5. CASE q = len + n
    <3>1. p \in len .. len + n - 1 /\ p = len + n - 1 /\ q \notin Positions'
      BY <1>2, <2>1, <2>5
    <3> QED BY <1>4, <2>1, <3>1
  <2>6. q <= len + n
    BY <1>2, <2>1
  <2> QED BY <2>1, <2>2, <2>3, <2>4, <2>5, <2>6
<1>7. SduShape'
  BY <1>5, <1>6 DEF SduShape
<1>8. ASSUME NEW p \in Positions' PROVE StartsSdu(p)' <=> p \in Starts \/ p = len
  <2>1. CASE p < len
    <3>1. p \in Positions /\ p # len
      BY <1>2, <2>1
    <3> QED BY <1>3, <3>1 DEF Starts
  <2>2. CASE p >= len
    <3>1. p \notin Positions /\ p \in len .. len + n - 1
      BY <1>2, <2>2
    <3> QED BY <1>4, <3>1 DEF Starts
  <2> QED BY <1>2, <2>1, <2>2
<1>9. len \in Positions' /\ Starts \subseteq Positions' /\ len \notin Starts
  BY <1>2 DEF Starts
<1>10. Starts' = {p \in Positions' : StartsSdu(p)'}
  BY DEF Starts
<1> QED BY <1>1, <1>7, <1>8, <1>9, <1>10

LEMMA InitShape == Init => SduShape
  BY DEF Init, AmInit, ReassemblyInit, SduShape, Positions

LEMMA SendShape ==
  ASSUME OneGeneration, LinkInv, SduShape, NEW count \in SduSizes, Send(count)
  PROVE  /\ SduShape' /\ Grown(count)
         /\ Starts' = Starts \cup {Len(sent)} /\ Len(sent) \notin Starts
         /\ UNCHANGED <<failed, burnt>>
<1>1. /\ EntityInv /\ ReassemblyTypeOK /\ count \in Nat \ {0}
      /\ AmTransmit(count) /\ Len(sent) + count <= MaxPdus
  BY SduAssumption DEF LinkInv, EntityInv, AmTypeOK, Send
<1>2. Grown(count) /\ UNCHANGED <<failed, burnt>>
  BY <1>1, AmTransmitKeeps
<1>3. PICK s : s = SegmentAs(count)
  OBVIOUS
<1>4. s \in Seq(SegmentIndicator) /\ Len(s) = count /\ sent' = sent \o s
  BY <1>1, <1>3, SegmentAsType DEF AmTransmit, Transmit
<1>5. \A i \in 1 .. count : /\ s[i] \in {FULL, FIRST} <=> i = 1
                            /\ s[i] \in {FULL, LAST} <=> i = count
  BY <1>1, <1>3, SegmentMarks
<1>6. count \in 1 .. count
  BY <1>1
<1>7. SegmentsAppended(count, s)
  BY <1>2, <1>4, <1>5, <1>6 DEF SegmentsAppended
<1> QED BY <1>1, <1>2, <1>7, ShapeAppended

LEMMA SendTooLongShape ==
  ASSUME OneGeneration, LinkInv, SduShape, NEW count \in SduSizes, SendTooLong(count)
  PROVE  /\ SduShape' /\ Grown(SoLimit)
         /\ Starts' = Starts \cup {Len(sent)} /\ Len(sent) \notin Starts
         /\ burnt' # {}
<1>1. /\ EntityInv /\ ReassemblyTypeOK /\ count \in Nat \ {0}
      /\ AmTransmitTooLong(count) /\ Len(sent) + count <= MaxPdus
      /\ Len(sent) \in Nat
  BY SduAssumption, LenProperties
  DEF LinkInv, EntityInv, AmTypeOK, ReassemblyTypeOK, SendTooLong
<1>2. /\ Grown(SoLimit) /\ SoLimit \in Nat \ {0}
      /\ burnt' = burnt \cup Numbered(SoLimit)
  BY <1>1, AmTransmitTooLongKeeps
<1>3. Len(sent) \in burnt'
  BY <1>1, <1>2 DEF Numbered
<1>4. PICK all : all = SegmentAs(count)
  OBVIOUS
<1>5. all \in Seq(SegmentIndicator) /\ Len(all) = count /\ SoLimit < count
  BY <1>1, <1>2, <1>4, SegmentAsType DEF AmTransmitTooLong, TransmitTooLong
<1>6. PICK s : s = SubSeq(all, 1, SoLimit)
  OBVIOUS
<1>7. /\ s \in Seq(SegmentIndicator) /\ Len(s) = SoLimit /\ sent' = sent \o s
      /\ \A i \in 1 .. SoLimit : s[i] = all[i]
  <2>1. \A i \in 1 .. SoLimit : all[i] \in SegmentIndicator
    BY <1>1, <1>2, <1>5, ElementOfSeq
  <2>2. /\ s \in Seq(SegmentIndicator) /\ Len(s) = SoLimit
        /\ \A i \in 1 .. SoLimit : s[i] = all[i]
    BY <1>2, <1>5, <1>6, <2>1, SubSeqProperties
  <2> QED BY <1>1, <1>4, <1>6, <2>2 DEF AmTransmitTooLong, TransmitTooLong
<1>8. \A i \in 1 .. SoLimit : (s[i] \in {FULL, FIRST} <=> i = 1) /\ s[i] \notin {FULL, LAST}
  <2> TAKE i \in 1 .. SoLimit
  <2>1. i \in 1 .. count /\ i # count
    BY <1>1, <1>2, <1>5
  <2> QED BY <1>1, <1>4, <1>7, <2>1, SegmentMarks
<1>9. SegmentsAppended(SoLimit, s)
  BY <1>3, <1>7, <1>8 DEF SegmentsAppended
<1> QED BY <1>1, <1>2, <1>3, <1>9, ShapeAppended

LEMMA ShapeUnchanged ==
  ASSUME SduShape, UNCHANGED txVars
  PROVE  SduShape' /\ Positions' = Positions /\ Starts' = Starts
BY DEF SduShape, txVars, Positions, Starts, StartsSdu, EndsSdu, Indicator

LEMMA NextShape ==
  ASSUME OneGeneration, LinkInv, SduShape, [Next]_vars
  PROVE  SduShape'
<1>1. ASSUME NEW count \in SduSizes, Send(count) \/ SendTooLong(count) PROVE SduShape'
  BY <1>1, SendShape, SendTooLongShape
<1>2. CASE \/ UNCHANGED vars \/ Report \/ ResendAll
           \/ \E p \in data : DeliverData(p) \/ LoseData(p)
           \/ \E status \in reports : DeliverReport(status) \/ LoseReport(status)
  <2>1. UNCHANGED txVars
    BY <1>2 DEF vars, amVars, Report, ResendAll, DeliverData, LoseData, ReceiveData,
                DeliverReport, LoseReport, ReceiveStatus
  <2> QED BY <2>1, ShapeUnchanged
<1> QED BY <1>1, <1>2 DEF Next

-----------------------------------------------------------------------------
(* What the receiver's caller got, at any moment: the promise of AmService. *)

LEMMA ServiceFacts ==
  ASSUME ReassemblyTypeOK
  PROVE  /\ Positions \subseteq Nat /\ Starts \in SUBSET Positions
         /\ IsFiniteSet(Starts) /\ Cardinality(Starts) \in Nat
         /\ delivered \in Seq(Positions) /\ Len(delivered) \in Nat
         /\ inProgress \in Seq(Positions) /\ Len(inProgress) \in Nat
         /\ Ends \in SUBSET (1 .. Len(delivered)) /\ Ends \in SUBSET (Nat \ {0})
         /\ IsFiniteSet(Ends) /\ Cardinality(Ends) \in Nat
         /\ \A i \in 1 .. Len(delivered) : delivered[i] \in Positions
<1>1. Positions \subseteq Nat /\ IsFiniteSet(Positions) /\ Starts \in SUBSET Positions
  BY PositionsFinite DEF Starts, ReassemblyTypeOK
<1>2. /\ delivered \in Seq(Positions) /\ inProgress \in Seq(Positions)
      /\ Len(delivered) \in Nat /\ Len(inProgress) \in Nat
      /\ \A i \in 1 .. Len(delivered) : delivered[i] \in Positions
  BY LenProperties, ElementOfSeq DEF ReassemblyTypeOK
<1>3. IsFiniteSet(Starts) /\ Cardinality(Starts) \in Nat
  BY <1>1, FS_Subset, FS_CardinalityType
<1>4. Ends \in SUBSET (1 .. Len(delivered)) /\ IsFiniteSet(1 .. Len(delivered))
  BY <1>2, FS_Interval DEF Ends
<1>5. IsFiniteSet(Ends) /\ Cardinality(Ends) \in Nat
  BY <1>4, FS_Subset, FS_CardinalityType
<1> QED BY <1>1, <1>2, <1>3, <1>4, <1>5

LEMMA DeliveredAscends ==
  ASSUME ReassemblyTypeOK, ReceiverOrdered,
         NEW i \in 1 .. Len(delivered), NEW j \in 1 .. Len(delivered), i < j
  PROVE  delivered[i] < delivered[j]
<1>1. PICK n \in Nat : n = Len(delivered)
  BY ServiceFacts
<1>2. \A k \in 1 .. n : delivered[k] \in Nat
  BY <1>1, ServiceFacts
<1>3. \A k \in 1 .. n - 1 : delivered[k] < delivered[k + 1]
  BY <1>1 DEF ReceiverOrdered, DeliveredBefore
<1> QED BY <1>1, <1>2, <1>3, PairsAscend

(* The turns are numbered from 1, one for each SDU handed over.            *)
LEMMA TurnsCount ==
  ASSUME ReassemblyTypeOK
  PROVE  {d.turn : d \in Deliveries} = 1 .. Cardinality(Deliveries)
<1>1. Ends \in SUBSET (Nat \ {0}) /\ Ends \subseteq Nat /\ IsFiniteSet(Ends)
  BY ServiceFacts
<1>2. \A i \in Ends : Delivery(i).turn = UpTo(Ends, i)
  BY DEF Delivery
<1>3. ASSUME NEW i \in Ends, NEW j \in Ends, Delivery(i) = Delivery(j) PROVE i = j
  <2>1. UpTo(Ends, i) = UpTo(Ends, j) /\ i \in Nat /\ j \in Nat
    BY <1>1, <1>2, <1>3
  <2>2. /\ i < j => UpTo(Ends, i) < UpTo(Ends, j)
        /\ j < i => UpTo(Ends, j) < UpTo(Ends, i)
        /\ UpTo(Ends, i) \in Nat
    BY <1>1, <2>1, UpToFacts
  <2> QED BY <2>1, <2>2
<1> DEFINE f == [i \in Ends |-> Delivery(i)]
<1>4. f \in Bijection(Ends, Deliveries)
  BY <1>3 DEF Deliveries, Bijection, Injection, Surjection, IsInjective
<1>5. Cardinality(Deliveries) = Cardinality(Ends)
  BY <1>1, <1>4, FS_Bijection DEF ExistsBijection
<1>6. {d.turn : d \in Deliveries} = {UpTo(Ends, i) : i \in Ends}
  BY <1>2 DEF Deliveries
<1> QED BY <1>1, <1>5, <1>6, UpToNumbers

(* An SDU handed over later is a later SDU.                                *)
LEMMA DeliveriesInOrder ==
  ASSUME ReassemblyTypeOK, ReceiverOrdered, SduShape
  PROVE  Service!InOrder(Deliveries)
<1> SUFFICES ASSUME NEW i \in Ends, NEW j \in Ends,
                    UpTo(Ends, i) < UpTo(Ends, j)
             PROVE  UpTo(Starts, delivered[i]) < UpTo(Starts, delivered[j])
  BY DEF Service!InOrder, Deliveries, Delivery
<1>1. /\ i \in 1 .. Len(delivered) /\ j \in 1 .. Len(delivered)
      /\ i \in Nat /\ j \in Nat /\ Ends \in SUBSET Nat /\ Starts \in SUBSET Nat
      /\ EndsSdu(delivered[i])
  BY ServiceFacts DEF Ends
<1>2. i < j
  <2>1. j <= i => UpTo(Ends, j) <= UpTo(Ends, i)
    BY <1>1, UpToFacts
  <2>2. UpTo(Ends, i) \in Nat /\ UpTo(Ends, j) \in Nat
    BY <1>1, UpToFacts
  <2> QED BY <1>1, <2>1, <2>2
<1>3. PICK p \in Positions : p = delivered[i]
  BY <1>1, ServiceFacts
<1>4. PICK r \in Positions : r = delivered[j]
  BY <1>1, ServiceFacts
<1>5. p < r /\ p \in Nat /\ r \in Nat
  BY <1>1, <1>2, <1>3, <1>4, DeliveredAscends, ServiceFacts
<1>6. PICK q \in Nat : q = p + 1
  BY <1>5
<1>7. q \in Positions /\ p < q /\ q <= r
  BY <1>4, <1>5, <1>6 DEF Positions
<1>8. q \in Starts
  BY <1>1, <1>3, <1>6, <1>7 DEF SduShape, Starts
<1>9. UpTo(Starts, p) < UpTo(Starts, q) /\ UpTo(Starts, q) <= UpTo(Starts, r)
  BY <1>1, <1>5, <1>7, <1>8, UpToFacts
<1>10. UpTo(Starts, p) \in Nat /\ UpTo(Starts, q) \in Nat /\ UpTo(Starts, r) \in Nat
  BY <1>1, <1>5, UpToFacts
<1> QED BY <1>3, <1>4, <1>9, <1>10

(* No SDU is handed over that the sender did not number.                   *)
LEMMA DeliveriesOffered ==
  ASSUME ReassemblyTypeOK
  PROVE  \A d \in Deliveries : d.sdu <= Cardinality(Starts)
<1> SUFFICES ASSUME NEW i \in Ends
             PROVE  UpTo(Starts, delivered[i]) <= Cardinality(Starts)
  BY DEF Deliveries, Delivery
<1>1. PICK some \in SUBSET Starts : some = {x \in Starts : x <= delivered[i]}
  OBVIOUS
<1>2. IsFiniteSet(Starts)
  BY ServiceFacts
<1>3. Cardinality(some) <= Cardinality(Starts)
  BY <1>2, FS_Subset
<1> QED BY <1>1, <1>3 DEF UpTo

(* While nothing was skipped, the n-th place of what was handed over holds *)
(* the n-th segment of the stream.                                         *)
LEMMA NothingSkipped ==
  ASSUME ReassemblyTypeOK, ReceiverOrdered, Skipped = {}
  PROVE  \A i \in 1 .. Len(delivered) : delivered[i] = i - 1
<1> DEFINE T == {k \in Nat : k \in 1 .. Len(delivered) /\ delivered[k] # k - 1}
<1>0. 1 .. Len(delivered) \subseteq Nat
  BY ServiceFacts
<1> SUFFICES ASSUME T # {} PROVE FALSE
  BY <1>0
<1>1. PICK k \in T : \A l \in T : k <= l
  <2>1. T \in SUBSET Nat
    OBVIOUS
  <2> HIDE DEF T
  <2> QED BY <2>1, LeastElement
<1>2. PICK n \in Nat : n = Len(delivered)
  BY ServiceFacts
<1>3. PICK m \in Nat : m = Len(inProgress)
  BY ServiceFacts
<1>4. /\ k \in 1 .. n /\ k \in Nat /\ delivered[k] # k - 1
      /\ \A i \in 1 .. n : i < k => delivered[i] = i - 1
      /\ expected \in Nat
  BY <1>1, <1>2, SnModulusAssumption DEF ReassemblyTypeOK, SN
<1>5. PICK p \in Positions : p = delivered[k]
  BY <1>2, <1>4, ServiceFacts
<1>6. p \in Nat /\ p > k - 1
  <2>1. CASE k = 1
    BY <1>4, <1>5, <2>1, ServiceFacts
  <2>2. CASE k > 1
    <3>1. k - 1 \in 1 .. n /\ k - 1 < k
      BY <1>4, <2>2
    <3>2. delivered[k - 1] < delivered[k] /\ delivered[k - 1] = (k - 1) - 1
      BY <1>2, <1>4, <3>1, DeliveredAscends
    <3> QED BY <1>4, <1>5, <3>2, ServiceFacts
  <2> QED BY <1>4, <2>1, <2>2
\* The place's own segment must be somewhere, and there is nowhere left.
<1>7. PICK q \in Nat : q = k - 1
  BY <1>4
<1>8. p < expected - m
  BY <1>2, <1>3, <1>4, <1>5 DEF ReceiverOrdered, DeliveredBefore
<1>9. q \in Positions /\ q < expected - m /\ q < expected /\ q < p
  BY <1>3, <1>4, <1>5, <1>6, <1>7, <1>8 DEF Positions
<1>10. q \in Handed \/ \E i \in 1 .. m : inProgress[i] = q
  BY <1>3, <1>9 DEF Skipped
<1>11. \A i \in 1 .. m : inProgress[i] # q
  <2> TAKE i \in 1 .. m
  <2>1. inProgress[i] = expected - m + i - 1
    BY <1>3 DEF ReceiverOrdered, Contiguous
  <2> QED BY <1>3, <1>4, <1>9, <2>1
<1>12. PICK j \in 1 .. n : delivered[j] = q
  BY <1>2, <1>10, <1>11 DEF Handed
<1>13. ~ (j < k)
  BY <1>4, <1>7, <1>12
<1>14. j # k
  BY <1>5, <1>9, <1>12
<1>15. ~ (k < j)
  <2>1. k < j => p < q
    BY <1>2, <1>4, <1>5, <1>12, DeliveredAscends
  <2> QED BY <1>6, <1>9, <2>1
<1> QED BY <1>4, <1>12, <1>13, <1>14, <1>15

(* Then every SDU begins where one ended: as many have started as ended,   *)
(* and the one under way.                                                  *)
LEMMA StartsFollowEnds ==
  ASSUME ReassemblyTypeOK, ReceiverOrdered, SduShape, burnt = {}, Skipped = {},
         NEW i \in 1 .. Len(delivered)
  PROVE  UpTo(Starts, i - 1) = UpTo(Ends, i) + (IF i \in Ends THEN 0 ELSE 1)
<1> DEFINE Holds(k) ==
             UpTo(Starts, k - 1) = UpTo(Ends, k) + (IF k \in Ends THEN 0 ELSE 1)
           T == {k \in Nat : k \in 1 .. Len(delivered) /\ ~Holds(k)}
<1>1. PICK n \in Nat : n = Len(delivered)
  BY ServiceFacts
<1>2. \A k \in 1 .. n : delivered[k] = k - 1 /\ delivered[k] \in Positions
  BY <1>1, NothingSkipped, ServiceFacts
<1>3. Starts \in SUBSET Nat /\ Ends \in SUBSET Nat /\ 0 \notin Ends
  BY ServiceFacts
<1>4. ASSUME 1 \in 1 .. n PROVE Holds(1)
  <2>1. 0 \in Starts
    BY <1>2, <1>4 DEF SduShape, Starts
  <2>2. UpTo(Starts, 0) = 1
    BY <1>3, <2>1, UpToZero
  <2>3. UpTo(Ends, 0) = 0
    BY <1>3, UpToZero
  <2>4. UpTo(Ends, 0 + 1) = IF 0 + 1 \in Ends THEN UpTo(Ends, 0) + 1 ELSE UpTo(Ends, 0)
    BY <1>3, UpToNext
  <2> QED BY <2>2, <2>3, <2>4
<1>5. ASSUME NEW k \in 1 .. n, k + 1 \in 1 .. n, Holds(k) PROVE Holds(k + 1)
  <2>1. PICK j \in Nat : j = k - 1
    BY <1>1
  <2>2. j + 1 = k /\ k \in Nat /\ j \in Positions /\ k \in Positions
    <3>1. delivered[k + 1] = (k + 1) - 1 /\ delivered[k + 1] \in Positions
      BY <1>2, <1>5
    <3>2. delivered[k] = k - 1 /\ delivered[k] \in Positions
      BY <1>2
    <3> QED BY <1>1, <2>1, <3>1, <3>2
  <2>3. k \in Starts <=> k \in Ends
    <3>1. EndsSdu(j) <=> StartsSdu(k)
      BY <2>2 DEF SduShape
    <3>2. k \in Ends <=> EndsSdu(j)
      BY <1>1, <1>2, <2>1 DEF Ends
    <3>3. k \in Starts <=> StartsSdu(k)
      BY <2>2 DEF Starts
    <3> QED BY <3>1, <3>2, <3>3
  <2>4. UpTo(Starts, j + 1) = IF j + 1 \in Starts THEN UpTo(Starts, j) + 1 ELSE UpTo(Starts, j)
    BY <1>3, UpToNext
  <2>5. UpTo(Ends, k + 1) = IF k + 1 \in Ends THEN UpTo(Ends, k) + 1 ELSE UpTo(Ends, k)
    BY <1>3, <2>2, UpToNext
  <2>6. UpTo(Starts, j) \in Nat /\ UpTo(Ends, k) \in Nat
    BY <1>3, <2>2, UpToFacts
  <2>7. UpTo(Starts, j) = UpTo(Ends, k) + (IF k \in Ends THEN 0 ELSE 1)
    BY <1>5, <2>1
  <2>8. UpTo(Starts, k) = UpTo(Ends, k) + 1
    BY <2>2, <2>3, <2>4, <2>6, <2>7
  <2>9. (k + 1) - 1 = k
    BY <2>2
  <2> QED BY <2>5, <2>6, <2>8, <2>9
<1> HIDE DEF Holds
<1>6. T = {}
  <2> SUFFICES ASSUME T # {} PROVE FALSE
    OBVIOUS
  <2>1. PICK k \in T : \A l \in T : k <= l
    <3>1. T \in SUBSET Nat
      OBVIOUS
    <3> HIDE DEF T
    <3> QED BY <3>1, LeastElement
  <2>2. k \in 1 .. n /\ ~Holds(k) /\ \A l \in 1 .. n : l < k => Holds(l)
    BY <1>1, <2>1
  <2>3. k # 1
    BY <1>4, <2>2
  <2>4. PICK j \in 1 .. n : j + 1 = k
    BY <1>1, <2>2, <2>3
  <2> QED BY <1>5, <2>2, <2>4
<1>7. i \in Nat
  BY <1>1
<1>8. Holds(i)
  BY <1>6, <1>7
<1> QED BY <1>8 DEF Holds

(* Until a segment is given up on, each SDU handed over is the next one,   *)
(* and whole.                                                              *)
LEMMA DeliveriesPerfect ==
  ASSUME ReassemblyTypeOK, ReceiverOrdered, SduShape, burnt = {}, Skipped = {}
  PROVE  Service!Perfect(Deliveries)
<1> SUFFICES ASSUME NEW i \in Ends
             PROVE  /\ UpTo(Starts, delivered[i]) = UpTo(Ends, i)
                    /\ SegmentsUpTo(delivered[i]) \subseteq Handed
  <2>1. ASSUME NEW i \in Ends
        PROVE  /\ Delivery(i).turn = UpTo(Ends, i)
               /\ Delivery(i).sdu = UpTo(Starts, delivered[i])
               /\ Delivery(i).whole = (SegmentsUpTo(delivered[i]) \subseteq Handed)
    BY DEF Delivery
  <2>2. ASSUME \A i \in Ends : Delivery(i).sdu = Delivery(i).turn /\ Delivery(i).whole
        PROVE  Service!Perfect(Deliveries)
    BY <2>2, Zenon DEF Service!Perfect, Deliveries
  <2> QED BY <2>1, <2>2, Zenon
<1>1. PICK n \in Nat : n = Len(delivered)
  BY ServiceFacts
<1>2. i \in 1 .. n /\ \A k \in 1 .. n : delivered[k] = k - 1
  BY <1>1, NothingSkipped, ServiceFacts
<1>3. UpTo(Starts, i - 1) = UpTo(Ends, i) /\ UpTo(Ends, i) \in Nat
  <2>1. i \in Nat /\ Ends \in SUBSET Nat
    BY ServiceFacts
  <2>2. UpTo(Ends, i) \in Nat
    BY <2>1, UpToFacts
  <2> QED BY <1>1, <1>2, <2>2, StartsFollowEnds
<1>4. ASSUME NEW q \in SegmentsUpTo(i - 1) PROVE q \in Handed
  <2>1. q \in 0 .. i - 1
    BY <1>4 DEF SegmentsUpTo
  <2>2. q + 1 \in 1 .. n /\ (q + 1) - 1 = q
    BY <1>2, <2>1
  <2> QED BY <1>1, <1>2, <2>2 DEF Handed
<1> QED BY <1>2, <1>3, <1>4

-----------------------------------------------------------------------------
(* How a step changes what the caller got.                                 *)

(* The sender numbering an SDU, or nobody doing anything to the stream.    *)
LEMMA SendKeepsDeliveries ==
  ASSUME ReassemblyTypeOK, ReceiverOrdered, NEW n \in Nat, Grown(n),
         Starts' = Starts \cup {Len(sent)}
  PROVE  Deliveries' = Deliveries /\ Skipped' = Skipped
<1>1. PICK len \in Nat : len = Len(sent)
  BY LenProperties DEF ReassemblyTypeOK
<1>2. /\ Positions = 0 .. len - 1 /\ Positions' = 0 .. len + n - 1
      /\ UNCHANGED <<delivered, inProgress, expected>>
      /\ \A p \in Positions : /\ StartsSdu(p)' <=> StartsSdu(p)
                              /\ EndsSdu(p)' <=> EndsSdu(p)
  BY <1>1 DEF Grown, rxVars, StartsSdu, EndsSdu, Positions
<1>3. Ends' = Ends
  <2>1. \A i \in 1 .. Len(delivered) : EndsSdu(delivered[i])' <=> EndsSdu(delivered[i])
    BY <1>2, ServiceFacts DEF EndsSdu, Indicator
  <2> QED BY <1>2, <2>1 DEF Ends
<1>4. Handed' = Handed
  BY <1>2 DEF Handed
<1>5. ASSUME NEW p \in Positions PROVE UpTo(Starts, p)' = UpTo(Starts, p)
  <2>1. {x \in Starts' : x <= p} = {x \in Starts : x <= p}
    <3>1. ~ (len <= p)
      BY <1>2
    <3> QED BY <1>1, <3>1
  <2> QED BY <2>1 DEF UpTo
<1>6. ASSUME NEW p \in Positions PROVE SegmentsUpTo(p)' = SegmentsUpTo(p)
  <2>1. \A q \in 0 .. p : \A r \in q + 1 .. p : r \in Positions
    BY <1>2
  <2>2. \A q \in 0 .. p : (\A r \in q + 1 .. p : ~StartsSdu(r)')
                          <=> (\A r \in q + 1 .. p : ~StartsSdu(r))
    BY <1>2, <2>1
  <2>3. SegmentsUpTo(p)' = {q \in 0 .. p : \A r \in q + 1 .. p : ~StartsSdu(r)'}
    BY DEF SegmentsUpTo
  <2> QED BY <2>2, <2>3 DEF SegmentsUpTo
<1>7. ASSUME NEW i \in Ends PROVE Delivery(i)' = Delivery(i)
  <2>1. PICK p \in Positions : p = delivered[i]
    BY ServiceFacts
  <2>2. p = delivered'[i]
    BY <1>2, <2>1
  <2>3. Delivery(i)' = [turn  |-> UpTo(Ends', i),
                        sdu   |-> UpTo(Starts', p),
                        whole |-> SegmentsUpTo(p)' \subseteq Handed']
    BY <2>2 DEF Delivery, UpTo, SegmentsUpTo
  <2>4. UpTo(Starts', p) = UpTo(Starts, p)
    BY <1>5 DEF UpTo
  <2> QED BY <1>3, <1>4, <1>6, <2>1, <2>3, <2>4 DEF Delivery
<1>8. Deliveries' = Deliveries
  <2>1. Deliveries' = {Delivery(i)' : i \in Ends'}
    BY DEF Deliveries
  <2> QED BY <1>3, <1>7, <2>1 DEF Deliveries
<1>9. {p \in Positions' : p < expected'} = {p \in Positions : p < expected}
  BY <1>1, <1>2, SnModulusAssumption DEF ReceiverOrdered, ReassemblyTypeOK, SN
<1>10. Skipped' = Skipped
  BY <1>2, <1>4, <1>9 DEF Skipped
<1> QED BY <1>8, <1>10

(* ingest only adds to what the caller got, and takes nothing back that it *)
(* skipped: a segment handed over later lies behind those handed over, so  *)
(* an SDU that lacks its beginning stays without it.                       *)
LEMMA IngestAddsDeliveries ==
  ASSUME OneGeneration, LinkInv, LinkInv', NEW pdu \in Positions, Ingest(pdu),
         UNCHANGED txVars, expected <= expected'
  PROVE  Deliveries \subseteq Deliveries' /\ Skipped \subseteq Skipped'
<1>1. /\ ReassemblyTypeOK /\ ReceiverOrdered /\ ReassemblyTypeOK' /\ ReceiverOrdered'
  BY DEF LinkInv, EntityInv, AmTypeOK
<1>2. /\ sent' = sent /\ Positions' = Positions /\ Starts' = Starts
      /\ expected \in Nat /\ expected' \in Nat
  BY <1>1, SnModulusAssumption
  DEF txVars, Positions, Starts, StartsSdu, Indicator, ReassemblyTypeOK, SN
<1>3. PICK n \in Nat : n = Len(delivered)
  BY <1>1, ServiceFacts
<1>4. PICK new \in Seq(Positions) : delivered' = delivered \o new
  BY <1>1, IngestAdds
<1>5. /\ Len(delivered') = n + Len(new) /\ Len(new) \in Nat
      /\ \A k \in 1 .. n : delivered'[k] = delivered[k]
  <2>1. delivered \in Seq(Positions) /\ new \in Seq(Positions) /\ delivered' = delivered \o new
    BY <1>1, <1>4, ServiceFacts
  <2>2. /\ Len(delivered') = Len(delivered) + Len(new) /\ Len(new) \in Nat
        /\ \A k \in 1 .. Len(delivered) : delivered'[k] = delivered[k]
    BY ONLY <2>1, AppendedAt
  <2> QED BY <1>3, <2>2
<1>6. \A x \in 1 .. n : x \in Ends' <=> x \in Ends
  <2> TAKE x \in 1 .. n
  <2>1. x \in Ends' <=> x \in 1 .. Len(delivered') /\ EndsSdu(delivered[x])'
    BY DEF Ends
  <2>2. EndsSdu(delivered[x])' <=> EndsSdu(delivered[x])
    BY <1>2, <1>5 DEF EndsSdu, Indicator
  <2>3. x \in 1 .. Len(delivered')
    BY <1>5
  <2> QED BY <1>3, <2>1, <2>2, <2>3 DEF Ends
\* Places after n hold later segments.
<1>7. ASSUME NEW i \in 1 .. n, NEW j \in 1 .. Len(delivered'), delivered'[j] <= delivered[i]
      PROVE  delivered'[j] \in Handed
  <2> DEFINE s == delivered'
  <2>1. PICK m \in Nat : m = n + Len(new) /\ m = Len(s)
    BY <1>5
  <2>2. \A k \in 1 .. m : s[k] \in Nat
    <3>1. delivered' \in Seq(Positions) /\ Positions \subseteq Nat
      BY <1>1, <1>2, ServiceFacts DEF ReassemblyTypeOK
    <3> QED BY <2>1, <3>1, ElementOfSeq
  <2>3. \A k \in 1 .. m - 1 : s[k] < s[k + 1]
    BY <1>1, <2>1 DEF ReceiverOrdered, DeliveredBefore
  <2>4. i \in 1 .. m /\ j \in 1 .. m /\ s[i] = delivered[i]
    BY <1>5, <2>1
  <2>5. ~ (i < j)
    <3>1. i < j => s[i] < s[j]
      BY <2>2, <2>3, <2>4, PairsAscend
    <3>2. s[i] \in Nat /\ s[j] \in Nat /\ s[j] <= s[i]
      BY <1>7, <2>1, <2>2, <2>4
    <3> QED BY <3>1, <3>2
  <2>6. j \in 1 .. n
    BY <2>4, <2>5
  <2> QED BY <1>3, <1>5, <2>6 DEF Handed
<1>8. Handed \subseteq Handed'
  BY <1>3, <1>5 DEF Handed
<1>9. ASSUME NEW i \in Ends PROVE i \in Ends' /\ Delivery(i)' = Delivery(i)
  <2>1. i \in 1 .. n /\ i \in Nat
    BY <1>1, <1>3, ServiceFacts
  <2>2. PICK p \in Positions : p = delivered[i] /\ p = delivered'[i]
    BY <1>1, <1>5, <2>1, ServiceFacts
  <2>3. Delivery(i)' = [turn  |-> UpTo(Ends', i),
                        sdu   |-> UpTo(Starts', p),
                        whole |-> SegmentsUpTo(p)' \subseteq Handed']
    BY <2>2 DEF Delivery, UpTo, SegmentsUpTo
  <2>4. UpTo(Ends', i) = UpTo(Ends, i)
    <3>1. Ends' \subseteq Nat \ {0} /\ Ends \subseteq Nat \ {0}
      BY <1>1, <1>5, ServiceFacts DEF Ends
    <3>2. \A x \in Nat \ {0} : x <= i => x \in 1 .. n
      BY <2>1
    <3>3. {x \in Ends' : x <= i} = {x \in Ends : x <= i}
      BY <1>6, <3>1, <3>2
    <3> QED BY <3>3 DEF UpTo
  <2>5. SegmentsUpTo(p)' = SegmentsUpTo(p)
    BY <1>2 DEF SegmentsUpTo, StartsSdu, Indicator
  <2>6. SegmentsUpTo(p) \subseteq Handed' => SegmentsUpTo(p) \subseteq Handed
    <3> SUFFICES ASSUME NEW q \in SegmentsUpTo(p), q \in Handed' PROVE q \in Handed
      OBVIOUS
    <3>1. PICK j \in 1 .. Len(delivered') : delivered'[j] = q
      BY DEF Handed
    <3>2. q <= p
      BY DEF SegmentsUpTo
    <3> QED BY <1>7, <2>1, <2>2, <3>1, <3>2
  <2>7. (SegmentsUpTo(p)' \subseteq Handed') = (SegmentsUpTo(p) \subseteq Handed)
    BY <1>8, <2>5, <2>6
  <2> QED BY <1>2, <1>6, <2>1, <2>2, <2>3, <2>4, <2>7 DEF Delivery
<1>10. Deliveries \subseteq Deliveries'
  BY <1>9 DEF Deliveries
<1>11. ASSUME NEW p \in Skipped PROVE p \in Skipped'
  <2>1. /\ p \in Positions /\ p < expected /\ p \notin Handed
        /\ \A i \in 1 .. Len(inProgress) : inProgress[i] # p
    BY <1>11 DEF Skipped
  <2>2. p \in Positions' /\ p < expected' /\ ~ (p >= expected)
    BY <1>1, <1>2, <2>1, ServiceFacts
  <2>3. p \notin Handed'
    <3> SUFFICES ASSUME NEW j \in 1 .. Len(delivered'), delivered'[j] = p PROVE FALSE
      BY DEF Handed
    <3>1. CASE j <= n
      <4>1. j \in 1 .. n
        BY <1>5, <3>1
      <4> QED BY <1>3, <1>5, <2>1, <4>1 DEF Handed
    <3>2. CASE j > n
      <4>1. j \in Len(delivered) + 1 .. Len(delivered')
        BY <1>3, <1>5, <3>2
      <4>2. \/ delivered'[j] >= expected
            \/ \E k \in 1 .. Len(inProgress) : delivered'[j] = inProgress[k]
        BY <1>1, <4>1, IngestAdds
      <4> QED BY <2>1, <2>2, <4>2
    <3> QED BY <1>5, <3>1, <3>2
  <2>4. \A i \in 1 .. Len(inProgress') : inProgress'[i] # p
    <3> TAKE i \in 1 .. Len(inProgress')
    <3>1. \/ inProgress'[i] >= expected
          \/ \E j \in 1 .. Len(inProgress) : inProgress'[i] = inProgress[j]
      BY <1>1, IngestAdds
    <3> QED BY <2>1, <2>2, <3>1
  <2> QED BY <2>2, <2>3, <2>4 DEF Skipped
<1> QED BY <1>10, <1>11

-----------------------------------------------------------------------------
(* The refinement.                                                         *)

GaveUp == failed # {} \/ burnt # {} \/ Skipped # {}

LEMMA InitService == Init => Service!Init
<1> SUFFICES ASSUME Init PROVE Service!Init
  OBVIOUS
<1>1. /\ failed = {} /\ burnt = {} /\ sent = <<>> /\ delivered = <<>>
      /\ Positions = {} /\ Len(delivered) = 0
  BY DEF Init, AmInit, ReassemblyInit, Positions
<1>2. Starts = {} /\ Skipped = {}
  BY <1>1 DEF Starts, Skipped
<1>3. Deliveries = {}
  BY <1>1 DEF Deliveries, Ends
<1>4. Cardinality({}) = 0
  BY FS_EmptySet
<1> QED BY <1>1, <1>2, <1>3, <1>4 DEF Service!Init

(* The sender numbers an SDU.                                              *)
LEMMA OfferStep ==
  ASSUME ReassemblyTypeOK, Starts' = Starts \cup {Len(sent)}, Len(sent) \notin Starts,
         Deliveries' = Deliveries, GaveUp => GaveUp'
  PROVE  Service!Next
<1>1. Cardinality(Starts') = Cardinality(Starts) + 1
  BY ServiceFacts, FS_AddElement
<1>2. Service!Offer
  BY <1>1 DEF Service!Offer, GaveUp
<1> QED BY <1>2 DEF Service!Next

(* The sender gives up on a segment, the receiver skips one, or nothing    *)
(* happens that the caller would notice.                                   *)
LEMMA GiveUpStep ==
  ASSUME Starts' = Starts, Deliveries' = Deliveries, GaveUp => GaveUp'
  PROVE  [Service!Next]_(Service!vars)
<1>1. CASE GaveUp <=> GaveUp'
  BY <1>1 DEF Service!vars, GaveUp
<1>2. CASE GaveUp'
  <2>1. Service!GiveUp
    BY <1>2 DEF Service!GiveUp, GaveUp
  <2> QED BY <2>1 DEF Service!Next
<1> QED BY <1>1, <1>2

(* What the caller has got, in every state.                                *)
AsPromised ==
  /\ {d.turn : d \in Deliveries} = 1 .. Cardinality(Deliveries)
  /\ Service!InOrder(Deliveries)
  /\ ~GaveUp => Service!Perfect(Deliveries)
  /\ \A d \in Deliveries : d.sdu <= Cardinality(Starts)

LEMMA PromiseHolds == LinkInv /\ SduShape => AsPromised
<1> SUFFICES ASSUME LinkInv, SduShape PROVE AsPromised
  OBVIOUS
<1>1. ReassemblyTypeOK /\ ReceiverOrdered
  BY DEF LinkInv, EntityInv, AmTypeOK
<1>2. ~GaveUp => Service!Perfect(Deliveries)
  BY <1>1, DeliveriesPerfect DEF GaveUp
<1> QED
  BY <1>1, <1>2, TurnsCount, DeliveriesInOrder, DeliveriesOffered DEF AsPromised

(* The receiver hands over one SDU or several.                             *)
LEMMA DeliverStep ==
  ASSUME AsPromised', Starts' = Starts,
         Deliveries \subseteq Deliveries', Deliveries # Deliveries', GaveUp => GaveUp'
  PROVE  Service!Next
<1>1. /\ {d.turn : d \in Deliveries'} = 1 .. Cardinality(Deliveries')
      /\ Service!InOrder(Deliveries)'
      /\ ~GaveUp' => Service!Perfect(Deliveries)'
      /\ \A d \in Deliveries' : d.sdu <= Cardinality(Starts')
  BY DEF AsPromised
<1>2. /\ UNCHANGED Cardinality(Starts)
      /\ Deliveries \subseteq Deliveries' /\ Deliveries # Deliveries'
      /\ \A d \in Deliveries' : d.sdu <= Cardinality(Starts)
  BY <1>1
<1>3. GaveUp' \in {GaveUp, TRUE}
  BY DEF GaveUp
<1>4. Service!InOrder(Deliveries')
  BY <1>1 DEF Service!InOrder
<1>5. ~GaveUp' => Service!Perfect(Deliveries')
  BY <1>1, Zenon DEF Service!Perfect
<1>6. Service!Cardinality(Deliveries') = Cardinality(Deliveries')
  BY DEF Cardinality, Service!Cardinality
<1>7. Service!Deliver
  BY <1>1, <1>2, <1>3, <1>4, <1>5, <1>6, Zenon DEF Service!Deliver, GaveUp
<1> QED BY <1>7 DEF Service!Next

LEMMA NextService ==
  ASSUME OneGeneration, LinkInv, LinkInv', SduShape, AsPromised', [Next]_vars
  PROVE  [Service!Next]_(Service!vars)
<1>1. /\ EntityInv /\ ReassemblyTypeOK /\ ReceiverOrdered
      /\ data \subseteq Positions /\ SduSizes \subseteq Nat \ {0}
      /\ SoLimit \in Nat
  BY SduAssumption, SoAssumption DEF LinkInv, TypeInv, TypeOK, EntityInv, AmTypeOK
<1>2. ASSUME NEW count \in SduSizes, Send(count) PROVE Service!Next
  <2>1. /\ Grown(count) /\ count \in Nat /\ UNCHANGED <<failed, burnt>>
        /\ Starts' = Starts \cup {Len(sent)} /\ Len(sent) \notin Starts
    BY <1>1, <1>2, SendShape
  <2>2. Deliveries' = Deliveries /\ Skipped' = Skipped
    BY <1>1, <2>1, SendKeepsDeliveries
  <2>3. GaveUp => GaveUp'
    BY <2>1, <2>2 DEF GaveUp
  <2> QED BY <1>1, <2>1, <2>2, <2>3, OfferStep
<1>3. ASSUME NEW count \in SduSizes, SendTooLong(count) PROVE Service!Next
  <2>1. /\ Grown(SoLimit) /\ burnt' # {}
        /\ Starts' = Starts \cup {Len(sent)} /\ Len(sent) \notin Starts
    BY <1>3, SendTooLongShape
  <2>2. Deliveries' = Deliveries
    BY <1>1, <2>1, SendKeepsDeliveries
  <2>3. GaveUp'
    BY <2>1 DEF GaveUp
  <2> QED BY <1>1, <2>1, <2>2, <2>3, OfferStep
<1>4. ASSUME UNCHANGED <<txVars, rxVars>>, failed \subseteq failed'
      PROVE  [Service!Next]_(Service!vars)
  <2>1. UNCHANGED <<sent, burnt, expected, inProgress, delivered>>
    BY <1>4 DEF txVars, rxVars
  <2>2. Starts' = Starts /\ Deliveries' = Deliveries /\ Skipped' = Skipped
    BY <2>1 DEF Starts, Positions, StartsSdu, EndsSdu, Indicator, Deliveries, Delivery,
                Ends, Handed, SegmentsUpTo, UpTo, Skipped
  <2>3. GaveUp => GaveUp'
    BY <1>4, <2>1, <2>2 DEF GaveUp
  <2> QED BY <2>2, <2>3, GiveUpStep
<1>5. ASSUME NEW p \in data, DeliverData(p) PROVE [Service!Next]_(Service!vars)
  <2>1. /\ p \in Positions /\ Ingest(p) /\ UNCHANGED <<txVars, burnt, failed>>
    BY <1>1, <1>5 DEF DeliverData, ReceiveData, txVars
  <2>2. expected <= expected'
    BY NextLinkInv
  <2>3. Deliveries \subseteq Deliveries' /\ Skipped \subseteq Skipped'
    BY <2>1, <2>2, IngestAddsDeliveries
  <2>4. Starts' = Starts
    BY <2>1, ShapeUnchanged
  <2>5. GaveUp => GaveUp'
    BY <2>1, <2>3 DEF GaveUp
  <2>6. CASE Deliveries' = Deliveries
    BY <2>4, <2>5, <2>6, GiveUpStep
  <2>7. CASE Deliveries' # Deliveries
    BY <2>3, <2>4, <2>5, <2>7, DeliverStep
  <2> QED BY <2>6, <2>7
<1>6. ASSUME NEW status \in reports, DeliverReport(status)
      PROVE  UNCHANGED <<txVars, rxVars>> /\ failed \subseteq failed'
  BY <1>6 DEF DeliverReport, ReceiveStatus
<1>7. CASE \/ UNCHANGED vars \/ Report \/ ResendAll
           \/ \E p \in data : LoseData(p)
           \/ \E status \in reports : LoseReport(status)
  <2>1. UNCHANGED <<txVars, rxVars, failed>>
    BY <1>7 DEF vars, amVars, Report, ResendAll, LoseData, LoseReport
  <2> QED BY <1>4, <2>1
<1> QED BY <1>2, <1>3, <1>4, <1>5, <1>6, <1>7 DEF Next

(* The link implements what AmService promises, whatever the air loses,    *)
(* repeats or reorders and however the caller drives the entity: SDUs come *)
(* in order and at most once, and until a segment is given up on every one *)
(* is the next one sent, and whole.                                        *)
THEOREM AsServed == ASSUME OneGeneration PROVE Spec => ImplementsService
<1>1. Init => SduShape
  BY InitShape
<1>2. LinkInv /\ SduShape /\ [Next]_vars => SduShape'
  BY NextShape
<1>3. LinkInv /\ SduShape => AsPromised
  BY PromiseHolds
<1>4. LinkInv /\ LinkInv' /\ SduShape /\ AsPromised' /\ [Next]_vars
        => [Service!Next]_(Service!vars)
  BY NextService
<1>5. Init => Service!Init
  BY InitService
<1> QED
  BY <1>1, <1>2, <1>3, <1>4, <1>5, LinkInvariant, PTL
  DEF Spec, ImplementsService, Service!Spec

=============================================================================
