------------------------------- MODULE AmLink -------------------------------
(***************************************************************************)
(* One direction of an acknowledged link: the AM entities of AmEntity and  *)
(* the air between them.  A PDU put on the air may be received any number  *)
(* of times (a retransmission is the same PDU again), in any order, late,  *)
(* or never; a status report is received in any order, once or never.      *)
(*                                                                         *)
(* AmEntity leaves to its caller when to send and when to report, so here  *)
(* the caller may do either whenever it likes.  MaxAhead says how far it   *)
(* lets new PDUs run ahead of the oldest unacknowledged one: AmEntity      *)
(* itself sets no limit (MaxAhead = MaxPdus), MacLink keeps within the     *)
(* window while its SDUs fit it and nothing is given up.                   *)
(***************************************************************************)
EXTENDS AmEntity

CONSTANTS
  MaxAhead,       \* PDUs the caller allows from the oldest unacknowledged on
  MaxReports      \* bound of the model: status reports on the air at once

ASSUME CallerAssumption ==
  /\ MaxAhead \in Nat
  /\ MaxReports \in Nat

VARIABLES
  data,           \* positions on the air
  reports         \* status reports on the air

vars == <<amVars, data, reports>>

WithinWindow(count) ==
  /\ count <= MaxAhead
  /\ \A p \in DOMAIN retx : Len(sent) + count - p <= MaxAhead

-----------------------------------------------------------------------------

Send(count) ==
  /\ Len(sent) + count <= MaxPdus
  /\ WithinWindow(count)
  /\ AmTransmit(count)
  /\ data' = data \cup Numbered(count)
  /\ UNCHANGED reports

(* The SDU is too long for SO: transmit raises. *)
SendTooLong(count) ==
  /\ Len(sent) + count <= MaxPdus
  /\ WithinWindow(count)
  /\ AmTransmitTooLong(count)
  /\ UNCHANGED <<data, reports>>

DeliverData(p) ==
  /\ p \in data
  /\ ReceiveData(p)
  /\ UNCHANGED <<data, reports>>

Report ==
  /\ Cardinality(reports) < MaxReports
  /\ reports' = reports \cup {BuildStatus}
  /\ UNCHANGED <<amVars, data>>

DeliverReport(status) ==
  /\ status \in reports
  /\ ReceiveStatus(status)
  /\ data' = data \cup ToRetransmit(status)
  /\ reports' = reports \ {status}

(* No status came back: the caller sends the whole buffer again. *)
ResendAll ==
  /\ data' = data \cup PendingPdus
  /\ UNCHANGED <<amVars, reports>>

LoseData(p) ==
  /\ p \in data
  /\ data' = data \ {p}
  /\ UNCHANGED <<amVars, reports>>

LoseReport(status) ==
  /\ status \in reports
  /\ reports' = reports \ {status}
  /\ UNCHANGED <<amVars, data>>

Init ==
  /\ AmInit
  /\ data = {}
  /\ reports = {}

Next ==
  \/ \E count \in SduSizes : Send(count) \/ SendTooLong(count)
  \/ \E p \in data : DeliverData(p) \/ LoseData(p)
  \/ Report
  \/ \E status \in reports : DeliverReport(status) \/ LoseReport(status)
  \/ ResendAll

Spec == Init /\ [][Next]_vars

-----------------------------------------------------------------------------

TypeOK ==
  /\ AmTypeOK
  /\ data \subseteq Positions
  /\ reports \subseteq Status /\ Cardinality(reports) <= MaxReports

(* The safety invariants below are those of one generation of the SN space *)
(* (OneGeneration).                                                        *)

Ascending(s) == \A i \in 1 .. Len(s) - 1 : s[i] < s[i + 1]

(* No segment is handed over twice or out of order, whatever is repeated,  *)
(* reordered or lost (the rewind by a stale duplicate that ingest guards   *)
(* against would break this).                                              *)
InOrderAtMostOnce == Ascending(delivered \o inProgress)

(* A completed SDU never mixes segments of two SDUs, nor leaves one out in *)
(* the middle: each segment is followed by the next one up to the end.     *)
SduIntact ==
  \A i \in 1 .. Len(delivered) :
    ~EndsSdu(delivered[i]) =>
      i < Len(delivered) /\ delivered[i + 1] = delivered[i] + 1

(* ingest never leaves more than the window pending.                       *)
PendingBounded == Cardinality(pending) <= WindowSize

(* The cumulative point never moves backward (the bug ingest's comment     *)
(* reports: expected_sn rewound from 6 to 1).                              *)
ExpectedForward == [][expected' >= expected]_vars

(* With a caller that keeps within the window, the receiver hands over     *)
(* exactly what was sent until the sender gives a PDU up or refuses an SDU *)
(* half way: in particular it never resyncs.                               *)
ExactUntilGiveUp ==
  failed = {} /\ burnt = {} =>
    delivered \o inProgress = [i \in 1 .. expected |-> i - 1]

-----------------------------------------------------------------------------

(* The link as its caller sees it.  SDUs are numbered from 1 by the        *)
(* segments that start them, and handed over with the segment that ends    *)
(* them.                                                                   *)
UpTo(S, n) == Cardinality({x \in S : x <= n})

Starts == {p \in Positions : StartsSdu(p)}

Ends == {i \in 1 .. Len(delivered) : EndsSdu(delivered[i])}

Handed == {delivered[i] : i \in 1 .. Len(delivered)}

SegmentsUpTo(p) == {q \in 0 .. p : \A r \in q + 1 .. p : ~StartsSdu(r)}

\* The SDU that ends at place i of delivered.
Delivery(i) ==
  [turn  |-> UpTo(Ends, i),
   sdu   |-> UpTo(Starts, delivered[i]),
   whole |-> SegmentsUpTo(delivered[i]) \subseteq Handed]

Deliveries == {Delivery(i) : i \in Ends}

\* What a resync passed over: missing segments, and the unfinished SDU.
Skipped ==
  {p \in Positions : p < expected}
    \ (Handed \cup {inProgress[i] : i \in 1 .. Len(inProgress)})

Service ==
  INSTANCE AmService WITH
    offered   <- Cardinality(Starts),
    gaveUp    <- failed # {} \/ burnt # {} \/ Skipped # {},
    delivered <- Deliveries

(* The link implements what AmService promises.                            *)
ImplementsService == Service!Spec

-----------------------------------------------------------------------------

(* A caller that keeps asking for reports over an air that does not lose   *)
(* every one of them.                                                      *)
FairSpec ==
  /\ Spec
  /\ WF_vars(Report)
  /\ SF_vars(\E status \in reports : DeliverReport(status))

(* Every PDU sent is in the end received in sequence, unless a PDU is      *)
(* given up on or an SDU was refused half way: the sender does not stall   *)
(* and does not retry forever.                                             *)
Progress ==
  \A p \in 0 .. MaxPdus - 1 :
    p \in Positions ~> (p < expected \/ failed # {} \/ burnt # {})

=============================================================================
