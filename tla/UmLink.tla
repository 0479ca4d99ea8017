------------------------------- MODULE UmLink -------------------------------
(***************************************************************************)
(* One direction of an unacknowledged link: two UmEntities (mac/um.py) and *)
(* the air between them.  Nothing is retransmitted, so a PDU is received   *)
(* at most once; it may be overtaken by others, or lost.  The SN space     *)
(* wraps: MaxPdus may exceed SnModulus.                                    *)
(***************************************************************************)
EXTENDS Reassembly

CONSTANT MaxSpread     \* how far apart two PDUs on the air may be numbered

ASSUME UmAssumption == MaxSpread \in Nat

VARIABLES
  inFlight,       \* positions on the air
  lost            \* positions the air lost

umVars == <<txVars, rxVars, inFlight, lost>>

(* UmEntity.transmit, every PDU put on the air *)
UmSend(count) ==
  /\ Len(sent) + count <= MaxPdus
  /\ count <= MaxSpread
  /\ \A p \in inFlight : Len(sent) + count - p <= MaxSpread
  /\ Transmit(count)
  /\ inFlight' = inFlight \cup Numbered(count)
  /\ UNCHANGED <<rxVars, lost>>

UmSendTooLong(count) ==
  /\ Len(sent) + count <= MaxPdus
  /\ TransmitTooLong(count)
  /\ UNCHANGED <<rxVars, inFlight, lost>>

(* UmEntity.receive *)
UmReceive(p) ==
  /\ p \in inFlight
  /\ Ingest(p)
  /\ inFlight' = inFlight \ {p}
  /\ UNCHANGED <<txVars, lost>>

UmLose(p) ==
  /\ p \in inFlight
  /\ inFlight' = inFlight \ {p}
  /\ lost' = lost \cup {p}
  /\ UNCHANGED <<txVars, rxVars>>

UmInit == ReassemblyInit /\ inFlight = {} /\ lost = {}

UmNext ==
  \/ \E count \in SduSizes : UmSend(count) \/ UmSendTooLong(count)
  \/ \E p \in inFlight : UmReceive(p) \/ UmLose(p)

UmSpec == UmInit /\ [][UmNext]_umVars

-----------------------------------------------------------------------------

(* The air does not let a PDU fall behind by more than the window, and the *)
(* window is at most half of the SN space (32 of 1024 in the code).        *)
AirWithinWindow == MaxSpread <= WindowSize + 1 /\ WindowSize <= SnModulus \div 2

Missing == lost \cup burnt

(* As long as no PDU is missing, what has been handed over and collected   *)
(* is the stream itself, each position once and in order, across any       *)
(* number of wraps of the SN space; and once nothing is on the air, all of *)
(* it.                                                                     *)
LosslessExact ==
  Missing = {} =>
    LET handed == delivered \o inProgress
    IN  /\ \A i \in 1 .. Len(handed) : handed[i] = i - 1
        /\ inFlight = {} => Len(handed) = Len(sent)
=============================================================================
