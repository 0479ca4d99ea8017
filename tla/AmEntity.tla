------------------------------ MODULE AmEntity ------------------------------
(***************************************************************************)
(* Acknowledged mode (mac/am.py): the sending half of one AmEntity and the *)
(* receiving half of its peer.  The two directions of a link share no      *)
(* state, so one direction is the whole protocol.  UmEntity is AmEntity's  *)
(* self._um: its state is that of module Reassembly.                       *)
(***************************************************************************)
EXTENDS Reassembly

CONSTANT MaxRetries     \* NACKed rounds a PDU survives

ASSUME MaxRetriesAssumption == MaxRetries \in Nat

VARIABLES
  retx,           \* _retx_buffer: [unacknowledged positions -> retry count]
  failed,         \* failed_sns, as positions
  received        \* _received_sns, as the positions that arrived

amVars == <<txVars, rxVars, retx, failed, received>>

Offsets == 0 .. WindowSize - 1

Status == [base : SN, bits : SUBSET Offsets]

-----------------------------------------------------------------------------

(* AmEntity.transmit: every PDU just numbered enters the retransmission    *)
(* buffer under its SN, over any entry already there.                      *)
AmTransmit(count) ==
  /\ Transmit(count)
  /\ LET new  == Numbered(count)
         kept == {p \in DOMAIN retx : SnOf(p) \notin SnsOf(new)}
     IN  retx' = [p \in kept \cup new |-> IF p \in new THEN 0 ELSE retx[p]]
  /\ UNCHANGED <<rxVars, failed, received>>

AmTransmitTooLong(count) ==
  /\ TransmitTooLong(count)
  /\ UNCHANGED <<rxVars, retx, failed, received>>

AckedAtBase(p, status) ==                                       \* fault
  \/ SnOf(p) = status.base
  \/ SnPrecedes(SnOf(p), status.base)
  \/ SnDistance(status.base, SnOf(p)) \in status.bits

(* How receive_status reads an entry of the buffer. *)
Acked(p, status) ==
  \/ SnPrecedes(SnOf(p), status.base)
  \/ SnDistance(status.base, SnOf(p)) \in status.bits

Nacked(p, status) ==
  /\ ~Acked(p, status)
  /\ SnDistance(status.base, SnOf(p)) < WindowSize

GivenUpLate(status) ==                                          \* fault
  {p \in DOMAIN retx : Nacked(p, status) /\ retx[p] > MaxRetries}

(* The entries this status makes the sender give up on, and those it sends *)
(* again.                                                                  *)
GivenUp(status) ==
  {p \in DOMAIN retx : Nacked(p, status) /\ retx[p] + 1 > MaxRetries}

ToRetransmit(status) ==
  {p \in DOMAIN retx : Nacked(p, status)} \ GivenUp(status)

ReceiveStatusUncounted(status) ==                               \* fault
  /\ LET kept == {p \in DOMAIN retx : ~Acked(p, status)} \ GivenUp(status)
     IN  retx' = [p \in kept |-> retx[p]]
  /\ failed' = failed \cup GivenUp(status)
  /\ UNCHANGED <<txVars, rxVars, received>>

(* AmEntity.receive_status *)
ReceiveStatus(status) ==
  /\ LET kept == {p \in DOMAIN retx : ~Acked(p, status)} \ GivenUp(status)
     IN  retx' = [p \in kept |->
                   IF p \in ToRetransmit(status) THEN retx[p] + 1 ELSE retx[p]]
  /\ failed' = failed \cup GivenUp(status)
  /\ UNCHANGED <<txVars, rxVars, received>>

(* AmEntity.pending_pdus *)
PendingPdus == DOMAIN retx

(* AmEntity.receive_data *)
ReceiveData(p) ==
  /\ received' = received \cup {p}
  /\ Ingest(p)
  /\ UNCHANGED <<txVars, retx, failed>>

(* AmEntity.build_status *)
BuildStatus ==
  [base |-> expected,
   bits |-> {o \in Offsets : SnAdd(expected, o) \in SnsOf(received)}]

-----------------------------------------------------------------------------

AmInit ==
  /\ ReassemblyInit
  /\ retx = <<>>
  /\ failed = {}
  /\ received = {}

AmTypeOK ==
  /\ ReassemblyTypeOK
  /\ DOMAIN retx \subseteq Positions
  /\ retx \in [DOMAIN retx -> 0 .. MaxRetries]
  /\ failed \subseteq Positions
  /\ received \subseteq Positions

(* The sender forgets a PDU only if it arrived, or was reported in         *)
(* failed_sns, or the receiver itself resynced past it.                    *)
Accounted ==
  \A p \in Positions \ (burnt \cup received \cup failed) :
    p \in DOMAIN retx \/ p < expected

=============================================================================
