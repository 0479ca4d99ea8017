------------------------------- MODULE RxLoop -------------------------------
(***************************************************************************)
(* Mac.receive_iq (mac/mac.py), called once per frame in the order of      *)
(* arrival: what receive_iq_batch promises to be like.                     *)
(*                                                                         *)
(* A frame on the air is told apart by what its reception depends on: the  *)
(* FEC it was sent with, and whether it is intact, damaged (not found, or  *)
(* failing FEC or CRC), or of a kind rx_process does not implement.        *)
(***************************************************************************)
EXTENDS Integers, Sequences, FiniteSets

CONSTANTS
  Fecs,            \* FEC schemes, fec0 and fec1 as one
  ConfiguredFec,   \* the one in ofdm_kwargs
  StrictFecCheck,  \* strict_fec_check of ofdm_kwargs
  MaxFrames,       \* bound: frames ever received
  NONE

ASSUME RxLoopAssumption ==
  /\ ConfiguredFec \in Fecs
  /\ StrictFecCheck \in BOOLEAN
  /\ MaxFrames \in Nat

VARIABLES
  fec,             \* self.ofdm.fec, fec1
  queue,           \* frames the caller has in hand, in order of arrival
  arrived,         \* how many frames have ever arrived
  handed,          \* frames whose PDU was handed to the mode's entity
  quality          \* self.quality

loopVars == <<fec, queue, arrived, handed, quality>>

Fates == {"intact", "damaged", "unsupported"}
Frame == [id : 1 .. MaxFrames, fec : Fecs, fate : Fates]

(* _rx_process_only on an Ofdm configured for scheme f: NONE, or a result  *)
(* of which only `delivered` matters.                                      *)
RxProcess(frame, f) ==
  IF StrictFecCheck /\ frame.fec # f THEN [delivered |-> FALSE]
  ELSE IF frame.fate = "unsupported" THEN NONE
  ELSE [delivered |-> frame.fate = "intact"]

(* _apply_rx_result and _deliver.                                          *)
Apply(frame, result) ==
  IF result = NONE
  THEN UNCHANGED <<handed, quality>>
  ELSE /\ quality' = [attempts |-> quality.attempts + 1,
                      delivered |-> quality.delivered
                                      + IF result.delivered THEN 1 ELSE 0]
       /\ handed' = IF result.delivered THEN Append(handed, frame) ELSE handed

-----------------------------------------------------------------------------
\* Lists of the k frames that follow frame n.
Arrivals(n, k) ==
  {[i \in 1 .. k |-> [id |-> n + i, fec |-> sent[i][1], fate |-> sent[i][2]]] :
     sent \in [1 .. k -> Fecs \X Fates]}

(* The caller comes by k frames.                                           *)
Collect(k) ==
  /\ queue = <<>>
  /\ arrived' = arrived + k
  /\ queue' \in Arrivals(arrived, k)
  /\ UNCHANGED <<fec, handed, quality>>

ReceiveIq ==
  /\ queue # <<>>
  /\ Apply(Head(queue), RxProcess(Head(queue), fec))
  /\ queue' = Tail(queue)
  /\ UNCHANGED <<fec, arrived>>

(* set_tx_scheme, between two receptions; reconfigure_tx_scheme replaces   *)
(* fec and fec1 of the very Ofdm that receives.                            *)
SetTxScheme(f) ==
  /\ queue = <<>>
  /\ fec' = f
  /\ UNCHANGED <<queue, arrived, handed, quality>>

LoopInit ==
  /\ fec = ConfiguredFec
  /\ queue = <<>> /\ arrived = 0
  /\ handed = <<>>
  /\ quality = [attempts |-> 0, delivered |-> 0]

LoopNext ==
  \/ \E k \in 1 .. MaxFrames - arrived : Collect(k)
  \/ ReceiveIq
  \/ \E f \in Fecs : SetTxScheme(f)

LoopSpec == LoopInit /\ [][LoopNext]_loopVars
=============================================================================
