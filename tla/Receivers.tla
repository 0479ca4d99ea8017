----------------------------- MODULE Receivers ------------------------------
(***************************************************************************)
(* Two ways to receive several frames, each compared with the plain loop:  *)
(* receive_iq_batch and its pool (RxBatch), and capture and decode side by *)
(* side over two slots (PingPong).                                         *)
(***************************************************************************)
EXTENDS RxBatch, PingPong

VARIABLE way

ReceiversInit ==
  /\ Init /\ PingPongInit
  /\ way \in {"batch", "ping-pong"}
  /\ way = "batch" => ~in_place

ByBatch ==
  /\ way = "batch"
  /\ Next
  /\ UNCHANGED <<pingVars, way>>

ByPingPong ==
  /\ way = "ping-pong"
  /\ PingPong
  /\ UNCHANGED <<batchVars, way>>

ReceiversSpec == ReceiversInit /\ [][ByBatch \/ ByPingPong]_<<vars, pingVars, way>>

(* "Like calling receive_iq() once per arrived IQ frame in iq_arrays, in   *)
(* the SAME order": whatever the workers of receive_iq_batch do, the       *)
(* entity is handed the same PDUs in the same order and the link quality   *)
(* counts the same attempts.  The same goes for the frames of a ping-pong  *)
(* receiver: none is skipped, decoded twice or decoded half overwritten.   *)
LikeLoop == LoopSpec
=============================================================================
