------------------------------ MODULE PingPong ------------------------------
(***************************************************************************)
(* The receivers of debug/ that capture into one of two slots while they   *)
(* decode the other.  Events buf_free and buf_ready hand a slot over.      *)
(* mac_rx_pingpong_test.py captures in a thread, and its slots hold        *)
(* references to arrays; pluto_rx_pingpong_test_v2.py captures in another  *)
(* process, into two shared arrays that the decoder reads in place.        *)
(*                                                                         *)
(* `queue` is the part of the buffer in decode that is not decoded yet.    *)
(* A frame cut by a buffer's end counts to the buffer it ends in, and a    *)
(* frame whose preamble or header is not decoded, which rx_streaming       *)
(* passes over without a result, as "unsupported".                         *)
(***************************************************************************)
EXTENDS RxLoop

CONSTANT MaxPerBuffer  \* bound: frames that end in one buffer

VARIABLES
  in_place,        \* the slots are shared arrays
  slots,
  buf_ready, buf_free,
  capture,         \* of the capture side: its place in the loop, slot and raw
  decode,          \* of the decode side: inside a buffer or not, and slot
  stopped,         \* stop_event
  captured         \* how many frames rx.rx() has ever returned

pingVars == <<in_place, slots, buf_ready, buf_free, capture, decode, stopped, captured>>

Slots == 0 .. 1

\* What the decoder has left once its slot's array holds `samples`.
LeftOf(samples) ==
  SubSeq(samples, Len(slots[decode.slot]) - Len(queue) + 1, Len(samples))

\* An array partly overwritten.
Torn(new, old, n) == SubSeq(new, 1, n) \o SubSeq(old, n + 1, Len(old))

\* The transmitter of these tests keeps to the receiver's configuration.
OnTheAir(n, k) ==
  {raw \in Arrivals(n, k) : \A i \in 1 .. k : raw[i].fec = ConfiguredFec}

-----------------------------------------------------------------------------
CaptureUnasked ==                                                   \* fault
  /\ capture.at = "waiting"
  /\ buf_free' = [buf_free EXCEPT ![capture.slot] = FALSE]
  /\ \E k \in 0 .. MaxFrames - captured :
       /\ k <= MaxPerBuffer
       /\ \E raw \in OnTheAir(captured, k) :
            capture' = [capture EXCEPT !.at = "storing", !.raw = raw]
       /\ captured' = captured + k
  /\ UNCHANGED <<loopVars, in_place, slots, buf_ready, decode, stopped>>

(* The wait for a free slot ends, and rx.rx() returns.                     *)
Capture ==
  /\ capture.at = "waiting"
  /\ buf_free[capture.slot]
  /\ buf_free' = [buf_free EXCEPT ![capture.slot] = FALSE]
  /\ \E k \in 0 .. MaxFrames - captured :
       /\ k <= MaxPerBuffer
       /\ \E raw \in OnTheAir(captured, k) :
            capture' = [capture EXCEPT !.at = "storing", !.raw = raw]
       /\ captured' = captured + k
  /\ UNCHANGED <<loopVars, in_place, slots, buf_ready, decode, stopped>>

(* slots[i] = raw: a decoder inside this slot keeps the old array.         *)
Store ==
  /\ capture.at = "storing" /\ ~in_place
  /\ slots' = [slots EXCEPT ![capture.slot] = capture.raw]
  /\ capture' = [capture EXCEPT !.at = "stored"]
  /\ UNCHANGED <<loopVars, in_place, buf_ready, buf_free, decode, stopped, captured>>

(* views[i][:] = raw, which a decoder inside this slot sees under way.     *)
CopyIn ==
  /\ capture.at = "storing" /\ in_place
  /\ \E n \in 0 .. Len(capture.raw) :
       LET whole == n = Len(capture.raw)
           array == IF whole THEN capture.raw
                    ELSE Torn(capture.raw, slots[capture.slot], n)
       IN  /\ slots' = [slots EXCEPT ![capture.slot] = array]
           /\ capture' = [capture EXCEPT !.at = IF whole THEN "stored" ELSE "storing"]
           /\ queue' = IF decode.inside /\ decode.slot = capture.slot
                       THEN LeftOf(array) ELSE queue
  /\ UNCHANGED <<fec, arrived, handed, quality,
                 in_place, buf_ready, buf_free, decode, stopped, captured>>

Announce ==
  /\ capture.at = "stored"
  /\ buf_ready' = [buf_ready EXCEPT ![capture.slot] = TRUE]
  /\ capture' = [at |-> IF stopped THEN "exited" ELSE "waiting",
                 slot |-> 1 - capture.slot, raw |-> <<>>]
  /\ UNCHANGED <<loopVars, in_place, slots, buf_free, decode, stopped, captured>>

-----------------------------------------------------------------------------
BeginBuffer ==
  /\ ~stopped /\ ~decode.inside
  /\ buf_ready[decode.slot]
  /\ buf_ready' = [buf_ready EXCEPT ![decode.slot] = FALSE]
  /\ decode' = [decode EXCEPT !.inside = TRUE]
  /\ queue' = slots[decode.slot]
  /\ arrived' = arrived + Len(slots[decode.slot])
  /\ UNCHANGED <<fec, handed, quality, in_place, slots, buf_free, capture, stopped, captured>>

(* rx_streaming over the pieces that hold the next frame, _apply_rx_result *)
(* and _deliver.                                                           *)
DecodeFrame ==
  /\ decode.inside
  /\ ReceiveIq
  /\ UNCHANGED pingVars

EndBuffer ==
  /\ decode.inside /\ queue = <<>>
  /\ buf_free' = [buf_free EXCEPT ![decode.slot] = TRUE]
  /\ decode' = [inside |-> FALSE, slot |-> 1 - decode.slot]
  /\ UNCHANGED <<loopVars, in_place, slots, buf_ready, capture, stopped, captured>>

(* The time is up between two buffers, or Ctrl-C falls into one.  Setting  *)
(* both events wakes a capture side that waits.                            *)
Stop ==
  /\ ~stopped
  /\ stopped' = TRUE
  /\ decode' = [decode EXCEPT !.inside = FALSE]
  /\ buf_free' = [i \in Slots |-> TRUE]
  /\ UNCHANGED <<loopVars, in_place, slots, buf_ready, capture, captured>>

Stopped ==
  /\ stopped /\ capture.at = "exited"
  /\ UNCHANGED <<loopVars, pingVars>>

PingPongInit ==
  /\ in_place \in BOOLEAN
  /\ slots = [i \in Slots |-> <<>>]
  /\ buf_ready = [i \in Slots |-> FALSE]
  /\ buf_free = [i \in Slots |-> TRUE]
  /\ capture = [at |-> "waiting", slot |-> 0, raw |-> <<>>]
  /\ decode = [inside |-> FALSE, slot |-> 0]
  /\ stopped = FALSE /\ captured = 0

PingPong ==
  \/ Capture \/ Store \/ CopyIn \/ Announce
  \/ BeginBuffer \/ DecodeFrame \/ EndBuffer
  \/ Stop \/ Stopped
=============================================================================
