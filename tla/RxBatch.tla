------------------------------ MODULE RxBatch -------------------------------
(***************************************************************************)
(* Mac.receive_iq_batch (mac/mac.py): the frames in hand are decoded by a  *)
(* pool of workers, each on an Ofdm of its own, and the results applied in *)
(* order once all are there.  A decoder has one native struct, which a     *)
(* decode resets when it begins and reads when it ends.                    *)
(***************************************************************************)
EXTENDS RxLoop

CONSTANT NWorkers  \* values of n_workers

ASSUME RxBatchAssumption == NWorkers \subseteq Nat

VARIABLES
  stage,           \* of the call: "idle", "decoding" or "delivering"
  workers,         \* n_workers of the call
  replicas,        \* self._ofdm_replicas: the scheme each is configured for
  next,            \* per worker, the frame it decodes next
  busy,            \* workers inside a decode
  struct,          \* per Ofdm, the frame in its native struct
  results

batchVars == <<stage, workers, replicas, next, busy, struct, results>>
vars == <<loopVars, batchVars>>

\* Ofdm 0 is the Mac's own, 1, 2, ... are the replicas.
Pool == 0 .. MaxFrames
SchemeOf(o) == IF o = 0 THEN fec ELSE replicas[o]

OfdmShared(w) == IF workers = 1 THEN 0 ELSE 1                      \* fault

OfdmOf(w) == IF workers = 1 THEN 0 ELSE w

(* A first look at the list: n_workers is cut to its length, and the pool  *)
(* grown to it, from the configuration the Mac was built with.             *)
Grown(n) ==
  IF n > Len(replicas)
  THEN replicas \o [i \in 1 .. n - Len(replicas) |-> ConfiguredFec]
  ELSE replicas

Workers(n) ==
  LET wanted == IF n < Len(queue) THEN n ELSE Len(queue)
  IN  IF wanted > 1 THEN wanted ELSE 1

ReceiveIqBatch(n) ==
  /\ stage = "idle" /\ queue # <<>>
  /\ stage' = "decoding"
  /\ workers' = Workers(n)
  /\ replicas' = IF Workers(n) = 1 THEN replicas ELSE Grown(Workers(n))
  /\ next' = [w \in 1 .. Workers(n) |-> w]
  /\ results' = [i \in 1 .. Len(queue) |-> NONE]
  /\ UNCHANGED <<loopVars, busy, struct>>

BeginDecode(w) ==
  /\ stage = "decoding"
  /\ w \in DOMAIN next \ busy
  /\ next[w] <= Len(queue)
  /\ busy' = busy \cup {w}
  /\ struct' = [struct EXCEPT ![OfdmOf(w)] = next[w]]
  /\ UNCHANGED <<loopVars, stage, workers, replicas, next, results>>

\* What a decode returns whose struct another one has reset fails its CRC.
Decoded(w) ==
  IF struct[OfdmOf(w)] = next[w]
  THEN RxProcess(queue[next[w]], SchemeOf(OfdmOf(w)))
  ELSE [delivered |-> FALSE]

(* Frames are dealt to the workers in turn.                                *)
EndDecode(w) ==
  /\ w \in busy
  /\ busy' = busy \ {w}
  /\ results' = [results EXCEPT ![next[w]] = Decoded(w)]
  /\ next' = [next EXCEPT ![w] = next[w] + workers]
  /\ UNCHANGED <<loopVars, stage, workers, replicas, struct>>

Join ==
  /\ stage = "decoding" /\ busy = {}
  /\ \A w \in DOMAIN next : next[w] > Len(queue)
  /\ stage' = "delivering"
  /\ UNCHANGED <<loopVars, workers, replicas, next, busy, struct, results>>

(* One frame's _deliver(_apply_rx_result(result)).                         *)
Deliver ==
  /\ stage = "delivering"
  /\ Apply(Head(queue), Head(results))
  /\ queue' = Tail(queue) /\ results' = Tail(results)
  /\ stage' = IF Len(queue) = 1 THEN "idle" ELSE stage
  /\ UNCHANGED <<fec, arrived, workers, replicas, next, busy, struct>>

Between ==
  /\ stage = "idle"
  /\ \/ \E k \in 1 .. MaxFrames - arrived : Collect(k)
     \/ \E f \in Fecs : SetTxScheme(f)
  /\ UNCHANGED batchVars

Init ==
  /\ LoopInit
  /\ stage = "idle" /\ workers = 1 /\ replicas = <<>>
  /\ next = <<>> /\ busy = {} /\ struct = [o \in Pool |-> 0] /\ results = <<>>

Batch ==
  \/ \E n \in NWorkers : ReceiveIqBatch(n)
  \/ \E w \in 1 .. MaxFrames : BeginDecode(w) \/ EndDecode(w)
  \/ Join
  \/ Deliver

Next == Between \/ Batch

Spec == Init /\ [][Next]_vars

=============================================================================
