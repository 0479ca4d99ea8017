--------------------------- MODULE ReceiversProofs ---------------------------
(***************************************************************************)
(* Proof that both ways to receive several frames implement the plain loop *)
(* of receive_iq calls (module RxLoop), for any number of frames, workers  *)
(* and schemes.                                                            *)
(***************************************************************************)
EXTENDS Receivers, RxStream, FiniteSetTheorems, TLAPS

\* Every Ofdm of a pool decodes what the Mac's own does: the receiver goes by
\* the frame's header, or the schemes never change.
SchemesAlike == StrictFecCheck => Fecs = {ConfiguredFec}

-----------------------------------------------------------------------------
(* What the invariant says.                                                *)

LoopInv ==
    /\ fec \in Fecs
    /\ arrived \in 0 .. MaxFrames
    /\ queue \in Seq(Frame)
    /\ Len(queue) <= MaxFrames

Result == [delivered : BOOLEAN] \cup {NONE}

\* Frame i of the call is one the workers are yet to come to.
Dealt(i) == \E w \in DOMAIN next, k \in Nat : i = next[w] + k * workers

DecodingInv ==
    /\ queue # <<>>
    /\ workers \in 1 .. MaxFrames
    /\ workers = 1 \/ workers <= Len(replicas)
    /\ next \in [1 .. workers -> Nat \ {0}]
    /\ busy \subseteq 1 .. workers
    /\ \A w \in busy : next[w] <= Len(queue) /\ struct[OfdmOf(w)] = next[w]
    /\ results \in [1 .. Len(queue) -> Result]
    /\ \A i \in 1 .. Len(queue) : results[i] = RxProcess(queue[i], fec) \/ Dealt(i)

DeliveringInv ==
    /\ queue # <<>>
    /\ busy = {}
    /\ results \in Seq(Result)
    /\ Len(results) = Len(queue)
    /\ \A i \in 1 .. Len(queue) : results[i] = RxProcess(queue[i], fec)

BatchInv ==
    /\ replicas \in Seq({ConfiguredFec})
    /\ struct \in [Pool -> Nat]
    /\ \/ stage = "idle" /\ busy = {}
       \/ stage = "decoding" /\ DecodingInv
       \/ stage = "delivering" /\ DeliveringInv

\* A slot is free, held by the capture side, or full.
Held(s) == capture.at \in {"storing", "stored"} /\ capture.slot = s
InDecode(s) == decode.inside /\ decode.slot = s
Full(s) == buf_ready[s] \/ InDecode(s)

\* Frames in a slot that waits for the decode side.
Waiting(s) == IF buf_ready[s] THEN Len(slots[s]) ELSE 0

SlotsInv ==
    /\ \A s \in Slots : /\ ~(buf_ready[s] /\ InDecode(s))
                        /\ ~(Held(s) /\ Full(s))
                        /\ buf_free[s] <=> ~Held(s) /\ ~Full(s)
    /\ capture.slot # decode.slot => Full(decode.slot) /\ ~Full(capture.slot)
    /\ capture.slot = decode.slot => (Full(0) <=> Full(1))

\* What is on its way to the decode side are the frames from the last one
\* decoded to the last one captured, in their order.
FramesInv ==
    /\ ~decode.inside => queue = <<>>
    /\ buf_ready[decode.slot] =>
         slots[decode.slot] \in Arrivals(arrived, Len(slots[decode.slot]))
    /\ buf_ready[1 - decode.slot] =>
         slots[1 - decode.slot] \in Arrivals(arrived + Waiting(decode.slot), Len(slots[1 - decode.slot]))
    /\ capture.raw \in Arrivals(captured - Len(capture.raw), Len(capture.raw))
    /\ capture.at = "stored" => slots[capture.slot] = capture.raw
    /\ capture.at \notin {"storing", "stored"} => capture.raw = <<>>
    /\ captured = arrived + Waiting(0) + Waiting(1) + Len(capture.raw)

PingInv ==
    /\ slots \in [Slots -> Seq(Frame)]
    /\ buf_ready \in [Slots -> BOOLEAN]
    /\ buf_free \in [Slots -> BOOLEAN]
    /\ capture \in [at : {"waiting", "storing", "stored", "exited"}, slot : Slots, raw : Seq(Frame)]
    /\ decode \in [inside : BOOLEAN, slot : Slots]
    /\ stopped \in BOOLEAN
    /\ captured \in 0 .. MaxFrames
    /\ stopped => ~decode.inside
    /\ ~stopped => SlotsInv /\ FramesInv /\ capture.at # "exited"

IInv ==
    /\ LoopInv
    /\ way = "batch" => BatchInv
    /\ way = "ping-pong" => PingInv

-----------------------------------------------------------------------------
(* The operators.                                                          *)

LEMMA OneToThree == MaxFrames \in Nat /\ ConfiguredFec \in Fecs /\ StrictFecCheck \in BOOLEAN /\ NWorkers \subseteq Nat
BY RxLoopAssumption, RxBatchAssumption

\* Any Ofdm of the pool returns of a frame what the Mac's own would.
LEMMA Alike ==
    ASSUME SchemesAlike, NEW frame \in Frame, NEW f \in Fecs, NEW g \in Fecs
    PROVE  RxProcess(frame, f) = RxProcess(frame, g)
<1>1. CASE StrictFecCheck
    <2>1. f = g  BY <1>1 DEF SchemesAlike
    <2>. QED  BY <2>1
<1>2. CASE ~StrictFecCheck
    BY <1>2 DEF RxProcess
<1>. QED  BY <1>1, <1>2

LEMMA ProcessResult ==
    ASSUME NEW frame \in Frame, NEW f \in Fecs
    PROVE  RxProcess(frame, f) \in Result
BY DEF RxProcess, Result, Frame

LEMMA ArrivalsType ==
    ASSUME NEW n \in Nat, NEW k \in Nat, n + k <= MaxFrames, NEW list \in Arrivals(n, k)
    PROVE  /\ list \in Seq(Frame)
           /\ Len(list) = k
<1>1. PICK sent \in [1 .. k -> Fecs \X Fates] :
            list = [i \in 1 .. k |-> [id |-> n + i, fec |-> sent[i][1], fate |-> sent[i][2]]]
    BY DEF Arrivals
<1>2. \A i \in 1 .. k : list[i] \in Frame
    BY <1>1, OneToThree DEF Frame
<1>3. list \in [1 .. k -> Frame]
    BY <1>1, <1>2
<1>. QED  BY <1>3

LEMMA NoArrivals ==
    ASSUME NEW n \in Nat
    PROVE  << >> \in Arrivals(n, 0)
<1>1. << >> \in [1 .. 0 -> Fecs \X Fates]  OBVIOUS
<1>2. << >> = [i \in 1 .. 0 |-> [id |-> n + i, fec |-> << >>[i][1], fate |-> << >>[i][2]]]
    OBVIOUS
<1>. QED  BY <1>1, <1>2 DEF Arrivals

\* Every frame is dealt to a worker.
LEMMA Dealing ==
    ASSUME NEW n \in Nat \ {0}, NEW i \in Nat \ {0}
    PROVE  \E w \in 1 .. n, k \in Nat : i = w + k * n
<1>. DEFINE x == i - 1
            k == x \div n
            r == x % n
<1>1. x \in Nat
    OBVIOUS
<1>. HIDE DEF x
<1>2. x = n * k + r /\ r \in 0 .. n - 1 /\ k \in Nat
    <2>1. x = n * (x \div n) + (x % n)  BY <1>1
    <2>2. x % n \in 0 .. n - 1  BY <1>1
    <2>3. x \div n \in Nat  BY <1>1
    <2>. QED  BY <2>1, <2>2, <2>3
<1>. HIDE DEF k, r
<1>3. i = (r + 1) + k * n
    BY <1>2 DEF x
<1>4. r + 1 \in 1 .. n
    BY <1>2
<1>. QED  BY <1>2, <1>3, <1>4
-----------------------------------------------------------------------------
(* receive_iq_batch.                                                       *)

LEMMA LoopSteps ==
    ASSUME LoopInv,
           \/ \E k \in 1 .. MaxFrames - arrived : Collect(k)
           \/ \E f \in Fecs : SetTxScheme(f)
    PROVE  LoopInv' /\ LoopNext
<1>1. CASE \E k \in 1 .. MaxFrames - arrived : Collect(k)
    <2>1. PICK k \in 1 .. MaxFrames - arrived : Collect(k)
        BY <1>1
    <2>2. queue' \in Seq(Frame) /\ Len(queue') = k
        BY <2>1, ArrivalsType, OneToThree DEF Collect, LoopInv
    <2>. QED
        BY <2>1, <2>2, OneToThree DEF Collect, LoopInv, LoopNext
<1>2. CASE \E f \in Fecs : SetTxScheme(f)
    BY <1>2 DEF SetTxScheme, LoopInv, LoopNext
<1>. QED  BY <1>1, <1>2

LEMMA BatchBegins ==
    ASSUME LoopInv, BatchInv, NEW n \in NWorkers, ReceiveIqBatch(n)
    PROVE  BatchInv'
<1>1. n \in Nat /\ stage = "idle" /\ busy = {} /\ queue # << >> /\ Len(queue) \in 1 .. MaxFrames
    BY OneToThree DEF ReceiveIqBatch, BatchInv, LoopInv, DecodingInv, DeliveringInv
<1>2. Workers(n) \in 1 .. MaxFrames
    BY <1>1, OneToThree DEF Workers
<1>3. Grown(Workers(n)) \in Seq({ConfiguredFec}) /\ Workers(n) <= Len(Grown(Workers(n)))
    <2>. DEFINE m == Workers(n)
    <2>. HIDE DEF m
    <2>0. m \in Nat  BY <1>2 DEF m
    <2>1. CASE m > Len(replicas)
        <3>. DEFINE more == [i \in 1 .. m - Len(replicas) |-> ConfiguredFec]
        <3>1. more \in Seq({ConfiguredFec}) /\ Len(more) = m - Len(replicas)
            BY <2>0, <2>1 DEF BatchInv
        <3>. HIDE DEF more
        <3>2. replicas \o more \in Seq({ConfiguredFec}) /\ Len(replicas \o more) = m
            BY <2>0, <3>1 DEF BatchInv
        <3>. QED  BY <3>2, <2>0, <2>1 DEF Grown, more, m
    <2>2. CASE ~(m > Len(replicas))
        BY <2>0, <2>2 DEF Grown, m, BatchInv
    <2>. QED  BY <2>1, <2>2
<1>4. /\ workers' = Workers(n) /\ stage' = "decoding" /\ busy' = {} /\ struct' = struct
      /\ next' = [w \in 1 .. Workers(n) |-> w]
      /\ results' = [i \in 1 .. Len(queue) |-> NONE]
      /\ queue' = queue /\ fec' = fec
      /\ replicas' = IF Workers(n) = 1 THEN replicas ELSE Grown(Workers(n))
    BY <1>1 DEF ReceiveIqBatch, loopVars
<1>5. \A i \in 1 .. Len(queue) : Dealt(i)'
    <2>. SUFFICES ASSUME NEW i \in 1 .. Len(queue) PROVE Dealt(i)'
        OBVIOUS
    <2>1. Workers(n) \in Nat \ {0} /\ i \in Nat \ {0}
        BY <1>1, <1>2, OneToThree
    <2>2. PICK w \in 1 .. Workers(n), k \in Nat : i = w + k * Workers(n)
        BY <2>1, Dealing
    <2>. QED  BY <1>4, <2>2 DEF Dealt
<1>6. DecodingInv'
    BY <1>1, <1>2, <1>3, <1>4, <1>5 DEF DecodingInv, Result
<1>7. replicas' \in Seq({ConfiguredFec}) /\ struct' \in [Pool -> Nat]
    BY <1>3, <1>4 DEF BatchInv
<1>. QED  BY <1>4, <1>6, <1>7 DEF BatchInv

LEMMA DecodeBegins ==
    ASSUME LoopInv, BatchInv, NEW w \in 1 .. MaxFrames, BeginDecode(w)
    PROVE  BatchInv'
<1>1. stage = "decoding" /\ DecodingInv
    BY DEF BeginDecode, BatchInv
<1>2. w \in 1 .. workers /\ w \notin busy
    BY <1>1 DEF BeginDecode, DecodingInv
<1>3. \A v \in 1 .. workers : OfdmOf(v) \in Pool /\ (v # w => OfdmOf(v) # OfdmOf(w))
    BY <1>1, <1>2, OneToThree DEF DecodingInv, OfdmOf, Pool
<1>4. struct' \in [Pool -> Nat]
    BY <1>1, <1>2, <1>3 DEF BeginDecode, DecodingInv, BatchInv
<1>5. \A v \in busy' : next[v] <= Len(queue) /\ struct'[OfdmOf(v)] = next[v]
    BY <1>1, <1>2, <1>3 DEF BeginDecode, DecodingInv, BatchInv
<1>6. DecodingInv'
    BY <1>1, <1>2, <1>5 DEF BeginDecode, DecodingInv, loopVars, OfdmOf, Dealt
<1>. QED  BY <1>1, <1>4, <1>6 DEF BeginDecode, BatchInv

LEMMA DecodeEnds ==
    ASSUME SchemesAlike, LoopInv, BatchInv, NEW w \in 1 .. MaxFrames, EndDecode(w)
    PROVE  BatchInv'
<1>1. stage = "decoding" /\ DecodingInv /\ w \in busy
    BY DEF EndDecode, BatchInv, DeliveringInv
<1>2. w \in 1 .. workers /\ next[w] \in 1 .. Len(queue) /\ workers \in Nat \ {0}
    BY <1>1, OneToThree DEF DecodingInv, LoopInv
<1>3. SchemeOf(OfdmOf(w)) \in Fecs
    BY <1>1, <1>2, OneToThree DEF SchemeOf, OfdmOf, DecodingInv, BatchInv, LoopInv
<1>4. Decoded(w) = RxProcess(queue[next[w]], fec)
    <2>1. queue[next[w]] \in Frame /\ fec \in Fecs
        BY <1>2 DEF LoopInv
    <2>2. struct[OfdmOf(w)] = next[w]
        BY <1>1 DEF DecodingInv
    <2>. QED  BY <1>3, <2>1, <2>2, Alike DEF Decoded
<1>5. Decoded(w) \in Result
    BY <1>2, <1>4, ProcessResult DEF LoopInv
<1>6. /\ results' = [results EXCEPT ![next[w]] = Decoded(w)]
      /\ next' = [next EXCEPT ![w] = next[w] + workers]
      /\ busy' = busy \ {w}
      /\ UNCHANGED <<queue, fec, stage, workers, replicas, struct>>
    BY DEF EndDecode, loopVars
<1>7. \A i \in 1 .. Len(queue) : results'[i] = RxProcess(queue[i], fec) \/ Dealt(i)'
    <2>. SUFFICES ASSUME NEW i \in 1 .. Len(queue), i # next[w], Dealt(i) PROVE Dealt(i)'
        BY <1>1, <1>2, <1>4, <1>6 DEF DecodingInv
    <2>1. PICK v \in DOMAIN next, k \in Nat : i = next[v] + k * workers
        BY DEF Dealt
    <2>2. CASE v # w
        <3>1. v \in DOMAIN next' /\ next'[v] = next[v]
            BY <1>1, <1>6, <2>2 DEF DecodingInv
        <3>. QED  BY <1>6, <2>1, <3>1 DEF Dealt
    <2>3. CASE v = w
        <3>1. k # 0
            BY <1>2, <2>1, <2>3
        <3>2. next[w] \in Nat
            BY <1>2
        <3>3. i = (next[w] + workers) + (k - 1) * workers
            BY <1>2, <2>1, <2>3, <3>1, <3>2
        <3>4. w \in DOMAIN next' /\ next'[w] = next[w] + workers
            BY <1>1, <1>2, <1>6 DEF DecodingInv
        <3>. QED  BY <1>6, <3>1, <3>3, <3>4 DEF Dealt
    <2>. QED  BY <2>2, <2>3
<1>8. next' \in [1 .. workers -> Nat \ {0}] /\ results' \in [1 .. Len(queue) -> Result]
    BY <1>1, <1>2, <1>5, <1>6 DEF DecodingInv
<1>9. \A v \in busy' : next'[v] <= Len(queue) /\ struct[OfdmOf(v)] = next'[v]
    BY <1>1, <1>6 DEF DecodingInv
<1>10. DecodingInv'
    BY <1>1, <1>6, <1>7, <1>8, <1>9 DEF DecodingInv, OfdmOf
<1>. QED  BY <1>1, <1>6, <1>10 DEF BatchInv

LEMMA AllDecoded ==
    ASSUME LoopInv, BatchInv, Join
    PROVE  BatchInv'
<1>1. stage = "decoding" /\ DecodingInv /\ busy = {}
    BY DEF Join, BatchInv
<1>2. \A i \in 1 .. Len(queue) : ~Dealt(i)
    <2>. SUFFICES ASSUME NEW i \in 1 .. Len(queue), NEW w \in DOMAIN next, NEW k \in Nat,
                         i = next[w] + k * workers
                  PROVE  FALSE
        BY DEF Dealt
    <2>1. next[w] \in Nat /\ next[w] > Len(queue) /\ workers \in Nat /\ Len(queue) \in Nat
        BY <1>1, OneToThree DEF Join, DecodingInv, LoopInv
    <2>2. k * workers >= 0
        BY <2>1
    <2>3. k * workers \in Nat
        BY <2>1
    <2>. HIDE DEF Dealt
    <2>. QED  BY <2>1, <2>2, <2>3
<1>3. results \in Seq(Result) /\ Len(results) = Len(queue)
    BY <1>1 DEF DecodingInv, LoopInv
<1>4. DeliveringInv'
    BY <1>1, <1>2, <1>3 DEF Join, DecodingInv, DeliveringInv, loopVars
<1>. QED  BY <1>1, <1>4 DEF Join, BatchInv

LEMMA Delivers ==
    ASSUME LoopInv, BatchInv, Deliver
    PROVE  LoopInv' /\ BatchInv' /\ ReceiveIq
<1>1. stage = "delivering" /\ DeliveringInv
    BY DEF Deliver, BatchInv
<1>2. Len(queue) \in Nat \ {0} /\ Len(results) = Len(queue)
    BY <1>1 DEF DeliveringInv, LoopInv
<1>3. Head(results) = RxProcess(Head(queue), fec)
    BY <1>1, <1>2 DEF DeliveringInv, LoopInv
<1>4. ReceiveIq
    BY <1>1, <1>3 DEF Deliver, ReceiveIq, DeliveringInv
<1>5. /\ queue' \in Seq(Frame) /\ Len(queue') = Len(queue) - 1
      /\ \A i \in 1 .. Len(queue') : queue'[i] = queue[i + 1]
    BY <1>2 DEF Deliver, LoopInv
<1>6. /\ results' \in Seq(Result) /\ Len(results') = Len(results) - 1
      /\ \A i \in 1 .. Len(results') : results'[i] = results[i + 1]
    BY <1>1, <1>2 DEF Deliver, DeliveringInv
<1>7. LoopInv'
    BY <1>2, <1>5, OneToThree DEF Deliver, LoopInv
<1>10. busy' = {} /\ replicas' \in Seq({ConfiguredFec}) /\ struct' \in [Pool -> Nat]
    BY <1>1 DEF Deliver, DeliveringInv, BatchInv
<1>8. CASE Len(queue) = 1
    <2>1. stage' = "idle"  BY <1>8 DEF Deliver
    <2>. QED  BY <1>4, <1>7, <1>10, <2>1 DEF BatchInv
<1>9. CASE Len(queue) # 1
    <2>1. stage' = "delivering"
        BY <1>1, <1>9 DEF Deliver
    <2>0. queue' # << >>
        BY <1>2, <1>5, <1>9
    <2>2. \A i \in 1 .. Len(queue') : results'[i] = RxProcess(queue'[i], fec)
        BY <1>1, <1>2, <1>5, <1>6 DEF DeliveringInv
    <2>3. DeliveringInv'
        BY <1>1, <1>2, <1>5, <1>6, <2>0, <2>2 DEF Deliver, DeliveringInv
    <2>. QED  BY <1>4, <1>7, <1>10, <2>1, <2>3 DEF BatchInv
<1>. QED  BY <1>8, <1>9

\* Every step of receive_iq_batch is one of the plain loop, or none.
LEMMA BatchStep ==
    ASSUME SchemesAlike, LoopInv, BatchInv, Next
    PROVE  LoopInv' /\ BatchInv' /\ (LoopNext \/ UNCHANGED loopVars)
<1>1. CASE Between
    <2>1. LoopInv' /\ LoopNext
        BY <1>1, LoopSteps DEF Between
    <2>2. BatchInv'
        BY <1>1 DEF Between, BatchInv, batchVars, DecodingInv, DeliveringInv
    <2>. QED  BY <2>1, <2>2
<1>2. ASSUME NEW n \in NWorkers, ReceiveIqBatch(n)
      PROVE  LoopInv' /\ BatchInv' /\ UNCHANGED loopVars
    <2>1. UNCHANGED loopVars  BY <1>2 DEF ReceiveIqBatch
    <2>. QED  BY <1>2, <2>1, BatchBegins DEF LoopInv, loopVars
<1>3. ASSUME NEW w \in 1 .. MaxFrames, BeginDecode(w)
      PROVE  LoopInv' /\ BatchInv' /\ UNCHANGED loopVars
    <2>1. UNCHANGED loopVars  BY <1>3 DEF BeginDecode
    <2>. QED  BY <1>3, <2>1, DecodeBegins DEF LoopInv, loopVars
<1>4. ASSUME NEW w \in 1 .. MaxFrames, EndDecode(w)
      PROVE  LoopInv' /\ BatchInv' /\ UNCHANGED loopVars
    <2>1. UNCHANGED loopVars  BY <1>4 DEF EndDecode
    <2>. QED  BY <1>4, <2>1, DecodeEnds DEF LoopInv, loopVars
<1>5. CASE Join
    <2>1. UNCHANGED loopVars  BY <1>5 DEF Join
    <2>. QED  BY <1>5, <2>1, AllDecoded DEF LoopInv, loopVars
<1>6. CASE Deliver
    BY <1>6, Delivers DEF LoopNext
<1>. QED  BY <1>1, <1>2, <1>3, <1>4, <1>5, <1>6 DEF Next, Batch
-----------------------------------------------------------------------------
(* The two slots.                                                          *)

LEMMA OtherSlot ==
    ASSUME NEW s \in Slots
    PROVE  1 - s \in Slots /\ s # 1 - s /\ \A r \in Slots : r = s \/ r = 1 - s
BY DEF Slots

\* rx.rx() returns, into a slot that is free.
LEMMA Captures ==
    ASSUME LoopInv, PingInv, Capture
    PROVE  PingInv'
<1>0. capture.slot \in Slots /\ captured \in 0 .. MaxFrames /\ capture.at = "waiting"
    BY DEF PingInv, Capture
<1>a. PICK k \in 0 .. MaxFrames - captured :
        /\ \E raw \in OnTheAir(captured, k) :
             capture' = [capture EXCEPT !.at = "storing", !.raw = raw]
        /\ captured' = captured + k
    BY DEF Capture
<1>1. PICK raw \in OnTheAir(captured, k) :
        capture' = [capture EXCEPT !.at = "storing", !.raw = raw]
    BY <1>a
<1>2. raw \in Arrivals(captured, k) /\ raw \in Seq(Frame) /\ Len(raw) = k
    BY <1>0, <1>a, ArrivalsType, OneToThree DEF OnTheAir
<1>3. capture' = [at |-> "storing", slot |-> capture.slot, raw |-> raw]
    BY <1>1, <1>0 DEF PingInv
<1>4. /\ buf_free[capture.slot]
      /\ buf_free' = [buf_free EXCEPT ![capture.slot] = FALSE]
      /\ UNCHANGED <<loopVars, slots, buf_ready, decode, stopped>>
    BY DEF Capture
<1>5. /\ capture' \in [at : {"waiting", "storing", "stored", "exited"}, slot : Slots, raw : Seq(Frame)]
      /\ buf_free' \in [Slots -> BOOLEAN]
      /\ captured' \in 0 .. MaxFrames
    BY <1>0, <1>a, <1>2, <1>3, <1>4, OneToThree DEF PingInv
<1>6. ASSUME ~stopped PROVE SlotsInv'
    <2>1. ~Full(capture.slot) /\ SlotsInv
        BY <1>0, <1>4, <1>6 DEF PingInv, SlotsInv
    <2>2. \A s \in Slots : ~Held(s) /\ (Held(s)' <=> s = capture.slot) /\ (Full(s)' <=> Full(s)) /\ (InDecode(s)' <=> InDecode(s))
        BY <1>0, <1>3, <1>4 DEF Held, Full, InDecode
    <2>3. \A s \in Slots : buf_free'[s] <=> buf_free[s] /\ s # capture.slot
        BY <1>0, <1>4 DEF PingInv
    <2>4. \A s \in Slots : /\ ~(buf_ready'[s] /\ InDecode(s)')
                           /\ ~(Held(s)' /\ Full(s)')
                           /\ buf_free'[s] <=> ~Held(s)' /\ ~Full(s)'
        BY <1>4, <2>1, <2>2, <2>3 DEF SlotsInv
    <2>5. capture'.slot = capture.slot /\ decode' = decode
        BY <1>3, <1>4
    <2>6. /\ Full(decode.slot)' <=> Full(decode.slot)
          /\ Full(capture.slot)' <=> Full(capture.slot)
          /\ Full(0)' <=> Full(0)
          /\ Full(1)' <=> Full(1)
        BY <1>4, <2>5 DEF Full, InDecode
    <2>. QED  BY <2>1, <2>4, <2>5, <2>6 DEF SlotsInv
<1>7. ASSUME ~stopped PROVE FramesInv'
    <2>1. FramesInv /\ capture.raw = << >>
        BY <1>0, <1>7 DEF PingInv, FramesInv
    <2>2. Waiting(0)' = Waiting(0) /\ Waiting(1)' = Waiting(1) /\ Waiting(decode.slot)' = Waiting(decode.slot)
        BY <1>4 DEF Waiting
    <2>3. captured = arrived + Waiting(0) + Waiting(1) + 0
        BY <2>1 DEF FramesInv
    <2>4. Waiting(0) \in Nat /\ Waiting(1) \in Nat /\ arrived \in Nat /\ captured \in Nat
        BY <1>0, OneToThree DEF Waiting, PingInv, LoopInv, Slots
    <2>5. captured' - Len(raw) = captured /\ captured' = arrived + Waiting(0) + Waiting(1) + Len(raw)
        BY <1>a, <1>2, <2>3, <2>4
    <2>. QED  BY <1>2, <1>3, <1>4, <2>1, <2>2, <2>5 DEF FramesInv, loopVars
<1>. QED  BY <1>3, <1>4, <1>5, <1>6, <1>7 DEF PingInv

\* The held slot is written, at once or piece by piece.
LEMMA Stores ==
    ASSUME LoopInv, PingInv, Store \/ CopyIn
    PROVE  PingInv' /\ UNCHANGED loopVars
<1>1. PICK array \in Seq(Frame), at \in {"storing", "stored"} :
        /\ slots' = [slots EXCEPT ![capture.slot] = array]
        /\ capture' = [capture EXCEPT !.at = at]
        /\ at = "stored" => array = capture.raw
    <2>1. CASE Store
        BY <2>1 DEF Store, PingInv
    <2>2. CASE CopyIn
        <3>1. PICK n \in 0 .. Len(capture.raw) :
                LET whole == n = Len(capture.raw)
                    array == IF whole THEN capture.raw
                             ELSE Torn(capture.raw, slots[capture.slot], n)
                IN  /\ slots' = [slots EXCEPT ![capture.slot] = array]
                    /\ capture' = [capture EXCEPT !.at = IF whole THEN "stored" ELSE "storing"]
            BY <2>2 DEF CopyIn
        <3>2. capture.raw \in Seq(Frame) /\ slots[capture.slot] \in Seq(Frame) /\ n \in Nat /\ n <= Len(capture.raw)
            BY <3>1 DEF PingInv
        <3>3. Torn(capture.raw, slots[capture.slot], n) \in Seq(Frame)
            <4>1. SubSeq(capture.raw, 1, n) \in Seq(Frame)
                BY <3>2
            <4>2. SubSeq(slots[capture.slot], n + 1, Len(slots[capture.slot])) \in Seq(Frame)
                BY <3>2
            <4>. QED  BY <4>1, <4>2 DEF Torn
        <3>4. CASE n = Len(capture.raw)
            BY <3>1, <3>2, <3>4
        <3>5. CASE n # Len(capture.raw)
            BY <3>1, <3>3, <3>5
        <3>. QED  BY <3>4, <3>5
    <2>. QED  BY <2>1, <2>2
<1>2. capture.at = "storing" /\ capture.slot \in Slots
    BY DEF Store, CopyIn, PingInv
<1>3. UNCHANGED <<fec, arrived, handed, quality, in_place, buf_ready, buf_free, decode, stopped, captured>>
    BY DEF Store, CopyIn, loopVars
<1>4. queue' = queue
    <2>1. ~(decode.inside /\ decode.slot = capture.slot)
        BY <1>2 DEF PingInv, SlotsInv, Held, Full, InDecode
    <2>. QED  BY <2>1 DEF Store, CopyIn, loopVars
<1>5. capture' = [at |-> at, slot |-> capture.slot, raw |-> capture.raw]
    BY <1>1 DEF PingInv
<1>6. \A s \in Slots : s # capture.slot => slots'[s] = slots[s]
    BY <1>1 DEF PingInv
<1>7. slots'[capture.slot] = array
    BY <1>1, <1>2 DEF PingInv
<1>8. /\ slots' \in [Slots -> Seq(Frame)]
      /\ capture' \in [at : {"waiting", "storing", "stored", "exited"}, slot : Slots, raw : Seq(Frame)]
    BY <1>1, <1>2, <1>5 DEF PingInv
<1>9. ASSUME ~stopped PROVE SlotsInv'
    <2>1. \A s \in Slots : (Held(s)' <=> Held(s)) /\ (Full(s)' <=> Full(s)) /\ (InDecode(s)' <=> InDecode(s))
        BY <1>1, <1>2, <1>3, <1>5 DEF Held, Full, InDecode
    <2>. QED  BY <1>3, <1>5, <1>9, <2>1 DEF PingInv, SlotsInv, Slots
<1>10. ASSUME ~stopped PROVE FramesInv'
    <2>1. FramesInv /\ SlotsInv
        BY <1>10 DEF PingInv
    <2>2. \A s \in Slots : buf_ready[s] => slots'[s] = slots[s]
        BY <1>2, <1>6, <2>1 DEF SlotsInv, Held, Full
    <2>3. \A s \in Slots : Waiting(s)' = Waiting(s)
        BY <1>3, <2>2 DEF Waiting
    <2>4. decode.slot \in Slots /\ 1 - decode.slot \in Slots /\ 0 \in Slots /\ 1 \in Slots
        BY DEF PingInv, Slots
    <2>5. /\ Waiting(0)' = Waiting(0) /\ Waiting(1)' = Waiting(1)
          /\ Waiting(decode.slot)' = Waiting(decode.slot)
        BY <1>3, <2>3, <2>4 DEF Waiting
    <2>6. capture'.at = "stored" => slots'[capture'.slot] = capture'.raw
        BY <1>1, <1>5, <1>7
    <2>. QED  BY <1>3, <1>4, <1>5, <2>1, <2>2, <2>4, <2>5, <2>6 DEF FramesInv
<1>. QED  BY <1>3, <1>4, <1>5, <1>8, <1>9, <1>10 DEF PingInv, loopVars

\* A slot is handed to the decode side, after those it was handed before.
LEMMA Announces ==
    ASSUME LoopInv, PingInv, Announce
    PROVE  PingInv'
<1>. PICK c \in Slots, d \in Slots, n \in Nat : c = capture.slot /\ d = decode.slot /\ n = Len(capture.raw)
    BY DEF PingInv
<1>0. /\ 1 - c \in Slots /\ 1 - d \in Slots /\ c # 1 - c /\ d # 1 - d
      /\ \A r \in Slots : (r = c \/ r = 1 - c) /\ (r = d \/ r = 1 - d)
      /\ capture.at = "stored"
      /\ arrived \in Nat /\ captured \in Nat
    BY OneToThree, OtherSlot DEF PingInv, Announce, LoopInv
<1>1. /\ buf_ready' = [buf_ready EXCEPT ![c] = TRUE]
      /\ capture' = [at |-> IF stopped THEN "exited" ELSE "waiting", slot |-> 1 - c, raw |-> << >>]
      /\ UNCHANGED <<loopVars, slots, buf_free, decode, stopped, captured>>
    BY DEF Announce
<1>2. /\ buf_ready' \in [Slots -> BOOLEAN]
      /\ capture' \in [at : {"waiting", "storing", "stored", "exited"}, slot : Slots, raw : Seq(Frame)]
    BY <1>0, <1>1 DEF PingInv
<1>3. ASSUME ~stopped
      PROVE  /\ SlotsInv /\ FramesInv /\ ~Full(c)
             /\ \A s \in Slots : buf_ready'[s] <=> buf_ready[s] \/ s = c
             /\ \A s \in Slots : Full(s)' <=> Full(s) \/ s = c
             /\ \A s \in Slots : ~Held(s)' /\ (Held(s) <=> s = c) /\ (InDecode(s)' <=> InDecode(s))
    <2>1. SlotsInv /\ FramesInv
        BY <1>3 DEF PingInv
    <2>2. \A s \in Slots : buf_ready'[s] <=> buf_ready[s] \/ s = c
        BY <1>1 DEF PingInv
    <2>3. \A s \in Slots : InDecode(s)' <=> InDecode(s)
        BY <1>1 DEF InDecode
    <2>4. \A s \in Slots : ~Held(s)' /\ (Held(s) <=> s = c)
        BY <1>0, <1>1 DEF Held
    <2>5. ~Full(c)
        BY <2>1, <2>4 DEF SlotsInv
    <2>. QED  BY <2>1, <2>2, <2>3, <2>4, <2>5 DEF Full
<1>4. ASSUME ~stopped
      PROVE  IF c = d THEN ~Full(1 - d) ELSE Full(d) /\ 1 - c = d
    BY <1>0, <1>3, <1>4 DEF SlotsInv, Slots
<1>5. ASSUME ~stopped PROVE SlotsInv'
    <2>1. \A s \in Slots : /\ ~(buf_ready'[s] /\ InDecode(s)')
                           /\ ~(Held(s)' /\ Full(s)')
                           /\ buf_free'[s] <=> ~Held(s)' /\ ~Full(s)'
        BY <1>1, <1>3, <1>5 DEF SlotsInv, Full
    <2>2. capture'.slot = 1 - c /\ decode'.slot = d
        BY <1>1
    <2>3. CASE c = d
        <3>1. \A s \in Slots : Full(s)' <=> s = d
            BY <1>0, <1>3, <1>4, <1>5, <2>3
        <3>2. Full(decode.slot)' /\ ~Full(capture.slot)' /\ 1 - c # d
            BY <1>0, <2>2, <2>3, <3>1
        <3>. QED  BY <2>1, <2>2, <3>2 DEF SlotsInv
    <2>4. CASE c # d
        <3>1. \A s \in Slots : Full(s)'
            BY <1>0, <1>3, <1>4, <1>5, <2>4
        <3>2. Full(0)' /\ Full(1)' /\ 1 - c = d
            BY <1>4, <1>5, <2>4, <3>1 DEF Slots
        <3>. QED  BY <2>1, <2>2, <3>2 DEF SlotsInv
    <2>. QED  BY <2>3, <2>4
<1>6. ASSUME ~stopped PROVE FramesInv'
    <2>1. \A s \in Slots : Waiting(s) \in Nat /\ Waiting(s)' = IF s = c THEN n ELSE Waiting(s)
        <3>1. slots[c] = capture.raw
            BY <1>0, <1>3, <1>6 DEF FramesInv
        <3>2. \A s \in Slots : Len(slots[s]) \in Nat
            BY DEF PingInv
        <3>. QED  BY <1>1, <1>3, <1>6, <3>1, <3>2 DEF Waiting
    <2>2. Waiting(c) = 0
        BY <1>3, <1>6 DEF Waiting, Full
    <2>3. captured = arrived + Waiting(c) + Waiting(1 - c) + n
        <3>1. (c = 0 /\ 1 - c = 1) \/ (c = 1 /\ 1 - c = 0)
            BY DEF Slots
        <3>2. Waiting(0) \in Nat /\ Waiting(1) \in Nat
            BY <2>1 DEF Slots
        <3>3. captured = arrived + Waiting(0) + Waiting(1) + n
            BY <1>3, <1>6 DEF FramesInv
        <3>4. CASE c = 0 /\ 1 - c = 1
            BY <3>3, <3>4
        <3>5. CASE c = 1 /\ 1 - c = 0
            BY <1>0, <3>2, <3>3, <3>5
        <3>. QED  BY <3>1, <3>4, <3>5
    <2>4. slots[c] \in Arrivals(captured - n, n) /\ Len(slots[c]) = n
        BY <1>0, <1>3, <1>6 DEF FramesInv
    <2>5. buf_ready'[d] => slots[d] \in Arrivals(arrived, Len(slots[d]))
        <3>1. CASE c = d
            <4>1. Waiting(1 - c) = 0
                BY <1>4, <1>6, <3>1 DEF Waiting, Full
            <4>2. captured - n = arrived
                BY <1>0, <2>1, <2>2, <2>3, <4>1
            <4>. QED  BY <2>4, <3>1, <4>2
        <3>2. CASE c # d
            BY <1>3, <1>6, <3>2 DEF FramesInv
        <3>. QED  BY <3>1, <3>2
    <2>6. buf_ready'[1 - d] => slots[1 - d] \in Arrivals(arrived + Waiting(d)', Len(slots[1 - d]))
        <3>1. CASE c = d
            BY <1>0, <1>3, <1>4, <1>6, <3>1 DEF Full
        <3>2. CASE c # d
            <4>1. c = 1 - d /\ 1 - c = d
                BY <1>0, <3>2
            <4>2. Waiting(d)' = Waiting(d)
                BY <1>1, <2>1, <3>2
            <4>3. captured - n = arrived + Waiting(d)
                BY <1>0, <2>1, <2>2, <2>3, <4>1
            <4>. QED  BY <2>4, <4>1, <4>2, <4>3
        <3>. QED  BY <3>1, <3>2
    <2>7. captured = arrived + Waiting(0)' + Waiting(1)' + 0
        BY <1>0, <2>1, <2>2, <2>3 DEF Slots
    <2>8. << >> \in Arrivals(captured - 0, 0)
        BY <1>0, NoArrivals
    <2>9. capture'.raw = << >> /\ capture'.at \notin {"storing", "stored"} /\ decode'.slot = d
        BY <1>1
    <2>10. Waiting(decode.slot)' = Waiting(d)'
        BY <2>9
    <2>11. ~decode.inside => queue = << >>
        BY <1>3, <1>6 DEF FramesInv
    <2>. QED  BY <1>1, <2>5, <2>6, <2>7, <2>8, <2>9, <2>10, <2>11 DEF FramesInv, loopVars
<1>. QED  BY <1>0, <1>1, <1>2, <1>5, <1>6 DEF PingInv

\* The decode side takes over the slot whose turn it is, if it is ready: the
\* plain loop's caller comes by the frames in it.
LEMMA BeginsBuffer ==
    ASSUME LoopInv, PingInv, BeginBuffer
    PROVE  LoopInv' /\ PingInv' /\ (LoopNext \/ UNCHANGED loopVars)
<1>. PICK c \in Slots, d \in Slots : c = capture.slot /\ d = decode.slot
    BY DEF PingInv
<1>. DEFINE m == Len(slots[d])
<1>0. /\ 1 - d \in Slots /\ d # 1 - d /\ \A r \in Slots : r = d \/ r = 1 - d
      /\ arrived \in Nat /\ captured \in 0 .. MaxFrames
      /\ ~stopped /\ ~decode.inside /\ buf_ready[d]
      /\ m \in Nat
    BY OneToThree, OtherSlot DEF PingInv, BeginBuffer, LoopInv
<1>1. /\ buf_ready' = [buf_ready EXCEPT ![d] = FALSE]
      /\ decode' = [inside |-> TRUE, slot |-> d]
      /\ queue' = slots[d]
      /\ arrived' = arrived + m
      /\ UNCHANGED <<fec, handed, quality, slots, buf_free, capture, stopped, captured>>
    BY DEF BeginBuffer, PingInv
<1>2. SlotsInv /\ FramesInv /\ capture.at # "exited"
    BY <1>0 DEF PingInv
<1>3. \A s \in Slots : /\ Waiting(s) \in Nat
                       /\ Waiting(s)' = IF s = d THEN 0 ELSE Waiting(s)
    <2>1. \A s \in Slots : Len(slots[s]) \in Nat
        BY DEF PingInv
    <2>2. \A s \in Slots : buf_ready'[s] <=> buf_ready[s] /\ s # d
        BY <1>1 DEF PingInv
    <2>. QED  BY <1>1, <2>1, <2>2 DEF Waiting
<1>4. /\ Waiting(d) = m
      /\ captured = arrived + m + Waiting(1 - d) + Len(capture.raw)
      /\ captured = arrived' + Waiting(0)' + Waiting(1)' + Len(capture.raw)
    <2>0. Waiting(d) = m
        BY <1>0 DEF Waiting
    <2>1. (d = 0 /\ 1 - d = 1) \/ (d = 1 /\ 1 - d = 0)
        BY DEF Slots
    <2>2. /\ Waiting(0) \in Nat /\ Waiting(1) \in Nat /\ Len(capture.raw) \in Nat
          /\ Waiting(0)' = IF 0 = d THEN 0 ELSE Waiting(0)
          /\ Waiting(1)' = IF 1 = d THEN 0 ELSE Waiting(1)
        BY <1>3 DEF Slots, PingInv
    <2>3. captured = arrived + Waiting(0) + Waiting(1) + Len(capture.raw)
        BY <1>2 DEF FramesInv
    <2>4. CASE d = 0 /\ 1 - d = 1
        <3>1. Waiting(0) = m /\ Waiting(0)' = 0 /\ Waiting(1)' = Waiting(1) /\ Waiting(1 - d) = Waiting(1)
            BY <2>0, <2>2, <2>4
        <3>2. captured = arrived + m + Waiting(1) + Len(capture.raw) /\ arrived' = arrived + m
            BY <1>1, <2>3, <3>1
        <3>3. captured = arrived' + Waiting(0)' + Waiting(1)' + Len(capture.raw)
            BY <1>0, <2>2, <3>1, <3>2
        <3>. QED  BY <2>0, <3>1, <3>2, <3>3
    <2>5. CASE d = 1 /\ 1 - d = 0
        <3>1. Waiting(1) = m /\ Waiting(1)' = 0 /\ Waiting(0)' = Waiting(0) /\ Waiting(1 - d) = Waiting(0)
            BY <2>0, <2>2, <2>5
        <3>2. captured = arrived + Waiting(0) + m + Len(capture.raw) /\ arrived' = arrived + m
            BY <1>1, <2>3, <3>1
        <3>3. captured = arrived + m + Waiting(1 - d) + Len(capture.raw)
            BY <1>0, <2>2, <3>1, <3>2
        <3>4. captured = arrived' + Waiting(0)' + Waiting(1)' + Len(capture.raw)
            BY <1>0, <2>2, <3>1, <3>2
        <3>. QED  BY <2>0, <3>3, <3>4
    <2>. QED  BY <2>1, <2>4, <2>5
<1>5. arrived + m <= MaxFrames /\ Waiting(1 - d) \in Nat /\ Len(capture.raw) \in Nat
    <2>1. Waiting(1 - d) \in Nat /\ Len(capture.raw) \in Nat
        BY <1>0, <1>3 DEF PingInv
    <2>. QED  BY <1>0, <1>4, <2>1, OneToThree
<1>6. slots[d] \in Arrivals(arrived, m) /\ slots[d] \in Seq(Frame)
    BY <1>0, <1>2 DEF FramesInv, PingInv
<1>7. LoopInv'
    BY <1>0, <1>1, <1>5, <1>6, OneToThree DEF LoopInv
<1>8. LoopNext \/ UNCHANGED loopVars
    <2>1. queue = << >>
        BY <1>0, <1>2 DEF FramesInv
    <2>2. CASE m = 0
        <3>1. slots[d] = << >>
            BY <1>6, <2>2
        <3>. QED  BY <1>0, <1>1, <2>1, <2>2, <3>1 DEF loopVars
    <2>3. CASE m # 0
        <3>1. m \in 1 .. MaxFrames - arrived
            BY <1>0, <1>5, <2>3, OneToThree
        <3>2. Collect(m)
            BY <1>1, <1>6, <2>1 DEF Collect
        <3>. QED  BY <3>1, <3>2 DEF LoopNext
    <2>. QED  BY <2>2, <2>3
<1>9. SlotsInv'
    <2>1. \A s \in Slots : /\ buf_ready'[s] <=> buf_ready[s] /\ s # d
                           /\ InDecode(s)' <=> s = d
                           /\ ~InDecode(s)
                           /\ Held(s)' <=> Held(s)
        BY <1>0, <1>1 DEF PingInv, InDecode, Held
    <2>2. \A s \in Slots : Full(s)' <=> Full(s)
        BY <1>0, <2>1 DEF Full
    <2>3. \A s \in Slots : /\ ~(buf_ready'[s] /\ InDecode(s)')
                           /\ ~(Held(s)' /\ Full(s)')
                           /\ buf_free'[s] <=> ~Held(s)' /\ ~Full(s)'
        BY <1>1, <1>2, <2>1, <2>2 DEF SlotsInv
    <2>4. capture'.slot = c /\ decode'.slot = d
        BY <1>1
    <2>5. /\ c # d => Full(d)' /\ ~Full(c)'
          /\ c = d => (Full(0)' <=> Full(1)')
        BY <1>2, <2>2 DEF SlotsInv, Slots
    <2>6. /\ c # d => Full(decode.slot)' /\ ~Full(capture.slot)'
        BY <2>4, <2>5
    <2>. QED  BY <2>3, <2>4, <2>5, <2>6 DEF SlotsInv
<1>10. FramesInv'
    <2>1. decode'.inside /\ decode'.slot = d
        BY <1>1
    <2>2. ~buf_ready'[d]
        BY <1>1 DEF PingInv
    <2>3. buf_ready'[1 - d] => slots[1 - d] \in Arrivals(arrived' + Waiting(d)', Len(slots[1 - d]))
        <3>1. ASSUME buf_ready'[1 - d] PROVE buf_ready[1 - d]
            BY <1>0, <1>1, <3>1 DEF PingInv
        <3>2. arrived' + Waiting(d)' = arrived + Waiting(d)
            <4>1. Waiting(d)' = 0
                BY <1>1, <1>3
            <4>. QED  BY <1>0, <1>1, <1>4, <4>1
        <3>. QED  BY <1>2, <3>1, <3>2 DEF FramesInv
    <2>4. Waiting(decode.slot)' = Waiting(d)'
        BY <2>1
    <2>. QED  BY <1>1, <1>2, <1>4, <2>1, <2>2, <2>3, <2>4 DEF FramesInv
<1>11. buf_ready' \in [Slots -> BOOLEAN] /\ decode' \in [inside : BOOLEAN, slot : Slots]
    BY <1>1 DEF PingInv
<1>. QED  BY <1>0, <1>1, <1>2, <1>7, <1>8, <1>9, <1>10, <1>11 DEF PingInv

LEMMA EndsBuffer ==
    ASSUME LoopInv, PingInv, EndBuffer
    PROVE  PingInv'
<1>. PICK c \in Slots, d \in Slots : c = capture.slot /\ d = decode.slot
    BY DEF PingInv
<1>0. /\ 1 - d \in Slots /\ d # 1 - d /\ 1 - (1 - d) = d /\ \A r \in Slots : r = d \/ r = 1 - d
      /\ decode.inside /\ queue = << >> /\ ~stopped /\ arrived \in Nat
    BY OneToThree, OtherSlot DEF PingInv, EndBuffer, LoopInv, Slots
<1>1. /\ buf_free' = [buf_free EXCEPT ![d] = TRUE]
      /\ decode' = [inside |-> FALSE, slot |-> 1 - d]
      /\ UNCHANGED <<loopVars, slots, buf_ready, capture, stopped, captured>>
    BY DEF EndBuffer
<1>2. SlotsInv /\ FramesInv /\ capture.at # "exited"
    BY <1>0 DEF PingInv
<1>3. \A s \in Slots : /\ buf_free'[s] <=> buf_free[s] \/ s = d
                       /\ InDecode(s) <=> s = d
                       /\ ~InDecode(s)'
                       /\ Held(s)' <=> Held(s)
    BY <1>0, <1>1 DEF PingInv, InDecode, Held
<1>4. \A s \in Slots : Full(s)' <=> Full(s) /\ s # d
    BY <1>1, <1>2, <1>3 DEF Full, SlotsInv
<1>5. Full(d) /\ ~Held(d) /\ ~buf_ready[d]
    BY <1>2, <1>3 DEF Full, SlotsInv
<1>6. IF c = d THEN Full(1 - d) ELSE ~Full(1 - d) /\ c = 1 - d
    BY <1>0, <1>2, <1>5 DEF SlotsInv, Slots
<1>7. SlotsInv'
    <2>1. \A s \in Slots : /\ ~(buf_ready'[s] /\ InDecode(s)')
                           /\ ~(Held(s)' /\ Full(s)')
                           /\ buf_free'[s] <=> ~Held(s)' /\ ~Full(s)'
        BY <1>2, <1>3, <1>4, <1>5 DEF SlotsInv
    <2>2. capture'.slot = c /\ decode'.slot = 1 - d
        BY <1>1
    <2>3. CASE c = d
        <3>1. Full(1 - d)' /\ ~Full(d)'
            BY <1>0, <1>4, <1>6, <2>3
        <3>2. Full(decode.slot)' /\ ~Full(capture.slot)' /\ c # 1 - d
            BY <1>0, <2>2, <2>3, <3>1
        <3>. QED  BY <2>1, <2>2, <3>2 DEF SlotsInv
    <2>4. CASE c # d
        <3>1. \A s \in Slots : ~Full(s)'
            BY <1>0, <1>4, <1>6, <2>4
        <3>2. ~Full(0)' /\ ~Full(1)' /\ c = 1 - d
            BY <1>6, <2>4, <3>1 DEF Slots
        <3>. QED  BY <2>1, <2>2, <3>2 DEF SlotsInv
    <2>. QED  BY <2>3, <2>4
<1>8. FramesInv'
    <2>1. \A s \in Slots : Waiting(s)' = Waiting(s)
        BY <1>1 DEF Waiting
    <2>2. Waiting(0)' = Waiting(0) /\ Waiting(1)' = Waiting(1) /\ Waiting(d) = 0
        BY <1>5, <2>1 DEF Waiting, Slots
    <2>3. buf_ready[1 - d] => slots[1 - d] \in Arrivals(arrived, Len(slots[1 - d]))
        BY <1>0, <1>2, <2>2 DEF FramesInv
    <2>4. decode'.slot = 1 - d /\ 1 - decode'.slot = d
        BY <1>0, <1>1
    <2>. QED  BY <1>0, <1>1, <1>2, <1>5, <2>2, <2>3, <2>4 DEF FramesInv, loopVars
<1>9. buf_free' \in [Slots -> BOOLEAN] /\ decode' \in [inside : BOOLEAN, slot : Slots]
    BY <1>0, <1>1 DEF PingInv
<1>. QED  BY <1>0, <1>1, <1>2, <1>7, <1>8, <1>9 DEF PingInv

\* A frame of the buffer is decoded, in order.
LEMMA Decodes ==
    ASSUME LoopInv, PingInv, DecodeFrame
    PROVE  LoopInv' /\ PingInv' /\ LoopNext
<1>1. ReceiveIq /\ decode.inside /\ UNCHANGED pingVars
    BY DEF DecodeFrame
<1>2. LoopInv'
    <2>1. queue' \in Seq(Frame) /\ Len(queue') <= MaxFrames
        BY <1>1, OneToThree DEF ReceiveIq, LoopInv
    <2>. QED  BY <1>1, <2>1 DEF ReceiveIq, LoopInv
<1>3. SlotsInv => SlotsInv'
    BY <1>1 DEF pingVars, SlotsInv, Full, InDecode, Held
<1>4. FramesInv => FramesInv'
    BY <1>1 DEF pingVars, FramesInv, Waiting, ReceiveIq
<1>. QED  BY <1>1, <1>2, <1>3, <1>4 DEF PingInv, pingVars, LoopNext

\* Every step of the two slots is one of the plain loop, or none.
LEMMA PingPongStep ==
    ASSUME LoopInv, PingInv, PingPong
    PROVE  LoopInv' /\ PingInv' /\ (LoopNext \/ UNCHANGED loopVars)
<1>1. ASSUME UNCHANGED loopVars PROVE LoopInv'
    BY <1>1 DEF LoopInv, loopVars
<1>2. CASE Capture
    <2>1. UNCHANGED loopVars  BY <1>2 DEF Capture
    <2>. QED  BY <1>1, <1>2, <2>1, Captures
<1>3. CASE Store \/ CopyIn
    BY <1>1, <1>3, Stores
<1>4. CASE Announce
    <2>1. UNCHANGED loopVars  BY <1>4 DEF Announce
    <2>. QED  BY <1>1, <1>4, <2>1, Announces
<1>5. CASE BeginBuffer
    BY <1>5, BeginsBuffer
<1>6. CASE DecodeFrame
    BY <1>6, Decodes
<1>7. CASE EndBuffer
    <2>1. UNCHANGED loopVars  BY <1>7 DEF EndBuffer
    <2>. QED  BY <1>1, <1>7, <2>1, EndsBuffer
<1>8. CASE Stop
    <2>1. UNCHANGED loopVars  BY <1>8 DEF Stop
    <2>2. PingInv'  BY <1>8 DEF Stop, PingInv
    <2>. QED  BY <1>1, <2>1, <2>2
<1>9. CASE Stopped
    <2>1. UNCHANGED loopVars  BY <1>9 DEF Stopped
    <2>2. PingInv'  BY <1>9 DEF Stopped, PingInv, pingVars
    <2>. QED  BY <1>1, <2>1, <2>2
<1>. QED  BY <1>2, <1>3, <1>4, <1>5, <1>6, <1>7, <1>8, <1>9 DEF PingPong

-----------------------------------------------------------------------------
(* The result.                                                             *)

\* Like calling receive_iq once per frame, in the same order: neither the pool
\* of receive_iq_batch nor the two slots of a receiver that captures while it
\* decodes skips a frame, takes one twice or out of turn, or changes what is
\* made of it, so long as the replicas decode what the Mac's own Ofdm does.
THEOREM ReceivesLikeLoop ==
    ASSUME SchemesAlike
    PROVE  ReceiversSpec => LikeLoop
<1>1. ReceiversInit => LoopInit /\ IInv
    <2>. SUFFICES ASSUME ReceiversInit PROVE LoopInit /\ IInv
        OBVIOUS
    <2>1. LoopInit /\ LoopInv
        BY OneToThree DEF ReceiversInit, Init, LoopInit, LoopInv
    <2>2. BatchInv
        BY DEF ReceiversInit, Init, BatchInv, Pool
    <2>3. PingInv
        <3>1. /\ capture = [at |-> "waiting", slot |-> 0, raw |-> << >>]
              /\ decode = [inside |-> FALSE, slot |-> 0]
              /\ slots = [s \in Slots |-> << >>]
              /\ buf_ready = [s \in Slots |-> FALSE] /\ buf_free = [s \in Slots |-> TRUE]
              /\ captured = 0 /\ arrived = 0 /\ queue = << >> /\ ~stopped /\ stopped \in BOOLEAN
            BY <2>1 DEF ReceiversInit, PingPongInit, LoopInit
        <3>2. SlotsInv
            BY <3>1 DEF SlotsInv, Held, Full, InDecode, Slots
        <3>3. << >> \in Arrivals(0 - 0, 0)
            BY NoArrivals
        <3>4. FramesInv
            BY <3>1, <3>3 DEF FramesInv, Waiting, Slots
        <3>. QED  BY <3>1, <3>2, <3>4, OneToThree DEF PingInv, Slots
    <2>. QED  BY <2>1, <2>2, <2>3 DEF IInv
<1>2. IInv /\ [ByBatch \/ ByPingPong]_<<vars, pingVars, way>> => IInv' /\ [LoopNext]_loopVars
    <2>. SUFFICES ASSUME IInv, [ByBatch \/ ByPingPong]_<<vars, pingVars, way>>
                  PROVE  IInv' /\ [LoopNext]_loopVars
        OBVIOUS
    <2>1. CASE ByBatch
        <3>1. LoopInv' /\ BatchInv' /\ (LoopNext \/ UNCHANGED loopVars) /\ way' = "batch"
            BY <2>1, BatchStep DEF ByBatch, IInv
        <3>. QED  BY <3>1 DEF IInv
    <2>2. CASE ByPingPong
        <3>1. LoopInv' /\ PingInv' /\ (LoopNext \/ UNCHANGED loopVars) /\ way' = "ping-pong"
            BY <2>2, PingPongStep DEF ByPingPong, IInv
        <3>. QED  BY <3>1 DEF IInv
    <2>3. CASE UNCHANGED <<vars, pingVars, way>>
        <3>1. UNCHANGED <<loopVars, batchVars, pingVars, way>>
            BY <2>3 DEF vars
        <3>2. LoopInv'
            BY <3>1 DEF IInv, LoopInv, loopVars
        <3>3. BatchInv => BatchInv'
            BY <3>1 DEF BatchInv, DecodingInv, DeliveringInv, Dealt, OfdmOf, batchVars, loopVars
        <3>4. PingInv => PingInv'
            <4>1. SlotsInv => SlotsInv'
                BY <3>1 DEF pingVars, SlotsInv, Full, InDecode, Held
            <4>2. FramesInv => FramesInv'
                BY <3>1 DEF pingVars, loopVars, FramesInv, Waiting
            <4>. QED  BY <3>1, <4>1, <4>2 DEF PingInv, pingVars
        <3>. QED  BY <3>1, <3>2, <3>3, <3>4 DEF IInv
    <2>. QED  BY <2>1, <2>2, <2>3
<1>. QED  BY <1>1, <1>2, PTL DEF ReceiversSpec, LikeLoop, LoopSpec
-----------------------------------------------------------------------------
(* The streaming receiver: frames come out in the order of the air, and    *)
(* its buffer is bounded.                                                  *)

Item == [kind : Kinds, symbols : PayloadSymbols, start : Nat]

\* Items do not overlap.
AirInv ==
    /\ air \in Seq(Item)
    /\ \A i, j \in Items : i < j => EndOf(air[i]) <= air[j].start

\* A start that is not searched yet, where the synchroniser sees an item.
Located(found, lo) ==
    /\ found \in Int \X Items
    /\ lo <= found[1]
    /\ air[found[2]].start - HalfLen < found[1]
    /\ found[1] < air[found[2]].start + HalfLen

\* What was in the buffer when the start was found.
Near(found, lo) == \E c \in Chunks : found[1] - lo <= Searched(c)

\* The frames in rs came in order, and no start is theirs from lo on.
Behind(rs, lo) ==
    /\ rs \in Seq(Items)
    /\ \A k \in 1 .. Len(rs) : air[rs[k]].start + HalfLen <= lo
    /\ \A k, l \in 1 .. Len(rs) : k < l => rs[k] < rs[l]

SeekingInv ==
    \/ fed - bufStart <= Searched(chunk)
    \/ fed - bufStart < HeaderSpan + chunk

WaitingInv ==
    /\ Located(frameStart, bufStart)
    /\ Near(frameStart, bufStart)
    /\ \/ streamState = "WAITING_HEADER" /\ fed < frameStart[1] + HeaderSpan
       \/ /\ streamState = "WAITING_PAYLOAD" /\ streamHeader \in 0 .. MaxPayloadSymbols
          /\ fed < frameStart[1] + FrameSpan(streamHeader)

StreamInv ==
    /\ AirInv
    /\ fed \in Nat /\ chunk \in Nat /\ bufStart \in Int
    /\ Behind(returned, bufStart)
    /\ IF streamState = "SEEKING" THEN SeekingInv ELSE WaitingInv

-----------------------------------------------------------------------------
(* Lengths.                                                                *)

LEMMA StreamLengths ==
    /\ HalfLen \in Nat /\ FftSize \in Nat /\ HalfLen > 0 /\ FftSize = 2 * HalfLen
    /\ SlotLen \in Nat /\ HeaderSpan \in Nat /\ HeaderSpan >= FftSize
<1> DEFINE window == StreamSearchWindowSymbols * FftSize
           header == (TrainingSymbols + HeaderSymbols) * SlotLen
<1>1. FftSize \in Nat /\ FftSize % 2 = 0 /\ FftSize > 0
  BY RxStreamAssumption
<1>2. HalfLen \in Nat /\ HalfLen > 0 /\ FftSize = 2 * HalfLen
  BY <1>1 DEF HalfLen
<1>3. CpLen \in Nat /\ TrainingSymbols \in Nat /\ HeaderSymbols \in Nat
  BY RxStreamAssumption
<1>4. SlotLen \in Nat
  BY <1>1, <1>3 DEF SlotLen
<1>5. TrainingSymbols + HeaderSymbols \in Nat
  BY <1>3
<1>6. header \in Nat
  BY <1>4, <1>5
<1>7. HeaderSpan = FftSize + header
  BY DEF HeaderSpan
<1> HIDE DEF header
<1> QED
  BY <1>1, <1>2, <1>4, <1>6, <1>7

LEMMA FrameLength ==
    ASSUME NEW n \in Nat
    PROVE  FrameSpan(n) \in Nat /\ FrameSpan(n) >= HeaderSpan
<1> DEFINE payload == n * SlotLen
<1>1. payload \in Nat
  BY StreamLengths
<1>2. FrameSpan(n) = HeaderSpan + payload
  BY DEF FrameSpan
<1> HIDE DEF payload
<1> QED
  BY <1>1, <1>2, StreamLengths

LEMMA FramesInLength ==
    ASSUME NEW n \in 0 .. MaxPayloadSymbols
    PROVE  n \in Nat /\ FrameSpan(n) <= FrameSpan(MaxPayloadSymbols)
<1>1. MaxPayloadSymbols \in Nat
  BY RxStreamAssumption
<1>2. n \in Nat
  BY <1>1
<1>3. PICK more \in Nat : MaxPayloadSymbols = n + more
  <2>1. MaxPayloadSymbols - n \in Nat /\ MaxPayloadSymbols = n + (MaxPayloadSymbols - n)
    BY <1>1, <1>2
  <2> QED
    BY <2>1
<1>4. PICK slot \in Nat : slot = SlotLen
  BY StreamLengths
<1>5. (n + more) * slot = n * slot + more * slot
  BY <1>2, <1>3, <1>4
<1>6. n * slot \in Nat /\ more * slot \in Nat
  BY <1>2, <1>3, <1>4
<1>7. FrameSpan(n) = HeaderSpan + n * slot
      /\ FrameSpan(MaxPayloadSymbols) = HeaderSpan + (n + more) * slot
  BY <1>3, <1>4 DEF FrameSpan
<1> QED
  BY <1>2, <1>5, <1>6, <1>7, StreamLengths

LEMMA SearchedLength ==
    ASSUME NEW c \in Nat
    PROVE  Searched(c) \in Nat /\ Searched(c) >= c
<1> DEFINE window == StreamSearchWindowSymbols * FftSize
<1>1. window \in Nat
  BY RxStreamAssumption
<1>2. Searched(c) = window + c
  BY DEF Searched
<1> HIDE DEF window
<1> QED
  BY <1>1, <1>2

LEMMA SymbolsLength ==
    ASSUME NEW n \in PayloadSymbols
    PROVE  n \in Nat /\ n >= 1
<1>1. n \in 1 .. MaxPayloadSymbols /\ MaxPayloadSymbols \in Nat
  BY RxStreamAssumption
<1> QED
  BY <1>1

LEMMA ItemLength ==
    ASSUME NEW item \in Item
    PROVE  /\ item.start \in Nat /\ item.symbols \in Nat
           /\ EndOf(item) \in Nat /\ EndOf(item) > item.start
<1>1. item.start \in Nat /\ item.symbols \in Nat
  BY SymbolsLength DEF Item
<1>2. FrameSpan(item.symbols) \in Nat /\ FrameSpan(item.symbols) >= HeaderSpan
  BY <1>1, FrameLength
<1>3. Span(item) \in Nat /\ Span(item) > 0
  BY <1>2, StreamLengths DEF Span
<1> QED
  BY <1>1, <1>3 DEF EndOf

-----------------------------------------------------------------------------
(* The stages.                                                             *)

\* Nothing returned comes from beyond what has been cut off.
LEMMA BehindFurther ==
    ASSUME AirInv, NEW rs, NEW lo \in Int, NEW further \in Int,
           Behind(rs, lo), lo <= further
    PROVE  Behind(rs, further)
<1>1. rs \in Seq(Items)
  BY DEF Behind
<1> SUFFICES ASSUME NEW k \in 1 .. Len(rs)
             PROVE  air[rs[k]].start + HalfLen <= further
  BY <1>1 DEF Behind
<1>2. rs[k] \in Items
  BY <1>1
<1>3. air[rs[k]] \in Item
  BY <1>2 DEF AirInv, Items
<1>4. air[rs[k]].start \in Nat
  BY <1>3, ItemLength
<1>5. air[rs[k]].start + HalfLen <= lo
  BY DEF Behind
<1> QED
  BY <1>4, <1>5, StreamLengths

\* The frame that is returned next is one behind all that were.
LEMMA ReturnedInOrder ==
    ASSUME AirInv, NEW rs, NEW lo \in Int, NEW found, NEW end \in Int,
           Behind(rs, lo), Located(found, lo), end >= found[1] + FftSize
    PROVE  Behind(Append(rs, found[2]), end)
<1> DEFINE j == found[2]
           more == Append(rs, j)
<1>1. rs \in Seq(Items) /\ j \in Items /\ found[1] \in Int /\ lo <= found[1]
  BY DEF Behind, Located
<1>2. air[j] \in Item
  BY <1>1 DEF AirInv, Items
<1>3. air[j].start \in Nat /\ EndOf(air[j]) \in Nat /\ EndOf(air[j]) > air[j].start
  BY <1>2, ItemLength
<1>0. /\ HalfLen \in Nat /\ FftSize = 2 * HalfLen
      /\ found[1] \in Int /\ lo \in Int /\ lo <= found[1]
  BY <1>1, StreamLengths
<1>4. found[1] < air[j].start + HalfLen /\ air[j].start - HalfLen < found[1]
  BY DEF Located
<1>5. ASSUME NEW k \in 1 .. Len(rs)
      PROVE  rs[k] < j /\ air[rs[k]].start + HalfLen <= end
  <2> DEFINE i == rs[k]
  <2>1. i \in Items
    BY <1>1
  <2>2. air[i] \in Item
    BY <2>1 DEF AirInv, Items
  <2>3. air[i].start \in Nat /\ EndOf(air[i]) \in Nat /\ EndOf(air[i]) > air[i].start
    BY <2>2, ItemLength
  <2>4. air[i].start + HalfLen <= lo
    BY DEF Behind
  <2>5. air[i].start < air[j].start
    <3> HIDE DEF i, j
    <3>1. air[i].start + HalfLen <= found[1]
      BY ONLY <1>0, <2>3, <2>4
    <3> QED
      BY ONLY <1>0, <1>3, <1>4, <2>3, <3>1
  <2>6. i # j
    BY <1>3, <2>5
  <2>7. j < i => EndOf(air[j]) <= air[i].start
    BY <1>1, <2>1 DEF AirInv
  <2>8. ~ j < i
    BY <1>3, <2>3, <2>5, <2>7
  <2>9. i \in Int /\ j \in Int
    BY <1>1, <2>1 DEF Items
  <2>10. air[i].start + HalfLen <= end
    <3>1. lo <= end
      BY ONLY <1>0, <1>4, end \in Int, end >= found[1] + FftSize
    <3> HIDE DEF i, j
    <3> QED
      BY ONLY <1>0, <2>3, <2>4, <3>1, end \in Int
  <2> QED
    BY <2>6, <2>8, <2>9, <2>10
<1>6. more \in Seq(Items) /\ Len(more) = Len(rs) + 1 /\ Len(rs) \in Nat
      /\ more[Len(rs) + 1] = j /\ \A k \in 1 .. Len(rs) : more[k] = rs[k]
  BY <1>1
<1>7. air[j].start + HalfLen <= end
  <2> HIDE DEF j
  <2> QED
    BY ONLY <1>0, <1>3, <1>4, end \in Int, end >= found[1] + FftSize
<1>8. \A k \in 1 .. Len(more) : air[more[k]].start + HalfLen <= end
  BY <1>5, <1>6, <1>7
<1>9. \A k, l \in 1 .. Len(rs) : k < l => rs[k] < rs[l]
  BY DEF Behind
<1>10. \A k, l \in 1 .. Len(more) : k < l => more[k] < more[l]
  BY <1>5, <1>6, <1>9
<1> QED
  BY <1>6, <1>8, <1>10 DEF Behind

\* Everything a stage is given.
StageOf(lo, found, hi, c) ==
    /\ AirInv
    /\ lo \in Int /\ hi \in Nat /\ c \in Chunks
    /\ fed' = hi /\ chunk' = c /\ air' = air
    /\ Behind(returned, lo)
    /\ Located(found, lo)
    /\ Near(found, lo)

LEMMA PayloadStageKeepsStream ==
    ASSUME NEW lo, NEW found, NEW hi, NEW c, StageOf(lo, found, hi, c),
           NEW n \in 0 .. MaxPayloadSymbols,
           \/ hi - c < found[1] + FrameSpan(n)
           \/ hi - lo <= Searched(c),
           PayloadStage(lo, found, n, hi)
    PROVE  StreamInv'
<1> DEFINE end == found[1] + FrameSpan(n)
<1>1. /\ AirInv /\ lo \in Int /\ hi \in Nat /\ c \in Chunks
      /\ fed' = hi /\ chunk' = c /\ air' = air
      /\ Behind(returned, lo) /\ Located(found, lo) /\ Near(found, lo)
  BY DEF StageOf
<1>2. c \in Nat /\ Searched(c) \in Nat /\ Searched(c) >= c
  BY <1>1, SearchedLength, RxStreamAssumption
<1>3. found[1] \in Int /\ found[2] \in Items /\ lo <= found[1]
  BY <1>1 DEF Located
<1>5. n \in Nat
  BY FramesInLength
<1>6. end \in Int /\ end >= found[1] + FftSize
  BY <1>3, <1>5, FrameLength, StreamLengths
<1>7. AirInv' /\ fed' \in Nat /\ chunk' \in Nat
  BY <1>1, <1>2 DEF AirInv, Items
<1>8. CASE hi < end
  <2>1. WaitFor("WAITING_PAYLOAD", lo, found, n) /\ returned' = returned
    BY <1>8 DEF PayloadStage
  <2>2. streamState' = "WAITING_PAYLOAD" /\ bufStart' = lo /\ frameStart' = found
        /\ streamHeader' = n
    BY <2>1 DEF WaitFor
  <2>3. Behind(returned, bufStart)'
    BY <1>1, <2>1, <2>2 DEF Behind, Items
  <2>4. Located(frameStart, bufStart)'
    BY <1>1, <2>2 DEF Located, Items
  <2>5. Near(frameStart, bufStart)'
    BY <1>1, <2>2 DEF Near
  <2>6. (fed < frameStart[1] + FrameSpan(streamHeader))'
    <3>1. fed' < found[1] + FrameSpan(n)
      BY <1>1, <1>8
    <3> QED
      BY <2>2, <3>1 DEF FrameSpan
  <2>7. WaitingInv'
    BY <2>2, <2>4, <2>5, <2>6 DEF WaitingInv
  <2> QED
    BY <1>1, <1>7, <2>2, <2>3, <2>7 DEF StreamInv
<1>9. CASE ~ hi < end
  <2>1. KeepSeeking(end) /\ (returned' = Append(returned, found[2]) \/ returned' = returned)
    BY <1>9 DEF PayloadStage
  <2>2. streamState' = "SEEKING" /\ bufStart' = end
    BY <2>1 DEF KeepSeeking
  <2> HIDE DEF end
  <2>3. Behind(returned, end)
    BY <1>1, <1>3, <1>6, BehindFurther, StreamLengths
  <2>4. Behind(Append(returned, found[2]), end)
    BY <1>1, <1>6, ReturnedInOrder
  <2>5. Behind(returned, bufStart)'
    BY <1>1, <2>1, <2>2, <2>3, <2>4 DEF Behind, Items
  <2>6. hi - end <= Searched(c)
    <3>1. hi - c < end \/ hi - lo <= Searched(c)
      BY DEF end
    <3> QED
      BY <1>1, <1>2, <1>3, <1>6, <3>1, StreamLengths
  <2>7. SeekingInv'
    BY <1>1, <2>2, <2>6 DEF SeekingInv
  <2> QED
    BY <1>6, <1>7, <2>2, <2>5, <2>7 DEF StreamInv
<1> QED
  BY <1>8, <1>9

\* A header, right or wrong, announces no more than MAX_PAYLOAD_SYMBOLS.
LEMMA HeaderInLength ==
    ASSUME AirInv, NEW i \in Items, NEW d,
           NEW n \in HeaderDecodes(d, i), n # NOTHING
    PROVE  n \in 0 .. MaxPayloadSymbols
<1>1. air[i] \in Item
  BY DEF AirInv, Items
<1>2. air[i].symbols \in 1 .. MaxPayloadSymbols
  BY <1>1, RxStreamAssumption DEF Item
<1>3. air[i].symbols \in 0 .. MaxPayloadSymbols
  BY <1>2, RxStreamAssumption
<1> QED
  BY <1>3 DEF HeaderDecodes

LEMMA HeaderStageKeepsStream ==
    ASSUME NEW lo, NEW found, NEW hi, NEW c, StageOf(lo, found, hi, c),
           \/ hi - c < found[1] + HeaderSpan
           \/ hi - lo <= Searched(c),
           HeaderStage(lo, found, hi)
    PROVE  StreamInv'
<1>1. /\ AirInv /\ lo \in Int /\ hi \in Nat /\ c \in Chunks
      /\ fed' = hi /\ chunk' = c /\ air' = air
      /\ Behind(returned, lo) /\ Located(found, lo) /\ Near(found, lo)
  BY DEF StageOf
<1>2. c \in Nat /\ Searched(c) \in Nat /\ Searched(c) >= c
  BY <1>1, SearchedLength, RxStreamAssumption
<1>3. found[1] \in Int /\ found[2] \in Items /\ lo <= found[1]
  BY <1>1 DEF Located
<1>7. AirInv' /\ fed' \in Nat /\ chunk' \in Nat
  BY <1>1, <1>2 DEF AirInv, Items
<1>8. CASE WaitFor("WAITING_HEADER", lo, found, NOTHING) /\ returned' = returned
           /\ hi < found[1] + HeaderSpan
  <2>2. streamState' = "WAITING_HEADER" /\ bufStart' = lo /\ frameStart' = found
    BY <1>8 DEF WaitFor
  <2>3. Behind(returned, bufStart)'
    BY <1>1, <1>8, <2>2 DEF Behind, Items
  <2>4. Located(frameStart, bufStart)'
    BY <1>1, <2>2 DEF Located, Items
  <2>5. Near(frameStart, bufStart)'
    BY <1>1, <2>2 DEF Near
  <2>6. (fed < frameStart[1] + HeaderSpan)'
    BY <1>1, <1>8, <2>2
  <2>7. WaitingInv'
    BY <2>2, <2>4, <2>5, <2>6 DEF WaitingInv
  <2> QED
    BY <1>1, <1>7, <2>2, <2>3, <2>7 DEF StreamInv
<1>9. ASSUME NEW n \in 0 .. MaxPayloadSymbols, PayloadStage(lo, found, n, hi)
      PROVE  StreamInv'
  <2>1. \/ hi - c < found[1] + FrameSpan(n)
        \/ hi - lo <= Searched(c)
    BY <1>1, <1>2, <1>3, FramesInLength, FrameLength, StreamLengths
  <2> QED
    BY <1>9, <2>1, PayloadStageKeepsStream
<1>10. CASE KeepSeeking(found[1] + 1) /\ returned' = returned
  <2>1. streamState' = "SEEKING" /\ bufStart' = found[1] + 1
    BY <1>10 DEF KeepSeeking
  <2>2. PICK further \in Int : further = found[1] + 1
    BY <1>3
  <2>3. Behind(returned, further)
    BY <1>1, <1>3, <2>2, BehindFurther
  <2>4. Behind(returned, bufStart)'
    BY <1>1, <1>10, <2>1, <2>2, <2>3 DEF Behind, Items
  <2>5. hi - further <= Searched(c) \/ hi - further < HeaderSpan + c
    BY <1>1, <1>2, <1>3, <2>2, StreamLengths
  <2>6. SeekingInv'
    BY <1>1, <2>1, <2>2, <2>5 DEF SeekingInv
  <2> QED
    BY <1>7, <2>1, <2>2, <2>4, <2>6 DEF StreamInv
<1>11. ASSUME NEW n \in HeaderDecodes(found[1], found[2]), n # NOTHING
       PROVE  n \in 0 .. MaxPayloadSymbols
  BY <1>1, <1>3, <1>11, HeaderInLength
<1> QED
  BY <1>8, <1>9, <1>10, <1>11 DEF HeaderStage

\* A candidate of the synchroniser is near an item, within the buffer.
LEMMA PeaksLocated ==
    ASSUME AirInv, NEW lo \in Int, NEW hi \in Int, NEW found \in Peaks(lo, hi)
    PROVE  Located(found, lo) /\ found[1] + FftSize <= hi
<1>1. found \in Candidates(lo, hi)
  BY DEF Peaks
<1>2. PICK i \in Items :
        found \in {<<d, i>> : d \in air[i].start - HalfLen + 1
                                    .. air[i].start + HalfLen - 1}
  BY <1>1 DEF Candidates
<1>3. lo <= found[1] /\ found[1] + FftSize <= hi
  BY <1>1 DEF Candidates
<1>4. air[i] \in Item
  BY DEF AirInv, Items
<1>5. air[i].start \in Nat
  BY <1>4, ItemLength
<1>6. PICK d \in air[i].start - HalfLen + 1 .. air[i].start + HalfLen - 1 :
        found = <<d, i>>
  BY <1>2
<1>7. d \in Int /\ air[i].start - HalfLen < d /\ d < air[i].start + HalfLen
  BY <1>5, StreamLengths
<1> QED
  BY <1>3, <1>6, <1>7 DEF Located

LEMMA SeekingStageKeepsStream ==
    ASSUME StreamInv, NEW c \in Chunks, NEW hi \in Nat, NEW lo,
           lo = Trimmed(bufStart, hi, c),
           fed' = hi, chunk' = c, air' = air,
           SeekingStage(lo, hi)
    PROVE  StreamInv'
<1>1. AirInv /\ bufStart \in Int /\ Behind(returned, bufStart)
  BY DEF StreamInv
<1>2. c \in Nat /\ Searched(c) \in Nat
  BY SearchedLength, RxStreamAssumption
<1>3. lo \in Int /\ bufStart <= lo /\ hi - lo <= Searched(c)
  BY <1>1, <1>2 DEF Trimmed
<1>4. Behind(returned, lo)
  BY <1>1, <1>3, BehindFurther
<1>5. CASE KeepSeeking(lo) /\ returned' = returned
  <2>1. streamState' = "SEEKING" /\ bufStart' = lo
    BY <1>5 DEF KeepSeeking
  <2>2. Behind(returned, bufStart)'
    BY <1>4, <1>5, <2>1 DEF Behind, Items
  <2>3. SeekingInv'
    BY <1>3, <2>1 DEF SeekingInv
  <2>4. AirInv'
    BY <1>1 DEF AirInv, Items
  <2> QED
    BY <1>2, <1>3, <2>1, <2>2, <2>3, <2>4 DEF StreamInv
<1>6. ASSUME NEW found \in Peaks(lo, hi), HeaderStage(lo, found, hi)
      PROVE  StreamInv'
  <2>1. Located(found, lo) /\ found[1] + FftSize <= hi
    BY <1>1, <1>3, PeaksLocated
  <2>2. found[1] \in Int
    BY <2>1 DEF Located
  <2>3. found[1] - lo <= Searched(c)
    BY <1>2, <1>3, <2>1, <2>2, StreamLengths
  <2>4. StageOf(lo, found, hi, c)
    BY <1>1, <1>3, <1>4, <2>1, <2>3 DEF StageOf, Near
  <2> QED
    BY <1>3, <1>6, <2>4, HeaderStageKeepsStream
<1> QED
  BY <1>5, <1>6 DEF SeekingStage

-----------------------------------------------------------------------------
LEMMA PutOnAirKeepsStream ==
    ASSUME StreamInv, NEW kind \in Kinds, NEW symbols \in PayloadSymbols,
           NEW gap \in Gaps, PutOnAir(kind, symbols, gap)
    PROVE  StreamInv'
<1> DEFINE n == Len(air)
<1>1. air \in Seq(Item) /\ n \in Nat
      /\ \A i, j \in 1 .. n : i < j => EndOf(air[i]) <= air[j].start
  BY DEF StreamInv, AirInv, Items
<1>2. UNCHANGED <<fed, chunk, streamState, bufStart, frameStart, streamHeader, returned>>
  BY DEF PutOnAir
<1>3. \A i \in 1 .. n : /\ air[i].start \in Nat /\ EndOf(air[i]) \in Nat
                        /\ EndOf(air[i]) > air[i].start
  BY <1>1, ItemLength
<1>4. AirEnd \in Nat /\ \A i \in 1 .. n : EndOf(air[i]) <= AirEnd
  <2>1. CASE n = 0
    BY <1>1, <2>1 DEF AirEnd
  <2>2. CASE n > 0
    <3>1. AirEnd = EndOf(air[n])
      BY <1>1, <2>2 DEF AirEnd
    <3>2. ASSUME NEW i \in 1 .. n PROVE EndOf(air[i]) <= AirEnd
      <4>1. n \in 1 .. n /\ i \in Nat /\ (i < n \/ i = n)
        BY <1>1, <2>2
      <4>2. i < n => EndOf(air[i]) <= air[n].start
        BY <1>1, <4>1
      <4> QED
        BY <1>3, <3>1, <4>1, <4>2
    <3> QED
      BY <1>1, <1>3, <2>2, <3>1, <3>2
  <2> QED
    BY <1>1, <2>1, <2>2
<1>5. PICK item \in Item : item.start = AirEnd + gap /\ air' = Append(air, item)
  <2>1. gap \in Nat /\ AirEnd + gap \in Nat
    BY <1>4, RxStreamAssumption
  <2> DEFINE item == [kind |-> kind, symbols |-> symbols, start |-> AirEnd + gap]
  <2>2. item \in Item /\ item.start = AirEnd + gap
    BY <2>1 DEF Item
  <2> QED
    BY <2>2 DEF PutOnAir
<1>6. gap \in Nat
  BY RxStreamAssumption
<1>7. air' \in Seq(Item) /\ Len(air') = n + 1 /\ air'[n + 1] = item
      /\ \A i \in 1 .. n : air'[i] = air[i]
  BY <1>1, <1>5
<1>8. ASSUME NEW i \in 1 .. n + 1, NEW j \in 1 .. n + 1, i < j
      PROVE  EndOf(air'[i]) <= air'[j].start
  <2>1. i \in 1 .. n /\ air'[i] = air[i]
    BY <1>1, <1>7, <1>8
  <2>2. CASE j = n + 1
    BY <1>3, <1>4, <1>5, <1>6, <1>7, <2>1, <2>2
  <2>3. CASE j \in 1 .. n
    BY <1>1, <1>7, <1>8, <2>1, <2>3
  <2> QED
    BY <1>1, <2>2, <2>3
<1>9. AirInv'
  <2>1. \A i, j \in 1 .. n + 1 : i < j => EndOf(air'[i]) <= air'[j].start
    BY <1>8
  <2> QED
    BY <1>7, <2>1 DEF AirInv, Items, EndOf, Span, FrameSpan, HeaderSpan, SlotLen
<1>10. Items \subseteq Items' /\ \A i \in Items : air'[i] = air[i]
  BY <1>1, <1>7 DEF Items
<1>11. Behind(returned, bufStart)'
  BY <1>2, <1>10 DEF StreamInv, Behind
<1>12. ASSUME streamState # "SEEKING" PROVE WaitingInv'
  <2>1. WaitingInv
    BY <1>12 DEF StreamInv
  <2>2. frameStart \in Int \X Items /\ frameStart[2] \in Items
    BY <2>1 DEF WaitingInv, Located
  <2>3. air'[frameStart'[2]] = air[frameStart[2]]
    BY <1>2, <1>10, <2>2
  <2>4. Located(frameStart, bufStart)'
    BY <1>2, <1>10, <2>1, <2>2, <2>3 DEF WaitingInv, Located
  <2>5. Near(frameStart, bufStart)'
    BY <1>2, <2>1 DEF WaitingInv, Near
  <2> QED
    BY <1>2, <2>1, <2>3, <2>4, <2>5 DEF WaitingInv, FrameSpan
<1>13. ASSUME streamState = "SEEKING" PROVE SeekingInv'
  BY <1>2, <1>13 DEF StreamInv, SeekingInv
<1> QED
  BY <1>2, <1>9, <1>11, <1>12, <1>13 DEF StreamInv

LEMMA RxStreamingKeepsStream ==
    ASSUME StreamInv, NEW c \in Chunks, RxStreaming(c)
    PROVE  StreamInv'
<1>1. /\ fed \in Nat /\ bufStart \in Int /\ AirInv /\ Behind(returned, bufStart)
      /\ c \in Nat
  BY RxStreamAssumption DEF StreamInv
<1>2. fed' = fed + c /\ chunk' = c /\ air' = air
  BY DEF RxStreaming
<1>3. PICK hi \in Nat : hi = fed + c /\ fed' = hi /\ fed = hi - c
  BY <1>1, <1>2
<1>4. CASE streamState = "SEEKING"
  <2>1. SeekingStage(Trimmed(bufStart, hi, c), hi)
    BY <1>3, <1>4 DEF RxStreaming
  <2>2. PICK lo : lo = Trimmed(bufStart, hi, c)
    OBVIOUS
  <2>3. SeekingStage(lo, hi)
    BY <2>1, <2>2
  <2> QED
    BY <1>2, <1>3, <2>2, <2>3, SeekingStageKeepsStream
<1>5. ASSUME streamState # "SEEKING"
      PROVE  WaitingInv /\ StageOf(bufStart, frameStart, hi, c)
  BY <1>1, <1>2, <1>3, <1>5 DEF StreamInv, StageOf, WaitingInv
<1>6. CASE streamState = "WAITING_HEADER"
  <2>1. HeaderStage(bufStart, frameStart, hi)
    BY <1>3, <1>6 DEF RxStreaming
  <2>2. hi - c < frameStart[1] + HeaderSpan
    BY <1>3, <1>5, <1>6 DEF WaitingInv
  <2> QED
    BY <1>5, <1>6, <2>1, <2>2, HeaderStageKeepsStream
<1>7. CASE streamState = "WAITING_PAYLOAD"
  <2>1. PayloadStage(bufStart, frameStart, streamHeader, hi)
    BY <1>3, <1>7 DEF RxStreaming
  <2>2. /\ hi - c < frameStart[1] + FrameSpan(streamHeader)
        /\ streamHeader \in 0 .. MaxPayloadSymbols
    BY <1>3, <1>5, <1>7 DEF WaitingInv
  <2> QED
    BY <1>5, <1>7, <2>1, <2>2, PayloadStageKeepsStream
<1> QED
  BY <1>4, <1>5, <1>6, <1>7 DEF WaitingInv

LEMMA StreamInvHolds == StreamSpec => []StreamInv
<1>1. StreamInit => StreamInv
  <2> SUFFICES ASSUME StreamInit PROVE StreamInv
    OBVIOUS
  <2>1. AirInv
    BY DEF StreamInit, AirInv, Items
  <2>2. Behind(returned, bufStart)
    BY DEF StreamInit, Behind, Items
  <2>3. Searched(0) \in Nat
    BY SearchedLength
  <2>4. SeekingInv
    BY <2>3 DEF StreamInit, SeekingInv
  <2> QED
    BY <2>1, <2>2, <2>4 DEF StreamInit, StreamInv
<1>2. StreamInv /\ [StreamNext]_streamVars => StreamInv'
  <2> SUFFICES ASSUME StreamInv, [StreamNext]_streamVars PROVE StreamInv'
    OBVIOUS
  <2>1. CASE UNCHANGED streamVars
    BY <2>1 DEF streamVars, StreamInv, AirInv, Behind, SeekingInv, WaitingInv,
         Located, Near, Items, FrameSpan
  <2>2. ASSUME NEW kind \in Kinds, NEW symbols \in PayloadSymbols, NEW gap \in Gaps,
               PutOnAir(kind, symbols, gap)
        PROVE  StreamInv'
    BY <2>2, PutOnAirKeepsStream
  <2>3. ASSUME NEW c \in Chunks, RxStreaming(c) PROVE StreamInv'
    BY <2>3, RxStreamingKeepsStream
  <2> QED
    BY <2>1, <2>2, <2>3 DEF StreamNext
<1> QED
  BY <1>1, <1>2, PTL DEF StreamSpec

(* Whatever is on the air, damaged or false, and however the stream is cut, *)
(* rx_streaming returns frames in the order of the air and none twice.      *)
THEOREM StreamsInOrder == StreamSpec => []InOrderOnce
<1>1. StreamInv => InOrderOnce
  BY DEF StreamInv, Behind, InOrderOnce
<1> QED
  BY <1>1, StreamInvHolds, PTL

(* The buffer of a stream without end is bounded, for every size of the FFT, *)
(* the header, the frames and the chunks.                                    *)
THEOREM StreamBounded == StreamSpec => []BufferBounded
<1>1. StreamInv => BufferBounded
  <2> SUFFICES ASSUME StreamInv PROVE BufferBounded
    OBVIOUS
  <2>1. CASE streamState = "SEEKING"
    BY <2>1 DEF StreamInv, SeekingInv, BufferBounded
  <2>2. CASE streamState # "SEEKING"
    <3>1. WaitingInv /\ AirInv /\ fed \in Nat /\ bufStart \in Int
      BY <2>2 DEF StreamInv
    <3>2. PICK c \in Chunks : frameStart[1] - bufStart <= Searched(c)
      BY <3>1 DEF WaitingInv, Near
    <3>3. Searched(c) \in Nat
      BY SearchedLength, RxStreamAssumption
    <3>4. frameStart[1] \in Int
      BY <3>1 DEF WaitingInv, Located
    <3>5. /\ Awaited \in Nat /\ Awaited <= FrameSpan(MaxPayloadSymbols)
          /\ fed < frameStart[1] + Awaited
      <4>1. CASE streamState = "WAITING_HEADER"
        <5>1. Awaited = HeaderSpan
          BY <4>1 DEF Awaited
        <5>2. fed < frameStart[1] + HeaderSpan
          BY <3>1, <4>1 DEF WaitingInv
        <5>3. HeaderSpan <= FrameSpan(MaxPayloadSymbols)
          BY FrameLength, StreamLengths, RxStreamAssumption
        <5> QED
          BY <5>1, <5>2, <5>3, StreamLengths
      <4>2. CASE streamState = "WAITING_PAYLOAD"
        <5>1. Awaited = FrameSpan(streamHeader)
          BY <4>2 DEF Awaited
        <5>2. /\ fed < frameStart[1] + FrameSpan(streamHeader)
              /\ streamHeader \in 0 .. MaxPayloadSymbols
          BY <3>1, <4>2 DEF WaitingInv
        <5> QED
          BY <5>1, <5>2, FramesInLength, FrameLength
      <4> QED
        BY <3>1, <4>1, <4>2 DEF WaitingInv
    <3>6. PICK awaited \in Nat : awaited = Awaited
      BY <3>5
    <3>7. fed - bufStart <= Searched(c) + awaited
      BY <3>1, <3>2, <3>3, <3>4, <3>5, <3>6
    <3> QED
      BY <2>2, <3>5, <3>6, <3>7 DEF BufferBounded
  <2> QED
    BY <2>1, <2>2
<1> QED
  BY <1>1, StreamInvHolds, PTL
-----------------------------------------------------------------------------
(* The streaming receiver loses no frame, but for those that a wrong header *)
(* claims.  What it takes: nothing but                                      *)
(* frames, damaged or not, scores like a preamble; two chunks are no longer *)
(* than a frame and the next preamble, so that the first preamble of those  *)
(* in the buffer has been found before the second is complete; and the      *)
(* search window holds a chunk, for the buffer left behind a frame is       *)
(* searched in the next call only.                                          *)

NoLookalikes == "lookalike" \notin Kinds

ShortChunks ==
    /\ \A c, d \in Chunks, n \in PayloadSymbols : c + d <= FrameSpan(n) + FftSize
    /\ \A c \in Chunks, n \in PayloadSymbols : c + HalfLen <= FrameSpan(n)
    /\ \A c \in Chunks : c <= Searched(0)
    /\ FftSize + HalfLen <= Searched(0)

ThresholdReached == SyncPercent <= 100

KeepsUp == NoLookalikes /\ ShortChunks /\ ThresholdReached

\* Frames that nothing excuses the loss of; sw is swallowed.
Intact(i, sw) == air[i].kind = "frame" /\ i \notin sw

\* Of those, what has been cut off has been returned.
CutBehind(rs, lo, sw) ==
    \A i \in Items :
        air[i].start < lo /\ Intact(i, sw) =>
            EndOf(air[i]) <= lo /\ \E k \in 1 .. Len(rs) : rs[k] = i

\* The preamble of i arrived with the last chunk or so.
Due(i, now, c) ==
    \/ now < air[i].start + FftSize + HalfLen
    \/ now < air[i].start + c

AllDue(lo, now, c) ==
    \A i \in Items : air[i].start >= lo => Due(i, now, c)

\* The start taken is the first left, or a second look at what is not intact.
Taken(found, lo, sw) ==
    /\ \/ found[1] = air[found[2]].start
       \/ air[found[2]].start < lo /\ ~ Intact(found[2], sw)
    /\ \A i \in Items : air[i].start >= lo => i >= found[2]

\* The header announced its own frame, or swallowed all it announced beside it.
Claimed(found, n, sw) ==
    /\ Intact(found[2], sw) =>
         found[1] = air[found[2]].start /\ n = air[found[2]].symbols
    /\ \A i \in Items \ sw : i > found[2] => found[1] + FrameSpan(n) <= air[i].start

KeepInv ==
    /\ Len(air) < MaxItems => streamState = "SEEKING" /\ fed = 0 /\ bufStart = 0
    /\ chunk \in Chunks \cup {0}
    /\ CutBehind(returned, bufStart, swallowed)
    /\ IF streamState = "SEEKING"
       THEN frameStart = NOTHING /\ AllDue(bufStart, fed, chunk)
       ELSE /\ Taken(frameStart, bufStart, swallowed)
            /\ streamState = "WAITING_PAYLOAD" =>
                 Claimed(frameStart, streamHeader, swallowed)

-----------------------------------------------------------------------------
(* Items and energy.                                                       *)

LEMMA FrameEnds ==
    ASSUME NoLookalikes, AirInv, NEW i \in Items
    PROVE  /\ air[i] \in Item /\ air[i].start \in Nat /\ air[i].symbols \in PayloadSymbols
           /\ air[i].kind # "lookalike"
           /\ FrameSpan(air[i].symbols) \in Nat
           /\ FrameSpan(air[i].symbols) >= HeaderSpan
           /\ EndOf(air[i]) = air[i].start + FrameSpan(air[i].symbols)
<1>1. air[i] \in Item
  BY DEF AirInv, Items
<1>2. air[i].start \in Nat /\ air[i].symbols \in PayloadSymbols
      /\ air[i].kind # "lookalike" /\ air[i].symbols \in Nat
  BY <1>1, SymbolsLength DEF Item, NoLookalikes
<1>3. EndOf(air[i]) = air[i].start + FrameSpan(air[i].symbols)
  BY <1>2 DEF EndOf, Span
<1> QED
  BY <1>1, <1>2, <1>3, FrameLength

\* A header takes more than a preamble and a half.
LEMMA HeaderLength == HeaderSpan >= FftSize + HalfLen
<1> DEFINE n == TrainingSymbols + HeaderSymbols
<1>1. n \in Nat /\ n >= 1
  BY RxStreamAssumption
<1>2. SlotLen \in Nat /\ SlotLen >= FftSize
  BY RxStreamAssumption DEF SlotLen
<1>3. HeaderSpan = FftSize + n * SlotLen
  BY DEF HeaderSpan
<1> HIDE DEF n
<1>4. n * SlotLen >= SlotLen
  <2>1. PICK m \in Nat : n = m + 1
    BY <1>1
  <2>2. n * SlotLen = m * SlotLen + SlotLen
    BY <1>2, <2>1
  <2>3. m * SlotLen \in Nat
    BY <1>2
  <2> QED
    BY <1>2, <2>2, <2>3
<1>5. n * SlotLen \in Nat
  BY <1>1, <1>2
<1> QED
  BY <1>2, <1>3, <1>4, <1>5, StreamLengths

\* Items in the order of the air are in the order of their starts.
LEMMA InStartOrder ==
    ASSUME NoLookalikes, AirInv, NEW i \in Items, NEW j \in Items
    PROVE  /\ i < j => air[i].start + FrameSpan(air[i].symbols) <= air[j].start
           /\ air[i].start < air[j].start => i < j
<1>1. i < j => air[i].start + FrameSpan(air[i].symbols) <= air[j].start
  BY FrameEnds DEF AirInv
<1>2. j < i => air[j].start + FrameSpan(air[j].symbols) <= air[i].start
  BY FrameEnds DEF AirInv
<1>3. i \in Int /\ j \in Int
  BY DEF Items
<1> QED
  BY <1>1, <1>2, <1>3, FrameEnds

LEMMA EnergyAtMost ==
    ASSUME NEW d \in Int
    PROVE  Energy(d) \in Nat /\ Energy(d) <= FftSize
<1> DEFINE window == d .. d + FftSize - 1
           lit == {x \in window : \E i \in Items : air[i].start <= x /\ x < EndOf(air[i])}
<1>1. FftSize \in Nat /\ FftSize > 0
  BY StreamLengths
<1>2. d + FftSize - 1 \in Int
  BY <1>1
<1>3. IsFiniteSet(window) /\ Cardinality(window) = FftSize
  BY <1>1, <1>2, FS_Interval
<1>4. lit \in SUBSET window
  OBVIOUS
<1>5. Energy(d) = Cardinality(lit)
  BY DEF Energy
<1> HIDE DEF window, lit
<1>6. IsFiniteSet(lit) /\ Cardinality(lit) <= FftSize
  BY <1>3, <1>4, FS_Subset
<1> QED
  BY <1>5, <1>6, FS_CardinalityType

\* The part of an item that lies in a window.
LEMMA EnergyAtLeast ==
    ASSUME NEW d \in Int, NEW from \in Int, NEW i \in Items,
           air[i].start \in Int, EndOf(air[i]) \in Int,
           d <= from, from < d + FftSize,
           air[i].start <= from, d + FftSize <= EndOf(air[i])
    PROVE  Energy(d) >= d + FftSize - from
<1> DEFINE window == d .. d + FftSize - 1
           lit == {x \in window : \E k \in Items : air[k].start <= x /\ x < EndOf(air[k])}
           last == d + FftSize - 1
<1>1. FftSize \in Nat /\ FftSize > 0 /\ last \in Int
  BY StreamLengths
<1>2. IsFiniteSet(window)
  BY <1>1, FS_Interval
<1>3. lit \in SUBSET window
  OBVIOUS
<1>4. Energy(d) = Cardinality(lit)
  BY DEF Energy
<1>5. from .. last \in SUBSET lit
  <2> SUFFICES ASSUME NEW x \in from .. last
               PROVE  x \in window /\ air[i].start <= x /\ x < EndOf(air[i])
    OBVIOUS
  <2>1. x \in Int /\ from <= x /\ x <= last
    BY <1>1
  <2> QED
    BY <1>1, <2>1
<1>6. Cardinality(from .. last) = last - from + 1
  <2>1. ~ from > last
    BY <1>1
  <2> HIDE DEF last
  <2> QED
    BY <1>1, <2>1, FS_Interval
<1>7. last - from + 1 = d + FftSize - from
  BY <1>1
<1> HIDE DEF window, lit, last
<1>8. IsFiniteSet(lit)
  BY <1>2, <1>3, FS_Subset
<1>9. Cardinality(from .. last) <= Cardinality(lit)
  BY <1>5, <1>8, FS_Subset
<1> QED
  BY <1>4, <1>6, <1>7, <1>9

-----------------------------------------------------------------------------
(* The peak of the metric.                                                 *)

LEMMA CandidatesAre ==
    ASSUME NEW lo, NEW hi, NEW found
    PROVE  found \in Candidates(lo, hi) <=>
             /\ \E i \in Items :
                  \E d \in air[i].start - HalfLen + 1 .. air[i].start + HalfLen - 1 :
                    found = <<d, i>>
             /\ lo <= found[1] /\ found[1] + FftSize <= hi
  BY DEF Candidates

LEMMA PeaksAre ==
    ASSUME NEW lo, NEW hi, NEW found
    PROVE  found \in Peaks(lo, hi) <=>
             /\ found \in Candidates(lo, hi)
             /\ \A z \in Candidates(lo, hi) :
                  Score(z).matched * Score(found).energy
                    <= Score(found).matched * Score(z).energy
<1> DEFINE C == Candidates(lo, hi)
           scored == {[at |-> c, s |-> Score(c)] : c \in C}
           Best(y) == \A z \in scored : z.s.matched * y.s.energy <= y.s.matched * z.s.energy
<1>1. Peaks(lo, hi) = {x.at : x \in {y \in scored : Best(y)}}
  BY DEF Peaks
<1>2. ASSUME NEW c \in C
      PROVE  Best([at |-> c, s |-> Score(c)]) <=>
               \A z \in C : Score(z).matched * Score(c).energy
                             <= Score(c).matched * Score(z).energy
  <2> DEFINE Beats(m, e) == \A z \in C : Score(z).matched * e <= m * Score(z).energy
  <2>1. ASSUME NEW y
        PROVE  Best(y) <=> Beats(y.s.matched, y.s.energy)
    <3>1. ASSUME Best(y), NEW z \in C
          PROVE  Score(z).matched * y.s.energy <= y.s.matched * Score(z).energy
      <4>1. PICK w : w = [at |-> z, s |-> Score(z)]
        OBVIOUS
      <4>2. w \in scored /\ w.s = Score(z)
        BY <4>1
      <4>3. w.s.matched * y.s.energy <= y.s.matched * w.s.energy
        BY <3>1, <4>2
      <4> QED
        BY <4>2, <4>3
    <3>2. ASSUME Beats(y.s.matched, y.s.energy), NEW w \in scored
          PROVE  w.s.matched * y.s.energy <= y.s.matched * w.s.energy
      <4>1. PICK z \in C : w = [at |-> z, s |-> Score(z)]
        OBVIOUS
      <4>2. w.s = Score(z)
        BY <4>1
      <4>3. Score(z).matched * y.s.energy <= y.s.matched * Score(z).energy
        BY <3>2
      <4> QED
        BY <4>2, <4>3
    <3> QED
      BY <3>1, <3>2
  <2>2. PICK y : y = [at |-> c, s |-> Score(c)]
    OBVIOUS
  <2>3. y.s = Score(c)
    BY <2>2
  <2>4. Best(y) <=> Beats(Score(c).matched, Score(c).energy)
    BY <2>1, <2>3
  <2> HIDE DEF Best
  <2> QED
    BY <2>2, <2>4
<1>3. ASSUME found \in Peaks(lo, hi)
      PROVE  found \in C /\ Best([at |-> found, s |-> Score(found)])
  <2>1. PICK y \in scored : Best(y) /\ found = y.at
    BY <1>1, <1>3
  <2>2. PICK c \in C : y = [at |-> c, s |-> Score(c)]
    BY <2>1
  <2>3. c = found
    BY <2>1, <2>2
  <2> HIDE DEF Best
  <2> QED
    BY <2>1, <2>2, <2>3
<1>4. ASSUME found \in C, Best([at |-> found, s |-> Score(found)])
      PROVE  found \in Peaks(lo, hi)
  <2>1. PICK y : y = [at |-> found, s |-> Score(found)]
    OBVIOUS
  <2>2. y \in scored /\ y.at = found
    BY <1>4, <2>1
  <2>3. Best(y)
    <3> HIDE DEF Best
    <3> QED
      BY <1>4, <2>1
  <2> HIDE DEF Best, scored
  <2> QED
    BY <1>1, <2>2, <2>3
<1> HIDE DEF Best
<1> QED
  BY <1>2, <1>3, <1>4

\* A window that is all item and matches nowhere better has matched in full.
LEMMA FullMatchWins ==
    ASSUME NEW f \in Nat, f > 0, NEW m \in Nat, NEW e \in Nat, NEW full \in Nat,
           full <= f, f * e <= m * full
    PROVE  e <= m
<1>1. m * full <= m * f
  BY Z3
<1>2. f * e <= f * m
  BY <1>1, Z3
<1>3. SUFFICES ASSUME e > m PROVE FALSE
  OBVIOUS
<1>4. PICK more \in Nat : e = m + more + 1
  BY <1>3
<1>5. f * e = f * m + f * more + f
  BY <1>4
<1>6. f * more \in Nat /\ f * m \in Nat
  OBVIOUS
<1> QED
  BY <1>2, <1>5, <1>6

LEMMA MatchedEnergy ==
    ASSUME NoLookalikes, AirInv, NEW lo \in Int, NEW hi \in Int,
           NEW found \in Candidates(lo, hi)
    PROVE  \E a \in Nat :
             /\ found[2] \in Items /\ found[1] \in Int
             /\ a < HalfLen
             /\ Score(found).matched = FftSize - 2 * a
             /\ Score(found).energy \in Nat
             /\ Score(found).energy <= FftSize
             /\ Score(found).energy >= FftSize - a
             /\ a = 0 => found[1] = air[found[2]].start
<1>1. PICK i \in Items :
        \E d \in air[i].start - HalfLen + 1 .. air[i].start + HalfLen - 1 :
          found = <<d, i>>
  BY CandidatesAre
<1>2. PICK d \in air[i].start - HalfLen + 1 .. air[i].start + HalfLen - 1 :
        found = <<d, i>>
  BY <1>1
<1>3. /\ air[i].start \in Nat /\ EndOf(air[i]) \in Nat
      /\ EndOf(air[i]) >= air[i].start + FftSize + HalfLen
  BY FrameEnds, HeaderLength, StreamLengths
<1>4. d \in Int /\ d > air[i].start - HalfLen /\ d < air[i].start + HalfLen
  BY <1>2, <1>3, StreamLengths
<1>5. Score(found).matched = 2 * (HalfLen - Apart(d, air[i].start))
      /\ Score(found).energy = Energy(d)
  BY <1>2 DEF Score, Matched
<1>6. Energy(d) \in Nat /\ Energy(d) <= FftSize
  BY <1>4, EnergyAtMost
<1>7. CASE d < air[i].start
  <2>1. PICK a \in Nat : a = air[i].start - d
    BY <1>3, <1>4, <1>7
  <2>2. Apart(d, air[i].start) = a
    BY <1>7, <2>1 DEF Apart
  <2>3. Energy(d) >= d + FftSize - air[i].start
    <3>1. PICK s \in Int : s = air[i].start
      BY <1>3
    <3>2. /\ EndOf(air[i]) \in Int /\ d <= s /\ s < d + FftSize
          /\ d + FftSize <= EndOf(air[i])
      BY <1>3, <1>4, <1>7, <3>1, StreamLengths
    <3>3. air[i].start \in Int /\ air[i].start <= s
      BY <3>1
    <3>4. Energy(d) >= d + FftSize - s
      BY <1>4, <3>2, <3>3, EnergyAtLeast
    <3> QED
      BY <3>1, <3>4
  <2>4. Energy(d) >= FftSize - a
    BY <1>3, <1>4, <1>6, <2>1, <2>3, StreamLengths
  <2>5. a < HalfLen /\ a # 0
    BY <1>3, <1>4, <1>7, <2>1, StreamLengths
  <2>6. 2 * (HalfLen - a) = FftSize - 2 * a
    BY StreamLengths
  <2> QED
    BY <1>2, <1>4, <1>5, <1>6, <2>2, <2>4, <2>5, <2>6
<1>8. CASE ~ d < air[i].start
  <2>1. PICK a \in Nat : a = d - air[i].start
    BY <1>3, <1>4, <1>8
  <2>2. Apart(d, air[i].start) = a
    BY <1>8, <2>1 DEF Apart
  <2>3. Energy(d) >= d + FftSize - d
    BY <1>3, <1>4, <1>8, StreamLengths, EnergyAtLeast
  <2>4. Energy(d) >= FftSize - a
    BY <1>4, <1>6, <2>1, <2>3, StreamLengths
  <2>5. a < HalfLen /\ (a = 0 => d = air[i].start)
    BY <1>3, <1>4, <2>1, StreamLengths
  <2>6. 2 * (HalfLen - a) = FftSize - 2 * a
    BY StreamLengths
  <2> QED
    BY <1>2, <1>4, <1>5, <1>6, <2>2, <2>4, <2>5, <2>6
<1> QED
  BY <1>7, <1>8

\* Item i has its preamble whole in the buffer.
InView(i, lo, hi) == lo <= air[i].start /\ air[i].start + FftSize <= hi

LEMMA InViewCandidate ==
    ASSUME NoLookalikes, AirInv, NEW lo \in Int, NEW hi \in Int,
           NEW i \in Items, InView(i, lo, hi)
    PROVE  /\ <<air[i].start, i>> \in Candidates(lo, hi)
           /\ Score(<<air[i].start, i>>).matched = FftSize
           /\ Score(<<air[i].start, i>>).energy \in Nat
           /\ Score(<<air[i].start, i>>).energy <= FftSize
<1>1. PICK s \in Nat : s = air[i].start
  BY FrameEnds
<1>2. s \in air[i].start - HalfLen + 1 .. air[i].start + HalfLen - 1
  BY <1>1, StreamLengths
<1>3. <<s, i>> \in Candidates(lo, hi)
  BY <1>1, <1>2, CandidatesAre DEF InView
<1>4. Score(<<s, i>>).matched = 2 * (HalfLen - Apart(s, s))
      /\ Score(<<s, i>>).energy = Energy(s)
  BY <1>1 DEF Score, Matched
<1>5. Apart(s, s) = 0
  BY DEF Apart
<1> QED
  BY <1>1, <1>3, <1>4, <1>5, EnergyAtMost, StreamLengths

\* If a preamble is whole in the buffer, only such ones are peaks, and it is.
LEMMA PeaksExact ==
    ASSUME NoLookalikes, AirInv, NEW lo \in Int, NEW hi \in Int,
           NEW i \in Items, InView(i, lo, hi), NEW found \in Peaks(lo, hi)
    PROVE  found[1] = air[found[2]].start
<1>1. PICK s : s = <<air[i].start, i>>
  OBVIOUS
<1>2. /\ s \in Candidates(lo, hi) /\ Score(s).matched = FftSize
      /\ Score(s).energy \in Nat /\ Score(s).energy <= FftSize
  BY <1>1, InViewCandidate
<1>3. /\ found \in Candidates(lo, hi)
      /\ Score(s).matched * Score(found).energy
           <= Score(found).matched * Score(s).energy
  BY <1>2, PeaksAre
<1>4. PICK a \in Nat :
        /\ a < HalfLen
        /\ Score(found).matched = FftSize - 2 * a
        /\ Score(found).energy \in Nat
        /\ Score(found).energy >= FftSize - a
        /\ a = 0 => found[1] = air[found[2]].start
  BY <1>3, MatchedEnergy
<1>5. PICK m \in Nat : m = FftSize - 2 * a
  BY <1>4, StreamLengths
<1>6. PICK e \in Nat : e = Score(found).energy
  BY <1>4
<1>7. PICK full \in Nat : full = Score(s).energy
  BY <1>2
<1>8. FftSize * e <= m * full
  BY <1>2, <1>3, <1>4, <1>5, <1>6, <1>7
<1>9. e <= m
  BY <1>2, <1>7, <1>8, FullMatchWins, StreamLengths
<1> QED
  BY <1>4, <1>5, <1>6, <1>9, StreamLengths

LEMMA InViewPeaks ==
    ASSUME NoLookalikes, AirInv, NEW lo \in Int, NEW hi \in Int,
           NEW i \in Items, InView(i, lo, hi)
    PROVE  Peaks(lo, hi) # {}
<1>1. PICK s : s = <<air[i].start, i>>
  OBVIOUS
<1>2. /\ s \in Candidates(lo, hi) /\ Score(s).matched = FftSize
      /\ Score(s).energy \in Nat /\ Score(s).energy <= FftSize
  BY <1>1, InViewCandidate
<1>3. ASSUME NEW z \in Candidates(lo, hi)
      PROVE  Score(z).matched * Score(s).energy <= Score(s).matched * Score(z).energy
  <2>1. PICK a \in Nat :
          /\ a < HalfLen
          /\ Score(z).matched = FftSize - 2 * a
          /\ Score(z).energy \in Nat
          /\ Score(z).energy >= FftSize - a
    BY <1>3, MatchedEnergy
  <2>2. PICK m \in Nat : m = FftSize - 2 * a
    <3>1. a < HalfLen /\ HalfLen \in Nat /\ FftSize = 2 * HalfLen
      BY <2>1, StreamLengths
    <3>2. FftSize - 2 * a \in Nat
      BY ONLY <3>1
    <3> QED
      BY <3>2
  <2>3. PICK e \in Nat : e = Score(z).energy
    BY <2>1
  <2>4. PICK full \in Nat : full = Score(s).energy
    BY <1>2
  <2>5. m <= e /\ full <= FftSize
    BY <1>2, <2>1, <2>2, <2>3, <2>4, StreamLengths
  <2>6. m * full <= m * FftSize
    BY <2>5, StreamLengths, Z3
  <2>7. m * FftSize <= FftSize * e
    BY <2>5, StreamLengths, Z3
  <2>8. m * full \in Nat /\ m * FftSize \in Nat /\ FftSize * e \in Nat
    BY StreamLengths
  <2>9. m * full <= FftSize * e
    BY <2>6, <2>7, <2>8
  <2> QED
    BY <1>2, <2>1, <2>2, <2>3, <2>4, <2>9
<1> QED
  BY <1>2, <1>3, PeaksAre
-----------------------------------------------------------------------------
(* How far the buffer is ahead of an item.                                 *)

LEMMA FrameLongerThanHeader ==
    ASSUME NEW n \in PayloadSymbols
    PROVE  FrameSpan(n) >= HeaderSpan + HalfLen
<1>1. n \in Nat /\ n >= 1
  BY SymbolsLength
<1>2. SlotLen \in Nat /\ SlotLen >= FftSize
  BY RxStreamAssumption DEF SlotLen
<1>3. FrameSpan(n) = HeaderSpan + n * SlotLen
  BY DEF FrameSpan
<1>4. n * SlotLen >= SlotLen
  <2>1. PICK m \in Nat : n = m + 1
    BY <1>1
  <2>2. n * SlotLen = m * SlotLen + SlotLen
    BY <1>2, <2>1
  <2>3. m * SlotLen \in Nat
    BY <1>2
  <2> QED
    BY <1>2, <2>2, <2>3
<1>5. n * SlotLen \in Nat
  BY <1>1, <1>2
<1> QED
  BY <1>2, <1>3, <1>4, <1>5, StreamLengths

LEMMA DueBounds ==
    ASSUME KeepsUp, AirInv, NEW i \in Items, NEW now \in Int,
           NEW b \in Chunks \cup {0}, Due(i, now, b)
    PROVE  /\ now < air[i].start + FrameSpan(air[i].symbols)
           /\ now <= air[i].start + Searched(0)
           /\ \A c \in Chunks :
                now + c < air[i].start + FrameSpan(air[i].symbols) + FftSize
<1>1. PICK s \in Nat : s = air[i].start
  BY FrameEnds DEF KeepsUp
<1>2. PICK n \in PayloadSymbols : n = air[i].symbols
  BY FrameEnds DEF KeepsUp
<1>3. PICK span \in Nat : span = FrameSpan(n)
  BY <1>2, FrameEnds DEF KeepsUp
<1>4. PICK f \in Nat : f = FftSize
  BY StreamLengths
<1>5. PICK h \in Nat : h = HalfLen /\ h > 0
  BY StreamLengths
<1>6. PICK w \in Nat : w = Searched(0)
  BY SearchedLength
<1>7. span >= f + h
  BY <1>2, <1>3, <1>4, <1>5, FrameEnds, HeaderLength, StreamLengths DEF KeepsUp
<1>8. f + h <= w /\ b <= w /\ b \in Nat
  <2>1. f + h <= w
    BY ONLY KeepsUp, <1>4, <1>5, <1>6 DEF KeepsUp, ShortChunks
  <2>2. b \in Nat
    BY RxStreamAssumption
  <2>3. CASE b = 0
    BY ONLY <1>6, <2>1, <2>3
  <2>4. CASE b \in Chunks
    <3>1. \A c \in Chunks : c <= Searched(0)
      BY ONLY KeepsUp DEF KeepsUp, ShortChunks
    <3> QED
      BY ONLY <1>6, <2>1, <2>2, <2>4, <3>1
  <2> QED
    BY ONLY <2>1, <2>2, <2>3, <2>4, <1>6, b \in Chunks \cup {0}
<1>9. b <= span
  BY <1>3, <1>5, <1>8 DEF KeepsUp, ShortChunks
<1>10. now < s + f + h \/ now < s + b
  BY <1>1, <1>4, <1>5 DEF Due
<1>11. ASSUME NEW c \in Chunks
       PROVE  now + c < s + span + f
  <2>1. c \in Nat
    BY RxStreamAssumption
  <2>2. c + h <= span
    BY <1>3, <1>5 DEF KeepsUp, ShortChunks
  <2>3. b + c <= span + f
    <3>1. CASE b = 0
      BY <1>4, <1>5, <2>1, <2>2, <3>1
    <3>2. CASE b \in Chunks
      BY <1>3, <1>4, <3>2 DEF KeepsUp, ShortChunks
    <3> QED
      BY <3>1, <3>2
  <2> QED
    BY <1>8, <1>10, <2>1, <2>2, <2>3
<1>12. now < s + span /\ now <= s + w
  BY <1>7, <1>8, <1>9, <1>10
<1> QED
  BY <1>1, <1>2, <1>3, <1>4, <1>6, <1>11, <1>12

\* While one item is due, the preamble of no later one is whole.
LEMMA OneInView ==
    ASSUME KeepsUp, AirInv, NEW i \in Items, NEW k \in Items, i < k,
           NEW now \in Int, NEW b \in Chunks \cup {0}, Due(i, now, b),
           NEW c \in Chunks
    PROVE  now + c < air[k].start + FftSize
<1>1. now + c < air[i].start + FrameSpan(air[i].symbols) + FftSize
  BY DueBounds
<1>2. air[i].start + FrameSpan(air[i].symbols) <= air[k].start
  BY InStartOrder DEF KeepsUp
<1>3. air[i].start \in Nat /\ FrameSpan(air[i].symbols) \in Nat /\ air[k].start \in Nat
  BY FrameEnds DEF KeepsUp
<1>4. c \in Nat
  BY RxStreamAssumption
<1> QED
  BY <1>1, <1>2, <1>3, <1>4, StreamLengths

-----------------------------------------------------------------------------
(* The stages lose nothing.                                                *)

LEMMA CutBehindSame ==
    ASSUME NEW rs, NEW lo, NEW sw, CutBehind(rs, lo, sw),
           air' = air, returned' = rs, bufStart' = lo, swallowed' = sw
    PROVE  CutBehind(returned, bufStart, swallowed)'
  BY DEF CutBehind, Intact, Items, EndOf, Span, FrameSpan, HeaderSpan, SlotLen

\* To swallow more excuses more.
LEMMA CutBehindMore ==
    ASSUME NEW rs, NEW lo, NEW sw, NEW more, CutBehind(rs, lo, sw), sw \subseteq more
    PROVE  CutBehind(rs, lo, more)
  BY DEF CutBehind, Intact

LEMMA TakenMore ==
    ASSUME NEW found, NEW lo, NEW sw, NEW more, Taken(found, lo, sw), sw \subseteq more
    PROVE  Taken(found, lo, more)
  BY DEF Taken, Intact

LEMMA SeekingAgain ==
    ASSUME NEW lo, NEW rs, NEW sw, NEW hi, NEW c \in Chunks,
           fed' = hi, chunk' = c, air' = air, Len(air) = MaxItems,
           KeepSeeking(lo), returned' = rs, swallowed' = sw,
           CutBehind(rs, lo, sw), AllDue(lo, hi, c)
    PROVE  KeepInv'
<1>1. streamState' = "SEEKING" /\ bufStart' = lo /\ frameStart' = NOTHING
  BY DEF KeepSeeking
<1>2. CutBehind(returned, bufStart, swallowed)'
  BY <1>1, CutBehindSame
<1>3. AllDue(bufStart, fed, chunk)'
  BY <1>1 DEF AllDue, Due, Items
<1>4. ~ (Len(air) < MaxItems)'
  BY RxStreamAssumption
<1> QED
  BY <1>1, <1>2, <1>3, <1>4 DEF KeepInv

LEMMA WaitingOn ==
    ASSUME NEW lo, NEW found, NEW state \in {"WAITING_HEADER", "WAITING_PAYLOAD"},
           NEW header, NEW sw,
           NEW c \in Chunks, chunk' = c, air' = air, Len(air) = MaxItems,
           WaitFor(state, lo, found, header), returned' = returned, swallowed' = sw,
           CutBehind(returned, lo, sw), Taken(found, lo, sw),
           state = "WAITING_PAYLOAD" => Claimed(found, header, sw)
    PROVE  KeepInv'
<1>1. /\ streamState' = state /\ bufStart' = lo /\ frameStart' = found
      /\ streamHeader' = header
  BY DEF WaitFor
<1>2. CutBehind(returned, bufStart, swallowed)'
  BY <1>1, CutBehindSame
<1>3. Taken(frameStart, bufStart, swallowed)'
  BY <1>1 DEF Taken, Intact, Items
<1>4. ~ (Len(air) < MaxItems)'
  BY RxStreamAssumption
<1>5. (streamState = "WAITING_PAYLOAD" =>
         Claimed(frameStart, streamHeader, swallowed))'
  BY <1>1 DEF Claimed, Intact, Items, FrameSpan, HeaderSpan, SlotLen
<1> QED
  BY <1>1, <1>2, <1>3, <1>4, <1>5 DEF KeepInv

\* Everything a stage is given, of what keeps frames from being lost.
KeepStage(lo, found, hi, c) ==
    /\ KeepsUp /\ Len(air) = MaxItems
    /\ StageOf(lo, found, hi, c)
    /\ CutBehind(returned, lo, swallowed)
    /\ Taken(found, lo, swallowed)

LEMMA PayloadStageKeepsUp ==
    ASSUME NEW lo, NEW found, NEW hi, NEW c, KeepStage(lo, found, hi, c),
           NEW n \in 0 .. MaxPayloadSymbols,
           swallowed \subseteq swallowed', Claimed(found, n, swallowed'),
           AllDue(found[1] + FrameSpan(n), hi, c),
           PayloadStage(lo, found, n, hi)
    PROVE  KeepInv'
<1> DEFINE j == found[2]
           end == found[1] + FrameSpan(n)
<1>1. PICK sw : sw = swallowed'
  OBVIOUS
<1>2. /\ Len(air) = MaxItems /\ NoLookalikes
      /\ AirInv /\ lo \in Int /\ hi \in Nat /\ c \in Chunks
      /\ fed' = hi /\ chunk' = c /\ air' = air
      /\ j \in Items /\ found[1] \in Int /\ lo <= found[1]
  BY DEF KeepStage, StageOf, KeepsUp, Located
<1>3. CutBehind(returned, lo, sw) /\ Taken(found, lo, sw) /\ Claimed(found, n, sw)
  BY <1>1, CutBehindMore, TakenMore DEF KeepStage
<1>4. FrameSpan(n) \in Nat /\ end \in Int /\ found[1] <= end
  <2>1. n \in Nat
    BY FramesInLength
  <2>2. FrameSpan(n) \in Nat
    BY <2>1, FrameLength
  <2> QED
    BY <1>2, <2>2
<1>5. CASE hi < end
  <2>1. WaitFor("WAITING_PAYLOAD", lo, found, n) /\ returned' = returned
    BY <1>5 DEF PayloadStage
  <2> QED
    BY <1>1, <1>2, <1>3, <2>1, WaitingOn
<1>6. CASE ~ hi < end
  <2>1. PICK ok \in PayloadReturns(found[1], j, n) :
          returned' = IF ok THEN Append(returned, j) ELSE returned
    BY <1>6 DEF PayloadStage
  <2>2. KeepSeeking(end)
    BY <1>6 DEF PayloadStage
  <2>3. PICK rs : rs = returned'
    OBVIOUS
  <2>4. returned \in Seq(Items)
    BY DEF KeepStage, StageOf, Behind
  <2>5. /\ Len(rs) \in Nat /\ Len(returned) \in Nat /\ Len(returned) <= Len(rs)
        /\ \A k \in 1 .. Len(returned) : rs[k] = returned[k]
    BY <1>2, <2>1, <2>3, <2>4
  <2>6. ASSUME Intact(j, sw)
        PROVE  EndOf(air[j]) = end /\ Len(rs) \in 1 .. Len(rs) /\ rs[Len(rs)] = j
    <3>1. /\ found[1] = air[j].start /\ n = air[j].symbols /\ air[j].kind = "frame"
          /\ air[j].start \in Nat
      BY <1>2, <1>3, <2>6, FrameEnds DEF Claimed, Intact
    <3>2. OnTime(found[1], j)
      BY <3>1, RxStreamAssumption DEF OnTime
    <3>3. ok = TRUE
      BY <2>1, <3>1, <3>2 DEF PayloadReturns, Own
    <3>4. EndOf(air[j]) = end
      BY <1>2, <3>1, FrameEnds
    <3> QED
      BY <1>2, <2>1, <2>3, <2>4, <3>3, <3>4
  <2>7. ASSUME NEW i \in Items, air[i].start < end, Intact(i, sw)
        PROVE  EndOf(air[i]) <= end /\ \E k \in 1 .. Len(rs) : rs[k] = i
    <3>1. air[i].start \in Nat /\ EndOf(air[i]) \in Nat
      BY <1>2, FrameEnds
    <3>2. CASE air[i].start < lo
      <4>1. EndOf(air[i]) <= lo /\ \E k \in 1 .. Len(returned) : returned[k] = i
        BY <1>3, <2>7, <3>2 DEF CutBehind
      <4>2. \E k \in 1 .. Len(rs) : rs[k] = i
        BY <2>5, <4>1
      <4> QED
        BY <1>2, <1>4, <3>1, <4>1, <4>2
    <3>3. CASE air[i].start >= lo
      <4>1. i >= j
        BY <1>3, <3>3 DEF Taken
      <4>2. j < i => end <= air[i].start
        BY <1>2, <1>3, <2>7 DEF Claimed, Intact, Items
      <4>3. i = j
        BY <1>2, <1>4, <2>7, <3>1, <4>1, <4>2 DEF Items
      <4> QED
        BY <1>4, <2>6, <2>7, <4>3
    <3> QED
      BY <1>2, <3>1, <3>2, <3>3
  <2>8. CutBehind(rs, end, sw)
    BY <2>7 DEF CutBehind
  <2> QED
    BY <1>1, <1>2, <2>2, <2>3, <2>8, SeekingAgain
<1> QED
  BY <1>5, <1>6

\* A header that decodes claims what is not another's, or swallows it.
LEMMA HeaderClaims ==
    ASSUME NoLookalikes, AirInv, NEW lo \in Int, NEW found, Located(found, lo),
           Taken(found, lo, swallowed),
           NEW n \in HeaderDecodes(found[1], found[2]), n # NOTHING,
           NEW more, more = swallowed \cup Covered(found[1], found[2], n)
    PROVE  Claimed(found, n, more)
<1> DEFINE j == found[2]
<1>1. j \in Items /\ found[1] \in Int /\ lo <= found[1]
  BY DEF Located
<1>2. air[j].start \in Nat /\ EndOf(air[j]) = air[j].start + FrameSpan(air[j].symbols)
  BY <1>1, FrameEnds
<1>3. ASSUME Intact(j, more)
      PROVE  found[1] = air[j].start /\ n = air[j].symbols
  <2>1. air[j].kind = "frame" /\ Intact(j, swallowed)
    BY <1>3 DEF Intact
  <2>2. found[1] = air[j].start
    BY <2>1 DEF Taken
  <2>3. OnTime(found[1], j)
    BY <1>2, <2>2, RxStreamAssumption DEF OnTime
  <2> QED
    BY <2>1, <2>2, <2>3 DEF HeaderDecodes
<1>4. ASSUME NEW i \in Items \ more, i > j
      PROVE  found[1] + FrameSpan(n) <= air[i].start
  <2>1. n \in 0 .. MaxPayloadSymbols
    BY <1>1, HeaderInLength
  <2>2. /\ FrameSpan(n) \in Nat /\ air[i].start \in Nat
        /\ found[1] + FrameSpan(n) \in Int
    BY <1>1, <1>4, <2>1, FrameEnds, FramesInLength, FrameLength
  <2>3. CASE Own(found[1], j, n)
    <3>1. found[1] <= air[j].start /\ n = air[j].symbols
      BY <1>1, <1>2, <2>3, RxStreamAssumption DEF Own, OnTime
    <3>2. air[j].start + FrameSpan(air[j].symbols) <= air[i].start
      BY <1>1, <1>4, InStartOrder
    <3> HIDE DEF j
    <3> QED
      BY <1>1, <1>2, <2>2, <3>1, <3>2
  <2>4. CASE ~ Own(found[1], j, n)
    BY <1>4, <2>2, <2>4 DEF Covered
  <2> QED
    BY <2>3, <2>4
<1> QED
  BY <1>3, <1>4 DEF Claimed

LEMMA HeaderStageKeepsUp ==
    ASSUME NEW lo, NEW found, NEW hi, NEW c, KeepStage(lo, found, hi, c),
           \A i \in Items : air[i].start >= lo /\ i # found[2] => Due(i, hi, c),
           HeaderStage(lo, found, hi)
    PROVE  KeepInv'
<1> DEFINE j == found[2]
<1>1. /\ KeepsUp /\ Len(air) = MaxItems /\ NoLookalikes
      /\ AirInv /\ lo \in Int /\ hi \in Nat /\ c \in Chunks
      /\ fed' = hi /\ chunk' = c /\ air' = air
      /\ CutBehind(returned, lo, swallowed) /\ Taken(found, lo, swallowed)
      /\ Located(found, lo)
      /\ j \in Items /\ found[1] \in Int /\ lo <= found[1]
      /\ found[1] < air[j].start + HalfLen
  BY DEF KeepStage, StageOf, KeepsUp, Located
<1>2. /\ air[j].start \in Nat
      /\ FrameSpan(air[j].symbols) \in Nat
      /\ FrameSpan(air[j].symbols) >= FftSize + HalfLen
  BY <1>1, FrameEnds, HeaderLength, StreamLengths
<1>3. air[j].start <= found[1]
  BY <1>1, <1>2 DEF Taken
<1>4. ASSUME NEW further \in Int, found[1] < further
      PROVE  AllDue(further, hi, c)
  <2> SUFFICES ASSUME NEW i \in Items, air[i].start >= further PROVE Due(i, hi, c)
    BY DEF AllDue
  <2>1. air[i].start \in Nat
    BY <1>1, FrameEnds
  <2>2. air[i].start >= lo
    BY <1>1, <1>4, <2>1
  <2>3. i # j
    BY <1>1, <1>2, <1>3, <1>4, <2>1
  <2> QED
    BY <2>2, <2>3
<1>5. CASE WaitFor("WAITING_HEADER", lo, found, NOTHING) /\ returned' = returned
           /\ swallowed' = swallowed
  BY <1>1, <1>5, WaitingOn
<1>6. ASSUME NEW n \in HeaderDecodes(found[1], j), n # NOTHING,
             PayloadStage(lo, found, n, hi),
             swallowed' = swallowed \cup Covered(found[1], j, n)
      PROVE  KeepInv'
  <2>1. n \in 0 .. MaxPayloadSymbols
    BY <1>1, <1>6, HeaderInLength
  <2>2. FrameSpan(n) \in Nat /\ FrameSpan(n) >= FftSize /\ FftSize > 0
    BY <2>1, FramesInLength, FrameLength, StreamLengths
  <2>3. AllDue(found[1] + FrameSpan(n), hi, c)
    <3>1. PICK further \in Int : further = found[1] + FrameSpan(n)
      BY <1>1, <2>2
    <3>2. found[1] < further
      BY <1>1, <2>2, <3>1, StreamLengths
    <3> QED
      BY <1>4, <3>1, <3>2
  <2>4. Claimed(found, n, swallowed')
    BY <1>1, <1>6, HeaderClaims
  <2>5. swallowed \subseteq swallowed'
    BY <1>6
  <2> QED
    BY <1>6, <2>1, <2>3, <2>4, <2>5, PayloadStageKeepsUp
<1>7. ASSUME NOTHING \in HeaderDecodes(found[1], j),
             KeepSeeking(found[1] + 1), returned' = returned, swallowed' = swallowed
      PROVE  KeepInv'
  <2>1. ~ Intact(j, swallowed)
    <3> SUFFICES ASSUME Intact(j, swallowed) PROVE FALSE
      OBVIOUS
    <3>1. found[1] = air[j].start /\ air[j].kind = "frame"
      BY <1>1 DEF Taken, Intact
    <3>2. OnTime(found[1], j)
      BY <1>2, <3>1, RxStreamAssumption DEF OnTime
    <3>3. NOTHING = air[j].symbols
      BY <1>7, <3>1, <3>2 DEF HeaderDecodes
    <3>4. air[j].symbols \in Nat
      BY <1>1, FrameEnds, SymbolsLength
    <3> QED
      BY <3>3, <3>4, RxStreamAssumption
  <2>2. PICK further \in Int : further = found[1] + 1
    BY <1>1
  <2>3. ASSUME NEW i \in Items, air[i].start < further, Intact(i, swallowed)
        PROVE  EndOf(air[i]) <= further /\ \E k \in 1 .. Len(returned) : returned[k] = i
    <3>1. air[i].start \in Nat /\ EndOf(air[i]) \in Nat /\ i \in Int /\ j \in Int
      BY <1>1, FrameEnds DEF Items
    <3>2. CASE air[i].start < lo
      <4>1. EndOf(air[i]) <= lo /\ \E k \in 1 .. Len(returned) : returned[k] = i
        BY <1>1, <2>3, <3>2 DEF CutBehind
      <4> QED
        BY <1>1, <2>2, <3>1, <4>1
    <3>3. CASE air[i].start >= lo
      <4>1. i >= j
        BY <1>1, <3>3 DEF Taken
      <4>2. j < i => air[j].start + FrameSpan(air[j].symbols) <= air[i].start
        BY <1>1, InStartOrder
      <4>3. ~ j < i
        <5>0. /\ HalfLen \in Nat /\ FftSize \in Nat
              /\ found[1] \in Int /\ found[1] < air[j].start + HalfLen
          BY <1>1, StreamLengths
        <5> HIDE DEF j
        <5>1. further <= air[j].start + HalfLen
          BY ONLY <1>2, <2>2, <5>0
        <5>2. further <= air[j].start + FrameSpan(air[j].symbols)
          BY ONLY <1>2, <2>2, <5>0, <5>1
        <5> QED
          BY <1>2, <2>3, <3>1, <4>2, <5>2
      <4>4. i = j
        BY <3>1, <4>1, <4>3
      <4> QED
        BY <2>1, <2>3, <4>4
    <3> QED
      BY <1>1, <3>1, <3>2, <3>3
  <2>4. CutBehind(returned, further, swallowed)
    BY <2>3 DEF CutBehind
  <2>5. AllDue(further, hi, c)
    BY <1>1, <1>4, <2>2
  <2> QED
    BY <1>1, <1>7, <2>2, <2>4, <2>5, SeekingAgain
<1> QED
  BY <1>5, <1>6, <1>7 DEF HeaderStage

LEMMA TrimmedKeepsUp ==
    ASSUME KeepsUp, AirInv, NEW c \in Chunks, NEW hi \in Nat, NEW now \in Nat,
           hi = now + c, NEW b \in Chunks \cup {0}, NEW from \in Int, NEW lo,
           lo = Trimmed(from, hi, c),
           CutBehind(returned, from, swallowed), AllDue(from, now, b)
    PROVE  /\ lo \in Int /\ from <= lo
           /\ CutBehind(returned, lo, swallowed) /\ AllDue(lo, now, b)
<1>1. c \in Nat /\ Searched(c) \in Nat /\ Searched(0) \in Nat
      /\ Searched(c) = Searched(0) + c
  <2>1. c \in Nat
    BY RxStreamAssumption
  <2>2. Searched(c) \in Nat /\ Searched(0) \in Nat
    BY <2>1, SearchedLength
  <2>3. PICK w : w = StreamSearchWindowSymbols * FftSize
    OBVIOUS
  <2>4. w \in Nat
    BY <2>3, RxStreamAssumption, StreamLengths
  <2>5. Searched(c) = w + c /\ Searched(0) = w + 0
    BY <2>3 DEF Searched
  <2> QED
    BY <2>1, <2>2, <2>4, <2>5
<1>2. lo = IF hi - from > Searched(c) THEN hi - Searched(c) ELSE from
  BY DEF Trimmed
<1>3. lo \in Int /\ from <= lo /\ (lo = from \/ lo = now - Searched(0))
  BY <1>1, <1>2
<1>4. ASSUME NEW i \in Items, air[i].start < lo
      PROVE  air[i].start < from
  <2>1. air[i].start \in Nat
    BY FrameEnds DEF KeepsUp
  <2>2. air[i].start >= from => now <= air[i].start + Searched(0)
    BY DueBounds DEF AllDue
  <2> QED
    BY <1>1, <1>3, <1>4, <2>1, <2>2
<1>5. CutBehind(returned, lo, swallowed)
  <2> SUFFICES ASSUME NEW i \in Items, air[i].start < lo, Intact(i, swallowed)
               PROVE  /\ EndOf(air[i]) <= lo
                      /\ \E k \in 1 .. Len(returned) : returned[k] = i
    BY DEF CutBehind
  <2>1. /\ EndOf(air[i]) <= from
        /\ \E k \in 1 .. Len(returned) : returned[k] = i
    BY <1>4 DEF CutBehind
  <2>2. EndOf(air[i]) \in Int
    BY FrameEnds DEF KeepsUp
  <2> QED
    BY <1>3, <2>1, <2>2
<1>6. AllDue(lo, now, b)
  <2> SUFFICES ASSUME NEW i \in Items, air[i].start >= lo PROVE air[i].start >= from
    BY DEF AllDue
  <2>1. air[i].start \in Nat
    BY FrameEnds DEF KeepsUp
  <2> QED
    BY <1>3, <2>1
<1> QED
  BY <1>3, <1>5, <1>6

\* An accepted start is the first preamble in the buffer, or in what is not intact.
LEMMA AcceptedTaken ==
    ASSUME KeepsUp, AirInv, NEW c \in Chunks, NEW hi \in Nat, NEW now \in Nat,
           hi = now + c, NEW b \in Chunks \cup {0}, NEW lo \in Int,
           CutBehind(returned, lo, swallowed), AllDue(lo, now, b),
           NEW found \in Peaks(lo, hi), Accepted(found, hi)
    PROVE  /\ Taken(found, lo, swallowed)
           /\ \A i \in Items : air[i].start >= lo /\ i # found[2] => Due(i, hi, c)
<1> DEFINE j == found[2]
<1>1. NoLookalikes
  BY DEF KeepsUp
<1>2. /\ j \in Items /\ found[1] \in Int /\ lo <= found[1]
      /\ air[j].start - HalfLen < found[1] /\ found[1] < air[j].start + HalfLen
  <2>1. Located(found, lo)
    BY PeaksLocated
  <2> QED
    BY <2>1 DEF Located
<1>3. found[1] + FftSize + HalfLen <= hi
  BY DEF Accepted
<1>4. /\ air[j].start \in Nat /\ EndOf(air[j]) \in Nat
      /\ FrameSpan(air[j].symbols) \in Nat
      /\ FrameSpan(air[j].symbols) >= FftSize + HalfLen
      /\ EndOf(air[j]) = air[j].start + FrameSpan(air[j].symbols)
  BY <1>1, <1>2, FrameEnds, HeaderLength, StreamLengths
<1>5. c \in Nat
  BY RxStreamAssumption
<1>6. CASE air[j].start >= lo
  <2>1. InView(j, lo, hi)
    BY <1>2, <1>3, <1>4, <1>6, StreamLengths DEF InView
  <2>2. found[1] = air[j].start
    BY <1>1, <1>2, <2>1, PeaksExact
  <2>3. now < air[j].start + FrameSpan(air[j].symbols)
    BY <1>2, <1>6, DueBounds DEF AllDue
  <2>5. ASSUME NEW i \in Items, air[i].start >= lo
        PROVE  i >= j
    <3>1. Due(i, now, b)
      BY <2>5 DEF AllDue
    <3>2. i < j => now + c < air[j].start + FftSize
      <4> HIDE DEF j
      <4> QED
        BY <1>2, <3>1, OneInView
    <3>3. air[j].start + FftSize <= hi
      BY <2>1 DEF InView
    <3> QED
      <4>1. i \in Int /\ j \in Int
        BY <1>2 DEF Items
      <4>2. FftSize \in Nat
        BY StreamLengths
      <4> HIDE DEF j
      <4> QED
        BY ONLY <1>4, <1>5, <3>2, <3>3, <4>1, <4>2, hi = now + c, now \in Nat
  <2>6. ASSUME NEW i \in Items, air[i].start >= lo, i # j
        PROVE  Due(i, hi, c)
    <3>1. j < i
      BY <1>2, <2>5, <2>6 DEF Items
    <3>2. air[j].start + FrameSpan(air[j].symbols) <= air[i].start
      BY <1>1, <1>2, <3>1, InStartOrder
    <3>3. air[i].start \in Nat
      BY <1>1, FrameEnds
    <3>4. hi < air[i].start + c
      BY <1>4, <1>5, <2>3, <3>2, <3>3
    <3> QED
      BY <3>4 DEF Due
  <2> QED
    BY <2>2, <2>5, <2>6 DEF Taken
<1>7. CASE air[j].start < lo
  <2>1. ~ EndOf(air[j]) <= lo
    BY <1>2, <1>4, StreamLengths
  <2>2. ~ Intact(j, swallowed)
    BY <1>2, <1>7, <2>1 DEF CutBehind
  <2>3. found[1] # air[j].start
    BY <1>2, <1>4, <1>7
  <2>4. ASSUME NEW i \in Items, air[i].start >= lo
        PROVE  i >= j /\ Due(i, hi, c)
    <3>1. air[i].start \in Nat
      BY <1>1, FrameEnds
    <3>2. j < i
      BY <1>1, <1>2, <1>4, <1>7, <2>4, <3>1, InStartOrder
    <3>3. ~ InView(i, lo, hi)
      BY <1>1, <2>3, PeaksExact
    <3>4. hi < air[i].start + FftSize + HalfLen
      BY <2>4, <3>1, <3>3, StreamLengths DEF InView
    <3> QED
      BY <1>2, <3>2, <3>4 DEF Due, Items
  <2> QED
    BY <1>7, <2>2, <2>3, <2>4 DEF Taken
<1> QED
  BY <1>4, <1>6, <1>7

\* When no start is accepted, no preamble has been whole for long.
LEMMA NoneAccepted ==
    ASSUME KeepsUp, AirInv, NEW c \in Chunks, NEW hi \in Nat, NEW now \in Nat,
           hi = now + c, NEW b \in Chunks \cup {0}, NEW lo \in Int,
           AllDue(lo, now, b),
           \/ Peaks(lo, hi) = {}
           \/ \E found \in Peaks(lo, hi) : ~ Accepted(found, hi)
    PROVE  AllDue(lo, hi, c)
<1> SUFFICES ASSUME NEW i \in Items, air[i].start >= lo,
                    ~ hi < air[i].start + FftSize + HalfLen
             PROVE  FALSE
  BY DEF AllDue, Due
<1>1. NoLookalikes
  BY DEF KeepsUp
<1>2. air[i].start \in Nat
  BY <1>1, FrameEnds
<1>3. InView(i, lo, hi)
  BY <1>2, StreamLengths DEF InView
<1>4. PICK found \in Peaks(lo, hi) : ~ Accepted(found, hi)
  BY <1>1, <1>3, InViewPeaks
<1> DEFINE j == found[2]
<1>5. found[1] = air[j].start
  BY <1>1, <1>3, PeaksExact
<1>6. found \in Candidates(lo, hi) /\ j \in Items /\ found[1] + FftSize <= hi
  BY PeaksAre, PeaksLocated DEF Located
<1>7. air[j].start \in Nat
  BY <1>1, <1>6, FrameEnds
<1>8. ~ i < j
  <2>1. Due(i, now, b)
    BY DEF AllDue
  <2>2. i < j => now + c < air[j].start + FftSize
    BY <1>6, <2>1, OneInView
  <2>3. c \in Nat
    BY RxStreamAssumption
  <2> QED
    BY <1>5, <1>6, <1>7, <2>2, <2>3, StreamLengths
<1>9. air[j].start <= air[i].start
  BY <1>1, <1>2, <1>6, <1>7, <1>8, InStartOrder
<1>10. found[1] + FftSize + HalfLen <= hi
  BY <1>2, <1>5, <1>7, <1>9, StreamLengths
<1>11. OverThreshold(found)
  <2>1. found = <<air[j].start, j>>
    BY <1>5, <1>6, CandidatesAre
  <2>2. lo <= found[1]
    BY <1>6, CandidatesAre
  <2>3. InView(j, lo, hi)
    BY <1>5, <1>6, <2>2 DEF InView
  <2>4. Score(found).matched = FftSize /\ Score(found).energy \in Nat
        /\ Score(found).energy <= FftSize
    BY <1>1, <1>6, <2>1, <2>3, InViewCandidate
  <2>5. PICK e \in Nat : e = Score(found).energy /\ e <= FftSize
    BY <2>4
  <2>6. SyncPercent \in Nat /\ SyncPercent <= 100
    BY RxStreamAssumption DEF KeepsUp, ThresholdReached
  <2>7. SyncPercent * e <= 100 * e
    BY <2>5, <2>6, Z3
  <2>8. 100 * e <= 100 * FftSize
    BY <2>5, StreamLengths
  <2>9. SyncPercent * e \in Nat
    BY <2>5, <2>6
  <2> QED
    BY <2>4, <2>5, <2>7, <2>8, <2>9, StreamLengths DEF OverThreshold
<1> QED
  BY <1>4, <1>10, <1>11 DEF Accepted

LEMMA SeekingStageKeepsUp ==
    ASSUME KeepsUp, StreamInv, KeepInv, streamState = "SEEKING", Len(air) = MaxItems,
           NEW c \in Chunks, NEW hi \in Nat, hi = fed + c, NEW lo,
           lo = Trimmed(bufStart, hi, c),
           fed' = hi, chunk' = c, air' = air,
           SeekingStage(lo, hi)
    PROVE  KeepInv'
<1>1. /\ AirInv /\ bufStart \in Int /\ fed \in Nat /\ Behind(returned, bufStart)
      /\ chunk \in Chunks \cup {0}
      /\ CutBehind(returned, bufStart, swallowed) /\ AllDue(bufStart, fed, chunk)
  BY DEF StreamInv, KeepInv
<1>2. PICK b \in Chunks \cup {0} : b = chunk
  BY <1>1
<1>3. PICK now \in Nat : now = fed
  BY <1>1
<1>4. PICK from \in Int : from = bufStart
  BY <1>1
<1>5. /\ lo \in Int /\ from <= lo
      /\ CutBehind(returned, lo, swallowed) /\ AllDue(lo, now, b)
  BY <1>1, <1>2, <1>3, <1>4, TrimmedKeepsUp
<1>6. CASE /\ KeepSeeking(lo) /\ returned' = returned /\ swallowed' = swallowed
           /\ AllDue(lo, hi, c)
  BY <1>5, <1>6, SeekingAgain
<1>7. CASE Peaks(lo, hi) = {}
  <2>1. AllDue(lo, hi, c)
    BY <1>1, <1>3, <1>5, <1>7, NoneAccepted
  <2> QED
    BY <1>6, <1>7, <2>1 DEF SeekingStage
<1>8. ASSUME NEW found \in Peaks(lo, hi), ~ Accepted(found, hi),
             KeepSeeking(lo), returned' = returned, swallowed' = swallowed
      PROVE  KeepInv'
  <2>1. AllDue(lo, hi, c)
    BY <1>1, <1>3, <1>5, <1>8, NoneAccepted
  <2> QED
    BY <1>6, <1>8, <2>1
<1>9. ASSUME NEW found \in Peaks(lo, hi), Accepted(found, hi),
             HeaderStage(lo, found, hi)
      PROVE  KeepInv'
  <2>1. /\ Taken(found, lo, swallowed)
        /\ \A i \in Items : air[i].start >= lo /\ i # found[2] => Due(i, hi, c)
    BY <1>1, <1>3, <1>5, <1>9, AcceptedTaken
  <2>2. Located(found, lo) /\ found[1] + FftSize <= hi /\ found[1] \in Int
    BY <1>1, <1>5, <1>9, PeaksLocated DEF Located
  <2>3. Behind(returned, lo)
    BY <1>1, <1>4, <1>5, BehindFurther
  <2>4. Near(found, lo)
    <3>1. c \in Nat /\ Searched(c) \in Nat
      BY RxStreamAssumption, SearchedLength
    <3>2. hi - lo <= Searched(c)
      BY <1>1, <3>1 DEF Trimmed
    <3>3. found[1] - lo <= Searched(c)
      <4>1. FftSize \in Nat /\ lo \in Int /\ found[1] \in Int /\ found[1] + FftSize <= hi
        BY <1>5, <2>2, StreamLengths
      <4> QED
        BY ONLY <3>1, <3>2, <4>1, hi \in Nat
    <3> QED
      BY <3>3 DEF Near
  <2>5. KeepStage(lo, found, hi, c)
    BY <1>1, <1>5, <2>1, <2>2, <2>3, <2>4 DEF KeepStage, StageOf
  <2> QED
    BY <1>9, <2>1, <2>5, HeaderStageKeepsUp
<1> QED
  BY <1>7, <1>8, <1>9 DEF SeekingStage

LEMMA RxStreamingKeepsUp ==
    ASSUME KeepsUp, StreamInv, KeepInv, NEW c \in Chunks, RxStreaming(c)
    PROVE  KeepInv'
<1>1. /\ fed \in Nat /\ bufStart \in Int /\ AirInv /\ Behind(returned, bufStart)
      /\ c \in Nat
  BY RxStreamAssumption DEF StreamInv
<1>2. fed' = fed + c /\ chunk' = c /\ air' = air /\ Len(air) = MaxItems
  BY DEF RxStreaming
<1>3. PICK hi \in Nat : hi = fed + c /\ fed' = hi /\ fed = hi - c
  BY <1>1, <1>2
<1>4. CASE streamState = "SEEKING"
  <2>1. SeekingStage(Trimmed(bufStart, hi, c), hi)
    BY <1>3, <1>4 DEF RxStreaming
  <2>2. PICK lo : lo = Trimmed(bufStart, hi, c)
    OBVIOUS
  <2>3. SeekingStage(lo, hi)
    BY <2>1, <2>2
  <2> QED
    BY <1>2, <1>3, <1>4, <2>2, <2>3, SeekingStageKeepsUp
<1>5. CASE streamState # "SEEKING"
  <2> DEFINE d == frameStart[1]
             j == frameStart[2]
  <2>1. /\ WaitingInv /\ CutBehind(returned, bufStart, swallowed)
        /\ Taken(frameStart, bufStart, swallowed)
        /\ streamState = "WAITING_PAYLOAD" => Claimed(frameStart, streamHeader, swallowed)
    BY <1>5 DEF StreamInv, KeepInv
  <2>2. StageOf(bufStart, frameStart, hi, c)
    BY <1>1, <1>2, <1>3, <2>1 DEF StageOf, WaitingInv
  <2>3. j \in Items /\ d \in Int /\ bufStart <= d /\ d < air[j].start + HalfLen
    BY <2>1 DEF WaitingInv, Located
  <2>4. KeepStage(bufStart, frameStart, hi, c)
    BY <1>2, <2>1, <2>2 DEF KeepStage
  <2>5. CASE streamState = "WAITING_HEADER"
    <3>1. HeaderStage(bufStart, frameStart, hi)
      BY <1>3, <2>5 DEF RxStreaming
    <3>2. hi - c < d + HeaderSpan
      BY <1>3, <2>1, <2>5 DEF WaitingInv
    <3>3. /\ air[j].start \in Nat /\ FrameSpan(air[j].symbols) \in Nat
          /\ FrameSpan(air[j].symbols) >= HeaderSpan + HalfLen
      BY <1>1, <2>3, FrameEnds, FrameLongerThanHeader DEF KeepsUp
    <3>4. hi - c < air[j].start + FrameSpan(air[j].symbols)
      BY <1>1, <2>3, <3>2, <3>3, StreamLengths
    <3>5. ASSUME NEW i \in Items, air[i].start >= bufStart, i # j
          PROVE  Due(i, hi, c)
      <4>1. j < i
        BY <2>1, <2>3, <3>5 DEF Taken, Items
      <4>2. air[j].start + FrameSpan(air[j].symbols) <= air[i].start
        BY <1>1, <2>3, <4>1, InStartOrder DEF KeepsUp
      <4>3. air[i].start \in Nat
        BY <1>1, FrameEnds DEF KeepsUp
      <4>4. hi < air[i].start + c
        BY <1>1, <3>3, <3>4, <4>2, <4>3
      <4> QED
        BY <4>4 DEF Due
    <3> QED
      BY <2>4, <3>1, <3>5, HeaderStageKeepsUp
  <2>6. CASE streamState = "WAITING_PAYLOAD"
    <3>1. PayloadStage(bufStart, frameStart, streamHeader, hi) /\ swallowed' = swallowed
      BY <1>3, <2>6 DEF RxStreaming
    <3>2. streamHeader \in 0 .. MaxPayloadSymbols /\ hi - c < d + FrameSpan(streamHeader)
      BY <1>3, <2>1, <2>6 DEF WaitingInv
    <3>3. AllDue(d + FrameSpan(streamHeader), hi, c)
      <4>1. PICK end \in Int : end = d + FrameSpan(streamHeader)
        BY <2>3, <3>2, FramesInLength, FrameLength
      <4> SUFFICES ASSUME NEW i \in Items, air[i].start >= end PROVE hi < air[i].start + c
        BY <4>1 DEF AllDue, Due
      <4>2. air[i].start \in Nat
        BY <1>1, FrameEnds DEF KeepsUp
      <4> QED
        BY <1>1, <3>2, <4>1, <4>2
    <3> QED
      BY <2>1, <2>4, <2>6, <3>1, <3>2, <3>3, PayloadStageKeepsUp
  <2> QED
    BY <2>1, <2>5, <2>6 DEF WaitingInv
<1> QED
  BY <1>4, <1>5

LEMMA PutOnAirKeepsUp ==
    ASSUME KeepsUp, StreamInv', KeepInv, NEW kind, NEW symbols, NEW gap,
           PutOnAir(kind, symbols, gap)
    PROVE  KeepInv'
<1>1. /\ UNCHANGED <<fed, chunk, streamState, bufStart, frameStart, returned>>
      /\ Len(air) < MaxItems
  BY DEF PutOnAir
<1>2. /\ streamState = "SEEKING" /\ fed = 0 /\ bufStart = 0
      /\ frameStart = NOTHING /\ chunk \in Chunks \cup {0}
  BY <1>1 DEF KeepInv
<1>3. ASSUME NEW i \in Items'
      PROVE  air'[i].start \in Nat
  <2>1. air' \in Seq(Item) /\ i \in 1 .. Len(air')
    BY DEF StreamInv, AirInv, Items
  <2>2. air'[i] \in Item
    BY <2>1
  <2> QED
    BY <2>2 DEF Item
<1>4. CutBehind(returned, bufStart, swallowed)'
  <2> SUFFICES ASSUME NEW i \in Items' PROVE ~ air'[i].start < 0
    BY <1>1, <1>2 DEF CutBehind
  <2> QED
    BY <1>3
<1>5. AllDue(bufStart, fed, chunk)'
  <2> SUFFICES ASSUME NEW i \in Items' PROVE 0 < air'[i].start + FftSize + HalfLen
    BY <1>1, <1>2 DEF AllDue, Due
  <2> QED
    BY <1>3, StreamLengths
<1> QED
  BY <1>1, <1>2, <1>4, <1>5 DEF KeepInv

LEMMA KeepInvHolds ==
    ASSUME KeepsUp
    PROVE  StreamSpec => [](StreamInv /\ KeepInv)
<1>1. StreamInit => KeepInv
  BY DEF StreamInit, KeepInv, CutBehind, AllDue, Items
<1>2. StreamInv /\ StreamInv' /\ KeepInv /\ [StreamNext]_streamVars => KeepInv'
  <2> SUFFICES ASSUME StreamInv, StreamInv', KeepInv, [StreamNext]_streamVars
               PROVE  KeepInv'
    OBVIOUS
  <2>1. CASE UNCHANGED streamVars
    BY <2>1 DEF streamVars, KeepInv, CutBehind, Intact, AllDue, Due, Taken, Claimed,
         Items, EndOf, Span, FrameSpan, HeaderSpan, SlotLen
  <2>2. ASSUME NEW kind \in Kinds, NEW symbols \in PayloadSymbols, NEW gap \in Gaps,
               PutOnAir(kind, symbols, gap)
        PROVE  KeepInv'
    BY <2>2, PutOnAirKeepsUp
  <2>3. ASSUME NEW c \in Chunks, RxStreaming(c) PROVE KeepInv'
    BY <2>3, RxStreamingKeepsUp
  <2> QED
    BY <2>1, <2>2, <2>3 DEF StreamNext
<1> QED
  BY <1>1, <1>2, StreamInvHolds, PTL DEF StreamSpec

\* What has not been returned, and is intact, is not cut off.
LEMMA OutstandingUncut ==
    ASSUME KeepInv, StreamInv, NEW i \in Outstanding
    PROVE  i \in Items /\ Intact(i, swallowed) /\ bufStart <= air[i].start
<1>1. i \in Items /\ Intact(i, swallowed)
      /\ \A k \in DOMAIN returned : returned[k] # i
  BY DEF Outstanding, Intact
<1>2. returned \in Seq(Items) /\ bufStart \in Int /\ air[i] \in Item
  BY <1>1 DEF StreamInv, Behind, AirInv, Items
<1>3. ~ \E k \in 1 .. Len(returned) : returned[k] = i
  BY <1>1, <1>2
<1>4. ~ air[i].start < bufStart
  BY <1>1, <1>3 DEF KeepInv, CutBehind
<1>5. air[i].start \in Nat
  BY <1>2, ItemLength
<1> QED
  BY <1>1, <1>2, <1>4, <1>5

(* However the stream is cut, and whatever a damaged header announces, the  *)
(* preamble of a frame that it does not claim never leaves the buffer       *)
(* before the frame has been returned, and rx_streaming starts it where it  *)
(* begins.                                                                  *)
THEOREM LosesNoFrame ==
    ASSUME KeepsUp
    PROVE  StreamSpec => []NoFrameLost
<1>1. StreamInv /\ KeepInv => NoFrameLost
  <2> SUFFICES ASSUME StreamInv, KeepInv, NEW i \in Outstanding
               PROVE  /\ bufStart <= air[i].start
                      /\ frameStart # NOTHING /\ frameStart[2] = i =>
                           OnTime(frameStart[1], i)
    BY DEF NoFrameLost
  <2>1. i \in Items /\ Intact(i, swallowed) /\ bufStart <= air[i].start
    BY OutstandingUncut
  <2>2. ASSUME frameStart # NOTHING, frameStart[2] = i
        PROVE  OnTime(frameStart[1], i)
    <3>1. Taken(frameStart, bufStart, swallowed)
      BY <2>2 DEF KeepInv
    <3>2. frameStart[1] = air[i].start
      BY <2>1, <2>2, <3>1 DEF Taken
    <3>3. air[i].start \in Nat
      BY <2>1, FrameEnds DEF KeepsUp, StreamInv
    <3> QED
      BY <3>2, <3>3, RxStreamAssumption DEF OnTime
  <2> QED
    BY <2>1, <2>2
<1> QED
  BY <1>1, KeepInvHolds, PTL

(* A frame waits for one call more than the one that brought its last       *)
(* sample, at most, whatever failed before it: unless a wrong header has    *)
(* claimed it.                                                              *)
THEOREM ReturnsPromptly ==
    ASSUME KeepsUp
    PROVE  StreamSpec => []Prompt
<1>1. StreamInv /\ KeepInv => Prompt
  <2> SUFFICES ASSUME StreamInv, KeepInv, NEW i \in Outstanding
               PROVE  fed - chunk < EndOf(air[i])
    BY DEF Prompt
  <2>1. i \in Items /\ Intact(i, swallowed) /\ bufStart <= air[i].start
    BY OutstandingUncut
  <2>2. /\ AirInv /\ fed \in Nat /\ chunk \in Nat /\ bufStart \in Int /\ NoLookalikes
    BY DEF StreamInv, KeepsUp
  <2>3. /\ air[i].start \in Nat /\ EndOf(air[i]) \in Nat
        /\ EndOf(air[i]) = air[i].start + FrameSpan(air[i].symbols)
        /\ FrameSpan(air[i].symbols) \in Nat
        /\ FrameSpan(air[i].symbols) >= FftSize + HalfLen
    BY <2>1, <2>2, FrameEnds, HeaderLength, StreamLengths
  <2>4. CASE streamState = "SEEKING"
    <3>1. fed < air[i].start + FftSize + HalfLen \/ fed < air[i].start + chunk
      BY <2>1, <2>2, <2>3, <2>4 DEF KeepInv, AllDue, Due
    <3> QED
      BY <2>2, <2>3, <3>1, StreamLengths
  <2>5. CASE streamState # "SEEKING"
    <3> DEFINE d == frameStart[1]
               j == frameStart[2]
    <3>1. /\ WaitingInv /\ Taken(frameStart, bufStart, swallowed)
          /\ streamState = "WAITING_PAYLOAD" =>
               Claimed(frameStart, streamHeader, swallowed)
      BY <2>5 DEF StreamInv, KeepInv
    <3>2. j \in Items /\ d \in Int /\ d < air[j].start + HalfLen
      BY <3>1 DEF WaitingInv, Located
    <3>3. /\ air[j].start \in Nat /\ FrameSpan(air[j].symbols) \in Nat
          /\ FrameSpan(air[j].symbols) >= HeaderSpan + HalfLen
      BY <2>2, <3>2, FrameEnds, FrameLongerThanHeader
    <3>4. i >= j /\ i \in Int /\ j \in Int
      BY <2>1, <2>2, <2>3, <3>1, <3>2 DEF Taken, Items
    <3>5. ASSUME streamState = "WAITING_HEADER" PROVE fed < EndOf(air[i])
      <4>1. fed < air[j].start + FrameSpan(air[j].symbols)
        <5>1. fed < d + HeaderSpan
          BY <3>1, <3>5 DEF WaitingInv
        <5> QED
          BY <2>2, <3>2, <3>3, <5>1, StreamLengths
      <4>2. j < i => air[j].start + FrameSpan(air[j].symbols) <= air[i].start
        BY <2>1, <2>2, <3>2, InStartOrder
      <4>3. CASE i = j
        BY <2>3, <4>1, <4>3
      <4>4. CASE j < i
        BY <2>2, <2>3, <3>3, <4>1, <4>2, <4>4
      <4> QED
        BY <3>4, <4>3, <4>4
    <3>6. ASSUME streamState = "WAITING_PAYLOAD" PROVE fed < EndOf(air[i])
      <4>1. PICK end \in Int : end = d + FrameSpan(streamHeader) /\ fed < end
        <5>1. streamHeader \in 0 .. MaxPayloadSymbols /\ fed < d + FrameSpan(streamHeader)
          BY <3>1, <3>6 DEF WaitingInv
        <5> QED
          BY <3>2, <5>1, FramesInLength, FrameLength
      <4>2. CASE i = j
        <5>1. d = air[i].start /\ streamHeader = air[i].symbols
          BY <2>1, <3>1, <3>6, <4>2 DEF Claimed
        <5> QED
          BY <2>3, <4>1, <5>1
      <4>3. CASE j < i
        <5>1. end <= air[i].start
          BY <2>1, <3>1, <3>6, <4>1, <4>3 DEF Claimed, Intact
        <5> QED
          BY <2>2, <2>3, <4>1, <5>1
      <4> QED
        BY <3>4, <4>2, <4>3
    <3>7. fed < EndOf(air[i])
      BY <3>1, <3>5, <3>6 DEF WaitingInv
    <3> QED
      BY <2>2, <2>3, <3>7
  <2> QED
    BY <2>4, <2>5
<1> QED
  BY <1>1, KeepInvHolds, PTL
=============================================================================
