------------------------------- MODULE TuiUnit -------------------------------
(***************************************************************************)
(* The threads of one dashboard unit (examples/drone_tui/air_unit.py and   *)
(* ground_unit.py) around its one Mac, its one socket and its push_lock,   *)
(* which is re-entrant:                                                    *)
(*   main      the curses loop: a line is sent or is a /traffic command    *)
(*   traffic   the synthetic load of traffic.py, started and stopped       *)
(*   receiver  binds, reports, and the modem change a report asks for      *)
(*   reporter  a LINK_QUALITY frame every interval                         *)
(*   watchdog  unbinds a silent link; the ground unit's binds again        *)
(* A step is what a thread does between two accesses of what they share.   *)
(* The peer is open: it may send anything at any time, but it answers a    *)
(* bind request as evaluate_bind_request does.  What the link loses, and   *)
(* the counting of missed reports, are module DroneLink's.                 *)
(***************************************************************************)
EXTENDS Naturals, FiniteSets

CONSTANTS
  Sides,          \* which unit: air, ground
  Burst,          \* sends per frame: chunks on ZeroMQ, one burst on a Pluto
  TopLevel,       \* the modems are 0 .. TopLevel; a higher one carries more
  PdusAt,         \* PDUs of a payload when cut for a modem
  Adaptive,       \* --adaptive-mcs
  PeerLevel       \* the modem the peer transmits with

Levels == 0 .. TopLevel

ASSUME TuiAssumption ==
  /\ Sides \subseteq {"air", "ground"}
  /\ Burst \in Nat \ {0}
  /\ TopLevel \in Nat /\ PeerLevel \in Levels
  /\ PdusAt \in [Levels -> Nat \ {0}]
  /\ Adaptive \in BOOLEAN

VARIABLES
  side,           \* which unit this process is
  bound, event,   \* mac.bound, bound_event.is_set()
  lock,           \* push_lock: holder, depth
  modem,          \* of mac.ofdm
  segmenter,      \* the modem the segmenter's max_segment_bits is for
  pc,             \* where each thread is
  job,            \* what each thread has to encode and push
  stop,           \* TrafficGenerator._stop_event
  asked,          \* what the bind request the peer has to answer announces
  refused         \* the last answer was a refusal

shared == << bound, event, modem, segmenter >>
vars == << side, shared, lock, pc, job, stop, asked, refused >>

Threads == {"main", "traffic", "receiver", "reporter", "watchdog"}

NoThread == "none"
NotAsked == TopLevel + 1

\* pdus to encode, frames encoded and not pushed, chunks left of the one being
\* pushed; kind; the modem the PDUs were cut for, or that a request announces.
Job(kind, level) == [pdus |-> 0, frames |-> 0, left |-> 0, kind |-> kind, level |-> level]

NoJob == Job("none", 0)

Goto(t, place) == pc' = [pc EXCEPT ![t] = place]

-----------------------------------------------------------------------------
(* One frame or more through the lock, the encoder and the socket.         *)

Wants(t, kind, level) ==
  /\ Goto(t, "wanting")
  /\ job' = [job EXCEPT ![t] = Job(kind, level)]

Free(t) == lock.holder \in {NoThread, t}

Taken(t) == [holder |-> t, depth |-> lock.depth + 1]

Released ==
  IF lock.depth = 1 THEN [holder |-> NoThread, depth |-> 0] ELSE [lock EXCEPT !.depth = @ - 1]

AcquireForDataOnly(t) ==                                        \* mutant
  /\ pc[t] = "wanting"
  /\ job[t].kind = "data" => Free(t)
  /\ lock' = IF Free(t) THEN Taken(t) ELSE lock
  /\ Goto(t, IF job[t].kind = "switch" THEN "reconfiguring" ELSE "locked")
  /\ UNCHANGED << side, shared, job, stop, asked, refused >>

\* with push_lock:
Acquire(t) ==
  /\ pc[t] = "wanting"
  /\ Free(t)
  /\ lock' = Taken(t)
  /\ Goto(t, IF job[t].kind = "switch" THEN "reconfiguring" ELSE "locked")
  /\ UNCHANGED << side, shared, job, stop, asked, refused >>

\* Mac.send_iq cuts the payload for the segmenter as it is; a control PDU is one.
Segment(t) ==
  /\ pc[t] = "locked"
  /\ job[t].kind = "data" => bound
  /\ job' = [job EXCEPT ![t] =
       IF @.kind = "data" THEN [@ EXCEPT !.pdus = PdusAt[segmenter], !.level = segmenter]
       ELSE [@ EXCEPT !.pdus = 1]]
  /\ Goto(t, "encoding")
  /\ UNCHANGED << side, shared, lock, stop, asked, refused >>

\* ... and raises when the unit is no longer bound: nobody catches it.  In the
\* curses loop that ends the process, and its daemon threads.
Raise(t) ==
  /\ pc[t] = "locked" /\ job[t].kind = "data" /\ ~bound
  /\ lock' = Released
  /\ pc' = [u \in Threads |-> IF u = t \/ t = "main" THEN "dead" ELSE pc[u]]
  /\ job' = [job EXCEPT ![t] = NoJob]
  /\ UNCHANGED << side, shared, stop, asked, refused >>

\* generate_frame is over for one PDU.
Encode(t) ==
  /\ pc[t] = "encoding"
  /\ job' = [job EXCEPT ![t].pdus = @ - 1, ![t].frames = @ + 1]
  /\ Goto(t, IF job[t].pdus = 1 THEN "framed" ELSE "encoding")
  /\ UNCHANGED << side, shared, lock, stop, asked, refused >>

\* _send_chunks takes the lock again.
EnterSend(t) ==
  /\ pc[t] = "framed"
  /\ Free(t)
  /\ lock' = Taken(t)
  /\ job' = [job EXCEPT ![t].left = Burst]
  /\ Goto(t, "pushing")
  /\ UNCHANGED << side, shared, stop, asked, refused >>

PushChunk(t) ==
  /\ pc[t] = "pushing" /\ job[t].left > 0
  /\ job' = [job EXCEPT ![t].left = @ - 1]
  /\ asked' = IF job[t].kind = "request" /\ job[t].left = 1 THEN job[t].level ELSE asked
  /\ UNCHANGED << side, shared, lock, pc, stop, refused >>

LeaveSend(t) ==
  /\ pc[t] = "pushing" /\ job[t].left = 0
  /\ lock' = Released
  /\ job' = [job EXCEPT ![t].frames = @ - 1]
  /\ Goto(t, IF job[t].frames = 1 THEN "pushed" ELSE "framed")
  /\ UNCHANGED << side, shared, stop, asked, refused >>

\* Where a thread goes on.
Home(t) ==
  CASE t = "traffic" -> "looping"
    [] t = "receiver" -> "handled"
    [] t = "watchdog" -> "watching"
    [] OTHER -> "idle"

Unlock(t) ==
  /\ pc[t] = "pushed"
  /\ lock' = Released
  /\ job' = [job EXCEPT ![t] = NoJob]
  /\ Goto(t, Home(t))
  /\ UNCHANGED << side, shared, stop, asked, refused >>

Send(t) ==
  Segment(t) \/ Raise(t) \/ Encode(t) \/ EnterSend(t) \/ PushChunk(t) \/ LeaveSend(t) \/ Unlock(t)

-----------------------------------------------------------------------------
(* main: the line typed                                                    *)

Running == pc["traffic"] \notin {"none", "dead"}

\* The ground unit asks for its first bind before the dashboard runs.
FirstBind ==
  /\ pc["main"] = "binding"
  /\ Wants("main", "request", segmenter)
  /\ UNCHANGED << side, shared, lock, stop, asked, refused >>

Type ==
  /\ pc["main"] = "idle" /\ event
  /\ Wants("main", "data", 0)
  /\ UNCHANGED << side, shared, lock, stop, asked, refused >>

StartTrafficAnew ==                                             \* mutant
  /\ pc["main"] = "idle"
  /\ stop' = FALSE
  /\ pc' = IF Running THEN pc ELSE [pc EXCEPT !["traffic"] = "looping"]
  /\ UNCHANGED << side, shared, lock, job, asked, refused >>

StartTraffic ==
  /\ pc["main"] = "idle" /\ ~Running
  /\ stop' = FALSE
  /\ Goto("traffic", "looping")
  /\ UNCHANGED << side, shared, lock, job, asked, refused >>

StopTraffic ==
  /\ pc["main"] = "idle" /\ Running
  /\ stop' = TRUE
  /\ Goto("main", "joining")
  /\ UNCHANGED << side, shared, lock, job, asked, refused >>

\* The thread ended or two seconds went by: either way it is called stopped.
Join ==
  /\ pc["main"] = "joining"
  /\ Goto("main", "idle")
  /\ UNCHANGED << side, shared, lock, job, stop, asked, refused >>

-----------------------------------------------------------------------------
(* traffic: TrafficGenerator._run                                          *)

\* Told to stop, or the count or the duration asked for is reached.
Finish ==
  /\ pc["traffic"] = "looping"
  /\ Goto("traffic", "none")
  /\ UNCHANGED << side, shared, lock, job, stop, asked, refused >>

PayloadWhateverStop ==                                          \* mutant
  /\ pc["traffic"] = "looping" /\ event
  /\ Wants("traffic", "data", 0)
  /\ UNCHANGED << side, shared, lock, stop, asked, refused >>

\* While unbound a payload is dropped: nothing changes.
Payload ==
  /\ pc["traffic"] = "looping" /\ ~stop /\ event
  /\ Wants("traffic", "data", 0)
  /\ UNCHANGED << side, shared, lock, stop, asked, refused >>

-----------------------------------------------------------------------------
(* receiver: _receive_loop                                                 *)

ReceiveRequest ==
  /\ pc["receiver"] = "receiving" /\ side = "air"
  /\ \E level \in Levels : bound' = (level <= segmenter)
  /\ Wants("receiver", "response", 0)
  /\ UNCHANGED << side, event, modem, segmenter, lock, stop, asked, refused >>

ReceiveResponse ==
  /\ pc["receiver"] = "receiving" /\ asked /= NotAsked
  /\ bound' = (asked <= PeerLevel)
  /\ refused' = ~bound'
  /\ asked' = NotAsked
  /\ Goto("receiver", "handled")
  /\ UNCHANGED << side, event, modem, segmenter, lock, job, stop >>

\* A report after which the controller keeps the modem, or DATA.
ReceiveOther ==
  /\ pc["receiver"] = "receiving"
  /\ Goto("receiver", "handled")
  /\ UNCHANGED << side, shared, lock, job, stop, asked, refused >>

\* A report after which it wants the next modem up or down.
ReceiveReport ==
  /\ pc["receiver"] = "receiving" /\ Adaptive
  /\ \E level \in Levels :
       /\ level = modem + 1 \/ level + 1 = modem
       /\ Wants("receiver", "switch", level)
  /\ UNCHANGED << side, shared, lock, stop, asked, refused >>

\* Mac.set_tx_scheme: the modem, then what is derived from it.
Reconfigure ==
  /\ pc["receiver"] = "reconfiguring"
  /\ modem' = job["receiver"].level
  /\ Goto("receiver", "resizing")
  /\ UNCHANGED << side, bound, event, segmenter, lock, job, stop, asked, refused >>

ResizeForgotten ==                                              \* mutant
  /\ pc["receiver"] = "resizing"
  /\ Goto("receiver", "pushed")
  /\ UNCHANGED << side, shared, lock, job, stop, asked, refused >>

Resize ==
  /\ pc["receiver"] = "resizing"
  /\ segmenter' = modem
  /\ Goto("receiver", "pushed")
  /\ UNCHANGED << side, bound, event, modem, lock, job, stop, asked, refused >>

CheckBound ==
  /\ pc["receiver"] = "handled"
  /\ Goto("receiver", IF bound /\ ~event THEN "announcing" ELSE "receiving")
  /\ UNCHANGED << side, shared, lock, job, stop, asked, refused >>

Announce ==
  /\ pc["receiver"] = "announcing"
  /\ event' = TRUE
  /\ pc' = [pc EXCEPT !["receiver"] = "receiving",
                      !["watchdog"] = IF @ = "waiting" THEN "watching" ELSE @]
  /\ UNCHANGED << side, bound, modem, segmenter, lock, job, stop, asked, refused >>

-----------------------------------------------------------------------------
(* reporter and watchdog                                                   *)

Report ==
  /\ pc["reporter"] = "idle" /\ event
  /\ Wants("reporter", "report", 0)
  /\ UNCHANGED << side, shared, lock, stop, asked, refused >>

\* Not bound: wait, unless the event is set.
Watch ==
  /\ pc["watchdog"] = "watching" /\ ~bound /\ ~event
  /\ Goto("watchdog", "waiting")
  /\ UNCHANGED << side, shared, lock, job, stop, asked, refused >>

\* Too many reports missed.
LinkDown ==
  /\ pc["watchdog"] = "watching" /\ bound
  /\ bound' = FALSE
  /\ Goto("watchdog", "clearing")
  /\ UNCHANGED << side, event, modem, segmenter, lock, job, stop, asked, refused >>

ClearOnly ==                                                    \* mutant
  /\ pc["watchdog"] = "clearing"
  /\ event' = FALSE
  /\ Goto("watchdog", "watching")
  /\ UNCHANGED << side, bound, modem, segmenter, lock, job, stop, asked, refused >>

Clear ==
  /\ pc["watchdog"] = "clearing"
  /\ event' = FALSE
  /\ Goto("watchdog", IF side = "ground" THEN "rebinding" ELSE "watching")
  /\ UNCHANGED << side, bound, modem, segmenter, lock, job, stop, asked, refused >>

\* What the request announces is read before the lock is taken.
Rebind ==
  /\ pc["watchdog"] = "rebinding"
  /\ Wants("watchdog", "request", segmenter)
  /\ UNCHANGED << side, shared, lock, stop, asked, refused >>

-----------------------------------------------------------------------------

Init ==
  /\ side \in Sides
  /\ bound = FALSE /\ event = FALSE
  /\ lock = [holder |-> NoThread, depth |-> 0]
  /\ modem = PeerLevel /\ segmenter = PeerLevel
  /\ pc = [main |-> IF side = "ground" THEN "binding" ELSE "idle", traffic |-> "none",
           receiver |-> "receiving", reporter |-> "idle", watchdog |-> "waiting"]
  /\ job = [t \in Threads |-> NoJob]
  /\ stop = FALSE
  /\ asked = NotAsked /\ refused = FALSE

Exited == pc["main"] = "dead"

Main == FirstBind \/ Type \/ StartTraffic \/ StopTraffic \/ Join

Traffic == Finish \/ Payload

Receiver ==
  \/ ReceiveRequest \/ ReceiveResponse \/ ReceiveOther \/ ReceiveReport
  \/ Reconfigure \/ Resize \/ CheckBound \/ Announce

Watchdog == Watch \/ LinkDown \/ Clear \/ Rebind

Next ==
  \/ \E t \in Threads : Acquire(t) \/ Send(t)
  \/ Main \/ Traffic \/ Receiver \/ Report \/ Watchdog

Spec == Init /\ [][Next]_vars

\* Threads that can run do, and one that waits for the lock gets it: its holders
\* let go after every payload, and the others sleep between two.  The peer takes
\* what is pushed and answers what is asked.
FairSpec ==
  /\ Spec
  /\ \A t \in Threads : SF_vars(Acquire(t)) /\ WF_vars(Send(t))
  /\ WF_vars(FirstBind) /\ WF_vars(Join) /\ WF_vars(stop /\ Finish)
  /\ WF_vars((Reconfigure \/ Resize \/ CheckBound \/ Announce))
  /\ SF_vars(ReceiveResponse)
  /\ WF_vars((Watch \/ Clear \/ Rebind))

-----------------------------------------------------------------------------

\* Two threads are never both in the encoder, whose native state is shared, nor
\* both in the middle of a frame on the socket, where the peer would see their
\* chunks mixed; and the modem does not change under a frame (push_lock).
InEncoder == {t \in Threads : pc[t] = "encoding"}
MidBurst == {t \in Threads : pc[t] = "pushing" /\ job[t].left \in 1 .. Burst - 1}
FramesWhole ==
  /\ Cardinality(InEncoder) <= 1
  /\ Cardinality(MidBurst) <= 1
  /\ InEncoder /= {} => pc["receiver"] /= "resizing"

\* A payload is framed with the modem it was cut for: with another, a PDU may not
\* fit in a frame (Mac.set_tx_scheme changes both, send_iq reads both).
CutForItsModem ==
  \A t \in InEncoder : job[t].kind = "data" => job[t].level = modem

\* A generator told to stop stays told, and starts no payload any more, until its
\* thread is gone: even when stop() gave up waiting for it and said "stopped", and
\* /traffic start comes next (TrafficGenerator.start, stop, _run).
StopIsFinal ==
  [][stop /\ Running =>
       /\ stop' \/ ~Running'
       /\ ~(pc["traffic"] = "looping" /\ pc'["traffic"] = "wanting")]_vars

\* A generator told to stop ends, whoever else contends for the lock.
StoppedEnds == stop /\ Running ~> ~Running \/ Exited

\* The ground unit's watchdog brings the link back, unless the peer refuses what
\* the request announces (_heartbeat_watchdog_loop, evaluate_bind_request).
ComesBackUnlessRefused == []<>(side = "ground" => bound \/ refused \/ Exited)
=============================================================================
