----------------------------- MODULE DroneLink -----------------------------
(***************************************************************************)
(* The air and the ground unit (examples/drone_air_unit.py and             *)
(* drone_ground_unit.py): two processes of four threads each.              *)
(*   receiver  the main loop: decodes a frame, handles it, announces that  *)
(*             the unit is bound                                           *)
(*   sender    one DATA frame for each line the operator types             *)
(*   reporter  a LINK_QUALITY frame every interval                         *)
(*   watchdog  declares the link down after MissLimit intervals without    *)
(*             a LINK_QUALITY frame; the ground unit's binds again         *)
(* They share mac.bound and the threading.Event bound_event, which are not *)
(* written together.  A step is what one thread does between two accesses  *)
(* of these; pushing a frame is one step because the code holds push_lock  *)
(* around generate_frame and all the chunks of a frame.  Time is not       *)
(* modelled: an interval may end at any moment.                            *)
(*                                                                         *)
(* Both units run the same PHY configuration, so a bind is accepted.  What *)
(* the UM entities do with DATA is module UmLink.                          *)
(***************************************************************************)
EXTENDS Naturals, Sequences

CONSTANTS
  MissLimit,      \* HEARTBEAT_MISS_LIMIT
  WireCapacity,   \* frames one direction holds before a push blocks
  Typists,        \* units whose operator types lines
  Restartable,    \* units that are killed and started again
  MaxRestarts     \* bound: how often each of them is

ASSUME DroneAssumption ==
  /\ MissLimit \in Nat \ {0}
  /\ WireCapacity \in Nat \ {0}
  /\ Typists \subseteq {"air", "ground"}
  /\ Restartable \subseteq {"air", "ground"}
  /\ MaxRestarts \in Nat

VARIABLES
  bound,          \* mac.bound
  event,          \* bound_event.is_set()
  fresh,          \* heartbeat["received_count"] # last_seen
  misses,         \* of the watchdog
  receiver, sender, reporter, watchdog,   \* where each thread is
  wire,           \* frames pushed by each unit and not yet handled
  restarts,       \* how often each unit has been restarted
  bindLost        \* a bind frame was lost

threads == <<receiver, sender, reporter, watchdog>>
vars == <<bound, event, fresh, misses, threads, wire, restarts, bindLost>>

Units == {"air", "ground"}

Peer(u) == CHOOSE v \in Units : v # u

REQUEST == "BIND_REQUEST"
RESPONSE == "BIND_RESPONSE"
DATA == "DATA"
QUALITY == "LINK_QUALITY"

IsBind(frame) == frame \in {REQUEST, RESPONSE}

Push(u, frame) ==
  /\ Len(wire[u]) < WireCapacity
  /\ wire' = [wire EXCEPT ![u] = Append(@, frame)]

-----------------------------------------------------------------------------
(* receiver *)

(* The ground unit's run() asks for a bind once, before its loop; a new     *)
(* process has a new connection, with room in it.                          *)
FirstBind(u) ==
  /\ receiver[u] = "binding"
  /\ wire' = [wire EXCEPT ![u] = Append(@, REQUEST)]
  /\ receiver' = [receiver EXCEPT ![u] = "receiving"]
  /\ UNCHANGED <<bound, event, fresh, misses, sender, reporter, watchdog,
                 restarts, bindLost>>

(* _handle_decoded_pdu, up to its reply *)
ReceiveAnnouncingBindsOnly(u) ==                                \* fault
  /\ receiver[u] = "receiving"
  /\ wire[Peer(u)] # <<>>
  /\ LET frame == Head(wire[Peer(u)])
     IN  /\ bound' = [bound EXCEPT ![u] = @ \/ IsBind(frame)]
         /\ fresh' = [fresh EXCEPT ![u] = @ \/ frame = QUALITY]
         /\ receiver' = [receiver EXCEPT ![u] =
                           CASE frame = REQUEST  -> "replying"
                             [] frame = RESPONSE -> "handled"
                             [] OTHER            -> "receiving"]
  /\ wire' = [wire EXCEPT ![Peer(u)] = Tail(@)]
  /\ UNCHANGED <<event, misses, sender, reporter, watchdog, restarts, bindLost>>

Receive(u) ==
  /\ receiver[u] = "receiving"
  /\ wire[Peer(u)] # <<>>
  /\ LET frame == Head(wire[Peer(u)])
     IN  /\ bound' = [bound EXCEPT ![u] = @ \/ IsBind(frame)]
         /\ fresh' = [fresh EXCEPT ![u] = @ \/ frame = QUALITY]
         /\ receiver' = [receiver EXCEPT ![u] =
                           IF frame = REQUEST THEN "replying" ELSE "handled"]
  /\ wire' = [wire EXCEPT ![Peer(u)] = Tail(@)]
  /\ UNCHANGED <<event, misses, sender, reporter, watchdog, restarts, bindLost>>

(* A frame the streaming receiver misses, or whose CRC fails. *)
Miss(u) ==
  /\ receiver[u] = "receiving"
  /\ wire[Peer(u)] # <<>>
  /\ wire' = [wire EXCEPT ![Peer(u)] = Tail(@)]
  /\ bindLost' = (bindLost \/ IsBind(Head(wire[Peer(u)])))
  /\ UNCHANGED <<bound, event, fresh, misses, threads, restarts>>

Reply(u) ==
  /\ receiver[u] = "replying"
  /\ Push(u, RESPONSE)
  /\ receiver' = [receiver EXCEPT ![u] = "handled"]
  /\ UNCHANGED <<bound, event, fresh, misses, sender, reporter, watchdog,
                 restarts, bindLost>>

(* if mac.bound and not bound_event.is_set(): bound_event.set().  A        *)
(* watchdog that waits for the event goes on, even if the event is cleared *)
(* again before it runs.                                                   *)
CheckBound(u) ==
  /\ receiver[u] = "handled"
  /\ receiver' = [receiver EXCEPT ![u] = IF bound[u] THEN "announcing" ELSE "receiving"]
  /\ UNCHANGED <<bound, event, fresh, misses, sender, reporter, watchdog, wire,
                 restarts, bindLost>>

Announce(u) ==
  /\ receiver[u] = "announcing"
  /\ event' = [event EXCEPT ![u] = TRUE]
  /\ watchdog' = [watchdog EXCEPT ![u] = IF @ = "waiting" THEN "woken" ELSE @]
  /\ receiver' = [receiver EXCEPT ![u] = "receiving"]
  /\ UNCHANGED <<bound, fresh, misses, sender, reporter, wire, restarts, bindLost>>

-----------------------------------------------------------------------------
(* sender: _stdin_send_loop *)

(* A line is typed and bound_event.wait() returns.  Bound: nobody types     *)
(* before the restarts, which loses little as a restart that is the first  *)
(* step changes nothing.                                                   *)
TakeLine(u) ==
  /\ u \in Typists
  /\ \A v \in Restartable : restarts[v] = MaxRestarts
  /\ sender[u] = "reading"
  /\ event[u]
  /\ sender' = [sender EXCEPT ![u] = "sending"]
  /\ UNCHANGED <<bound, event, fresh, misses, receiver, reporter, watchdog, wire,
                 restarts, bindLost>>

(* Mac.send_iq raises when the unit is no longer bound; nothing catches it *)
(* and the thread ends.                                                    *)
SendLine(u) ==
  /\ sender[u] = "sending"
  /\ \/ /\ bound[u]
        /\ Push(u, DATA)
        /\ sender' = [sender EXCEPT ![u] = "reading"]
     \/ /\ ~bound[u]
        /\ sender' = [sender EXCEPT ![u] = "dead"]
        /\ UNCHANGED wire
  /\ UNCHANGED <<bound, event, fresh, misses, receiver, reporter, watchdog,
                 restarts, bindLost>>

-----------------------------------------------------------------------------
(* reporter: _quality_report_loop *)

(* An interval is over and bound_event.wait() returns. *)
ReportDue(u) ==
  /\ reporter[u] = "sleeping"
  /\ event[u]
  /\ reporter' = [reporter EXCEPT ![u] = "sending"]
  /\ UNCHANGED <<bound, event, fresh, misses, receiver, sender, watchdog, wire,
                 restarts, bindLost>>

SendReport(u) ==
  /\ reporter[u] = "sending"
  /\ Push(u, QUALITY)
  /\ reporter' = [reporter EXCEPT ![u] = "sleeping"]
  /\ UNCHANGED <<bound, event, fresh, misses, receiver, sender, watchdog,
                 restarts, bindLost>>

-----------------------------------------------------------------------------
(* watchdog: _heartbeat_watchdog_loop *)

(* last_seen = heartbeat["received_count"]; misses = 0 *)
StartWatching(u) ==
  /\ watchdog[u] = "woken"
  /\ fresh' = [fresh EXCEPT ![u] = FALSE]
  /\ misses' = [misses EXCEPT ![u] = 0]
  /\ watchdog' = [watchdog EXCEPT ![u] = "sleeping"]
  /\ UNCHANGED <<bound, event, receiver, sender, reporter, wire, restarts, bindLost>>

IntervalUnboundRebinding(u) ==                                  \* fault
  /\ watchdog[u] = "sleeping"
  /\ ~bound[u]
  /\ watchdog' = [watchdog EXCEPT ![u] = IF u = "ground" THEN "rebinding" ELSE "waiting"]
  /\ UNCHANGED <<bound, event, fresh, misses, receiver, sender, reporter, wire,
                 restarts, bindLost>>

(* An interval is over and the unit is not bound: the watchdog waits, or   *)
(* starts anew.                                                            *)
IntervalUnbound(u) ==
  /\ watchdog[u] = "sleeping"
  /\ ~bound[u]
  /\ \/ /\ ~event[u]
        /\ watchdog' = [watchdog EXCEPT ![u] = "waiting"]
        /\ UNCHANGED <<fresh, misses>>
     \/ /\ event[u]
        /\ fresh' = [fresh EXCEPT ![u] = FALSE]
        /\ misses' = [misses EXCEPT ![u] = 0]
        /\ UNCHANGED watchdog
  /\ UNCHANGED <<bound, event, receiver, sender, reporter, wire, restarts, bindLost>>

IntervalBound(u) ==
  /\ watchdog[u] = "sleeping"
  /\ bound[u]
  /\ misses' = [misses EXCEPT ![u] = IF fresh[u] THEN 0 ELSE @ + 1]
  /\ fresh' = [fresh EXCEPT ![u] = FALSE]
  /\ watchdog' = [watchdog EXCEPT ![u] =
                    IF misses'[u] >= MissLimit THEN "down" ELSE "sleeping"]
  /\ UNCHANGED <<bound, event, receiver, sender, reporter, wire, restarts, bindLost>>

(* mac.bound = False *)
Unbind(u) ==
  /\ watchdog[u] = "down"
  /\ bound' = [bound EXCEPT ![u] = FALSE]
  /\ watchdog' = [watchdog EXCEPT ![u] = "clearing"]
  /\ UNCHANGED <<event, fresh, misses, receiver, sender, reporter, wire, restarts,
                 bindLost>>

ClearWithoutRebind(u) ==                                        \* fault
  /\ watchdog[u] = "clearing"
  /\ event' = [event EXCEPT ![u] = FALSE]
  /\ misses' = [misses EXCEPT ![u] = 0]
  /\ watchdog' = [watchdog EXCEPT ![u] = "sleeping"]
  /\ UNCHANGED <<bound, fresh, receiver, sender, reporter, wire, restarts, bindLost>>

(* bound_event.clear(); misses = 0 *)
Clear(u) ==
  /\ watchdog[u] = "clearing"
  /\ event' = [event EXCEPT ![u] = FALSE]
  /\ misses' = [misses EXCEPT ![u] = 0]
  /\ watchdog' = [watchdog EXCEPT ![u] = IF u = "ground" THEN "rebinding" ELSE "sleeping"]
  /\ UNCHANGED <<bound, fresh, receiver, sender, reporter, wire, restarts, bindLost>>

Rebind(u) ==
  /\ watchdog[u] = "rebinding"
  /\ Push(u, REQUEST)
  /\ watchdog' = [watchdog EXCEPT ![u] = "sleeping"]
  /\ UNCHANGED <<bound, event, fresh, misses, receiver, sender, reporter,
                 restarts, bindLost>>

-----------------------------------------------------------------------------
(* The world *)

Starting(u) == IF u = "ground" THEN "binding" ELSE "receiving"

(* A unit is killed and started again: what was in flight to it is gone,   *)
(* what it had pushed still arrives.                                       *)
Restart(u) ==
  /\ u \in Restartable /\ restarts[u] < MaxRestarts
  /\ restarts' = [restarts EXCEPT ![u] = @ + 1]
  /\ bindLost' = \/ bindLost
                 \/ \E i \in 1 .. Len(wire[Peer(u)]) : IsBind(wire[Peer(u)][i])
                 \/ receiver[u] = "replying"
  /\ bound' = [bound EXCEPT ![u] = FALSE]
  /\ event' = [event EXCEPT ![u] = FALSE]
  /\ fresh' = [fresh EXCEPT ![u] = FALSE]
  /\ misses' = [misses EXCEPT ![u] = 0]
  /\ receiver' = [receiver EXCEPT ![u] = Starting(u)]
  /\ sender' = [sender EXCEPT ![u] = "reading"]
  /\ reporter' = [reporter EXCEPT ![u] = "sleeping"]
  /\ watchdog' = [watchdog EXCEPT ![u] = "waiting"]
  /\ wire' = [wire EXCEPT ![Peer(u)] = <<>>]

-----------------------------------------------------------------------------

Init ==
  /\ bound = [u \in Units |-> FALSE]
  /\ event = [u \in Units |-> FALSE]
  /\ fresh = [u \in Units |-> FALSE]
  /\ misses = [u \in Units |-> 0]
  /\ receiver = [u \in Units |-> Starting(u)]
  /\ sender = [u \in Units |-> "reading"]
  /\ reporter = [u \in Units |-> "sleeping"]
  /\ watchdog = [u \in Units |-> "waiting"]
  /\ wire = [u \in Units |-> <<>>]
  /\ restarts = [u \in Units |-> 0]
  /\ bindLost = FALSE

Receiver(u) == FirstBind(u) \/ Receive(u) \/ Reply(u) \/ CheckBound(u) \/ Announce(u)

Sender(u) == TakeLine(u) \/ SendLine(u)

Reporter(u) == ReportDue(u) \/ SendReport(u)

Watchdog(u) ==
  \/ StartWatching(u) \/ IntervalUnbound(u) \/ IntervalBound(u)
  \/ Unbind(u) \/ Clear(u) \/ Rebind(u)

Next ==
  \E u \in Units :
    \/ Receiver(u) \/ Sender(u) \/ Reporter(u) \/ Watchdog(u)
    \/ Miss(u) \/ Restart(u)

Spec == Init /\ [][Next]_vars

(* Receivers and watchdogs that can run do.  Both bind frames get their    *)
(* turn at push_lock and on the wire: the reporter they contend with       *)
(* sleeps an interval between two pushes.                                  *)
FairSpec ==
  /\ Spec
  /\ \A u \in Units : WF_vars(Receiver(u)) /\ WF_vars(Watchdog(u))
  /\ SF_vars(Reply("air"))
  /\ SF_vars(Rebind("ground"))

-----------------------------------------------------------------------------

(* The bind frames carry nothing that says which request a response        *)
(* answers.  No confusion is possible, as one handshake at a time is under *)
(* way until the ground unit itself is started again.                      *)
Pending(u) ==
  IF u = "air" THEN receiver["air"] = "replying" ELSE watchdog["ground"] = "rebinding"

\* A bind frame in the wire of u, or, at 0, one u is about to push.
Bearing(u, i) == IF i = 0 THEN Pending(u) ELSE IsBind(wire[u][i])

OneHandshake ==
  restarts["ground"] = 0 =>
    \A u, v \in Units : \A i \in 0 .. Len(wire[u]), j \in 0 .. Len(wire[v]) :
      Bearing(u, i) /\ Bearing(v, j) => u = v /\ i = j

(* The air unit, once bound, does not stay paused, though its watchdog may *)
(* clear the event just after a request bound it anew: the next frame lets *)
(* its senders go, or its watchdog notices that the peer is silent.        *)
NoLimbo == []<>(event["air"] \/ ~bound["air"])

(* The ground unit always gets its link back, unless a bind frame was      *)
(* lost.                                                                   *)
ComesBackUnlessBindLost == []<>(bound["ground"] \/ bindLost)

=============================================================================
