-------------------------- MODULE DroneLinkProofs --------------------------
(***************************************************************************)
(* That one bind handshake at a time is under way, for any capacity of the *)
(* wire, any limit of misses, lost frames, and an air unit that is killed  *)
(* and started again.                                                      *)
(***************************************************************************)
EXTENDS DroneLink, TLAPS

(* Who is who: the ground unit requests, the air unit responds.            *)
Frames(u) == {IF u = "ground" THEN REQUEST ELSE RESPONSE, DATA, QUALITY}

ReceiverOf(u) ==
  IF u = "ground" THEN {"binding", "receiving", "handled", "announcing"}
  ELSE {"receiving", "replying", "handled", "announcing"}

WatchdogOf(u) ==
  {"waiting", "woken", "sleeping", "down", "clearing"}
    \cup (IF u = "ground" THEN {"rebinding"} ELSE {})

TypeOK ==
  /\ bound \in [Units -> BOOLEAN]
  /\ event \in [Units -> BOOLEAN]
  /\ DOMAIN receiver = Units /\ \A u \in Units : receiver[u] \in ReceiverOf(u)
  /\ DOMAIN watchdog = Units /\ \A u \in Units : watchdog[u] \in WatchdogOf(u)
  /\ DOMAIN wire = Units /\ \A u \in Units : wire[u] \in Seq(Frames(u))

(* The ground unit takes no part in a handshake: it has not asked yet, it  *)
(* is bound, or its watchdog is between mac.bound = False and the request. *)
Settled ==
  receiver["ground"] = "binding" \/ bound["ground"] \/ watchdog["ground"] = "clearing"

Quiet == \A u \in Units : \A i \in 0 .. Len(wire[u]) : ~Bearing(u, i)

One ==
  \A u, v \in Units : \A i \in 0 .. Len(wire[u]), j \in 0 .. Len(wire[v]) :
    Bearing(u, i) /\ Bearing(v, j) => u = v /\ i = j

(* A ground unit that has not asked is not bound, and nothing has woken    *)
(* its watchdog.                                                           *)
GroundInv ==
  /\ One
  /\ Settled => Quiet
  /\ receiver["ground"] = "binding" =>
       ~bound["ground"] /\ ~event["ground"] /\ watchdog["ground"] = "waiting"
  /\ watchdog["ground"] = "down" => bound["ground"]
  /\ watchdog["ground"] = "clearing" => ~bound["ground"]

IInv ==
  /\ TypeOK
  /\ restarts \in [Units -> Nat]
  /\ restarts["ground"] = 0 => GroundInv

-----------------------------------------------------------------------------

LEMMA Both == Units = {"air", "ground"} /\ Peer("air") = "ground" /\ Peer("ground") = "air"
  BY DEF Units, Peer

LEMMA InitIInv == Init => IInv
<1> SUFFICES ASSUME Init PROVE IInv
  OBVIOUS
<1>1. TypeOK
  BY DEF Init, TypeOK, Units, Starting, ReceiverOf, WatchdogOf
<1>2. Quiet
  BY DEF Init, Quiet, Bearing, Pending, Starting, Units
<1>3. GroundInv
  BY <1>2 DEF GroundInv, One, Quiet, Init, Starting, Units
<1>4. restarts \in [Units -> Nat]
  BY DEF Init
<1> QED BY <1>1, <1>3, <1>4 DEF IInv

(* A push puts one frame behind the others. *)
LEMMA PushType ==
  ASSUME TypeOK, NEW u \in Units, NEW frame \in Frames(u),
         wire' = [wire EXCEPT ![u] = Append(@, frame)]
  PROVE  DOMAIN wire' = Units /\ \A v \in Units : wire'[v] \in Seq(Frames(v))
  BY DEF TypeOK

LEMMA TakeType ==
  ASSUME TypeOK, NEW u \in Units, wire[u] # <<>>, wire' = [wire EXCEPT ![u] = Tail(@)]
  PROVE  /\ Head(wire[u]) \in Frames(u)
         /\ DOMAIN wire' = Units /\ \A v \in Units : wire'[v] \in Seq(Frames(v))
  BY DEF TypeOK

LEMMA NextTypeOK ==
  ASSUME TypeOK, [Next]_vars
  PROVE  TypeOK'
<1>0. \A u \in Units : DATA \in Frames(u) /\ QUALITY \in Frames(u)
  BY DEF Frames
<1>1. ASSUME NEW u \in Units, FirstBind(u) PROVE TypeOK'
  <2>1. u = "ground" /\ REQUEST \in Frames(u)
    BY <1>1 DEF FirstBind, TypeOK, ReceiverOf, Frames
  <2> QED BY <1>1, <2>1, PushType DEF FirstBind, TypeOK, ReceiverOf
<1>2. ASSUME NEW u \in Units, Receive(u) PROVE TypeOK'
  <2>1. Peer(u) \in Units /\ Peer(u) # u
    BY Both
  <2>2. /\ Head(wire[Peer(u)]) \in Frames(Peer(u))
        /\ DOMAIN wire' = Units /\ \A v \in Units : wire'[v] \in Seq(Frames(v))
    BY <1>2, <2>1, TakeType DEF Receive
  <2>3. u = "ground" => Head(wire[Peer(u)]) # REQUEST
    BY <2>2, Both DEF Frames, REQUEST, RESPONSE, DATA, QUALITY
  <2>4. DOMAIN receiver' = Units /\ \A v \in Units : receiver'[v] \in ReceiverOf(v)
    BY <1>2, <2>3, Both DEF Receive, TypeOK, ReceiverOf
  <2>5. bound' \in [Units -> BOOLEAN]
    BY <1>2 DEF Receive, TypeOK
  <2> QED BY <1>2, <2>2, <2>4, <2>5 DEF Receive, TypeOK
<1>3. ASSUME NEW u \in Units, Miss(u) PROVE TypeOK'
  <2>1. Peer(u) \in Units
    BY Both
  <2> QED BY <1>3, <2>1, TakeType DEF Miss, TypeOK, threads
<1>4. ASSUME NEW u \in Units, Reply(u) PROVE TypeOK'
  <2>1. u = "air" /\ RESPONSE \in Frames(u)
    BY <1>4, Both DEF Reply, TypeOK, ReceiverOf, Frames
  <2>2. DOMAIN wire' = Units /\ \A v \in Units : wire'[v] \in Seq(Frames(v))
    BY <1>4, <2>1, PushType DEF Reply, Push
  <2>3. DOMAIN receiver' = Units /\ \A v \in Units : receiver'[v] \in ReceiverOf(v)
    <3>1. DOMAIN receiver = Units /\ \A v \in Units : receiver[v] \in ReceiverOf(v)
      BY DEF TypeOK
    <3>2. receiver' = [receiver EXCEPT ![u] = "handled"]
      BY <1>4 DEF Reply
    <3>3. "handled" \in ReceiverOf(u)
      BY DEF ReceiverOf
    <3> QED
      BY ONLY <3>1, <3>2, <3>3, u \in Units
  <2>4. UNCHANGED <<bound, event, watchdog>>
    BY <1>4 DEF Reply
  <2> QED BY <2>2, <2>3, <2>4 DEF TypeOK
<1>5. ASSUME NEW u \in Units, CheckBound(u) \/ Announce(u) PROVE TypeOK'
  <2>1. UNCHANGED <<bound, wire>> /\ event' \in [Units -> BOOLEAN]
    BY <1>5 DEF CheckBound, Announce, TypeOK
  <2>2. DOMAIN receiver' = Units /\ \A v \in Units : receiver'[v] \in ReceiverOf(v)
    <3>1. DOMAIN receiver = Units /\ \A v \in Units : receiver[v] \in ReceiverOf(v)
      BY DEF TypeOK
    <3>2. \E at \in {"announcing", "receiving"} : receiver' = [receiver EXCEPT ![u] = at]
      BY <1>5 DEF CheckBound, Announce
    <3>3. {"announcing", "receiving"} \subseteq ReceiverOf(u)
      BY DEF ReceiverOf
    <3> QED
      BY ONLY <3>1, <3>2, <3>3, u \in Units
  <2>3. DOMAIN watchdog' = Units /\ \A v \in Units : watchdog'[v] \in WatchdogOf(v)
    <3>1. DOMAIN watchdog = Units /\ \A v \in Units : watchdog[v] \in WatchdogOf(v)
      BY DEF TypeOK
    <3>2. \/ UNCHANGED watchdog
          \/ watchdog' = [watchdog EXCEPT ![u] = IF @ = "waiting" THEN "woken" ELSE @]
      BY <1>5 DEF CheckBound, Announce
    <3>3. "woken" \in WatchdogOf(u)
      BY DEF WatchdogOf
    <3> QED
      BY ONLY <3>1, <3>2, <3>3, u \in Units
  <2> QED BY <2>1, <2>2, <2>3 DEF TypeOK
<1>6. ASSUME NEW u \in Units, Sender(u) \/ Reporter(u) PROVE TypeOK'
  <2>1. UNCHANGED <<bound, event, receiver, watchdog>>
    BY <1>6 DEF Sender, TakeLine, SendLine, Reporter, ReportDue, SendReport
  <2>2. \/ UNCHANGED wire
        \/ wire' = [wire EXCEPT ![u] = Append(@, DATA)]
        \/ wire' = [wire EXCEPT ![u] = Append(@, QUALITY)]
    BY <1>6 DEF Sender, TakeLine, SendLine, Reporter, ReportDue, SendReport, Push
  <2>3. DOMAIN wire' = Units /\ \A v \in Units : wire'[v] \in Seq(Frames(v))
    BY <1>0, <2>2, PushType DEF TypeOK
  <2> QED BY <2>1, <2>3 DEF TypeOK
<1>7. ASSUME NEW u \in Units,
             StartWatching(u) \/ IntervalUnbound(u) \/ IntervalBound(u) \/ Unbind(u) \/ Clear(u)
      PROVE  TypeOK'
  <2>1. UNCHANGED <<receiver, wire>>
    BY <1>7 DEF StartWatching, IntervalUnbound, IntervalBound, Unbind, Clear
  <2>2. bound' \in [Units -> BOOLEAN] /\ event' \in [Units -> BOOLEAN]
    BY <1>7 DEF StartWatching, IntervalUnbound, IntervalBound, Unbind, Clear, TypeOK
  <2>3. DOMAIN watchdog' = Units /\ \A v \in Units : watchdog'[v] \in WatchdogOf(v)
    BY <1>7 DEF StartWatching, IntervalUnbound, IntervalBound, Unbind, Clear, TypeOK, WatchdogOf
  <2> QED BY <2>1, <2>2, <2>3 DEF TypeOK
<1>8. ASSUME NEW u \in Units, Rebind(u) PROVE TypeOK'
  <2>1. u = "ground" /\ REQUEST \in Frames(u)
    BY <1>8 DEF Rebind, TypeOK, WatchdogOf, Frames
  <2> QED BY <1>8, <2>1, PushType DEF Rebind, Push, TypeOK, WatchdogOf
<1>9. ASSUME NEW u \in Units, Restart(u) PROVE TypeOK'
  <2>1. Peer(u) \in Units
    BY Both
  <2>2. DOMAIN wire' = Units /\ \A v \in Units : wire'[v] \in Seq(Frames(v))
    BY <1>9, <2>1 DEF Restart, TypeOK
  <2>3. bound' \in [Units -> BOOLEAN] /\ event' \in [Units -> BOOLEAN]
    BY <1>9 DEF Restart, TypeOK
  <2>4. DOMAIN receiver' = Units /\ \A v \in Units : receiver'[v] \in ReceiverOf(v)
    BY <1>9, Both DEF Restart, TypeOK, ReceiverOf, Starting
  <2>5. DOMAIN watchdog' = Units /\ \A v \in Units : watchdog'[v] \in WatchdogOf(v)
    BY <1>9 DEF Restart, TypeOK, WatchdogOf
  <2> QED BY <2>2, <2>3, <2>4, <2>5 DEF TypeOK
<1>10. CASE UNCHANGED vars
  BY <1>10 DEF vars, threads, TypeOK
<1> QED
  BY <1>1, <1>2, <1>3, <1>4, <1>5, <1>6, <1>7, <1>8, <1>9, <1>10
  DEF Next, Receiver, Watchdog

-----------------------------------------------------------------------------
(* Nothing but a frame at one place, if any, belongs to a handshake.       *)
At(w, k) ==
  \A v \in Units : \A i \in 0 .. Len(wire[v]) : Bearing(v, i) => v = w /\ i = k

LEMMA OneIs == ASSUME TypeOK PROVE One <=> \E w \in Units, k \in Nat : At(w, k)
<1>1. \A v \in Units : \A i \in 0 .. Len(wire[v]) : i \in Nat
  BY DEF TypeOK
<1>2. CASE Quiet
  BY <1>2, Both DEF Quiet, One, At
<1>3. CASE ~Quiet
  <2>1. PICK w \in Units : \E k \in 0 .. Len(wire[w]) : Bearing(w, k)
    BY <1>3 DEF Quiet
  <2>2. PICK k \in 0 .. Len(wire[w]) : Bearing(w, k)
    BY <2>1
  <2>3. k \in Nat
    BY <1>1
  <2>4. One => At(w, k)
    BY <2>2 DEF One, At
  <2>5. (\E x \in Units, j \in Nat : At(x, j)) => One
    BY DEF One, At
  <2> QED BY <2>3, <2>4, <2>5
<1> QED BY <1>2, <1>3

LEMMA OneIsNext == ASSUME TypeOK', NEW w \in Units, NEW k \in Nat, At(w, k)' PROVE One'
<1>1. ASSUME NEW u \in Units, NEW v \in Units,
             NEW i \in 0 .. Len(wire'[u]), NEW j \in 0 .. Len(wire'[v]),
             Bearing(u, i)', Bearing(v, j)'
      PROVE  u = v /\ i = j
  BY <1>1 DEF At
<1> QED BY <1>1 DEF One

LEMMA FrameIs ==
  ASSUME TypeOK, NEW v \in Units, NEW i \in 1 .. Len(wire[v])
  PROVE  wire[v][i] \in Frames(v)
  BY DEF TypeOK

(* A step that begins no handshake and moves no bind frame. *)
LEMMA Fewer ==
  ASSUME TypeOK, TypeOK',
         \A v \in Units : \A i \in 0 .. Len(wire'[v]) :
           Bearing(v, i)' => i \in 0 .. Len(wire[v]) /\ Bearing(v, i)
  PROVE  (One => One') /\ (Quiet => Quiet')
<1>1. Quiet => Quiet'
  BY DEF Quiet
<1>2. ASSUME One PROVE One'
  <2>1. PICK w \in Units : \E k \in Nat : At(w, k)
    BY <1>2, OneIs
  <2>2. PICK k \in Nat : At(w, k)
    BY <2>1
  <2>3. At(w, k)'
    BY <2>2 DEF At
  <2> QED BY <2>3, OneIsNext
<1> QED BY <1>1, <1>2

LEMMA SameWire ==
  ASSUME TypeOK, TypeOK', wire' = wire, \A v \in Units : Pending(v)' => Pending(v)
  PROVE  (One => One') /\ (Quiet => Quiet')
<1>1. \A v \in Units : \A i \in 0 .. Len(wire'[v]) :
           Bearing(v, i)' => i \in 0 .. Len(wire[v]) /\ Bearing(v, i)
  BY DEF Bearing
<1> QED BY <1>1, Fewer

LEMMA PushOther ==
  ASSUME TypeOK, TypeOK', NEW u \in Units, NEW frame, ~IsBind(frame),
         wire' = [wire EXCEPT ![u] = Append(@, frame)],
         \A v \in Units : Pending(v)' => Pending(v)
  PROVE  (One => One') /\ (Quiet => Quiet')
<1>1. ASSUME NEW v \in Units, NEW i \in 0 .. Len(wire'[v]), Bearing(v, i)'
      PROVE  i \in 0 .. Len(wire[v]) /\ Bearing(v, i)
  <2>1. CASE i = 0
    BY <1>1, <2>1 DEF Bearing, TypeOK
  <2>2. CASE v # u
    BY <1>1, <2>2 DEF Bearing, TypeOK
  <2>3. CASE v = u /\ i # 0
    <3>1. wire'[v] = Append(wire[v], frame) /\ wire[v] \in Seq(Frames(v))
      BY <2>3 DEF TypeOK
    <3>2. IsBind(wire'[v][i])
      BY <1>1, <2>3 DEF Bearing
    <3>3. i \in 1 .. Len(wire[v]) /\ wire'[v][i] = wire[v][i]
      BY <2>3, <3>1, <3>2
    <3> QED BY <2>3, <3>2, <3>3 DEF Bearing
  <2> QED BY <2>1, <2>2, <2>3
<1> QED BY <1>1, Fewer

(* A frame is taken off the wire of x: what is behind it moves up. *)
LEMMA TakeKept ==
  ASSUME TypeOK, TypeOK', NEW x \in Units, wire[x] # <<>>,
         wire' = [wire EXCEPT ![x] = Tail(@)]
  PROVE  \A v \in Units : \A i \in 1 .. Len(wire'[v]) : Bearing(v, i)' =>
           IF v = x THEN i + 1 \in 1 .. Len(wire[v]) /\ Bearing(v, i + 1)
           ELSE i \in 1 .. Len(wire[v]) /\ Bearing(v, i)
<1> SUFFICES ASSUME NEW v \in Units, NEW i \in 1 .. Len(wire'[v]), Bearing(v, i)'
             PROVE  IF v = x THEN i + 1 \in 1 .. Len(wire[v]) /\ Bearing(v, i + 1)
                    ELSE i \in 1 .. Len(wire[v]) /\ Bearing(v, i)
  OBVIOUS
<1>1. IsBind(wire'[v][i])
  BY DEF Bearing
<1>2. CASE v = x
  <2>1. wire'[v] = Tail(wire[v]) /\ wire[v] \in Seq(Frames(v)) /\ wire[v] # <<>>
    BY <1>2 DEF TypeOK
  <2>2. /\ Len(wire[v]) \in Nat \ {0} /\ Len(Tail(wire[v])) = Len(wire[v]) - 1
        /\ \A j \in 1 .. Len(wire[v]) - 1 : Tail(wire[v])[j] = wire[v][j + 1]
    BY <2>1
  <2>3. i \in 1 .. Len(wire[v]) - 1
    BY <2>1, <2>2
  <2>4. i + 1 \in 1 .. Len(wire[v]) /\ i + 1 # 0
    BY <2>2, <2>3
  <2>5. wire'[v][i] = wire[v][i + 1]
    <3>1. Tail(wire[v])[i] = wire[v][i + 1]
      BY ONLY <2>2, <2>3, Zenon
    <3> QED BY <2>1, <3>1, Zenon
  <2> QED BY <1>1, <1>2, <2>4, <2>5 DEF Bearing
<1>3. CASE v # x
  <2>1. wire'[v] = wire[v]
    BY <1>3 DEF TypeOK
  <2> QED BY <1>1, <1>3, <2>1 DEF Bearing
<1> QED BY <1>2, <1>3

LEMMA TakeOne ==
  ASSUME TypeOK, TypeOK', NEW x \in Units, wire[x] # <<>>,
         wire' = [wire EXCEPT ![x] = Tail(@)],
         \A v \in Units : Pending(v)' => Pending(v)
  PROVE  (One => One') /\ (Quiet => Quiet')
<1>1. \A v \in Units : \A i \in 1 .. Len(wire'[v]) : Bearing(v, i)' =>
           IF v = x THEN i + 1 \in 1 .. Len(wire[v]) /\ Bearing(v, i + 1)
           ELSE i \in 1 .. Len(wire[v]) /\ Bearing(v, i)
  BY TakeKept
<1>2. \A v \in Units : Bearing(v, 0)' => Bearing(v, 0)
  BY DEF Bearing
<1>3. \A v \in Units : Len(wire[v]) \in Nat /\ Len(wire'[v]) \in Nat
  BY DEF TypeOK
<1>4. Quiet => Quiet'
  <2>1. ASSUME Quiet, NEW v \in Units, NEW i \in 0 .. Len(wire'[v]) PROVE ~Bearing(v, i)'
    <3>1. CASE i = 0
      BY <1>2, <1>3, <2>1, <3>1 DEF Quiet
    <3>2. CASE i # 0
      <4>1. i \in 1 .. Len(wire'[v])
        BY <1>3, <3>2
      <4> QED BY <1>1, <1>3, <2>1, <4>1 DEF Quiet
    <3> QED BY <3>1, <3>2
  <2> QED BY <2>1 DEF Quiet
<1>5. ASSUME One PROVE One'
  <2>1. PICK w \in Units : \E k \in Nat : At(w, k)
    BY <1>5, OneIs
  <2>2. PICK k \in Nat : At(w, k)
    BY <2>1
  <2>3. PICK m \in Nat : m = IF w = x /\ k > 0 THEN k - 1 ELSE k
    OBVIOUS
  <2>4. ASSUME NEW v \in Units, NEW i \in 0 .. Len(wire'[v]), Bearing(v, i)'
        PROVE  v = w /\ i = m
    <3>1. CASE i = 0
      <4>1. v = w /\ 0 = k
        BY <1>2, <1>3, <2>2, <2>4, <3>1 DEF At
      <4> QED BY <2>3, <3>1, <4>1
    <3>2. CASE i # 0
      <4>1. i \in 1 .. Len(wire'[v])
        BY <1>3, <3>2
      <4>2. CASE v = x
        <5>1. i + 1 \in 0 .. Len(wire[v]) /\ Bearing(v, i + 1)
          BY <1>1, <1>3, <2>4, <4>1, <4>2
        <5>2. v = w /\ i + 1 = k
          BY <2>2, <5>1 DEF At
        <5> QED BY <2>3, <4>1, <4>2, <5>2
      <4>3. CASE v # x
        <5>1. i \in 0 .. Len(wire[v]) /\ Bearing(v, i)
          BY <1>1, <1>3, <2>4, <4>1, <4>3
        <5>2. v = w /\ i = k
          BY <2>2, <5>1 DEF At
        <5> QED BY <2>3, <4>3, <5>2
      <4> QED BY <4>2, <4>3
    <3> QED BY <3>1, <3>2
  <2>5. At(w, m)'
    BY <2>4 DEF At
  <2> QED BY <2>3, <2>5, OneIsNext
<1> QED BY <1>4, <1>5

(* The bind frame u was about to push is pushed, or the first one is. *)
LEMMA PushBind ==
  ASSUME TypeOK, TypeOK', NEW u \in Units, NEW frame,
         wire' = [wire EXCEPT ![u] = Append(@, frame)],
         \A v \in Units : Pending(v)' => Pending(v) /\ v # u,
         Quiet \/ (One /\ Pending(u))
  PROVE  One'
<1>1. At(u, 0)
  <2>1. CASE Quiet
    BY <2>1 DEF Quiet, At
  <2>2. CASE One /\ Pending(u)
    <3>1. 0 \in 0 .. Len(wire[u]) /\ Bearing(u, 0)
      BY <2>2 DEF Bearing, TypeOK
    <3> QED BY <2>2, <3>1 DEF One, At
  <2> QED BY <2>1, <2>2
<1>2. wire[u] \in Seq(Frames(u)) /\ wire'[u] = Append(wire[u], frame)
  BY DEF TypeOK
<1>3. PICK m \in Nat : m = Len(wire[u]) + 1
  BY <1>2
<1>4. ASSUME NEW v \in Units, NEW i \in 0 .. Len(wire'[v]), Bearing(v, i)'
      PROVE  v = u /\ i = m
  <2>1. i # 0
    <3>1. ASSUME i = 0 PROVE FALSE
      <4>1. Pending(v) /\ v # u
        BY <1>4, <3>1 DEF Bearing
      <4>2. 0 \in 0 .. Len(wire[v]) /\ Bearing(v, 0)
        BY <4>1 DEF Bearing, TypeOK
      <4> QED BY <1>1, <4>1, <4>2 DEF At
    <3> QED BY <3>1
  <2>2. CASE v # u
    <3>1. wire'[v] = wire[v]
      BY <2>2 DEF TypeOK
    <3>2. i \in 0 .. Len(wire[v]) /\ Bearing(v, i)
      BY <1>4, <2>1, <3>1 DEF Bearing
    <3> QED BY <1>1, <2>2, <3>2 DEF At
  <2>3. CASE v = u /\ i # m
    <3>1. i \in 1 .. Len(wire[u]) /\ wire'[u][i] = wire[u][i]
      BY <1>2, <1>3, <2>1, <2>3
    <3>2. i \in 0 .. Len(wire[u]) /\ Bearing(u, i)
      BY <1>4, <2>1, <2>3, <3>1 DEF Bearing
    <3> QED BY <1>1, <2>1, <3>2 DEF At
  <2> QED BY <2>2, <2>3
<1>5. At(u, m)'
  BY <1>4 DEF At
<1> QED BY <1>3, <1>5, OneIsNext

-----------------------------------------------------------------------------
(* The invariant is kept.                                                  *)

LEMMA NextGround ==
  ASSUME TypeOK, TypeOK', restarts \in [Units -> Nat], GroundInv,
         restarts'["ground"] = 0, [Next]_vars
  PROVE  GroundInv'
<1>0. One /\ (Settled => Quiet) /\ Units = {"air", "ground"}
  BY Both DEF GroundInv
<1>1. ASSUME NEW u \in Units, FirstBind(u) PROVE GroundInv'
  <2>1. u = "ground" /\ Quiet
    BY <1>0, <1>1 DEF FirstBind, TypeOK, ReceiverOf, Settled
  <2>2. ~bound["ground"] /\ watchdog["ground"] = "waiting"
    BY <1>1, <2>1 DEF GroundInv, FirstBind
  <2>3. /\ receiver'["ground"] = "receiving" /\ receiver'["air"] = receiver["air"]
        /\ UNCHANGED <<bound, watchdog>>
    BY <1>0, <1>1, <2>1 DEF FirstBind, TypeOK
  <2>4. \A v \in Units : Pending(v)' => Pending(v) /\ v # u
    BY <1>0, <2>1, <2>2, <2>3 DEF Pending
  <2>5. One'
    BY <1>1, <2>1, <2>4, PushBind DEF FirstBind
  <2> QED BY <2>2, <2>3, <2>5 DEF GroundInv, Settled
<1>2. ASSUME NEW u \in Units, Receive(u) PROVE GroundInv'
  <2> DEFINE x == Peer(u)
  <2>0. x \in Units /\ wire[x] # <<>> /\ wire' = [wire EXCEPT ![x] = Tail(@)]
    BY <1>2, Both DEF Receive
  <2>1. UNCHANGED <<event, watchdog>>
    BY <1>2 DEF Receive
  <2>2. PICK frame \in Frames(x) : frame = Head(wire[x])
    BY <2>0, TakeType
  <2>3. CASE ~IsBind(frame)
    <3>1. bound' = bound /\ (receiver'["ground"] = "binding" => receiver["ground"] = "binding")
      BY <1>0, <1>2, <2>2, <2>3 DEF Receive, TypeOK
    <3>2. \A v \in Units : Pending(v)' => Pending(v)
      BY <1>0, <1>2, <2>1, <2>2, <2>3 DEF Receive, TypeOK, Pending, IsBind
    <3>3. One' /\ (Quiet => Quiet')
      BY <1>0, <2>0, <3>2, TakeOne
    <3> QED BY <2>1, <3>1, <3>3 DEF GroundInv, Settled
  <2>4. CASE IsBind(frame)
    <3>1. /\ 1 \in 0 .. Len(wire[x]) /\ Bearing(x, 1)
          /\ Len(wire[x]) \in Nat /\ Len(wire'[x]) = Len(wire[x]) - 1
          /\ wire'[u] = wire[u] /\ u # x /\ u \in Units
      <4>1. wire[x] \in Seq(Frames(x)) /\ wire'[x] = Tail(wire[x])
        BY <2>0 DEF TypeOK
      <4>2. /\ Len(wire[x]) \in Nat \ {0} /\ Len(Tail(wire[x])) = Len(wire[x]) - 1
            /\ Head(wire[x]) = wire[x][1]
        BY <2>0, <4>1
      <4>3. u # x /\ wire'[u] = wire[u]
        BY <2>0, Both DEF TypeOK
      <4> QED BY <2>2, <2>4, <4>1, <4>2, <4>3 DEF Bearing
    <3>2. At(x, 1)
      BY <1>0, <2>0, <3>1 DEF One, At
    <3>3. ~Pending("air") /\ ~Pending("ground") /\ ~Quiet /\ ~Settled
      <4>1. \A v \in Units : 0 \in 0 .. Len(wire[v])
        BY DEF TypeOK
      <4>2. \A v \in Units : ~Bearing(v, 0)
        BY <3>2, <4>1 DEF At
      <4>3. ~Quiet
        BY <2>0, <3>1 DEF Quiet
      <4> QED BY <1>0, <4>2, <4>3 DEF Bearing
    <3>4. \A v \in Units : \A i \in 1 .. Len(wire'[v]) : ~Bearing(v, i)'
      <4>1. ASSUME NEW v \in Units, NEW i \in 1 .. Len(wire'[v]), Bearing(v, i)' PROVE FALSE
        <5>1. IF v = x THEN i + 1 \in 1 .. Len(wire[v]) /\ Bearing(v, i + 1)
              ELSE i \in 1 .. Len(wire[v]) /\ Bearing(v, i)
          BY <2>0, <4>1, TakeKept
        <5>2. Len(wire[v]) \in Nat
          BY DEF TypeOK
        <5>3. CASE v = x
          <6>1. i + 1 \in 0 .. Len(wire[v]) /\ i + 1 # 1
            BY <5>1, <5>2, <5>3
          <6> QED BY <3>2, <5>1, <5>3, <6>1 DEF At
        <5>4. CASE v # x
          <6>1. i \in 0 .. Len(wire[v])
            BY <5>1, <5>2, <5>4
          <6> QED BY <3>2, <5>1, <5>4, <6>1 DEF At
        <5> QED BY <5>3, <5>4
      <4> QED BY <4>1
    <3>5. CASE u = "air"
      <4>1. /\ bound'["ground"] = bound["ground"] /\ receiver'["ground"] = receiver["ground"]
        BY <1>0, <1>2, <3>5 DEF Receive, TypeOK
      <4>2. ~Pending("ground")'
        BY <2>1, <3>3 DEF Pending
      <4>3. At("air", 0)'
        <5>1. ASSUME NEW v \in Units, NEW i \in 0 .. Len(wire'[v]), Bearing(v, i)'
              PROVE  v = "air" /\ i = 0
          <6>1. i = 0
            <7>1. i # 0 => i \in 1 .. Len(wire'[v])
              OBVIOUS
            <7> QED BY <3>4, <5>1, <7>1
          <6> QED BY <1>0, <4>2, <5>1, <6>1 DEF Bearing
        <5> QED BY <5>1 DEF At
      <4>4. One'
        BY <1>0, <4>3, OneIsNext
      <4> QED BY <2>1, <3>3, <4>1, <4>4 DEF GroundInv, Settled
    <3>6. CASE u = "ground"
      <4>1. /\ receiver'["air"] = receiver["air"] /\ receiver'["ground"] \in {"replying", "handled"}
        BY <1>0, <1>2, <3>6 DEF Receive, TypeOK
      <4>2. ~Pending("air")' /\ ~Pending("ground")'
        BY <2>1, <3>3, <4>1 DEF Pending
      <4>3. Quiet'
        <5>1. ASSUME NEW v \in Units, NEW i \in 0 .. Len(wire'[v]), Bearing(v, i)' PROVE FALSE
          <6>1. i # 0
            BY <1>0, <4>2, <5>1 DEF Bearing
          <6>2. i \in 1 .. Len(wire'[v])
            BY <6>1
          <6> QED BY <3>4, <5>1, <6>2
        <5> QED BY <5>1 DEF Quiet
      <4>4. watchdog'["ground"] = "down" => bound'["ground"]
        BY <1>0, <1>2, <2>1, <2>2, <2>4, <3>6 DEF Receive, TypeOK
      <4>5. One'
        BY <4>3 DEF Quiet, One
      <4>6. watchdog'["ground"] # "clearing"
        BY <2>1, <3>3 DEF Settled
      <4> QED BY <2>1, <4>1, <4>3, <4>4, <4>5, <4>6 DEF GroundInv
    <3> QED BY <1>0, <3>5, <3>6
  <2> QED BY <2>3, <2>4
<1>3. ASSUME NEW u \in Units, Miss(u) PROVE GroundInv'
  <2>1. /\ Peer(u) \in Units /\ wire[Peer(u)] # <<>>
        /\ wire' = [wire EXCEPT ![Peer(u)] = Tail(@)]
        /\ UNCHANGED <<bound, event, receiver, watchdog>>
    BY <1>3, Both DEF Miss, threads
  <2>2. \A v \in Units : Pending(v)' => Pending(v)
    BY <2>1 DEF Pending
  <2>3. One' /\ (Quiet => Quiet')
    BY <1>0, <2>1, <2>2, TakeOne
  <2> QED BY <2>1, <2>3 DEF GroundInv, Settled
<1>4. ASSUME NEW u \in Units, Reply(u) PROVE GroundInv'
  <2>1. u = "air" /\ Pending("air")
    BY <1>4, Both DEF Reply, TypeOK, ReceiverOf, Pending
  <2>2. /\ receiver'["air"] = "handled" /\ receiver'["ground"] = receiver["ground"]
        /\ UNCHANGED <<bound, event, watchdog>>
    BY <1>0, <1>4, <2>1 DEF Reply, TypeOK
  <2>3. ~Pending("ground") /\ ~Quiet
    <3>1. 0 \in 0 .. Len(wire["air"]) /\ 0 \in 0 .. Len(wire["ground"]) /\ "air" \in Units
      BY <1>0 DEF TypeOK
    <3>2. Bearing("air", 0)
      BY <2>1 DEF Bearing
    <3>3. ~Bearing("ground", 0)
      BY <1>0, <3>1, <3>2 DEF One
    <3> QED BY <3>1, <3>2, <3>3 DEF Bearing, Quiet
  <2>4. \A v \in Units : Pending(v)' => Pending(v) /\ v # u
    BY <1>0, <2>1, <2>2, <2>3 DEF Pending
  <2>5. One'
    BY <1>0, <1>4, <2>1, <2>4, PushBind DEF Reply, Push
  <2> QED BY <1>0, <2>2, <2>3, <2>5 DEF GroundInv, Settled
<1>5. ASSUME NEW u \in Units, Rebind(u) PROVE GroundInv'
  <2>1. u = "ground" /\ Pending("ground") /\ watchdog["ground"] = "rebinding"
    BY <1>5, Both DEF Rebind, TypeOK, WatchdogOf, Pending
  <2>2. watchdog'["ground"] = "sleeping" /\ UNCHANGED <<bound, event, receiver>>
    BY <1>0, <1>5, <2>1 DEF Rebind, TypeOK
  <2>3. ~Pending("air") /\ ~Quiet
    <3>1. 0 \in 0 .. Len(wire["air"]) /\ 0 \in 0 .. Len(wire["ground"]) /\ "air" \in Units
      BY <1>0 DEF TypeOK
    <3>2. Bearing("ground", 0)
      BY <2>1 DEF Bearing
    <3>3. ~Bearing("air", 0)
      BY <1>0, <3>1, <3>2 DEF One
    <3> QED BY <1>0, <3>1, <3>2, <3>3 DEF Bearing, Quiet
  <2>4. \A v \in Units : Pending(v)' => Pending(v) /\ v # u
    BY <1>0, <2>1, <2>2, <2>3 DEF Pending
  <2>5. One'
    BY <1>0, <1>5, <2>1, <2>4, PushBind DEF Rebind, Push
  <2>6. receiver["ground"] # "binding" /\ ~bound["ground"]
    BY <1>0, <2>3 DEF Settled
  <2> QED BY <2>2, <2>5, <2>6 DEF GroundInv, Settled
<1>6. ASSUME NEW u \in Units, Sender(u) \/ Reporter(u) PROVE GroundInv'
  <2>1. UNCHANGED <<bound, event, receiver, watchdog>>
    BY <1>6 DEF Sender, TakeLine, SendLine, Reporter, ReportDue, SendReport
  <2>2. \A v \in Units : Pending(v)' => Pending(v)
    BY <2>1 DEF Pending
  <2>3. ~IsBind(DATA) /\ ~IsBind(QUALITY)
    BY DEF IsBind, DATA, QUALITY, REQUEST, RESPONSE
  <2>4. \/ UNCHANGED wire
        \/ wire' = [wire EXCEPT ![u] = Append(@, DATA)]
        \/ wire' = [wire EXCEPT ![u] = Append(@, QUALITY)]
    BY <1>6 DEF Sender, TakeLine, SendLine, Reporter, ReportDue, SendReport, Push
  <2>5. One' /\ (Quiet => Quiet')
    BY <1>0, <2>2, <2>3, <2>4, PushOther, SameWire
  <2> QED BY <2>1, <2>5 DEF GroundInv, Settled
<1>7. ASSUME NEW u \in Units, CheckBound(u) PROVE GroundInv'
  <2>1. UNCHANGED <<bound, event, watchdog, wire>>
    BY <1>7 DEF CheckBound
  <2>2. /\ \A v \in Units : Pending(v)' => Pending(v)
        /\ receiver'["ground"] = "binding" => receiver["ground"] = "binding"
    BY <1>0, <1>7 DEF CheckBound, Pending, TypeOK
  <2>3. One' /\ (Quiet => Quiet')
    BY <1>0, <2>1, <2>2, SameWire
  <2> QED BY <2>1, <2>2, <2>3 DEF GroundInv, Settled
<1>8. ASSUME NEW u \in Units, Announce(u) PROVE GroundInv'
  <2>1. UNCHANGED <<bound, wire>>
    BY <1>8 DEF Announce
  <2>2. \A v \in Units : Pending(v)' => Pending(v)
    BY <1>0, <1>8 DEF Announce, Pending, TypeOK
  <2>3. One' /\ (Quiet => Quiet')
    BY <1>0, <2>1, <2>2, SameWire
  <2>4. CASE u = "ground"
    <3>1. /\ receiver'["ground"] = "receiving"
          /\ watchdog'["ground"] \in {"down", "clearing"} =>
               watchdog'["ground"] = watchdog["ground"]
      BY <1>0, <1>8, <2>4 DEF Announce, TypeOK
    <3> QED BY <2>1, <2>3, <3>1 DEF GroundInv, Settled
  <2>5. CASE u = "air"
    <3>1. /\ receiver'["ground"] = receiver["ground"] /\ event'["ground"] = event["ground"]
          /\ watchdog'["ground"] = watchdog["ground"]
      BY <1>0, <1>8, <2>5 DEF Announce, TypeOK
    <3> QED BY <2>1, <2>3, <3>1 DEF GroundInv, Settled
  <2> QED BY <1>0, <2>4, <2>5
<1>9. ASSUME NEW u \in Units, StartWatching(u) \/ IntervalUnbound(u) \/ IntervalBound(u)
      PROVE  GroundInv'
  <2>1. UNCHANGED <<bound, event, receiver, wire>>
    BY <1>9 DEF StartWatching, IntervalUnbound, IntervalBound
  <2>2. /\ watchdog'["ground"] \notin {"rebinding", "clearing"} \/ watchdog' = watchdog
           \/ watchdog'["ground"] = watchdog["ground"]
        /\ watchdog'["ground"] = "down" => bound["ground"] \/ watchdog["ground"] = "down"
        /\ watchdog["ground"] = "waiting" => watchdog'["ground"] = "waiting"
    BY <1>0, <1>9 DEF StartWatching, IntervalUnbound, IntervalBound, TypeOK
  <2>3. \A v \in Units : Pending(v)' => Pending(v)
    BY <2>1, <2>2 DEF Pending
  <2>4. One' /\ (Quiet => Quiet')
    BY <1>0, <2>1, <2>3, SameWire
  <2> QED BY <2>1, <2>2, <2>4 DEF GroundInv, Settled
<1>10. ASSUME NEW u \in Units, Unbind(u) PROVE GroundInv'
  <2>1. UNCHANGED <<event, receiver, wire>>
    BY <1>10 DEF Unbind
  <2>2. \/ /\ u = "ground" /\ bound["ground"] /\ ~bound'["ground"]
           /\ watchdog["ground"] = "down" /\ watchdog'["ground"] = "clearing"
        \/ bound'["ground"] = bound["ground"] /\ watchdog'["ground"] = watchdog["ground"]
    BY <1>0, <1>10 DEF Unbind, TypeOK, GroundInv
  <2>3. \A v \in Units : Pending(v)' => Pending(v)
    BY <2>1, <2>2 DEF Pending
  <2>4. One' /\ (Quiet => Quiet')
    BY <1>0, <2>1, <2>3, SameWire
  <2> QED BY <2>1, <2>2, <2>4 DEF GroundInv, Settled
<1>11. ASSUME NEW u \in Units, Clear(u) PROVE GroundInv'
  <2>1. UNCHANGED <<bound, receiver, wire>>
    BY <1>11 DEF Clear
  <2>2. CASE u = "air"
    <3>1. event'["ground"] = event["ground"] /\ watchdog'["ground"] = watchdog["ground"]
      BY <1>0, <1>11, <2>2 DEF Clear, TypeOK
    <3>2. \A v \in Units : Pending(v)' => Pending(v)
      BY <2>1, <3>1 DEF Pending
    <3>3. One' /\ (Quiet => Quiet')
      BY <1>0, <2>1, <3>2, SameWire
    <3> QED BY <2>1, <3>1, <3>3 DEF GroundInv, Settled
  <2>3. CASE u = "ground"
    <3>1. watchdog["ground"] = "clearing" /\ watchdog'["ground"] = "rebinding" /\ Quiet
      BY <1>0, <1>11, <2>3 DEF Clear, TypeOK, Settled
    <3>2. receiver["ground"] # "binding"
      BY <3>1 DEF GroundInv
    <3>3. At("ground", 0)'
      <4>1. ASSUME NEW v \in Units, NEW i \in 0 .. Len(wire'[v]), Bearing(v, i)'
            PROVE  v = "ground" /\ i = 0
        <5>1. ~Bearing(v, i)
          BY <2>1, <3>1, <4>1 DEF Quiet
        <5> QED BY <1>0, <2>1, <4>1, <5>1 DEF Bearing, Pending
      <4> QED BY <4>1 DEF At
    <3>4. One'
      BY <1>0, <3>3, OneIsNext
    <3>5. ~bound["ground"]
      BY <3>1 DEF GroundInv
    <3> QED BY <2>1, <3>1, <3>2, <3>4, <3>5 DEF GroundInv, Settled
  <2> QED BY <1>0, <2>2, <2>3
<1>12. ASSUME NEW u \in Units, Restart(u) PROVE GroundInv'
  <2>1. u = "air"
    BY <1>0, <1>12 DEF Restart
  <2>2. /\ bound'["ground"] = bound["ground"] /\ event'["ground"] = event["ground"]
        /\ receiver'["ground"] = receiver["ground"] /\ watchdog'["ground"] = watchdog["ground"]
        /\ receiver'["air"] = "receiving"
        /\ wire'["ground"] = <<>> /\ wire'["air"] = wire["air"]
    BY <1>0, <1>12, <2>1, Both DEF Restart, TypeOK, Starting
  <2>3. \A v \in Units : \A i \in 0 .. Len(wire'[v]) :
           Bearing(v, i)' => i \in 0 .. Len(wire[v]) /\ Bearing(v, i)
    <3>1. ASSUME NEW v \in Units, NEW i \in 0 .. Len(wire'[v]), Bearing(v, i)'
          PROVE  i \in 0 .. Len(wire[v]) /\ Bearing(v, i)
      <4>1. CASE v = "air"
        BY <2>2, <3>1, <4>1 DEF Bearing, Pending
      <4>2. CASE v = "ground"
        <5>1. i = 0
          BY <2>2, <4>2
        <5>2. 0 \in 0 .. Len(wire[v])
          BY DEF TypeOK
        <5> QED BY <2>2, <3>1, <4>2, <5>1, <5>2 DEF Bearing, Pending
      <4> QED BY <1>0, <4>1, <4>2
    <3> QED BY <3>1
  <2>4. One' /\ (Quiet => Quiet')
    BY <1>0, <2>3, Fewer
  <2> QED BY <2>2, <2>4 DEF GroundInv, Settled
<1>13. CASE UNCHANGED vars
  <2>1. UNCHANGED <<bound, event, receiver, watchdog, wire>>
    BY <1>13 DEF vars, threads
  <2>2. \A v \in Units : Pending(v)' => Pending(v)
    BY <2>1 DEF Pending
  <2>3. One' /\ (Quiet => Quiet')
    BY <1>0, <2>1, <2>2, SameWire
  <2> QED BY <2>1, <2>3 DEF GroundInv, Settled
<1> QED
  BY <1>1, <1>2, <1>3, <1>4, <1>5, <1>6, <1>7, <1>8, <1>9, <1>10, <1>11, <1>12, <1>13
  DEF Next, Receiver, Watchdog

LEMMA NextIInv == ASSUME IInv, [Next]_vars PROVE IInv'
<1>1. TypeOK'
  BY NextTypeOK DEF IInv
<1>2. /\ restarts' \in [Units -> Nat]
      /\ restarts'["ground"] = 0 => restarts["ground"] = 0
  <2>1. ASSUME NEW u \in Units, Restart(u)
        PROVE  /\ restarts' \in [Units -> Nat]
               /\ restarts'["ground"] = 0 => restarts["ground"] = 0
    <3>1. restarts \in [Units -> Nat] /\ restarts' = [restarts EXCEPT ![u] = @ + 1]
      BY <2>1 DEF Restart, IInv
    <3>2. restarts[u] + 1 \in Nat /\ restarts[u] + 1 # 0
      BY <3>1
    <3> QED BY <3>1, <3>2, Both
  <2>2. UNCHANGED restarts =>
          /\ restarts' \in [Units -> Nat]
          /\ restarts'["ground"] = 0 => restarts["ground"] = 0
    BY DEF IInv
  <2> QED BY <2>1, <2>2 DEF Next, vars, Receiver, Sender, Reporter, Watchdog, FirstBind, Receive,
            Reply, CheckBound, Announce, TakeLine, SendLine, ReportDue, SendReport,
            StartWatching, IntervalUnbound, IntervalBound, Unbind, Clear, Rebind, Miss
<1> QED BY <1>1, <1>2, NextGround DEF IInv

-----------------------------------------------------------------------------

(* A response needs no word of which request it answers (_handle_decoded_  *)
(* pdu of both units): as long as the ground unit itself is not started    *)
(* again there is never more than one bind frame, in flight or about to be *)
(* pushed, however often the air unit is.                                  *)
THEOREM OneAtATime == Spec => []OneHandshake
<1>1. IInv => OneHandshake
  BY DEF IInv, GroundInv, One, OneHandshake
<1> QED BY <1>1, InitIInv, NextIInv, PTL DEF Spec

=============================================================================
