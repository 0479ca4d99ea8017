---------------------------- MODULE TuiUnitProofs ----------------------------
(***************************************************************************)
(* Proofs about TuiUnit, for every length of a burst, number of modems and *)
(* way a payload is cut: push_lock keeps frames whole and modems in step   *)
(* with the payloads cut for them, and a stopped generator stays stopped.  *)
(***************************************************************************)
EXTENDS TuiUnit, FiniteSetTheorems, TLAPS

Places == {"none", "binding", "idle", "looping", "joining", "receiving", "handled",
           "announcing", "waiting", "watching", "clearing", "rebinding", "wanting",
           "locked", "encoding", "framed", "pushing", "pushed", "reconfiguring",
           "resizing", "dead"}

\* The places between a `with push_lock:` and its end.
Inside(t) == pc[t] \in {"locked", "encoding", "framed", "pushing", "pushed",
                        "reconfiguring", "resizing"}

Kinds == {"none", "data", "response", "switch", "report", "request"}

Jobs == [pdus : Int, frames : Int, left : Int, kind : Kinds, level : Levels]

TypesKept ==
  /\ pc \in [Threads -> Places]
  /\ lock \in [holder : Threads \cup {NoThread}, depth : Int]
  /\ job \in [Threads -> Jobs]
  /\ modem \in Levels /\ segmenter \in Levels

\* Whoever is inside holds the lock, twice while it pushes a frame; and nobody
\* else holds it.
LockHeld ==
  /\ \A t \in Threads : Inside(t) =>
       lock = [holder |-> t, depth |-> IF pc[t] = "pushing" THEN 2 ELSE 1]
  /\ lock.holder /= NoThread => Inside(lock.holder)
  /\ lock.holder = NoThread => lock.depth = 0

\* The modem and the segmenter differ only while set_tx_scheme is half done.
InStep ==
  /\ pc["receiver"] /= "resizing" => segmenter = modem
  /\ CutForItsModem

USE DEF Threads, Places, NoThread

-----------------------------------------------------------------------------
\* A set with no two different elements has at most one.
LEMMA AtMostOne ==
  ASSUME NEW S, \A a, b \in S : a = b
  PROVE  Cardinality(S) <= 1
<1>1. CASE S = {}
  BY <1>1, FS_EmptySet
<1>2. CASE S /= {}
  <2>1. PICK a \in S : TRUE
    BY <1>2
  <2>2. S = {a}
    BY <2>1
  <2> QED
    BY <2>2, FS_Singleton
<1> QED
  BY <1>1, <1>2

\* Two threads inside are the same one.
LEMMA OneInside ==
  ASSUME LockHeld, NEW t \in Threads, NEW u \in Threads, Inside(t), Inside(u)
  PROVE  t = u
BY DEF LockHeld

LEMMA InitTypes == Init => TypesKept /\ LockHeld /\ InStep
<1> SUFFICES ASSUME Init PROVE TypesKept /\ LockHeld /\ InStep
  OBVIOUS
<1>1. 0 \in Levels /\ PeerLevel \in Levels
  BY TuiAssumption DEF TuiAssumption, Levels
<1>2. TypesKept
  <2>1. pc \in [Threads -> Places]
    <3>1. DOMAIN pc = Threads /\ \A t \in Threads : pc[t] \in Places
      BY DEF Init
    <3>2. pc = [t \in Threads |-> pc[t]]
      BY DEF Init
    <3> QED
      BY <3>1, <3>2
  <2>2. NoJob \in Jobs
    BY <1>1 DEF NoJob, Job, Jobs, Kinds
  <2> QED
    BY <1>1, <2>1, <2>2 DEF Init, TypesKept
<1>3. \A t \in Threads : ~Inside(t)
  BY DEF Init, Inside
<1>4. LockHeld
  BY <1>3 DEF Init, LockHeld
<1>5. InStep
  BY <1>3 DEF Init, InStep, CutForItsModem, InEncoder, Inside
<1> QED
  BY <1>2, <1>4, <1>5

\* What a thread asks the lock for has the type of a job.
LEMMA WantsTypes ==
  ASSUME TypesKept, NEW t \in Threads, NEW kind \in Kinds, NEW level \in Levels,
         Wants(t, kind, level)
  PROVE  /\ pc' \in [Threads -> Places] /\ job' \in [Threads -> Jobs]
         /\ pc'[t] = "wanting" /\ job'[t].kind = kind
         /\ \A u \in Threads \ {t} : pc'[u] = pc[u] /\ job'[u] = job[u]
<1>1. Job(kind, level) \in Jobs /\ Job(kind, level).kind = kind
  BY DEF Job, Jobs
<1> QED
  BY <1>1 DEF Wants, Goto, TypesKept

-----------------------------------------------------------------------------
\* A step in which threads move only from a place outside to another one outside,
\* with lock, modem and segmenter left alone.
OutsideOnly ==
  /\ \A t \in Threads :
       \/ pc'[t] = pc[t] /\ job'[t] = job[t]
       \/ ~Inside(t) /\ ~Inside(t)'
  /\ UNCHANGED << lock, modem, segmenter >>

LEMMA OutsideKeeps ==
  ASSUME TypesKept, LockHeld, InStep, OutsideOnly
  PROVE  LockHeld' /\ InStep'
<1>1. \A u \in Threads : Inside(u)' <=> Inside(u)
  BY DEF OutsideOnly, Inside
<1>2. \A u \in Threads : Inside(u) => pc'[u] = pc[u] /\ job'[u] = job[u]
  BY DEF OutsideOnly
<1>3. lock' = lock /\ modem' = modem /\ segmenter' = segmenter
  BY DEF OutsideOnly
<1>4. LockHeld'
  <2>1. lock.holder \in Threads \cup {NoThread}
    BY DEF TypesKept
  <2> QED
    BY <1>1, <1>2, <1>3, <2>1 DEF LockHeld
<1>5. pc'["receiver"] = "resizing" <=> pc["receiver"] = "resizing"
  BY <1>1, <1>2 DEF Inside
<1>6. CutForItsModem'
  BY <1>1, <1>2, <1>3 DEF InStep, CutForItsModem, InEncoder, Inside
<1> QED
  BY <1>3, <1>4, <1>5, <1>6 DEF InStep
-----------------------------------------------------------------------------
(* The ways through the lock, the encoder and the socket.                  *)

\* The invariant that is inductive.
LockInv == TypesKept /\ LockHeld /\ InStep

\* A thread inside after the step, alone, as it was before or with the lock free.
LEMMA AcquireKeeps ==
  ASSUME LockInv, NEW t \in Threads, Acquire(t)
  PROVE  LockInv'
<1>1. TypesKept'
  BY DEF LockInv, TypesKept, LockHeld, Acquire, Free, Taken, Goto, shared
<1>2. \A u \in Threads : ~Inside(u)
  BY DEF LockInv, TypesKept, LockHeld, Acquire, Free, Inside
<1>3. lock' = [holder |-> t, depth |-> 1]
  BY <1>2 DEF LockInv, TypesKept, LockHeld, Acquire, Free, Taken
<1>4. Inside(t)' /\ pc'[t] \in {"locked", "reconfiguring"}
      /\ \A u \in Threads \ {t} : pc'[u] = pc[u]
  BY DEF LockInv, TypesKept, Acquire, Goto, Inside
<1>5. LockHeld'
  BY <1>2, <1>3, <1>4 DEF LockHeld, Inside
<1>6. InStep'
  BY <1>2, <1>4 DEF LockInv, InStep, Acquire, shared, CutForItsModem, InEncoder, Inside
<1> QED
  BY <1>1, <1>5, <1>6 DEF LockInv

LEMMA SegmentKeeps ==
  ASSUME LockInv, NEW t \in Threads, Segment(t)
  PROVE  LockInv'
<1>1. Inside(t) /\ pc[t] = "locked"
  BY DEF Segment, Inside
<1>2. pc'[t] = "encoding" /\ Inside(t)' /\ \A u \in Threads \ {t} : pc'[u] = pc[u]
  BY DEF LockInv, TypesKept, Segment, Goto, Inside
<1>3. \A u \in Threads \ {t} : ~Inside(u)
  BY <1>1, OneInside DEF LockInv
<1>4. TypesKept'
  <2>1. job[t] \in Jobs /\ segmenter \in Levels /\ PdusAt[segmenter] \in Int
    BY TuiAssumption DEF TuiAssumption, LockInv, TypesKept
  <2>2. [job[t] EXCEPT !.pdus = 1] \in Jobs
    BY <2>1 DEF Jobs
  <2>3. [job[t] EXCEPT !.pdus = PdusAt[segmenter], !.level = segmenter] \in Jobs
    BY <2>1 DEF Jobs
  <2>4. job' \in [Threads -> Jobs]
    BY <2>2, <2>3 DEF LockInv, TypesKept, Segment
  <2> QED
    BY <2>4 DEF LockInv, TypesKept, Segment, Goto, shared
<1>5. LockHeld'
  BY <1>1, <1>2, <1>3 DEF LockInv, LockHeld, Segment, Inside
<1>6. job'[t].kind = "data" => job'[t].level = segmenter
  BY DEF LockInv, TypesKept, Segment, Jobs
<1>7. InStep'
  BY <1>1, <1>2, <1>3, <1>6 DEF LockInv, InStep, Segment, shared, CutForItsModem, InEncoder, Inside
<1> QED
  BY <1>4, <1>5, <1>7 DEF LockInv

\* The holder goes on inside.
LEMMA WithinKeeps ==
  ASSUME LockInv, NEW t \in Threads, Encode(t) \/ PushChunk(t)
  PROVE  LockInv'
<1>1. Inside(t)
  BY DEF Encode, PushChunk, Inside
<1>2. Inside(t)' /\ (pc'[t] = "pushing" <=> pc[t] = "pushing")
      /\ pc'[t] # "resizing" /\ pc[t] # "resizing"
      /\ (pc'[t] = "encoding" => pc[t] = "encoding")
      /\ \A u \in Threads \ {t} : pc'[u] = pc[u]
  BY DEF LockInv, TypesKept, Encode, PushChunk, Goto, Inside
<1>3. \A u \in Threads \ {t} : ~Inside(u)
  BY <1>1, OneInside DEF LockInv
<1>4. TypesKept'
  BY DEF LockInv, TypesKept, Encode, PushChunk, Goto, shared, Jobs
<1>5. LockHeld'
  BY <1>1, <1>2, <1>3 DEF LockInv, LockHeld, Encode, PushChunk, Inside
<1>6. job'[t].kind = job[t].kind /\ job'[t].level = job[t].level
  BY DEF LockInv, TypesKept, Encode, PushChunk, Jobs
<1>7. InStep'
  BY <1>1, <1>2, <1>3, <1>6
  DEF LockInv, InStep, Encode, PushChunk, shared, CutForItsModem, InEncoder, Inside
<1> QED
  BY <1>4, <1>5, <1>7 DEF LockInv

\* The lock taken a second time, and let go of once: the holder stays.
LEMMA ReenterKeeps ==
  ASSUME LockInv, NEW t \in Threads, EnterSend(t) \/ LeaveSend(t)
  PROVE  LockInv'
<1>1. Inside(t)
  BY DEF EnterSend, LeaveSend, Inside
<1>2. lock = [holder |-> t, depth |-> IF pc[t] = "pushing" THEN 2 ELSE 1]
  BY <1>1 DEF LockInv, LockHeld
<1>3. Inside(t)' /\ \A u \in Threads \ {t} : pc'[u] = pc[u]
  BY DEF LockInv, TypesKept, EnterSend, LeaveSend, Goto, Inside
<1>4. \A u \in Threads \ {t} : ~Inside(u)
  BY <1>1, OneInside DEF LockInv
<1>5. lock' = [holder |-> t, depth |-> IF pc'[t] = "pushing" THEN 2 ELSE 1]
  <2>1. CASE EnterSend(t)
    BY <1>2, <2>1 DEF EnterSend, Taken, Goto, LockInv, TypesKept
  <2>2. CASE LeaveSend(t)
    BY <1>2, <2>2 DEF LeaveSend, Released, Goto, LockInv, TypesKept
  <2> QED
    BY <2>1, <2>2
<1>6. TypesKept'
  <2>1. job' \in [Threads -> Jobs]
    BY TuiAssumption DEF TuiAssumption, LockInv, TypesKept, EnterSend, LeaveSend, Jobs
  <2> QED
    BY <1>5, <2>1 DEF LockInv, TypesKept, EnterSend, LeaveSend, Goto, shared
<1>7. LockHeld'
  BY <1>3, <1>4, <1>5 DEF LockHeld, Inside
<1>8. pc'[t] # "resizing" /\ pc[t] # "resizing" /\ pc'[t] # "encoding"
  BY DEF LockInv, TypesKept, EnterSend, LeaveSend, Goto
<1>9. InStep'
  BY <1>3, <1>4, <1>8
  DEF LockInv, InStep, EnterSend, LeaveSend, shared, CutForItsModem, InEncoder, Inside
<1> QED
  BY <1>6, <1>7, <1>9 DEF LockInv

\* The lock let go of for good.
LEMMA UnlockKeeps ==
  ASSUME LockInv, NEW t \in Threads, Unlock(t) \/ Raise(t)
  PROVE  LockInv'
<1>1. Inside(t) /\ pc[t] /= "pushing" /\ pc[t] # "resizing"
  BY DEF Unlock, Raise, Inside
<1>2. lock' = [holder |-> NoThread, depth |-> 0]
  BY <1>1 DEF LockInv, LockHeld, Unlock, Raise, Released
<1>3. \A u \in Threads \ {t} : ~Inside(u)
  BY <1>1, OneInside DEF LockInv
<1>4. \A u \in Threads : ~Inside(u)' /\ pc'[u] \in Places
  BY <1>3 DEF LockInv, TypesKept, Unlock, Raise, Goto, Home, Inside
<1>5. TypesKept'
  <2>1. NoJob \in Jobs
    BY TuiAssumption DEF TuiAssumption, Levels, NoJob, Job, Jobs, Kinds
  <2>2. pc' \in [Threads -> Places]
    BY <1>4 DEF LockInv, TypesKept, Unlock, Raise, Goto
  <2> QED
    BY <1>2, <2>1, <2>2 DEF LockInv, TypesKept, Unlock, Raise, shared
<1>6. LockHeld'
  BY <1>2, <1>4 DEF LockHeld
<1>7. InStep'
  BY <1>1, <1>3, <1>4
  DEF LockInv, InStep, Unlock, Raise, shared, CutForItsModem, InEncoder, Inside
<1> QED
  BY <1>5, <1>6, <1>7 DEF LockInv

\* Mac.set_tx_scheme inside the lock: nobody is in the encoder meanwhile.
LEMMA SwitchKeeps ==
  ASSUME LockInv, Reconfigure \/ Resize
  PROVE  LockInv'
<1>1. Inside("receiver") /\ pc["receiver"] /= "pushing" /\ "receiver" \in Threads
  BY DEF Reconfigure, Resize, Inside
<1>2. \A u \in Threads \ {"receiver"} : ~Inside(u)
  BY <1>1, OneInside DEF LockInv
<1>3. /\ Inside("receiver")' /\ pc'["receiver"] \in {"resizing", "pushed"}
      /\ \A u \in Threads \ {"receiver"} : pc'[u] = pc[u]
  BY DEF LockInv, TypesKept, Reconfigure, Resize, Goto, Inside
<1>4. TypesKept'
  BY DEF LockInv, TypesKept, Reconfigure, Resize, Goto, Jobs
<1>5. LockHeld'
  BY <1>1, <1>2, <1>3 DEF LockInv, LockHeld, Reconfigure, Resize, Inside
<1>6. pc'["receiver"] /= "resizing" => segmenter' = modem'
  BY DEF LockInv, TypesKept, Reconfigure, Resize, Goto
<1>7. InStep'
  BY <1>2, <1>3, <1>6 DEF InStep, CutForItsModem, InEncoder, Inside
<1> QED
  BY <1>4, <1>5, <1>7 DEF LockInv

\* A thread that comes to want the lock.
LEMMA WantingKeeps ==
  ASSUME LockInv, NEW t \in Threads, NEW kind \in Kinds, NEW level \in Levels,
         Wants(t, kind, level), ~Inside(t), UNCHANGED << lock, modem, segmenter >>
  PROVE  LockInv'
<1>1. /\ pc' \in [Threads -> Places] /\ job' \in [Threads -> Jobs] /\ pc'[t] = "wanting"
      /\ \A u \in Threads \ {t} : pc'[u] = pc[u] /\ job'[u] = job[u]
  BY WantsTypes DEF LockInv
<1>2. OutsideOnly
  BY <1>1 DEF OutsideOnly, Inside
<1> QED
  BY <1>1, <1>2, OutsideKeeps DEF LockInv, TypesKept

LEMMA MainKeeps == ASSUME LockInv, Main PROVE LockInv'
<1>1. segmenter \in Levels /\ 0 \in Levels
  BY TuiAssumption DEF TuiAssumption, Levels, LockInv, TypesKept
<1>2. CASE FirstBind
  BY <1>1, <1>2, WantingKeeps DEF FirstBind, Inside, Kinds, shared
<1>3. CASE Type
  BY <1>1, <1>3, WantingKeeps DEF Type, Inside, Kinds, shared
<1>4. CASE StartTraffic \/ StopTraffic \/ Join
  <2>1. OutsideOnly
    BY <1>4 DEF OutsideOnly, StartTraffic, StopTraffic, Join, Running, Goto, Inside, shared,
                LockInv, TypesKept
  <2>2. TypesKept'
    BY <1>4 DEF StartTraffic, StopTraffic, Join, Goto, shared, LockInv, TypesKept
  <2> QED
    BY <2>1, <2>2, OutsideKeeps DEF LockInv
<1> QED
  BY <1>2, <1>3, <1>4 DEF Main

LEMMA TrafficKeeps == ASSUME LockInv, Traffic PROVE LockInv'
<1>1. CASE Finish
  <2>1. OutsideOnly
    BY <1>1 DEF OutsideOnly, Finish, Goto, Inside, shared, LockInv, TypesKept
  <2>2. TypesKept'
    BY <1>1 DEF Finish, Goto, shared, LockInv, TypesKept
  <2> QED
    BY <2>1, <2>2, OutsideKeeps DEF LockInv
<1>2. CASE Payload
  <2>1. 0 \in Levels
    BY TuiAssumption DEF TuiAssumption, Levels
  <2> QED
    BY <1>2, <2>1, WantingKeeps DEF Payload, Inside, Kinds, shared
<1> QED
  BY <1>1, <1>2 DEF Traffic

LEMMA ReceiverKeeps == ASSUME LockInv, Receiver PROVE LockInv'
<1>1. 0 \in Levels
  BY TuiAssumption DEF TuiAssumption, Levels
<1>2. CASE ReceiveRequest
  BY <1>1, <1>2, WantingKeeps DEF ReceiveRequest, Inside, Kinds
<1>3. CASE ReceiveReport
  BY <1>3, WantingKeeps DEF ReceiveReport, Inside, Kinds, shared
<1>4. CASE Reconfigure \/ Resize
  BY <1>4, SwitchKeeps
<1>5. CASE ReceiveResponse \/ ReceiveOther \/ CheckBound \/ Announce
  <2>1. OutsideOnly
    BY <1>5 DEF OutsideOnly, ReceiveResponse, ReceiveOther, CheckBound, Announce, Goto, Inside,
                shared, LockInv, TypesKept
  <2>2. TypesKept'
    BY <1>5 DEF ReceiveResponse, ReceiveOther, CheckBound, Announce, Goto, shared,
                LockInv, TypesKept
  <2> QED
    BY <2>1, <2>2, OutsideKeeps DEF LockInv
<1> QED
  BY <1>2, <1>3, <1>4, <1>5 DEF Receiver

LEMMA WatchdogKeeps == ASSUME LockInv, Report \/ Watchdog PROVE LockInv'
<1>1. segmenter \in Levels /\ 0 \in Levels
  BY TuiAssumption DEF TuiAssumption, Levels, LockInv, TypesKept
<1>2. CASE Report
  BY <1>1, <1>2, WantingKeeps DEF Report, Inside, Kinds, shared
<1>3. CASE Rebind
  BY <1>1, <1>3, WantingKeeps DEF Rebind, Inside, Kinds, shared
<1>4. CASE Watch \/ LinkDown \/ Clear
  <2>1. OutsideOnly
    BY <1>4 DEF OutsideOnly, Watch, LinkDown, Clear, Goto, Inside, shared, LockInv, TypesKept
  <2>2. TypesKept'
    BY <1>4 DEF Watch, LinkDown, Clear, Goto, shared, LockInv, TypesKept
  <2> QED
    BY <2>1, <2>2, OutsideKeeps DEF LockInv
<1> QED
  BY <1>2, <1>3, <1>4 DEF Watchdog

-----------------------------------------------------------------------------
(* The theorems.                                                           *)

THEOREM LockInvariant == Spec => []LockInv
<1>1. Init => LockInv
  BY InitTypes DEF LockInv
<1>2. LockInv /\ [Next]_vars => LockInv'
  <2> SUFFICES ASSUME LockInv, [Next]_vars PROVE LockInv'
    OBVIOUS
  <2>1. CASE UNCHANGED vars
    BY <2>1 DEF vars, shared, LockInv, TypesKept, LockHeld, InStep, CutForItsModem, InEncoder, Inside
  <2>2. ASSUME NEW t \in Threads, Acquire(t) PROVE LockInv'
    BY <2>2, AcquireKeeps
  <2>3. ASSUME NEW t \in Threads, Send(t) PROVE LockInv'
    BY <2>3, SegmentKeeps, WithinKeeps, ReenterKeeps, UnlockKeeps DEF Send
  <2> QED
    BY <2>1, <2>2, <2>3, MainKeeps, TrafficKeeps, ReceiverKeeps, WatchdogKeeps DEF Next
<1> QED
  BY <1>1, <1>2, PTL DEF Spec

\* One encoder call and one frame on the socket at a time, and no change of modem
\* under a frame, for bursts of any length: push_lock is enough.
THEOREM OneFrameAtATime == Spec => []FramesWhole
<1>1. LockInv => FramesWhole
  <2> SUFFICES ASSUME LockInv PROVE FramesWhole
    OBVIOUS
  <2>1. \A t, u \in Threads : Inside(t) /\ Inside(u) => t = u
    BY OneInside DEF LockInv
  <2>2. Cardinality(InEncoder) <= 1
    BY <2>1, AtMostOne DEF InEncoder, Inside
  <2>3. Cardinality(MidBurst) <= 1
    BY <2>1, AtMostOne DEF MidBurst, Inside
  <2>4. InEncoder /= {} => pc["receiver"] /= "resizing"
    BY <2>1 DEF InEncoder, Inside
  <2> QED
    BY <2>2, <2>3, <2>4 DEF FramesWhole
<1> QED
  BY <1>1, LockInvariant, PTL

\* A payload in the encoder was cut for the modem that frames it, whatever
\* switches the peer's reports cause.
THEOREM CutForTheModem == Spec => []CutForItsModem
<1>1. LockInv => CutForItsModem
  BY DEF LockInv, InStep
<1> QED
  BY <1>1, LockInvariant, PTL

\* A generator told to stop starts no payload any more and is not told otherwise
\* before its thread is gone.
THEOREM StoppedForGood == Spec => StopIsFinal
<1> DEFINE Final == stop /\ Running =>
       /\ stop' \/ ~Running'
       /\ ~(pc["traffic"] = "looping" /\ pc'["traffic"] = "wanting")
<1>1. LockInv /\ [Next]_vars => Final
  <2> SUFFICES ASSUME LockInv, [Next]_vars, stop, Running PROVE Final
    OBVIOUS
  <2>1. CASE UNCHANGED vars
    BY <2>1 DEF vars, shared
  <2>2. CASE \E t \in Threads : Acquire(t) \/ Send(t)
    <3>1. PICK t \in Threads : Acquire(t) \/ Send(t)
      BY <2>2
    <3>2. stop' = stop
      BY <3>1 DEF Acquire, Send, Segment, Raise, Encode, EnterSend, PushChunk, LeaveSend, Unlock
    <3>3. pc[t] /= "looping"
      BY <3>1 DEF Acquire, Send, Segment, Raise, Encode, EnterSend, PushChunk, LeaveSend, Unlock
    <3>4. \A u \in Threads \ {t} : pc'[u] = pc[u] \/ pc'[u] = "dead"
      BY <3>1 DEF Acquire, Send, Segment, Raise, Encode, EnterSend, PushChunk, LeaveSend, Unlock,
                  Goto, LockInv, TypesKept
    <3> QED
      BY <3>2, <3>3, <3>4
  <2>3. CASE Main
    BY <2>3 DEF Main, FirstBind, Type, StartTraffic, StopTraffic, Join, Wants, Goto,
                LockInv, TypesKept
  <2>4. CASE Traffic
    BY <2>4 DEF Traffic, Finish, Payload, Goto, LockInv, TypesKept
  <2>5. CASE Receiver
    BY <2>5 DEF Receiver, ReceiveRequest, ReceiveResponse, ReceiveOther, ReceiveReport,
                Reconfigure, Resize, CheckBound, Announce, Wants, Goto, LockInv, TypesKept
  <2>6. CASE Report \/ Watchdog
    BY <2>6 DEF Report, Watchdog, Watch, LinkDown, Clear, Rebind, Wants, Goto, LockInv, TypesKept
  <2> QED
    BY <2>1, <2>2, <2>3, <2>4, <2>5, <2>6 DEF Next
<1>2. LockInv /\ [Next]_vars => [Final]_vars
  BY <1>1
<1> QED
  BY <1>2, LockInvariant, PTL DEF Spec, StopIsFinal
=============================================================================
