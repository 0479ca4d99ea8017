----------------------------- MODULE MacSession -----------------------------
(***************************************************************************)
(* MacLink (mac/session.py): bind, then send SDUs over a PHY that carries  *)
(* one PDU a round and may lose it.  One object drives both ends, so a     *)
(* round is a step: the PDU either reaches the peer's Mac or is gone       *)
(* (frame not found, CRC failure and a decoding exception are alike).      *)
(* The quality counters every round feeds are left out: nothing here reads *)
(* them.                                                                   *)
(***************************************************************************)
EXTENDS AmEntity, Bind

CONSTANTS
  Builds,         \* what a link may be built with; with another window than
                  \* WindowSize or other retries it must be unable to bind
  MaxBinds        \* bound of the model: calls of bind()

ASSUME SessionAssumption ==
  /\ Builds \subseteq [mode : {"tm", "um", "am"}, capacity : Nat, window : Nat, retries : Nat]
  /\ \A b \in Builds : ParametersFit(b) => b.window = WindowSize /\ b.retries = MaxRetries

MaxRoundsShort == MaxRetries + 1                                \* fault

MaxRounds == MaxRetries + 2

VARIABLES
  build,          \* what this link was built with
  pdu,            \* the bind PDU on the air; << >> when there is none
  answer,         \* the response bind() read last; none accepted before
  bound,          \* MacLink.bound
  phase,          \* where the running call is; "idle" between calls
  todo,           \* PDUs of this round not yet sent
  round,          \* rounds this send() has completed
  binds,          \* calls of bind() so far
  \* What the properties remember of the calls so far:
  statusLost,     \* most status reports any one send() lost; and this one
  overran         \* some send() went further than the window past the PDU
                  \* the peer waited for

historyVars == <<statusLost, overran>>
sessionVars == <<build, pdu, answer, bound, phase, todo, round, binds, historyVars>>
vars == <<amVars, sessionVars>>

mode == build.mode

bindVars == <<build, pdu, answer, bound>>

-----------------------------------------------------------------------------
(* bind() *)

(* It raises when the request cannot say what the link was built with.     *)
Bind ==
  /\ phase = "idle"
  /\ binds < MaxBinds
  /\ binds' = binds + 1
  /\ LET request == EncodeBindRequest(build)
     IN  IF request.ok
         THEN phase' = "bind request" /\ pdu' = request.val
         ELSE UNCHANGED <<phase, pdu>>
  /\ UNCHANGED <<amVars, build, answer, bound, todo, round, historyVars>>

(* The acceptor has the requester's own capacity.                          *)
RequestRound(arrived) ==
  /\ phase = "bind request"
  /\ \/ /\ arrived
        /\ LET request == DecodeBindRequest(pdu).val
           IN  pdu' = EncodeBindResponse(EvaluateBindRequest(request, build.capacity)).val
        /\ phase' = "bind response"
        /\ UNCHANGED bound
     \/ ~arrived /\ bound' = FALSE /\ pdu' = <<>> /\ phase' = "idle"
  /\ UNCHANGED <<amVars, build, answer, todo, round, binds, historyVars>>

ResponseRound(arrived) ==
  /\ phase = "bind response"
  /\ \/ /\ arrived
        /\ answer' = DecodeBindResponse(pdu).val
        /\ bound' = answer'.accepted
     \/ ~arrived /\ bound' = FALSE /\ UNCHANGED answer
  /\ pdu' = <<>> /\ phase' = "idle"
  /\ UNCHANGED <<amVars, build, todo, round, binds, historyVars>>

-----------------------------------------------------------------------------
(* send() *)

(* TM numbers nothing and never segments; its PDUs have positions here     *)
(* only to tell them apart.                                                *)
NumberSdu(count) ==
  \/ mode = "am" /\ AmTransmit(count)
  \/ /\ mode = "um" \/ (mode = "tm" /\ count = 1)
     /\ Transmit(count)
     /\ UNCHANGED <<rxVars, retx, failed, received>>

\* The last of count new PDUs is one a report of the peer can still NACK.
WithinWindow(count) ==
  SnDistance(expected, SnOf(Len(sent) + count - 1)) < WindowSize

Send(count) ==
  /\ phase = "idle" /\ bound
  /\ Len(sent) + count <= MaxPdus
  /\ NumberSdu(count)
  /\ todo' = Numbered(count)
  /\ phase' = "data"
  /\ round' = 0
  /\ statusLost' = [statusLost EXCEPT !.now = 0]
  /\ overran' = (overran \/ ~WithinWindow(count))
  /\ UNCHANGED <<bindVars, binds>>

(* transmit() raises part way through and send() with it. *)
SendTooLong(count) ==
  /\ phase = "idle" /\ bound /\ mode # "tm"
  /\ Len(sent) + count <= MaxPdus
  /\ AmTransmitTooLong(count)
  /\ UNCHANGED sessionVars

(* The peer's Mac takes PDU p in. *)
Arrive(p) ==
  \/ mode = "am" /\ ReceiveData(p)
  \/ mode = "um" /\ Ingest(p) /\ UNCHANGED <<txVars, retx, failed, received>>
  \/ /\ mode = "tm"
     /\ delivered' = Append(delivered, p)
     /\ UNCHANGED <<txVars, expected, pending, inProgress, retx, failed, received>>

(* The buffer is a dict in the order of transmission: the oldest PDU goes  *)
(* first.  Only AM asks for a report once all are sent.                    *)
DataRound(arrived) ==
  /\ phase = "data"
  /\ \E p \in todo :
       /\ \A q \in todo : p <= q
       /\ \/ arrived /\ Arrive(p)
          \/ ~arrived /\ UNCHANGED amVars
       /\ todo' = todo \ {p}
  /\ phase' = IF todo' # {} THEN "data" ELSE IF mode = "am" THEN "status" ELSE "idle"
  /\ UNCHANGED <<bindVars, round, binds, historyVars>>

StatusRoundUncounted(arrived) ==                                \* fault
  /\ phase = "status"
  /\ \/ /\ arrived
        /\ ReceiveStatus(BuildStatus)
        /\ todo' = ToRetransmit(BuildStatus)
        /\ round' = round + 1
     \/ /\ ~arrived
        /\ todo' = PendingPdus
        /\ UNCHANGED <<amVars, round>>
  /\ phase' = IF todo' # {} /\ round' < MaxRounds THEN "data" ELSE "idle"
  /\ UNCHANGED <<bindVars, binds, historyVars>>

(* A lost report does not count against any PDU's retries, but it does     *)
(* count as a round.                                                       *)
StatusRound(arrived) ==
  /\ phase = "status"
  /\ \/ /\ arrived
        /\ ReceiveStatus(BuildStatus)
        /\ todo' = ToRetransmit(BuildStatus)
        /\ UNCHANGED statusLost
     \/ /\ ~arrived
        /\ todo' = PendingPdus
        /\ LET now == statusLost.now + 1
               most == IF now > statusLost.most THEN now ELSE statusLost.most
         IN  statusLost' = [now |-> now, most |-> most]
        /\ UNCHANGED amVars
  /\ round' = round + 1
  /\ phase' = IF todo' # {} /\ round' < MaxRounds THEN "data" ELSE "idle"
  /\ UNCHANGED <<bindVars, binds, overran>>

-----------------------------------------------------------------------------

Init ==
  /\ AmInit
  /\ build \in Builds
  /\ pdu = <<>>
  /\ answer = [accepted |-> FALSE]
  /\ bound = FALSE
  /\ phase = "idle"
  /\ todo = {}
  /\ round = 0
  /\ binds = 0
  /\ statusLost = [now |-> 0, most |-> 0]
  /\ overran = FALSE

Running == \E arrived \in BOOLEAN :
  \/ RequestRound(arrived) \/ ResponseRound(arrived)
  \/ DataRound(arrived) \/ StatusRound(arrived)

Next ==
  \/ Bind
  \/ \E count \in SduSizes : Send(count) \/ SendTooLong(count)
  \/ Running

Spec == Init /\ [][Next]_vars

(* A call, once made, runs: nothing here blocks. *)
FairSpec == Spec /\ WF_vars(Running)

-----------------------------------------------------------------------------

(* send(): "see AmEntity.failed_sns to distinguish 'still pending' from    *)
(* 'gave up'".  When it returns with nothing pending in the buffer and     *)
(* nothing given up, the peer's caller has every SDU sent, whole and in    *)
(* order.                                                                  *)
Settled == phase = "idle" /\ retx = <<>> /\ failed = {} /\ burnt = {}

DeliveredOnReturn ==
  mode = "am" /\ Settled => delivered = [i \in 1 .. Len(sent) |-> i - 1]

(* The same for a caller that keeps within the window of what the peer     *)
(* waits for, and whose calls lost at most one report each.                *)
DeliveredWhenReported ==
  ~overran /\ statusLost.most <= 1 => DeliveredOnReturn

(* "enough rounds for every buffered PDU to exhaust its retry budget, plus *)
(* slack for the final status round": with at most one report lost, send() *)
(* returns only when each PDU was acknowledged or given up on.  It needs   *)
(* the window, which a PDU given up on shortens: the peer goes on waiting  *)
(* for it, and cannot NACK what lies WindowSize or further beyond.         *)
ResolvedOnReturn ==
  mode = "am" /\ phase = "idle" /\ ~overran /\ statusLost.most <= 1 => retx = <<>>

(* bind(): "agreeing on session parameters (mode, max_segment_bits,         *)
(* window_size, max_retries) before data flows".  A bound link agreed on   *)
(* what its Macs were built with, each field whole (a capacity cut to two  *)
(* bytes did bind once), and every number it has sent was sent bound.      *)
BoundAsBuilt ==
  /\ bound => answer.accepted /\ answer.params = build
  /\ sent # <<>> => answer.accepted

(* Every call returns, whatever is lost. *)
CallReturns == phase # "idle" ~> phase = "idle"

=============================================================================
