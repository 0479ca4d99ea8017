-------------------------- MODULE MacSessionProofs --------------------------
(***************************************************************************)
(* Theorems of MacSession for every window, retry budget, SN modulus, set  *)
(* of SDU sizes and build of a link, whatever the PHY loses.               *)
(***************************************************************************)
EXTENDS MacSession, EntityProofs

-----------------------------------------------------------------------------
(* A number of four bytes is what its bytes add up to.                     *)

LEMMA DivFacts ==
  ASSUME NEW v \in Nat, NEW n \in Nat \ {0}
  PROVE  /\ v \div n \in Nat /\ v % n \in 0 .. n - 1 /\ v % n \in Nat
         /\ v = n * (v \div n) + (v % n)
OBVIOUS

LEMMA DivUnique ==
  ASSUME NEW n \in Nat \ {0}, NEW q \in Nat, NEW r \in 0 .. n - 1
  PROVE  (n * q + r) \div n = q
<1> DEFINE a == n * q + r  d == a \div n  m == a % n
<1>1. a \in Nat /\ d \in Nat /\ m \in 0 .. n - 1 /\ a = n * d + m
  <2>1. a \in Nat
    OBVIOUS
  <2> HIDE DEF a
  <2> QED BY <2>1, DivFacts
<1>2. n * d + m = n * q + r
  BY <1>1
<1> HIDE DEF a, d, m
<1>3. ASSUME d < q PROVE FALSE
  <2>1. PICK k \in Nat : q = d + 1 + k
    <3>1. q - d - 1 \in Nat /\ q = d + 1 + (q - d - 1)
      BY <1>1, <1>3
    <3> QED BY <3>1
  <2>2. n * q = n * d + n + n * k /\ n * k \in Nat /\ n * d \in Nat
    BY <1>1, <2>1
  <2> QED BY <1>1, <1>2, <2>2
<1>4. ASSUME q < d PROVE FALSE
  <2>1. PICK k \in Nat : d = q + 1 + k
    <3>1. d - q - 1 \in Nat /\ d = q + 1 + (d - q - 1)
      BY <1>1, <1>4
    <3> QED BY <3>1
  <2>2. n * d = n * q + n + n * k /\ n * k \in Nat /\ n * q \in Nat
    BY <1>1, <2>1
  <2> QED BY <1>1, <1>2, <2>2
<1>5. d = q
  BY <1>1, <1>3, <1>4
<1>6. d = (n * q + r) \div n
  BY DEF d, a
<1> QED BY <1>5, <1>6, Zenon

(* Shifting twice is shifting by the sum.                                  *)
LEMMA DivDiv ==
  ASSUME NEW v \in Nat, NEW m \in Nat \ {0}, NEW n \in Nat \ {0}
  PROVE  v \div (m * n) = (v \div m) \div n
<1> DEFINE q == v \div m  r == v % m  d == q \div n  s == q % n
<1>1. q \in Nat /\ r \in 0 .. m - 1 /\ v = m * q + r
  BY DivFacts
<1>2. d \in Nat /\ s \in 0 .. n - 1 /\ q = n * d + s
  <2> HIDE DEF q
  <2> QED BY <1>1, DivFacts
<1> HIDE DEF q, r, d, s
<1>3. v = (m * n) * d + (m * s + r)
  <2>1. m * q = m * (n * d + s) /\ m * (n * d + s) = m * (n * d) + m * s
    BY <1>1, <1>2
  <2>2. m * (n * d) = (m * n) * d
    BY <1>1, <1>2
  <2> QED BY <1>1, <1>2, <2>1, <2>2
<1>4. m * n \in Nat \ {0} /\ m * s + r \in 0 .. m * n - 1
  <2>1. PICK k \in Nat : n = s + 1 + k
    <3>1. n - s - 1 \in Nat /\ n = s + 1 + (n - s - 1)
      BY <1>2
    <3> QED BY <3>1
  <2>2. s \in Nat /\ r \in Nat
    BY <1>1, <1>2
  <2>3. m * n = m * s + m + m * k /\ m * s \in Nat /\ m * k \in Nat
    BY <2>1, <2>2
  <2> QED BY <1>1, <2>2, <2>3
<1>5. v \div (m * n) = d
  BY <1>2, <1>3, <1>4, DivUnique
<1> QED BY <1>5 DEF d, q

LEMMA U32RoundTrip ==
  ASSUME NEW v \in Nat, Fits32(v), NEW payload, NEW offset,
         payload[offset + 1] = U32(v)[1], payload[offset + 2] = U32(v)[2],
         payload[offset + 3] = U32(v)[3], payload[offset + 4] = U32(v)[4]
  PROVE  ReadU32(payload, offset) = v
<1>0. PICK n \in Nat \ {0} : n = Base
  BY BindAssumption DEF Base
<1> DEFINE q1 == v \div n   r0 == v % n
           q2 == q1 \div n  r1 == q1 % n
           q3 == q2 \div n  r2 == q2 % n
<1>1. q1 \in Nat /\ r0 \in Nat /\ v = n * q1 + r0
  BY DivFacts, Zenon
<1>2. q2 \in Nat /\ r1 \in Nat /\ q1 = n * q2 + r1
  <2> HIDE DEF q1
  <2> QED BY <1>1, DivFacts, Zenon DEF q2, r1
<1>3. q3 \in Nat /\ r2 \in Nat /\ q2 = n * q3 + r2
  <2> HIDE DEF q2
  <2> QED BY <1>2, DivFacts, Zenon DEF q3, r2
<1>4. v \div (n * n) = q2 /\ n * n \in Nat \ {0}
  <2>1. n * n \in Nat \ {0}
    OBVIOUS
  <2> QED BY <2>1, DivDiv
<1>5. v \div (n * n * n) = q3
  <2>1. v \div ((n * n) * n) = (v \div (n * n)) \div n
    BY <1>4, DivDiv
  <2> QED BY <1>4, <2>1
<1>6. U32(v)[1] = q3 % n /\ U32(v)[2] = r2 /\ U32(v)[3] = r1 /\ U32(v)[4] = r0
  BY <1>0, <1>4, <1>5 DEF U32
<1> HIDE DEF q1, q2, q3, r0, r1, r2
<1>7. v = n * n * n * q3 + n * n * r2 + n * r1 + r0
  <2>1. n * q2 = n * (n * q3) + n * r2
    BY <1>3
  <2>2. q1 = n * (n * q3) + n * r2 + r1
    BY <1>2, <2>1
  <2>3. n * q1 = n * (n * (n * q3)) + n * (n * r2) + n * r1
    BY <1>3, <1>2, <2>2
  <2>4. n * (n * (n * q3)) = n * n * n * q3 /\ n * (n * r2) = n * n * r2
    BY <1>3
  <2> QED BY <1>1, <2>3, <2>4
<1>8. q3 < n
  <2>1. v < n * n * n * n
    BY <1>0 DEF Fits32
  <2>2. CASE n <= q3
    <3>1. PICK k \in Nat : q3 = n + k
      <4>1. q3 - n \in Nat /\ q3 = n + (q3 - n)
        BY <1>3, <2>2
      <4> QED BY <4>1
    <3>2. n * n * n * q3 = n * n * n * n + n * n * n * k
      BY <3>1
    <3>3. n * n * n * k \in Nat /\ n * n * r2 \in Nat /\ n * r1 \in Nat
          /\ n * n * n * n \in Nat
      BY <1>2, <1>3, <3>1
    <3> QED BY <1>1, <1>7, <2>1, <3>2, <3>3
  <2> QED BY <1>3, <2>2
<1>9. q3 % n = q3
  BY <1>3, <1>8
<1>10. ReadU32(payload, offset) = q3 * (n * n * n) + r2 * (n * n) + r1 * n + r0
  BY <1>0, <1>6, <1>9 DEF ReadU32
<1>11. q3 * (n * n * n) = n * n * n * q3 /\ r2 * (n * n) = n * n * r2 /\ r1 * n = n * r1
  BY <1>2, <1>3
<1> QED BY <1>7, <1>10, <1>11

-----------------------------------------------------------------------------
(* Binding.                                                                *)

LEMMA CodeOfFacts ==
  /\ \A name \in {"tm", "um", "am"} :
       /\ CodeOf(name, ModeNames) + 1 \in DOMAIN ModeNames
       /\ ModeNames[CodeOf(name, ModeNames) + 1] = name
       /\ name \in Range(ModeNames)
  /\ CodeOf("none", ReasonNames) + 1 \in DOMAIN ReasonNames
  /\ ReasonNames[CodeOf("none", ReasonNames) + 1] = "none"
<1>1. ASSUME NEW names, DOMAIN names \subseteq Int, NEW name,
             \E i \in DOMAIN names : names[i] = name
      PROVE  CodeOf(name, names) + 1 \in DOMAIN names /\ names[CodeOf(name, names) + 1] = name
  <2>1. PICK i \in DOMAIN names : i = CHOOSE j \in DOMAIN names : names[j] = name
    BY <1>1
  <2>2. names[i] = name
    BY <1>1, <2>1
  <2>3. CodeOf(name, names) + 1 = i
    BY <1>1, <2>1 DEF CodeOf
  <2> QED BY <2>2, <2>3
<1>2. DOMAIN ModeNames = 1 .. 3 /\ DOMAIN ReasonNames = 1 .. 3
  BY DEF ModeNames, ReasonNames
<1>3. \A name \in {"tm", "um", "am"} : \E i \in DOMAIN ModeNames : ModeNames[i] = name
  <2>1. ModeNames[1] = "tm" /\ ModeNames[2] = "um" /\ ModeNames[3] = "am"
    BY DEF ModeNames
  <2> QED BY <1>2, <2>1
<1>4. \E i \in DOMAIN ReasonNames : ReasonNames[i] = "none"
  <2>1. ReasonNames[1] = "none"
    BY DEF ReasonNames
  <2> QED BY <1>2, <2>1
<1>5. \A name \in {"tm", "um", "am"} : name \in Range(ModeNames)
  BY <1>3 DEF Range
<1> QED BY <1>1, <1>2, <1>3, <1>4, <1>5

BuildType == [mode : {"tm", "um", "am"}, capacity : Nat, window : Nat, retries : Nat]

LEMMA RequestRead ==
  ASSUME NEW b \in BuildType, ParametersFit(b)
  PROVE  /\ EncodeBindRequest(b).ok
         /\ DecodeBindRequest(EncodeBindRequest(b).val).val = b
<1> DEFINE payload == << CodeOf(b.mode, ModeNames) >> \o U32(b.capacity)
                        \o << b.window, b.retries >>
           request == [type |-> "BIND_REQUEST", payload |-> payload]
<1>1. EncodeBindRequest(b) = [ok |-> TRUE, val |-> request]
  BY DEF EncodeBindRequest, Returns
<1>2. /\ payload[1] = CodeOf(b.mode, ModeNames)
      /\ payload[1 + 1] = U32(b.capacity)[1] /\ payload[1 + 2] = U32(b.capacity)[2]
      /\ payload[1 + 3] = U32(b.capacity)[3] /\ payload[1 + 4] = U32(b.capacity)[4]
      /\ payload[6] = b.window /\ payload[7] = b.retries
  BY DEF U32
<1>3. /\ b.mode \in {"tm", "um", "am"} /\ b.capacity \in Nat /\ Fits32(b.capacity)
      /\ b = [mode |-> b.mode, capacity |-> b.capacity, window |-> b.window,
              retries |-> b.retries]
  BY DEF BuildType, ParametersFit
<1> HIDE DEF payload
<1>4. ReadU32(payload, 1) = b.capacity
  BY <1>2, <1>3, U32RoundTrip
<1>5. payload[1] + 1 \in DOMAIN ModeNames /\ ModeNames[payload[1] + 1] = b.mode
  BY <1>2, <1>3, CodeOfFacts
<1>6. request.type = "BIND_REQUEST" /\ request.payload = payload
  OBVIOUS
<1> HIDE DEF request
<1>7. DecodeBindRequest(request).val
        = [mode |-> b.mode, capacity |-> b.capacity, window |-> b.window,
           retries |-> b.retries]
  BY <1>2, <1>4, <1>5, <1>6 DEF DecodeBindRequest, Returns
<1> QED BY <1>1, <1>3, <1>7

(* The acceptor has the requester's own capacity, so it accepts.           *)
LEMMA ResponseRead ==
  ASSUME NEW b \in BuildType, ParametersFit(b)
  PROVE  LET answered == EncodeBindResponse(EvaluateBindRequest(b, b.capacity)).val
         IN  /\ DecodeBindResponse(answered).val.accepted = TRUE
             /\ DecodeBindResponse(answered).val.params = b
<1> DEFINE decision == [accepted |-> TRUE, reason |-> "none", params |-> b]
           payload == << 1, CodeOf("none", ReasonNames), CodeOf(b.mode, ModeNames) >>
                        \o U32(b.capacity) \o << b.window, b.retries >>
           answered == [type |-> "BIND_RESPONSE", payload |-> payload]
<1>1. /\ b.mode \in {"tm", "um", "am"} /\ b.capacity \in Nat /\ Fits32(b.capacity)
      /\ b = [mode |-> b.mode, capacity |-> b.capacity, window |-> b.window,
              retries |-> b.retries]
  BY DEF BuildType, ParametersFit
<1>2. EvaluateBindRequest(b, b.capacity) = decision
  <2>1. b.mode \in Range(ModeNames) /\ ~(b.capacity > b.capacity)
    BY <1>1, CodeOfFacts
  <2> QED BY <2>1 DEF EvaluateBindRequest
<1>3. EncodeBindResponse(decision).val = answered
  BY DEF EncodeBindResponse, Returns
<1>4. /\ payload[1] = 1 /\ payload[2] = CodeOf("none", ReasonNames)
      /\ payload[3] = CodeOf(b.mode, ModeNames)
      /\ payload[3 + 1] = U32(b.capacity)[1] /\ payload[3 + 2] = U32(b.capacity)[2]
      /\ payload[3 + 3] = U32(b.capacity)[3] /\ payload[3 + 4] = U32(b.capacity)[4]
      /\ payload[8] = b.window /\ payload[9] = b.retries
  BY DEF U32
<1>5. answered.type = "BIND_RESPONSE" /\ answered.payload = payload
  OBVIOUS
<1> HIDE DEF payload, answered, decision
<1>6. ReadU32(payload, 3) = b.capacity
  BY <1>1, <1>4, U32RoundTrip
<1>7. /\ payload[3] + 1 \in DOMAIN ModeNames /\ ModeNames[payload[3] + 1] = b.mode
      /\ payload[2] + 1 \in DOMAIN ReasonNames /\ payload[1] # 0
  BY <1>1, <1>4, CodeOfFacts
<1>8. DecodeBindResponse(answered).val
        = [accepted |-> TRUE, reason |-> ReasonNames[payload[2] + 1],
           params |-> [mode |-> b.mode, capacity |-> b.capacity, window |-> b.window,
                       retries |-> b.retries]]
  BY <1>4, <1>5, <1>6, <1>7 DEF DecodeBindResponse, Returns
<1> QED BY <1>1, <1>2, <1>3, <1>8

(* The bind PDUs say what the link was built with.                         *)
BindInv ==
  /\ build \in Builds
  /\ phase = "bind request" =>
       ParametersFit(build) /\ pdu = EncodeBindRequest(build).val
  /\ phase = "bind response" =>
       /\ ParametersFit(build)
       /\ pdu = EncodeBindResponse(EvaluateBindRequest(build, build.capacity)).val
  /\ answer.accepted => answer.params = build
  /\ bound => answer.accepted
  /\ sent # <<>> => answer.accepted

LEMMA NextBindInv == ASSUME BindInv, [Next]_vars PROVE BindInv'
<1>1. build \in BuildType
  BY SessionAssumption DEF BindInv, BuildType
<1>2. CASE Bind
  <2>1. ASSUME EncodeBindRequest(build).ok PROVE ParametersFit(build)
    BY <2>1 DEF EncodeBindRequest, ValueError
  <2>2. /\ UNCHANGED <<build, sent, answer, bound>> /\ phase = "idle"
        /\ \/ /\ EncodeBindRequest(build).ok
              /\ phase' = "bind request" /\ pdu' = EncodeBindRequest(build).val
           \/ phase' = "idle"
    BY <1>2 DEF Bind, amVars, txVars
  <2> QED BY <2>1, <2>2 DEF BindInv
<1>3. ASSUME NEW arrived \in BOOLEAN, RequestRound(arrived) PROVE BindInv'
  <2>1. /\ UNCHANGED <<build, sent, answer>> /\ phase = "bind request"
        /\ ParametersFit(build) /\ pdu = EncodeBindRequest(build).val
    BY <1>3 DEF RequestRound, amVars, txVars, BindInv
  <2>2. CASE phase' = "bind response"
    <3>1. /\ bound' = bound
          /\ pdu' = EncodeBindResponse(EvaluateBindRequest(DecodeBindRequest(pdu).val,
                                                           build.capacity)).val
      BY <1>3, <2>2 DEF RequestRound
    <3>2. DecodeBindRequest(pdu).val = build
      BY <1>1, <2>1, RequestRead
    <3>3. pdu' = EncodeBindResponse(EvaluateBindRequest(build, build.capacity)).val
      BY <3>1, <3>2
    <3> QED BY <2>1, <2>2, <3>1, <3>3 DEF BindInv
  <2>3. CASE phase' = "idle" /\ ~bound'
    BY <2>1, <2>3 DEF BindInv
  <2> QED BY <1>3, <2>2, <2>3 DEF RequestRound
<1>4. ASSUME NEW arrived \in BOOLEAN, ResponseRound(arrived) PROVE BindInv'
  <2>1. /\ UNCHANGED <<build, sent>> /\ phase' = "idle" /\ ParametersFit(build)
        /\ pdu = EncodeBindResponse(EvaluateBindRequest(build, build.capacity)).val
    BY <1>4 DEF ResponseRound, amVars, txVars, BindInv
  <2>2. /\ DecodeBindResponse(pdu).val.accepted = TRUE
        /\ DecodeBindResponse(pdu).val.params = build
    BY <1>1, <2>1, ResponseRead
  <2>3. CASE answer' = DecodeBindResponse(pdu).val /\ bound' = answer'.accepted
    BY <2>1, <2>2, <2>3 DEF BindInv
  <2>4. CASE ~bound' /\ answer' = answer
    BY <2>1, <2>4 DEF BindInv
  <2> QED BY <1>4, <2>3, <2>4 DEF ResponseRound
\* send() runs bound, and changes nothing of this.
<1>5. ASSUME UNCHANGED bindVars, phase' \in {"idle", "data", "status"},
             sent' = sent \/ bound
      PROVE  BindInv'
  BY <1>5 DEF BindInv, bindVars
<1>6. ASSUME NEW count \in SduSizes, Send(count) PROVE BindInv'
  BY <1>5, <1>6 DEF Send
<1>7. ASSUME NEW count \in SduSizes, SendTooLong(count) PROVE BindInv'
  BY <1>5, <1>7 DEF SendTooLong, sessionVars, bindVars
<1>8. ASSUME NEW arrived \in BOOLEAN, DataRound(arrived) PROVE BindInv'
  <2>1. sent' = sent
    BY <1>8 DEF DataRound, Arrive, ReceiveData, amVars, txVars
  <2> QED BY <1>5, <1>8, <2>1 DEF DataRound
<1>9. ASSUME NEW arrived \in BOOLEAN, StatusRound(arrived) PROVE BindInv'
  <2>1. sent' = sent
    BY <1>9 DEF StatusRound, ReceiveStatus, amVars, txVars
  <2> QED BY <1>5, <1>9, <2>1 DEF StatusRound
<1>10. CASE UNCHANGED vars
  BY <1>10 DEF vars, sessionVars, amVars, txVars, BindInv
<1> QED BY <1>2, <1>3, <1>4, <1>6, <1>7, <1>8, <1>9, <1>10 DEF Next, Running

(* A bound link agreed on what its Macs were built with, each field whole, *)
(* and has sent nothing unbound (bind(), send()'s check of self.bound).    *)
THEOREM BindsAsBuilt == Spec => []BoundAsBuilt
<1>1. Init => BindInv
  BY DEF Init, AmInit, ReassemblyInit, BindInv
<1>2. BindInv /\ [Next]_vars => BindInv'
  BY NextBindInv
<1>3. BindInv => BoundAsBuilt
  BY DEF BindInv, BoundAsBuilt
<1> QED BY <1>1, <1>2, <1>3, PTL DEF Spec

-----------------------------------------------------------------------------
(* send(), acknowledged.                                                   *)

Sending == phase \in {"data", "status"}

(* The caller kept within the window and no call lost two reports.         *)
Kept == ~overran /\ statusLost.most <= 1

CallType ==
  /\ phase \in {"idle", "bind request", "bind response", "data", "status"}
  /\ round \in Nat
  /\ statusLost \in [now : Nat, most : Nat] /\ statusLost.now <= statusLost.most
  /\ phase = "data" => todo # {} /\ todo \subseteq DOMAIN retx

(* Between calls that kept within the window the buffer is empty.  During  *)
(* one, every PDU of it has been NACKed by every report that arrived.      *)
Windowed ==
  /\ ~Sending => DOMAIN retx = {}
  /\ Sending =>
       /\ Len(sent) - expected <= WindowSize
       /\ round < MaxRounds
       /\ \A p \in DOMAIN retx : retx[p] = round - statusLost.now
  /\ failed = {} /\ burnt = {} => ExactSoFar

(* Unless a transmit() raised, whole SDUs were numbered.                   *)
WholeSent == burnt = {} /\ sent # <<>> => EndsSdu(Len(sent) - 1)

AmInv == EntityInv /\ CallType /\ WholeSent /\ (Kept => Windowed)

SessionInv == mode = "am" => AmInv

LEMMA InitSessionInv == Init => SessionInv
<1> SUFFICES ASSUME Init PROVE SessionInv
  OBVIOUS
<1>1. AmInit /\ sent = <<>> /\ retx = <<>> /\ DOMAIN retx = {}
  BY DEF Init, AmInit, ReassemblyInit
<1>2. EntityInv /\ ExactSoFar
  BY <1>1, InitEntityInv, InitExactSoFar
<1>3. CallType
  BY DEF Init, CallType
<1>4. WholeSent
  BY <1>1 DEF WholeSent
<1>5. Windowed
  BY <1>1, <1>2 DEF Init, Windowed, Sending
<1> QED BY <1>2, <1>3, <1>4, <1>5 DEF SessionInv, AmInv

LEMMA NoEntries == AmTypeOK /\ DOMAIN retx = {} => retx = <<>>
  BY DEF AmTypeOK

(* While the peer can NACK all that is in the buffer, a report leaves in   *)
(* it what is to be sent again, each NACKed once more.                     *)
LEMMA ReportReads ==
  ASSUME OneGeneration, EntityInv, Len(sent) - expected <= WindowSize,
         ReceiveStatus(BuildStatus)
  PROVE  /\ EntityInv'
         /\ UNCHANGED <<txVars, rxVars, received>>
         /\ DOMAIN retx' = ToRetransmit(BuildStatus)
         /\ \A p \in DOMAIN retx' : p \in DOMAIN retx /\ retx'[p] = retx[p] + 1
         /\ failed \subseteq failed'
<1> DEFINE status == BuildStatus
<1>1. status \in Status /\ ReportTrue(status) /\ status.base = expected
  BY BuildStatusType, BuildStatusTrue, EntityFacts DEF BuildStatus
<1>2. /\ EntityInv' /\ UNCHANGED <<txVars, rxVars, received>> /\ failed \subseteq failed'
      /\ DOMAIN retx' = {p \in DOMAIN retx : ~Acked(p, status)} \ GivenUp(status)
  BY <1>1, ReceiveStatusKeeps DEF ReceiveStatus
<1> HIDE DEF status
<1>3. ASSUME NEW p \in DOMAIN retx, ~Acked(p, status) PROVE Nacked(p, status)
  <2>1. /\ p \in Positions /\ p \in 0 .. MaxPdus /\ p \in Nat /\ SnOf(p) = p
        /\ expected \in 0 .. MaxPdus /\ expected \in Nat /\ Len(sent) \in Nat
    BY EntityFacts, SnOfLinear
  <2>2. ~(p < expected)
    BY <1>1, <1>3, <2>1, SnPrecedesLinear DEF Acked
  <2>3. SnDistance(expected, p) = p - expected
    BY <2>1, <2>2, SnDistanceLinear
  <2>4. p - expected < WindowSize
    BY <2>1, WindowAssumption DEF Positions
  <2> QED BY <1>1, <1>3, <2>1, <2>3, <2>4 DEF Nacked
<1>4. DOMAIN retx' = ToRetransmit(status)
  BY <1>2, <1>3 DEF ToRetransmit, Nacked
<1>5. ASSUME NEW p \in DOMAIN retx' PROVE p \in DOMAIN retx /\ retx'[p] = retx[p] + 1
  <2>1. retx' = [q \in DOMAIN retx' |->
                  IF q \in ToRetransmit(status) THEN retx[q] + 1 ELSE retx[q]]
    BY DEF ReceiveStatus, status
  <2> QED BY <1>2, <1>4, <1>5, <2>1
<1> QED BY <1>2, <1>4, <1>5 DEF status

LEMMA SendKeeps ==
  ASSUME OneGeneration, mode = "am", AmInv, NEW count \in SduSizes, Send(count)
  PROVE  AmInv'
<1>1. /\ EntityInv /\ count \in Nat \ {0} /\ Len(sent) + count <= MaxPdus
      /\ AmTransmit(count) /\ phase = "idle" /\ phase' = "data" /\ round' = 0
      /\ todo' = Numbered(count) /\ statusLost' = [statusLost EXCEPT !.now = 0]
      /\ overran' = (overran \/ ~WithinWindow(count))
  BY SduAssumption DEF Send, NumberSdu, AmInv
<1>2. /\ EntityInv' /\ Grown(count) /\ UNCHANGED <<burnt, failed, received, expected>>
      /\ DOMAIN retx' = DOMAIN retx \cup Numbered(count) /\ UNCHANGED rxVars
  BY <1>1, AmTransmitKeeps DEF AmTransmit
<1>3. /\ Len(sent) \in Nat /\ expected \in 0 .. MaxPdus /\ expected <= Len(sent)
      /\ Len(sent') = Len(sent) + count /\ Len(sent) \in Numbered(count)
      /\ Len(sent) + count - 1 \in 0 .. MaxPdus /\ DOMAIN retx \subseteq Positions
  BY <1>1, <1>2, EntityFacts DEF Grown, Numbered
<1>4. /\ statusLost' \in [now : Nat, most : Nat] /\ statusLost'.now = 0
      /\ statusLost'.most = statusLost.most
  BY <1>1 DEF AmInv, CallType
<1>5. CallType'
  BY <1>1, <1>2, <1>3, <1>4 DEF CallType
<1>6. WholeSent'
  <2>1. /\ sent' = sent \o SegmentAs(count) /\ Len(SegmentAs(count)) = count
        /\ SegmentAs(count) \in Seq(SegmentIndicator) /\ sent \in Seq(SegmentIndicator)
    BY <1>1, SegmentAsType, EntityFacts DEF AmTransmit, Transmit
  <2>2. sent'[Len(sent) + count] = SegmentAs(count)[count]
    BY <1>1, <1>3, <2>1
  <2>3. SegmentAs(count)[count] \in {FULL, LAST}
    BY <1>1 DEF SegmentAs
  <2>4. Len(sent') - 1 + 1 = Len(sent) + count
    BY <1>1, <1>3
  <2> QED BY <2>2, <2>3, <2>4 DEF WholeSent, EndsSdu, Indicator
<1>7. ASSUME Kept' PROVE Windowed'
  <2>1. Kept /\ WithinWindow(count)
    BY <1>1, <1>4, <1>7 DEF Kept
  <2>2. DOMAIN retx = {} /\ (failed = {} /\ burnt = {} => ExactSoFar)
    BY <1>1, <2>1 DEF AmInv, Windowed, Sending
  <2>3. Len(sent') - expected' <= WindowSize
    <3>1. PICK last \in 0 .. MaxPdus : last = Len(sent) + count - 1
      BY <1>3
    <3>2. SnOf(last) = last /\ expected <= last
      BY <1>1, <1>3, <3>1, SnOfLinear
    <3>3. SnDistance(expected, last) = last - expected
      BY <1>3, <3>2, SnDistanceLinear
    <3>4. last - expected < WindowSize
      BY <2>1, <3>1, <3>2, <3>3 DEF WithinWindow
    <3> QED BY <1>1, <1>2, <1>3, <3>1, <3>4, WindowAssumption
  <2>4. \A p \in DOMAIN retx' : retx'[p] = 0
    <3>1. retx' = [p \in DOMAIN retx' |-> IF p \in Numbered(count) THEN 0 ELSE retx[p]]
      BY <1>1 DEF AmTransmit
    <3> QED BY <1>2, <2>2, <3>1
  <2>5. round' < MaxRounds /\ round' - statusLost'.now = 0
    BY <1>1, <1>4, MaxRetriesAssumption DEF MaxRounds
  <2>6. failed' = {} /\ burnt' = {} => ExactSoFar'
    BY <1>2, <2>2 DEF ExactSoFar, ExactUpTo, rxVars
  <2> QED BY <1>1, <2>3, <2>4, <2>5, <2>6 DEF Windowed, Sending
<1> QED BY <1>2, <1>5, <1>6, <1>7 DEF AmInv

LEMMA SendTooLongKeeps ==
  ASSUME OneGeneration, AmInv, NEW count \in SduSizes, SendTooLong(count)
  PROVE  AmInv'
<1>1. /\ EntityInv /\ count \in Nat \ {0} /\ Len(sent) + count <= MaxPdus
      /\ AmTransmitTooLong(count) /\ phase = "idle"
      /\ UNCHANGED <<phase, todo, round, statusLost, overran>>
  BY SduAssumption DEF SendTooLong, AmInv, sessionVars, historyVars
<1>2. /\ EntityInv' /\ SoLimit \in Nat \ {0} /\ burnt' = burnt \cup Numbered(SoLimit)
      /\ retx' = retx
  BY <1>1, AmTransmitTooLongKeeps
<1>3. burnt' # {}
  <2>1. Len(sent) \in Numbered(SoLimit)
    BY <1>1, <1>2, EntityFacts DEF Numbered
  <2> QED BY <1>2, <2>1
<1>4. CallType' /\ WholeSent'
  BY <1>1, <1>2, <1>3 DEF AmInv, CallType, WholeSent
<1>5. Kept' => Windowed'
  BY <1>1, <1>2, <1>3 DEF AmInv, Kept, Windowed, Sending
<1> QED BY <1>2, <1>4, <1>5 DEF AmInv

(* A round of a data PDU.                                                  *)
LEMMA DataRoundKeeps ==
  ASSUME OneGeneration, mode = "am", AmInv, NEW arrived \in BOOLEAN, DataRound(arrived)
  PROVE  AmInv'
<1>1. PICK p \in todo : /\ todo' = todo \ {p}
                        /\ ReceiveData(p) \/ UNCHANGED amVars
  BY DEF DataRound, Arrive
<1>2. /\ EntityInv /\ phase = "data" /\ todo \subseteq DOMAIN retx /\ p \in Positions
      /\ phase' = IF todo' # {} THEN "data" ELSE "status"
      /\ UNCHANGED <<round, statusLost, overran>>
  BY EntityFacts DEF DataRound, AmInv, CallType, historyVars
<1>3. /\ EntityInv' /\ expected <= expected' /\ UNCHANGED <<sent, burnt, retx, failed>>
  <2>1. CASE ReceiveData(p)
    BY <1>2, <2>1, ReceiveDataKeeps
  <2>2. CASE UNCHANGED amVars
    <3>1. expected \in Int /\ UNCHANGED <<sent, burnt, retx, failed, expected>>
      BY <1>2, <2>2, EntityFacts DEF amVars, txVars, rxVars
    <3> QED BY <1>2, <2>2, <3>1, EntityUnchanged
  <2> QED BY <1>1, <2>1, <2>2
<1>4. CallType' /\ WholeSent'
  BY <1>1, <1>2, <1>3 DEF AmInv, CallType, WholeSent, EndsSdu, Indicator
<1>5. ASSUME Kept' PROVE Windowed'
  <2>1. Kept /\ Windowed /\ Sending /\ Sending'
    BY <1>2, <1>5 DEF AmInv, Kept, Sending
  <2>2. /\ Len(sent) \in Nat /\ expected \in Int /\ expected' \in Int
        /\ WindowSize \in Nat
    BY <1>2, <1>3, EntityFacts, WindowAssumption, SnModulusAssumption
    DEF EntityInv, AmTypeOK, ReassemblyTypeOK, SN
  <2>3. Len(sent') - expected' <= WindowSize
    BY <1>3, <2>1, <2>2 DEF Windowed
  <2>4. ASSUME failed' = {}, burnt' = {} PROVE ExactSoFar'
    <3>1. ExactSoFar /\ Len(sent) - expected <= WindowSize + 1
      BY <1>3, <2>1, <2>2, <2>4 DEF Windowed
    <3>2. CASE ReceiveData(p)
      BY <1>2, <3>1, <3>2, ReceiveExact
    <3>3. CASE UNCHANGED amVars
      BY <3>1, <3>3 DEF ExactSoFar, ExactUpTo, amVars, rxVars
    <3> QED BY <1>1, <3>2, <3>3
  <2> QED BY <1>2, <1>3, <2>1, <2>3, <2>4 DEF Windowed
<1> QED BY <1>3, <1>4, <1>5 DEF AmInv

(* A round of a status report: after MaxRounds of them, at most one lost,  *)
(* no PDU of the buffer has any retries left.                              *)
LEMMA StatusRoundKeeps ==
  ASSUME OneGeneration, AmInv, NEW arrived \in BOOLEAN, StatusRound(arrived)
  PROVE  AmInv'
<1>1. /\ EntityInv /\ CallType /\ WholeSent /\ phase = "status" /\ round' = round + 1
      /\ phase' = IF todo' # {} /\ round' < MaxRounds THEN "data" ELSE "idle"
      /\ overran' = overran /\ round \in Nat /\ MaxRounds \in Nat
      /\ statusLost \in [now : Nat, most : Nat] /\ statusLost.now <= statusLost.most
      /\ MaxRounds = MaxRetries + 2 /\ MaxRetries \in Nat
  BY MaxRetriesAssumption DEF StatusRound, AmInv, CallType, MaxRounds
<1>2. CASE /\ ReceiveStatus(BuildStatus) /\ todo' = ToRetransmit(BuildStatus)
           /\ statusLost' = statusLost
  <2>1. /\ EntityInv' /\ UNCHANGED <<sent, burnt, expected, received>>
        /\ failed' = failed \cup GivenUp(BuildStatus)
        /\ DOMAIN retx' = {p \in DOMAIN retx : ~Acked(p, BuildStatus)}
                            \ GivenUp(BuildStatus)
    BY <1>1, <1>2, BuildStatusType, BuildStatusTrue, EntityFacts, ReceiveStatusKeeps
  <2>2. CallType'
    BY <1>1, <1>2, <2>1 DEF CallType, ToRetransmit, Nacked
  <2>3. WholeSent'
    BY <1>1, <2>1 DEF WholeSent, EndsSdu, Indicator
  <2>4. ASSUME Kept' PROVE Windowed'
    <3>1. Kept /\ Windowed /\ Sending
      BY <1>1, <1>2, <2>4 DEF AmInv, Kept, Sending
    <3>2. /\ UNCHANGED rxVars /\ DOMAIN retx' = todo'
          /\ \A p \in DOMAIN retx' : p \in DOMAIN retx /\ retx'[p] = retx[p] + 1
      BY <1>1, <1>2, <3>1, ReportReads DEF Windowed
    <3>3. \A p \in DOMAIN retx' : retx'[p] = round' - statusLost'.now
      BY <1>1, <1>2, <3>1, <3>2 DEF Windowed
    <3>4. statusLost.now \in Nat /\ statusLost.now <= 1
      BY <1>1, <3>1 DEF Kept
    <3>5. ASSUME phase' = "idle" PROVE DOMAIN retx' = {}
      <4>1. SUFFICES ASSUME NEW p \in DOMAIN retx' PROVE FALSE
        OBVIOUS
      <4>2. ~(round' < MaxRounds)
        BY <1>1, <3>2, <3>5, <4>1
      <4>3. retx'[p] <= MaxRetries
        BY <2>1, <4>1, MaxRetriesAssumption DEF EntityInv, AmTypeOK
      <4> QED BY <1>1, <1>2, <3>3, <3>4, <4>1, <4>2, <4>3
    <3>6. failed' = {} /\ burnt' = {} => ExactSoFar'
      BY <2>1, <3>1, <3>2 DEF Windowed, ExactSoFar, ExactUpTo, rxVars
    <3> QED BY <1>1, <2>1, <3>1, <3>3, <3>5, <3>6 DEF Windowed, Sending
  <2> QED BY <2>1, <2>2, <2>3, <2>4 DEF AmInv
<1>3. CASE /\ UNCHANGED amVars /\ todo' = PendingPdus
           /\ statusLost' = [now |-> statusLost.now + 1,
                             most |-> IF statusLost.now + 1 > statusLost.most
                                      THEN statusLost.now + 1 ELSE statusLost.most]
  <2>1. /\ EntityInv' /\ UNCHANGED <<sent, burnt, retx, failed, received, rxVars, expected>>
    BY <1>1, <1>3, EntityUnchanged DEF amVars, txVars, rxVars
  <2>2. /\ statusLost' \in [now : Nat, most : Nat]
        /\ statusLost'.now = statusLost.now + 1 /\ statusLost'.now <= statusLost'.most
        /\ statusLost.most <= statusLost'.most
    BY <1>1, <1>3
  <2>3. CallType'
    BY <1>1, <1>3, <2>1, <2>2 DEF CallType, PendingPdus
  <2>4. WholeSent'
    BY <1>1, <2>1 DEF WholeSent, EndsSdu, Indicator
  <2>5. ASSUME Kept' PROVE Windowed'
    <3>1. statusLost.now = 0 /\ statusLost.most \in Nat /\ statusLost'.now = 1
          /\ statusLost.most <= 1
      BY <1>1, <2>2, <2>5 DEF Kept
    <3>2. Kept /\ Windowed /\ Sending
      BY <1>1, <2>5, <3>1 DEF AmInv, Kept, Sending
    <3>3. \A p \in DOMAIN retx : retx[p] = round
      BY <1>1, <3>1, <3>2 DEF Windowed
    <3>4. ASSUME phase' = "idle" PROVE DOMAIN retx' = {}
      <4>1. SUFFICES ASSUME NEW p \in DOMAIN retx PROVE FALSE
        BY <2>1
      <4>2. ~(round' < MaxRounds)
        BY <1>1, <1>3, <3>4, <4>1 DEF PendingPdus
      <4>3. retx[p] <= MaxRetries
        BY <1>1, <4>1, MaxRetriesAssumption DEF EntityInv, AmTypeOK
      <4> QED BY <1>1, <3>3, <4>1, <4>2, <4>3
    <3>5. \A p \in DOMAIN retx' : retx'[p] = round' - statusLost'.now
      BY <1>1, <2>1, <3>1, <3>3
    <3>6. failed' = {} /\ burnt' = {} => ExactSoFar'
      BY <2>1, <3>2 DEF Windowed, ExactSoFar, ExactUpTo, rxVars
    <3> QED BY <1>1, <2>1, <3>2, <3>4, <3>5, <3>6 DEF Windowed, Sending
  <2> QED BY <2>1, <2>3, <2>4, <2>5 DEF AmInv
<1> QED BY <1>2, <1>3 DEF StatusRound

LEMMA NextSessionInv ==
  ASSUME OneGeneration, SessionInv, [Next]_vars
  PROVE  SessionInv'
<1>1. ASSUME mode = "am", UNCHANGED <<amVars, round, todo, historyVars>>, ~Sending,
             phase' \in {"idle", "bind request", "bind response"}
      PROVE  AmInv'
  <2>1. AmInv /\ EntityInv' /\ ~Sending'
        /\ UNCHANGED <<sent, burnt, retx, failed, received, rxVars, statusLost, overran>>
    BY <1>1, EntityUnchanged DEF SessionInv, AmInv, amVars, txVars, historyVars, Sending
  <2>2. CallType' /\ WholeSent'
    BY <1>1, <2>1 DEF AmInv, CallType, WholeSent, EndsSdu, Indicator
  <2>3. ExactSoFar => ExactSoFar'
    BY <2>1 DEF ExactSoFar, ExactUpTo, rxVars
  <2> QED BY <1>1, <2>1, <2>2, <2>3 DEF AmInv, Kept, Windowed
<1>2. mode' = mode
  BY DEF mode, Next, Running, Bind, RequestRound, ResponseRound, Send, SendTooLong,
     DataRound, StatusRound, bindVars, sessionVars, vars
<1> SUFFICES ASSUME mode = "am" PROVE AmInv'
  BY <1>2 DEF SessionInv
<1>3. AmInv
  BY DEF SessionInv
<1>4. CASE Bind \/ \E arrived \in BOOLEAN : RequestRound(arrived) \/ ResponseRound(arrived)
  BY <1>1, <1>4 DEF Bind, RequestRound, ResponseRound, Sending
<1>5. CASE UNCHANGED vars
  <2>1. EntityInv' /\ UNCHANGED <<sent, burnt, retx, failed, received, rxVars, expected,
                                  phase, todo, round, statusLost, overran>>
    BY <1>3, <1>5, EntityUnchanged
    DEF AmInv, vars, amVars, txVars, rxVars, sessionVars, historyVars
  <2>2. CallType' /\ WholeSent' /\ (ExactSoFar => ExactSoFar')
    BY <1>3, <2>1 DEF AmInv, CallType, WholeSent, EndsSdu, Indicator,
                      ExactSoFar, ExactUpTo, rxVars
  <2> QED BY <1>3, <2>1, <2>2 DEF AmInv, Kept, Windowed, Sending
<1> QED
  BY <1>3, <1>4, <1>5, SendKeeps, SendTooLongKeeps, DataRoundKeeps, StatusRoundKeeps
  DEF Next, Running

LEMMA SessionInvariant == ASSUME OneGeneration PROVE Spec => []SessionInv
<1>1. SessionInv /\ [Next]_vars => SessionInv'
  BY NextSessionInv
<1> QED BY <1>1, InitSessionInv, PTL DEF Spec

(* The comment on max_rounds: rounds enough for every PDU to exhaust its   *)
(* retries, and one more; so nothing is left pending when send() returns,  *)
(* as long as the peer can NACK all that was sent and one report at most   *)
(* was lost.                                                               *)
THEOREM NothingLeftPending == ASSUME OneGeneration PROVE Spec => []ResolvedOnReturn
<1>1. SessionInv => ResolvedOnReturn
  <2> SUFFICES ASSUME SessionInv, mode = "am", phase = "idle", Kept
               PROVE  retx = <<>>
    BY DEF ResolvedOnReturn, Kept
  <2> QED BY NoEntries DEF SessionInv, AmInv, EntityInv, Windowed, Sending
<1> QED BY <1>1, SessionInvariant, PTL

(* send() returning with nothing pending and nothing given up means that   *)
(* the peer has all of it, whole and in order.                             *)
THEOREM ReturnsDelivered == ASSUME OneGeneration PROVE Spec => []DeliveredWhenReported
<1>1. SessionInv => DeliveredWhenReported
  <2> SUFFICES ASSUME SessionInv, mode = "am", Kept, Settled
               PROVE  delivered = [i \in 1 .. Len(sent) |-> i - 1]
    BY DEF DeliveredWhenReported, DeliveredOnReturn, Kept
  <2>1. /\ EntityInv /\ WholeSent /\ ExactSoFar /\ DOMAIN retx = {}
        /\ failed = {} /\ burnt = {}
    BY DEF SessionInv, AmInv, Windowed, Sending, Settled
  <2>2. /\ ExactUpTo(expected) /\ ReceiverOrdered /\ Accounted
        /\ expected \in Nat /\ Len(sent) \in Nat /\ expected <= Len(sent)
        /\ delivered \in Seq(Positions) /\ inProgress \in Seq(Positions)
        /\ Len(delivered) \in Nat /\ Len(inProgress) \in Nat
    BY <2>1, EntityFacts, LenProperties DEF ExactSoFar, ReassemblyTypeOK
  \* The expected PDU would have arrived, and been taken.
  <2>3. expected = Len(sent)
    <3>1. ASSUME expected < Len(sent) PROVE FALSE
      <4>1. expected \in Positions
        BY <2>2, <3>1 DEF Positions
      <4>2. expected \in received
        BY <2>1, <2>2, <4>1 DEF Accounted
      <4>3. expected \in pending
        BY <2>1, <2>2, <4>2 DEF ExactSoFar
      <4> QED BY <2>2, <4>3 DEF ReceiverOrdered
    <3> QED BY <2>2, <3>1
  \* The last PDU ends an SDU, which what is being collected does not.
  <2>4. Len(inProgress) = 0
    <3>1. ASSUME Len(inProgress) # 0 PROVE FALSE
      <4>1. /\ Len(inProgress) \in 1 .. Len(inProgress)
            /\ expected = Len(delivered) + Len(inProgress)
        BY <2>2, <3>1 DEF ExactUpTo
      <4>2. /\ inProgress[Len(inProgress)] = Len(sent) - 1
            /\ ~EndsSdu(Len(sent) - 1)
        BY <2>2, <2>3, <4>1 DEF ReceiverOrdered, Contiguous
      <4>3. Len(sent) # 0
        BY <2>2, <2>3, <3>1, <4>1
      <4>4. sent # <<>>
        BY <4>3
      <4> QED BY <2>1, <4>2, <4>4 DEF WholeSent
    <3> QED BY <3>1
  <2>5. /\ Len(delivered) = Len(sent)
        /\ \A i \in 1 .. Len(delivered) : delivered[i] = i - 1
        /\ delivered = [i \in 1 .. Len(delivered) |-> delivered[i]]
    BY <2>2, <2>3, <2>4 DEF ExactUpTo
  <2> QED BY <2>5
<1> QED BY <1>1, SessionInvariant, PTL

=============================================================================
