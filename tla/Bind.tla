-------------------------------- MODULE Bind --------------------------------
(***************************************************************************)
(* spectracuda.mac.bind: the requests and responses of the binding         *)
(* handshake.  A PDU is its type and the bytes of its payload, a byte the  *)
(* number it stands for.  What a link is built with is a record of its     *)
(* mode, capacity (max_segment_bits), window (window_size) and retries     *)
(* (max_retries).                                                          *)
(***************************************************************************)
EXTENDS Integers, Sequences, Functions

CONSTANT U8Max          \* _U8_MAX: the largest number a byte holds

ASSUME BindAssumption == U8Max \in Nat \ {0}

\* _MODE_CODES and _REASON_NAMES; a code is one less than a position.
ModeNames == << "tm", "um", "am" >>

ReasonNames == << "none", "unknown_mode", "segment_too_large" >>

CodeOf(name, names) == (CHOOSE i \in DOMAIN names : names[i] = name) - 1

Base == U8Max + 1       \* numbers a byte tells apart

Fits32(v) == v < Base * Base * Base * Base

\* _u32, the most significant byte first
U32(v) ==
  << (v \div (Base * Base * Base)) % Base, (v \div (Base * Base)) % Base,
     (v \div Base) % Base, v % Base >>

\* Mutant: the two-byte field the comment in _u32 remembers.
ReadU32Short(payload, offset) == payload[offset + 3] * Base + payload[offset + 4]

\* _read_u32, where a payload's bytes are counted from 0
ReadU32(payload, offset) ==
  payload[offset + 1] * (Base * Base * Base) + payload[offset + 2] * (Base * Base)
    + payload[offset + 3] * Base + payload[offset + 4]

Returns(v) == [ok |-> TRUE, val |-> v]

ValueError == [ok |-> FALSE, val |-> << >>]

ParametersFit(p) == p.window <= U8Max /\ p.retries <= U8Max /\ Fits32(p.capacity)

EncodeBindRequest(p) ==
  IF ~ParametersFit(p) THEN ValueError
  ELSE Returns([type |-> "BIND_REQUEST",
                payload |-> << CodeOf(p.mode, ModeNames) >> \o U32(p.capacity)
                              \o << p.window, p.retries >>])

DecodeBindRequest(pdu) ==
  IF pdu.type # "BIND_REQUEST" \/ pdu.payload[1] + 1 \notin DOMAIN ModeNames THEN ValueError
  ELSE Returns([mode |-> ModeNames[pdu.payload[1] + 1],
                capacity |-> ReadU32(pdu.payload, 1),
                window |-> pdu.payload[6], retries |-> pdu.payload[7]])

\* Of what was asked only the capacity is compared with the acceptor's own.
EvaluateBindRequest(request, localCapacity) ==
  LET reason == IF request.mode \notin Range(ModeNames) THEN "unknown_mode"
                ELSE IF request.capacity > localCapacity THEN "segment_too_large"
                ELSE "none"
  IN  [accepted |-> reason = "none", reason |-> reason, params |-> request]

EncodeBindResponse(decision) ==
  LET p == decision.params
  IN  IF ~ParametersFit(p) THEN ValueError
      ELSE Returns([type |-> "BIND_RESPONSE",
                    payload |-> << IF decision.accepted THEN 1 ELSE 0,
                                   CodeOf(decision.reason, ReasonNames),
                                   CodeOf(p.mode, ModeNames) >>
                                \o U32(p.capacity) \o << p.window, p.retries >>])

DecodeBindResponse(pdu) ==
  LET b == pdu.payload
  IN  IF \/ pdu.type # "BIND_RESPONSE"
         \/ b[2] + 1 \notin DOMAIN ReasonNames
         \/ b[3] + 1 \notin DOMAIN ModeNames
      THEN ValueError
      ELSE Returns([accepted |-> b[1] # 0, reason |-> ReasonNames[b[2] + 1],
                    params |-> [mode |-> ModeNames[b[3] + 1],
                                capacity |-> ReadU32(b, 3),
                                window |-> b[8], retries |-> b[9]]])
=============================================================================
