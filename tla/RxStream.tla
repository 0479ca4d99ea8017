------------------------------ MODULE RxStream ------------------------------
(***************************************************************************)
(* The streaming receiver, Ofdm.rx_streaming of pipeline/ofdm.py: frames   *)
(* arrive on one stream of samples, cut into chunks with no relation to    *)
(* the frames.  Samples are abstracted to their positions on the stream;   *)
(* what is on the air is a layout of items with silence between them.      *)
(*                                                                         *)
(* A position of the code's buffer is its offset from bufStart: what the   *)
(* code calls _stream_frame_start is frameStart - bufStart here.           *)
(* Of a decoded header only the length of the payload is kept: a header    *)
(* has no check, so one that arrived damaged, or that noise was taken for, *)
(* may announce any.                                                       *)
(***************************************************************************)
EXTENDS Integers, Sequences, FiniteSets

CONSTANTS
  FftSize, CpLen, TrainingSymbols, HeaderSymbols,
  StreamSearchWindowSymbols,
  SyncPercent,     \* square root of sync_threshold, in percent
  MaxPayloadSymbols,
  Chunks,          \* lengths a chunk may have
  PayloadSymbols,  \* lengths of the frames on the air
  Gaps,            \* samples of silence between items
  Kinds,           \* what may be on the air
  MaxItems,        \* bound: items on the air
  NOTHING

ASSUME RxStreamAssumption ==
  /\ FftSize \in Nat /\ FftSize % 2 = 0 /\ FftSize > 0
  /\ {CpLen, TrainingSymbols, HeaderSymbols, StreamSearchWindowSymbols,
      SyncPercent, MaxItems} \subseteq Nat \ {0}
  /\ MaxPayloadSymbols \in Nat
  /\ Chunks \subseteq Nat \ {0} /\ PayloadSymbols \subseteq 1 .. MaxPayloadSymbols
  /\ Gaps \subseteq Nat
  /\ Kinds \subseteq {"frame", "bad_header", "bad_payload", "lookalike"}
  /\ NOTHING \notin (Int \X Nat) \cup Nat

VARIABLES
  air,             \* the items on the stream, in order
  fed,             \* samples fed so far; the buffer ends here
  chunk,           \* length of the chunk fed last
  streamState, bufStart,
  frameStart,      \* detected start and the item it belongs to, or NOTHING
  streamHeader,    \* n_payload_symbols of the decoded header, or NOTHING
  returned,        \* the items whose frame rx_streaming has returned
  swallowed        \* history: the items that begin where a wrong header says
                   \* that its own frame is

streamVars == <<air, fed, chunk, streamState, bufStart, frameStart, streamHeader,
                returned, swallowed>>

-----------------------------------------------------------------------------
(* What is on the air.  A frame may be damaged in its header, or in its    *)
(* payload; a "lookalike" is noise the sync takes for a preamble, with no  *)
(* frame.                                                                  *)

SlotLen == CpLen + FftSize
HalfLen == FftSize \div 2
HeaderSpan == FftSize + (TrainingSymbols + HeaderSymbols) * SlotLen
FrameSpan(n) == HeaderSpan + n * SlotLen

Span(item) ==
  IF item.kind = "lookalike" THEN FftSize ELSE FrameSpan(item.symbols)
EndOf(item) == item.start + Span(item)

AirEnd == IF air = <<>> THEN 0 ELSE EndOf(air[Len(air)])

Items == 1 .. Len(air)

(* Silence, then one more item.                                            *)
PutOnAir(kind, symbols, gap) ==
  /\ Len(air) < MaxItems
  /\ air' = Append(air, [kind |-> kind, symbols |-> symbols,
                         start |-> AirEnd + gap])
  /\ UNCHANGED <<fed, chunk, streamState, bufStart, frameStart, streamHeader,
                 returned, swallowed>>

-----------------------------------------------------------------------------
(* The synchroniser: the Schmidl-Cox metric at candidate d is the square   *)
(* of (matched pairs of samples) / (energy of the window / 2), samples of  *)
(* unit energy in items and none in silence.                               *)

Apart(a, b) == IF a < b THEN b - a ELSE a - b
Matched(d, item) == HalfLen - Apart(d, item.start)
Energy(d) ==
  Cardinality({x \in d .. d + FftSize - 1 :
                 \E i \in Items : air[i].start <= x /\ x < EndOf(air[i])})

\* The candidates of a buffer at which a metric is not 0, with their items.
Candidates(lo, hi) ==
  {c \in UNION {{<<d, i>> : d \in air[i].start - HalfLen + 1
                                  .. air[i].start + HalfLen - 1} : i \in Items} :
     lo <= c[1] /\ c[1] + FftSize <= hi}

Score(c) == [matched |-> 2 * Matched(c[1], air[c[2]]), energy |-> Energy(c[1])]

(* argmax; of equal ones rounding decides, so any.                         *)
Peaks(lo, hi) ==
  LET scored == {[at |-> c, s |-> Score(c)] : c \in Candidates(lo, hi)}
  IN  {x.at : x \in {y \in scored : \A z \in scored :
         z.s.matched * y.s.energy <= y.s.matched * z.s.energy}}

OverThreshold(c) == 100 * Score(c).matched >= SyncPercent * Score(c).energy

AcceptedAtEdge(c, hi) == OverThreshold(c)                          \* fault

(* metric >= sync_threshold, and the trailing-edge guard.                  *)
Accepted(c, hi) ==
  /\ OverThreshold(c)
  /\ c[1] + FftSize + HalfLen <= hi

(* What decoding from d may come to.  A window that starts within the CP   *)
(* is free of interference; further off, the FEC may or may not correct.   *)
OnTime(d, i) == d \in air[i].start - CpLen .. air[i].start

(* The length that the header at d announces, or NOTHING if it raises: for *)
(* an unknown code, a length its codec cannot have, or one beyond          *)
(* MAX_PAYLOAD_SYMBOLS.  Nothing else tells a wrong header from a right    *)
(* one.                                                                    *)
HeaderDecodes(d, i) ==
  IF air[i].kind \in {"frame", "bad_payload"} /\ OnTime(d, i)
  THEN {air[i].symbols}
  ELSE {NOTHING} \cup 0 .. MaxPayloadSymbols

Own(d, i, n) == air[i].kind = "frame" /\ OnTime(d, i) /\ n = air[i].symbols

\* What was damaged raises, or is returned: with a CRC that says so, or with none.
PayloadReturns(d, i, n) == IF Own(d, i, n) THEN {TRUE} ELSE BOOLEAN

\* The items that begin where a header that is not item i's own puts its frame.
Covered(d, i, n) ==
  IF Own(d, i, n) THEN {}
  ELSE {j \in Items : j > i /\ air[j].start < d + FrameSpan(n)}

-----------------------------------------------------------------------------
(* rx_streaming, stage by stage.  A stage works on the buffer lo .. hi - 1 *)
(* and falls through to the next within the same call.                     *)

KeepSeeking(lo) ==
  /\ streamState' = "SEEKING"
  /\ bufStart' = lo
  /\ frameStart' = NOTHING
  /\ streamHeader' = NOTHING

WaitFor(state, lo, found, header) ==
  /\ streamState' = state
  /\ bufStart' = lo
  /\ frameStart' = found
  /\ streamHeader' = header

PayloadStageKeepingState(lo, found, n, hi) ==                      \* fault
  LET end == found[1] + FrameSpan(n)
  IN  IF hi < end
      THEN WaitFor("WAITING_PAYLOAD", lo, found, n) /\ UNCHANGED returned
      ELSE \E ok \in PayloadReturns(found[1], found[2], n) :
             /\ returned' = IF ok THEN Append(returned, found[2]) ELSE returned
             /\ IF ok THEN WaitFor("WAITING_PAYLOAD", lo, found, n)
                      ELSE KeepSeeking(end)

(* WAITING_PAYLOAD: the buffer is cut after the frame that the header      *)
(* announced, decoded or not.                                              *)
PayloadStage(lo, found, n, hi) ==
  LET end == found[1] + FrameSpan(n)
  IN  IF hi < end
      THEN /\ WaitFor("WAITING_PAYLOAD", lo, found, n)
           /\ UNCHANGED returned
      ELSE /\ KeepSeeking(end)
           /\ \E ok \in PayloadReturns(found[1], found[2], n) :
                returned' = IF ok THEN Append(returned, found[2]) ELSE returned

HeaderStageUnadvanced(lo, found, hi) ==                            \* fault
  IF hi < found[1] + HeaderSpan
  THEN WaitFor("WAITING_HEADER", lo, found, NOTHING) /\ UNCHANGED <<returned, swallowed>>
  ELSE \E n \in HeaderDecodes(found[1], found[2]) :
         IF n = NOTHING
         THEN KeepSeeking(found[1]) /\ UNCHANGED <<returned, swallowed>>
         ELSE /\ PayloadStage(lo, found, n, hi)
              /\ swallowed' = swallowed \cup Covered(found[1], found[2], n)

(* WAITING_HEADER: on failure the buffer is cut after the detected start.  *)
HeaderStage(lo, found, hi) ==
  IF hi < found[1] + HeaderSpan
  THEN WaitFor("WAITING_HEADER", lo, found, NOTHING) /\ UNCHANGED <<returned, swallowed>>
  ELSE \E n \in HeaderDecodes(found[1], found[2]) :
         IF n = NOTHING
         THEN KeepSeeking(found[1] + 1) /\ UNCHANGED <<returned, swallowed>>
         ELSE /\ PayloadStage(lo, found, n, hi)
              /\ swallowed' = swallowed \cup Covered(found[1], found[2], n)

Untrimmed(lo, hi, c) == lo                                         \* fault

(* SEEKING: history plus this chunk is searched.                           *)
Searched(c) == StreamSearchWindowSymbols * FftSize + c

Trimmed(lo, hi, c) ==
  IF hi - lo > Searched(c) THEN hi - Searched(c) ELSE lo

SeekingStage(lo, hi) ==
  LET peaks == Peaks(lo, hi)
  IN  \/ /\ peaks = {}
         /\ KeepSeeking(lo) /\ UNCHANGED <<returned, swallowed>>
      \/ \E c \in peaks :
           IF Accepted(c, hi) THEN HeaderStage(lo, c, hi)
                              ELSE KeepSeeking(lo) /\ UNCHANGED <<returned, swallowed>>

RxStreaming(c) ==
  /\ Len(air) = MaxItems /\ fed < AirEnd + FftSize
  /\ fed' = fed + c
  /\ chunk' = c
  /\ UNCHANGED air
  /\ CASE streamState = "SEEKING" -> SeekingStage(Trimmed(bufStart, fed', c), fed')
       [] streamState = "WAITING_HEADER" -> HeaderStage(bufStart, frameStart, fed')
       [] streamState = "WAITING_PAYLOAD" ->
            PayloadStage(bufStart, frameStart, streamHeader, fed') /\ UNCHANGED swallowed

(* reset_stream *)
StreamInit ==
  /\ air = <<>>
  /\ fed = 0 /\ chunk = 0
  /\ streamState = "SEEKING" /\ bufStart = 0 /\ frameStart = NOTHING
  /\ streamHeader = NOTHING
  /\ returned = <<>> /\ swallowed = {}

StreamNext ==
  \/ \E kind \in Kinds, symbols \in PayloadSymbols, gap \in Gaps :
       PutOnAir(kind, symbols, gap)
  \/ \E c \in Chunks : RxStreaming(c)

StreamSpec == StreamInit /\ [][StreamNext]_streamVars
-----------------------------------------------------------------------------
\* Undamaged frames on the air that rx_streaming has not returned, and that no
\* wrong header has claimed for its own.
Outstanding ==
  {i \in Items : air[i].kind = "frame"}
    \ ({returned[k] : k \in DOMAIN returned} \cup swallowed)

(* Frames come out of rx_streaming in the order of the air, each at most   *)
(* once: no sample of a returned frame is searched again.                  *)
InOrderOnce ==
  \A i, j \in DOMAIN returned : i < j => returned[i] < returned[j]

(* "require EVERY alignment to decode" (test_ofdm_streaming_alignment.py): *)
(* on a clean channel a frame is in time found at a start it decodes from, *)
(* wherever the chunks cut it.  Its preamble never leaves the buffer, and  *)
(* no other start is taken for it, before it has been returned, whatever   *)
(* failed before it: unless a header that arrived damaged, or that noise   *)
(* was taken for, announced a frame that reaches over its first sample.    *)
NoFrameLost ==
  \A i \in Outstanding :
    /\ bufStart <= air[i].start
    /\ frameStart # NOTHING /\ frameStart[2] = i =>
         OnTime(frameStart[1], i)

(* rx_streaming returns at most one frame per call, and after a failure    *)
(* none, without another look at the rest of its buffer: what that may     *)
(* delay a frame is one call after the one that brings its last sample,    *)
(* even behind the end of what a wrong header had it wait for.             *)
Prompt == \A i \in Outstanding : fed - chunk < EndOf(air[i])

\* What is waited for from the detected start on.
Awaited == IF streamState = "WAITING_HEADER" THEN HeaderSpan ELSE FrameSpan(streamHeader)

(* The buffer of an endless stream is bounded (test_search_buffer_stays_   *)
(* bounded_on_a_long_noise_only_stream), whatever fails to decode.  While  *)
(* a frame is collected it holds what was searched and the frame that its  *)
(* header announced, which is of MAX_PAYLOAD_SYMBOLS at the most; after a  *)
(* header that failed, up to a header and a chunk, be it more than that.   *)
BufferBounded ==
  IF streamState = "SEEKING"
  THEN \/ fed - bufStart <= Searched(chunk)
       \/ fed - bufStart < HeaderSpan + chunk
  ELSE /\ Awaited <= FrameSpan(MaxPayloadSymbols)
       /\ \E c \in Chunks : fed - bufStart <= Searched(c) + Awaited
=============================================================================
