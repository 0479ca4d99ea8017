# A verification project for spectracuda

spectracuda is a software OFDM modem (NumPy/CuPy signal processing, with
compiled and jitted kernels) and a MAC on top: segmentation and reassembly,
unacknowledged and acknowledged modes, a bind handshake, link quality reports,
and example programs (drone air and ground units, an adaptive-MCS dashboard,
capture-and-decode receivers) that put it on a radio link.  This project models
the system in TLA+, checks it with TLC on small instances, and proves the most
important part of it, for every value of the constants, with TLAPS.

Two kinds of module are needed.  What happens over time, PDUs lost, repeated
and reordered, retries that run out, threads that race, chunks that cut a frame
in two, is a state machine.  What is computed, codes, interleavers, framing,
the grid, the searches, is a set of operators translated from the code over
small fields and short blocks, and composed into machines whose steps are the
calls (`FrameLink`, `TxScheme`, `Acquisition`).

Paths below are relative to `src/`; `mac/`, `fec/`, ... stand for
`spectracuda/mac/`, `spectracuda/fec/`, ...

## Inventory

| Part | Code | State | Hard part | Modules |
|---|---|---|---|---|
| Sequence numbers, PDU header | `mac/pdu.py` | none | wrap at 1024, width of SO | `Reassembly` |
| Segmenter, reassembly | `mac/reassembly.py` | `_expected_sn`, `_pending`, `_in_progress` | stale duplicates, gaps that are never filled, resync | `Reassembly` |
| UM, AM, TM entities | `mac/um.py`, `am.py`, `tm.py` | next SN, `_retx_buffer`, `failed_sns`, `_received_sns` | lost, repeated, late PDUs and reports; exception part way through `transmit` | `UmLink`, `AmEntity`, `AmLink`, `MacSession` |
| Session, bind codec | `mac/session.py`, `bind.py` | `bound`, mode, both ends' entities | rounds lost at any point, fields too narrow | `MacSession`, `Bind` |
| Capacity, TX scheme | `mac/capacity.py`, `mac/mac.py` | scheme, segmenter, retransmission buffer | search under a stepwise length; PDUs cut for another scheme | `TxScheme` |
| IQ front end | `mac/mac.py`, `debug/*pingpong*` | entities, replica pool, quality; two slots | decoding in parallel, applying in order; torn slots | `RxLoop`, `RxBatch`, `PingPong`, `Receivers` |
| Quality report, adaptive MCS | `mac/quality.py`, `examples/drone_tui/adaptive_mcs.py` | counters, level, streak | differences of cumulative, clamped counters | `AdaptiveLink` |
| Streaming receiver | `pipeline/ofdm.py` | `_stream_state`, buffer | frames cut by chunk boundaries, bounded buffer | `RxStream` |
| Frame codec | `pipeline/ofdm.py`, `framing/`, `interleaver/`, `modem/`, `ofdm/resource_grid.py` | memo of the last codec | lengths and orders that all have to agree, header without a check | `Framing`, `Interleaver`, `Modem`, `OfdmFrame`, `FrameLink` |
| FEC and CRC | `fec/` | none | shortened blocks, decoding beyond reach | `Bits`, `ReedSolomon`, `Convolutional`, `Ldpc`, `Fec` |
| Native and GPU kernels | `fec/_native*.py`, jitted twins, `examples/prototype_ldpc_cuda_kernel.py` | module globals, cache directory | one probe per process, shared directory, barriers, kernels that must agree | `FecBackend`, `NativeFec`, `LdpcKernel` |
| Sync, CFO, prefix, estimate, equaliser | `sync/`, `cfo/`, `ofdm/fft.py`, `channel/`, `equalizer/` | none | two implementations each, start early, echoes | `Acquisition`, `Equalizing` |
| Air and ground units | `examples/drone_air_unit.py`, `drone_ground_unit.py` | `mac.bound`, `bound_event`, heartbeat | threads racing on two variables, lost bind frames, restarts | `DroneLink` |
| Dashboard units | `examples/drone_tui/` | the same, `push_lock`, modem, traffic generator | re-entrant lock, modem changed under a payload, stop and start | `TuiUnit` |
| Registry, backends, plotting, most scripts | | | | not modelled |

How the parts interact: an entity's `transmit` segments an SDU and numbers the
PDUs; the session or the units pass them to the OFDM pipeline and hand what it
decodes to the peer entity's `receive`; AM's receiver reports back with a
STATUS PDU, which the caller has to ask for and carry.  No entity has a timer or
a thread: who sends, reports and retries is the caller's choice.  `MacLink` is
the only caller in the library; the units are callers of their own, with four
or five threads each that share one Mac.

The places where this could go wrong are the `hazards` of `PROJECT.json`, each
with its line and the properties that would catch it.

## Modules

    Reassembly <- AmEntity <- AmLink <- MCAmLink
        ^             ^          ^--- AmService (refined by AmLink)
        |             |          ^--- AmLinkProofs
        |             +--- MacSession (with Bind) <- MCMacSession, MacSessionProofs
        +--- UmLink
    AmEntity, UmLink <- EntityProofs (used by AmLinkProofs, MacSessionProofs)
    Bits <- ReedSolomon, Convolutional, Ldpc <- Fec (with the CRCs)
    Fec, Interleaver, Modem <- Framing <- OfdmFrame (with the resource grid)
    OfdmFrame, NativeFec (Fec, LdpcKernel) <- FrameLink <- MCFrameLink
    OfdmFrame <- TxScheme <- AdaptiveLink <- MCAdaptiveLink
    AdaptiveLink, FrameLink, Acquisition <- OfdmLinkProofs
    RxLoop <- RxBatch, PingPong <- Receivers (both refine RxLoop)
    Receivers, RxStream <- ReceiversProofs
    Acquisition <- Equalizing <- MCAcquisition
    TuiUnit <- MCTuiUnit, TuiUnitProofs
    FecBackend <- MCFecBackend, FecBackendProofs
    DroneLink <- DroneLinkProofs

### The MAC

A PDU is its *position* in the sender's stream, 0, 1, 2, ...  What the code sees
of it is its SN, `SnOf(position)`, and its segment indicator; the bits stay
abstract.  Everything the code decides is decided on SNs (`Stale`, `Insert`,
`GapTooOld`, `Acked`, ...), while the properties speak of positions, so a
confusion of two PDUs that bear the same SN is visible.

* `Reassembly`: `Transmit` and `TransmitTooLong` are `UmEntity.transmit`, the
  second for an SDU whose segment offset overflows the SO field:
  `encode_header` raises after SNs were taken (`burnt`), and the caller gets no
  PDU.  `Ingest` is `ReassemblyBuffer.ingest`: `DropStale`, `Accept` and
  `Resync` are its three ways, and `Drain` is its while loop, stated as what it
  leaves behind.
* `AmEntity`: the sending half of one entity and the receiving half of its
  peer; the other direction shares no state with it.
* `AmLink`: the two halves, an air that loses, repeats and reorders, and a
  caller that does anything the interface allows.  `MaxAhead` is how far the
  caller lets new PDUs run ahead of the oldest unacknowledged one; the code
  sets no limit.
* `AmService`: what the link promises, without PDUs.  `AmLink` implements it
  under the mapping at its end: an SDU is a number, a delivery is its turn, that
  number and whether the SDU was whole.
* `UmLink`: two UM entities and an air that loses and reorders (nothing is
  sent twice in UM), for runs longer than the SN space.
* `Bind`: the two handshake PDUs, byte by byte, and `evaluate_bind_request`.
* `MacSession`: `MacLink.bind` and `send`, one step per PHY round.  A round
  whose PDU does not arrive stands for a frame not found, a CRC failure and a
  decoding exception, which `_phy_round` treats alike.

### Receiving

* `RxStream`: `Ofdm.rx_streaming`, one step per call.  The buffer is an interval
  of positions on the stream; the stages fall through to each other within a
  call as in the code.  The synchroniser is modelled by the metric it computes
  for samples of unit energy: a preamble that has arrived in part, or lost its
  first samples, scores what it scores in the code.  On the air is a layout of
  frames, frames damaged in the header or the payload, and lookalikes, put there
  one behind the other before the first call.  A header has no check: one that
  arrived damaged, or was read from noise or off its place, raises or announces
  any length up to `MaxPayloadSymbols` (`HeaderDecodes`), and it is by that
  length, `streamHeader`, that the code waits and cuts.  `swallowed` is history:
  the items that begin before the end of what a wrong header announced.
* `RxLoop`: `Mac.receive_iq`, one call per frame in order of arrival, with its
  effects on the entity (what it is handed) and on `quality`.
* `RxBatch`: `receive_iq_batch`.  Workers begin and end decodes in any order,
  each on its replica, whose native struct is `struct`; `Join` is the end of
  the pool, `Deliver` the loop after it.
* `PingPong`: the receivers of `debug/` that capture into one of two slots while
  they decode the other, in a thread (the slots hold references) or in another
  process (two shared arrays, decoded in place, so a slot can be torn).
  `RxLoop` is the abstract specification of both: they share its variables, and
  its specification itself is checked as a property of them.  `Receivers` is the
  choice between the two, and what `rx_batch` runs.

### The frame

`Bits` holds bytes as sets of their one bits, so a field of 8 elements takes
three of them; the code's tables (generator polynomials, LDPC base matrix,
scramble mask) are CONSTANTS and the algorithms are translated as they are:
Berlekamp-Massey and Forney in `ReedSolomon`, the trellis in `Convolutional`,
min-sum in `Ldpc`, table and bitwise keys of the CRCs in `Fec`, the three interleavers'
permutations, Gray mapping and its hard decision in `Modem`, header codec and
Packetizer in `Framing`.  `OfdmFrame` has the bins of the resource grid and
composes all of them into `generate_frame` and the decode of a frame from its training symbol on; points
are integers on a fine grid, the channel turns them by quarters.  `FrameLink`
is two `Ofdm`s and an air: its state is the receiver's memo of the last codec,
which outlives a frame.

`NativeFec` is what the ctypes wrappers and the jitted kernels compute, with
libcorrect's own decoder external; `LdpcKernel` is the CUDA kernel, thread by
thread between barriers; `FecBackend` is how threads and processes come by a
compiled library: a double-checked flag, a temporary file, `os.replace`, a cache
directory that machines of different kinds may share.  The temporary file is
named by the pid, so processes of two machines or containers may have it in
common; what lies under that name, whole or not, is what `os.replace` moves.
Assumed of what is outside the code: the linker unlinks an output that is there
before it writes its own, so that the first writer goes on with a file that has
no name; `ctypes.CDLL` of half a library raises; a killed process takes its
compiler along.

`Acquisition` is the receiver before the frame codec: Schmidl-Cox by cumulative
sums and by the jitted sliding window, one step per turn of its loop,
Zadoff-Chu, the CFO estimate and its two corrections, with samples that are
Gaussian integers and offsets of quarter turns, where all of it is exact.  A
preamble is recognised at any angle and strength: what a search looks for is
stated by the products of its samples, so that no angle is ever computed.
`Equalizing` goes on from there: prefix, echoes, LS estimate over the training
symbols, zero forcing or MMSE.

### Units

* `DroneLink`: the eight threads of the two units.  A step is what a thread
  does between two accesses of `mac.bound` and `bound_event`, which the
  watchdog and the receive loop write without a common lock.  Pushing a frame
  is one step.  A full socket blocks the push.  Intervals end at any moment.
* `TuiUnit`: the five threads of one dashboard unit, with what `DroneLink` takes
  as given: `push_lock` taken twice, frames chunk by chunk, the modem and the
  segmenter changed in two steps, the traffic generator.  The peer is open.
* `TxScheme`: `send_iq`, `set_tx_scheme`, the comparison of capacities at bind,
  and the bisection of `capacity.py`.  A PDU is its length.
* `AdaptiveLink`: counters, their report, the controller, and a
  channel that carries modems up to a level and changes.

Definitions marked `mutant` or `fault` are variants with a plausible bug, each
of which makes a property fail; nothing else uses them.

## Runs

| Run | Shows |
|---|---|
| `am_any` | `InOrderAtMostOnce`, `SduIntact`, `Accounted`, `PendingBounded`, `ExpectedForward`, `ImplementsService`: with any caller and any air nothing is delivered twice, out of order or mixed; a PDU leaves the sender's buffer only received, given up on, or resynced past |
| `am_windowed` | with a caller that keeps within the window delivery is exact until a PDU is given up on (`ExactUntilGiveUp`), and every PDU is in the end delivered or one is given up on (`Progress`) |
| `um_link` | across the wrap of the SN space, without a gap in what arrived the stream is exact (`LosslessExact`) |
| `mac_session` | what the caller of `send` may conclude (`DeliveredWhenReported`, `ResolvedOnReturn`), a bound link agreed on what was built (`BoundAsBuilt`), every call returns (`CallReturns`) |
| `drone_link` | handshakes do not overlap as long as the ground unit is not started again (`OneHandshake`), the air unit does not stay bound and paused (`NoLimbo`), the ground unit gets its link back unless a bind frame was lost (`ComesBackUnlessBindLost`) |
| `unit` | frames go out whole, one thread in the encoder (`FramesWhole`), with the modem they were cut for (`CutForItsModem`); a stopped generator stays stopped and ends (`StopIsFinal`, `StoppedEnds`); the ground unit comes back unless refused (`ComesBackUnlessRefused`) |
| `rx_stream` | frames come out once and in order (`InOrderOnce`), none that no wrong header claims is lost however chunks cut it (`NoFrameLost`) or waits more than one further call (`Prompt`), the buffer is bounded by the longest frame a header may announce (`BufferBounded`) |
| `rx_batch` | `receive_iq_batch` and the ping-pong receivers do what a loop of `receive_iq` does (`LikeLoop`) |
| `sync` | the first preamble is found, by either kernel, and nothing else (`FirstPreamble`); offset and echoes are undone (`AirUndone`) |
| `frame_link` | damage within the codes' reach is corrected (`CorrectedWithinReach`), beyond it noticed (`DamageNoticed`), no frame sent with a key passes as one without (`UncheckedOnlyAsSent`), compiled kernels agree with the array code (`KernelsAgree`) |
| `adaptive` | every PDU fits a frame (`SegmentsFit`), the capacity is the largest (`CapacityIsLargest`), the controller moves on what happened between two reports (`DownOnBadInterval`, `UpOnGoodRun`), a link too fast for its channel comes down (`Recovers`) |
| `native` | a codec is only on a backend that is loaded and runs here (`BackendHeld`), and on a slower one than it could have for a cause only (`SlowForCause`) |

All hold.  `TypeOK` is checked in `am_any`.

### Where the code and its words differ

The properties above are stated as far as the code keeps them.  Where a
comment promises more, the condition that makes the difference is part of the
property, and the disagreement is this:

* `am.py:146` never prunes `_received_sns` (`:26` says it tracks what has been
  received): after 1024 PDUs a report acknowledges PDUs of the new generation
  on the strength of the old one's.  The AM properties are those of one
  generation.
* `session.py:242`: a resync moves `base_sn` over PDUs that never arrived, so
  `send` may return with nothing pending, nothing failed and a truncated SDU at
  the peer, against `:216`.  For the same reason the tail of an SDU is delivered
  as if it were the SDU (`reassembly.py:96` says it is dropped).  And
  `max_rounds` is not "enough rounds for every buffered PDU to exhaust its retry
  budget" (`session.py:77`): the peer goes on waiting for a PDU that was given
  up on, does not NACK what lies a window or further beyond it, and so later
  PDUs may be NACKed in the last rounds only, or not at all.  Both take a `send`
  that reaches a window or further past what the peer waits for, which is
  `overran` in `DeliveredWhenReported` and `ResolvedOnReturn`: an SDU of more
  segments than the window, or a shorter one after a PDU was given up on.
* `reassembly.py:155` takes the numerically smallest pending SN for the earliest
  (`:97`), which it is not when the window straddles the wrap.
* `drone_ground_unit.py:205`: a lost BIND_REQUEST is never sent again, against
  `:100`; `bindLost` in `ComesBackUnlessBindLost`.  And the request announces the
  capacity of the modem the unit has climbed to, which an air unit built for
  the first one refuses: `refused` in `ComesBackUnlessRefused`.
* `drone_air_unit.py:247`: the watchdog may unbind the unit between the wait
  and the send; the exception ends the sender thread, while `:237` says a lost
  link pauses sending.  The dashboard's `send_fn` (`air_unit.py:186`) says it
  returns False then; it raises too.  `TrafficGenerator.stop` says "stopped"
  after two seconds whether or not its thread has ended.
* `mac.py:391`: replicas keep the scheme the Mac was built with, so with
  `strict_fec_check` `receive_iq_batch` rejects frames that `receive_iq` accepts,
  against `:395`.  `rx_batch` has the check off, as by default.
* `drone_air_unit.py:159` returns before the tracker is fed when `rx_streaming`
  gave None for a frame whose FEC raised, against `:148`: the peer's controller
  then reads an interval without evidence and stays.  `Recovers` is checked for
  the other receive path, `receive_iq`, which counts such frames.
* `capacity.py:59` counts OFDM symbols only (`:22` says it uses the same
  accounting as `generate_frame`), which also has a 16-bit length field, and
  answers one byte when nothing fits.  Nor does it see which stage refuses which
  length: RS over the output of the convolutional code gets half a byte from
  every PDU, whatever its length, and raises.  `SchemesCarry` excludes the three,
  and `MCAdaptiveLink` has it as an ASSUME.  `reconfigure_tx_scheme`
  (`ofdm.py:605`) has replaced the modem when the new Packetizer raises.
* `header.py:152` leaves the CRC code 0 without a scheme so that a damaged header
  is noticed; the code of "none" is 1, one bit from those of crc8 (3) and crc24
  (5), so one wrong bit still has such a frame handed over unchecked, which the
  MAC takes for accepted: `NearNone` in `UncheckedOnlyAsSent`.
* `fec/_native.py:229`, "checked once per process": `_checked` is set before the
  library is there, so a thread that asks meanwhile gets the slow codec for
  life (`raced` in `SlowForCause`).  The portable library's name bears no
  architecture, so in a shared directory a process may find another machine's
  and do without it for life (`misled`); a third process that began earlier may
  put the right one in its place later, so the file itself is no evidence.
* `fec/_native.py:241` says of `os.replace` that it "avoids a half-written .so if
  two processes race".  The temporary file is named by `os.getpid()`, which two
  machines or containers that share the directory may have in common: the one
  that is done first then puts the other's half-written file in place, from which
  processes load nothing until it is whole, for ever if its writer is killed, and
  the other's `os.replace` finds no file.  Either process is slow for life:
  `collided` in `SlowForCause`.
* `fec/_native.py:139` claims the native decoder equals the array decoder; with
  `examples/libcorrect_backend.py`, which does not pad, libcorrect withholds the
  last bits.  The CUDA kernels never look at the syndrome, so `KernelsAgree`
  compares them with the array decoder only where that converges.
* `bind.py:1` says the handshake agrees on the mode, window and retries;
  `evaluate_bind_request` compares the capacity only.
* `ofdm.py:1456` resumes one sample on "so the same false peak isn't immediately
  re-detected"; one sample on it still scores well over the threshold.  This
  costs decodes, not frames: `rx_stream` has it.
* `ofdm.py:1381` says that "one bad frame is discarded" and the search for the
  next one resumes.  What is discarded is what the bad frame's header announces
  (`ofdm.py:1474`, `:1501`, `:1522`), up to `MAX_PAYLOAD_SYMBOLS` (128) symbols,
  and a header that was damaged or read from noise announces anything: the
  whole frames within it are not searched, and are cut off.  A phantom frame may
  be returned in their place, when the wrong header names no CRC; with one, the
  result says that it fails.  `swallowed` in `NoFrameLost` and `Prompt`: these
  two say that no other frame is lost or late, also not one that follows behind
  the end of what was announced, and `BufferBounded` bounds the wait.
* `README.md:194` and the docstring at `ofdm.py:1365` let `rx_streaming` take
  chunks of any size.  One call returns one frame and leaves the rest
  unsearched.  When the next chunk comes a later preamble may win over an earlier
  one, or, with a chunk longer than the search window, the earlier one is trimmed
  away unsearched; either loses a frame on a clean channel.  `ShortChunks` (see
  Proofs) says which chunks are short enough.  The Pluto units feed 2048 samples
  to an FFT of 256: that is a window, but two chunks are longer than a frame of a
  few symbols such as a bind or a report, so two of those in a row are at risk.
  So are frames behind a train of lookalikes, which take a call each.

### Bounds, and why they are enough

The bounds of the models are named: `MaxPdus`, `MaxReports`, `MaxSpread` (how far
apart PDUs on the air may be numbered), `MaxBinds`, `Typists`, `Restartable`,
`MaxRestarts`, `MaxFrames`, `MaxPerBuffer`, `MaxRun`, `MaxBuffered`,
`MaxAttempts`, `MaxLives`.  All others are parameters of the code.  The code's window has to be a multiple of 8
for a STATUS PDU to be sendable at all; nothing modelled depends on that, and
the runs use `WindowSize` 2, where a resync takes 3 held segments.  `SoLimit` 2
makes a three-segment SDU the one that is refused half way.

* `am_any`: 5 PDUs, SDUs of 1 to 3 segments, no retry: a resync with one more
  PDU on either side, stale reports and duplicates, a refused SDU.  `SnModulus`
  12 keeps the run in one generation (`OneGeneration`, an ASSUME of `MCAmLink`).
* `am_windowed`: one retry, `MaxAhead` one more than the window, which is the
  largest for which `ExactUntilGiveUp` holds.
* `um_link`: 11 PDUs in an SN space of 10, so every comparison is made across
  the wrap; PDUs on the air spread up to one more than the window.
* `mac_session`: all three modes, one retry, two binds, several `send` calls;
  bytes up to 3, so that the capacity needs three bytes of its field, and one
  link whose window fits no byte.  `statusLost` and `overran` are history, for the
  two properties of `send`.
* `drone_link`: two missed intervals (one would hide a missing reset), one frame
  per direction on the wire plus the one being handled, the air unit killed and
  restarted twice, the ground operator typing from then on (a restart as the very
  first step stands for none).
* `unit`: two modems, payloads of two PDUs or one, bursts of two chunks: one
  between chunks, one between frames, and a lock held across both.
* `rx_stream`: an FFT of 6 samples with a CP of 1, the code's window of 8
  symbols and threshold: candidates too early and too late both occur on either
  side of it.  Three items are what it takes for a frame to be lost behind two
  failures or two frames.  A gap of 40 makes the search window trim.  Frames are
  of one symbol and headers announce none to three: less than the frame, more,
  and enough to reach over the next one, behind which a third still follows.
  Chunks of 4 and 9 in any order; with 11, `Prompt` fails when a lookalike
  precedes a frame.  A frame is at risk as soon as
  `2 * chunk - 1 >= frame + preamble`.
* `rx_batch`: 4 frames in all, 0 to 3 workers: a worker with two frames, a pool
  that grows from one call to the next, one that is used in part; buffers of up
  to two frames, enough to tear one between them.
* `sync`: every capture of six samples of five values, so preambles anywhere,
  cut, scaled and repeated; every channel of up to three taps with a prefix of
  two, so that the longest echo just fits and one early sample does not.
* `frame_link`: RS(7, 3) over GF(8), constraint length 3, an 18-bit LDPC code, 16
  bins; two frames after one another, for the memo.  Every pair of bit errors
  is given to the compiled decoders.  The lengths of payloads up to 40 bits are
  checked by assumptions of `MCFrameLink`: which ones `generate_frame` takes, and
  that `decoded_length` inverts `encoded_length` (`LengthsInverse` proves the
  latter for every length and code).  One table of the program itself,
  `ldpc_648_r56`, is checked to be encodable and to correct an error
  (`TableUsable`); that libcorrect without padding withholds just the end of a
  message is `UnpaddedWithholds`.
* `adaptive`: bytes of 4 bits, 12 carriers, the header's real widths, SDUs below
  and above 65535 bits; three modems, a clamp at 4 with counters up to 5, two
  lives of the peer.
* `native`: two threads of a process and one of another, which may be killed;
  like and unlike machines, with one pid or with two, a build that does not
  compile, an override.

### Fairness

* `AmLink!FairSpec`: the caller keeps asking for reports (weak), and not every
  report is lost (strong).  Data needs none: reports make the sender count
  retries.
* `MacSession!FairSpec`: a call that runs takes its next step; nothing blocks.
* `DroneLink!FairSpec`: receiver and watchdog threads run (weak).  The two pushes
  of bind frames get their turn at the lock and on the wire (strong), because
  the reporter they contend with sleeps 100 ms between two pushes.  All but the
  bind frames may be lost for ever.
* `TuiUnit!FairSpec`: threads that can run do; one that waits for the lock gets
  it (strong), since its holders let go after every payload and the others
  sleep; the peer takes what is pushed and answers what is asked.  Nobody has to
  type, to start traffic, or to send reports.
* `AdaptiveLink!FairSpec`: both ends keep sending reports, which are frames too
  (weak), and not every one of the peer's is lost (strong).

## Proofs

The theorems hold for every value of the constants that meets the assumptions
of the modules (types, and what the code demands of its parameters); "Assumes"
has what a theorem needs beyond these.

| Module | Theorem | Property | Assumes |
|---|---|---|---|
| `AmLinkProofs` | `TypeCorrect` | `TypeOK` | |
| | `WindowKept` | `PendingBounded` | |
| | `InOrder` | `InOrderAtMostOnce` | `OneGeneration` |
| | `Intact` | `SduIntact` | `OneGeneration` |
| | `EveryPduAccounted` | `Accounted` | `OneGeneration` |
| | `NeverRewinds` | `ExpectedForward` | `OneGeneration` |
| | `ExactDelivery` | `ExactUntilGiveUp` | `OneGeneration`, `MaxAhead <= WindowSize + 1` |
| | `AsServed` | `ImplementsService` | `OneGeneration` |
| `EntityProofs` | `Lossless` | `LosslessExact` | `AirWithinWindow` |
| `MacSessionProofs` | `BindsAsBuilt` | `BoundAsBuilt` | |
| | `NothingLeftPending` | `ResolvedOnReturn` | `OneGeneration` |
| | `ReturnsDelivered` | `DeliveredWhenReported` | `OneGeneration` |
| `ReceiversProofs` | `ReceivesLikeLoop` | `LikeLoop` | `SchemesAlike` |
| | `StreamsInOrder` | `InOrderOnce` | |
| | `StreamBounded` | `BufferBounded` | |
| | `LosesNoFrame` | `NoFrameLost` | `KeepsUp` |
| | `ReturnsPromptly` | `Prompt` | `KeepsUp` |
| `DroneLinkProofs` | `OneAtATime` | `OneHandshake` | |
| `TuiUnitProofs` | `OneFrameAtATime` | `FramesWhole` | |
| | `CutForTheModem` | `CutForItsModem` | |
| | `StoppedForGood` | `StopIsFinal` | |
| `OfdmLinkProofs` | `StepsDown` | `DownOnBadInterval` | |
| | `ClimbsOnGoodRun` | `UpOnGoodRun` | |
| | `EverySegmentFits` | `SegmentsFit` | `SchemesCarry` |
| | `FindsLargest` | `CapacityIsLargest` | |
| | `NeverUnchecked` | `UncheckedOnlyAsSent` | |
| | `LengthsInverse` | (`decoded_length` inverts `encoded_length`) | |
| | `FirstPreambleFound` | `FirstPreamble` | |
| | `OffsetIsUndone` | (`OffsetUndone`, a part of `AirUndone`) | `Gates` |
| `FecBackendProofs` | `BackendsHeld` | `BackendHeld` | |
| | `NeverSlowWithoutCause` | `SlowForCause` | |

The assumptions, each needed and, `NoLookalikes` apart, each met by the run that
checks the property:

* `OneGeneration == MaxPdus < SnModulus \div 2`: beyond it an old PDU counts as
  new.  With it SNs are positions and `SnPrecedes` is `<` (`SnOfPosition`,
  `SnPrecedesLinear`).
* `MaxAhead <= WindowSize + 1`: the receiver gives a gap up once more than
  `WindowSize` segments are held behind it.  A caller that stops sending new
  PDUs within that distance of the oldest unacknowledged one never gets there;
  with one more `am_windowed` fails.  `AmEntity` leaves this to its caller.
* `AirWithinWindow == MaxSpread <= WindowSize + 1 /\ WindowSize <= SnModulus \div
  2`: the same limit for UM, whose air may not reorder further than the window
  holds, and the window may not be wider than SNs can be compared.  `UmEntity`'s
  defaults (32, 1024) are.  There is no limit on the number of PDUs: the theorem
  is about any number of wraps.
* `KeepsUp`, for `LosesNoFrame` and `ReturnsPromptly`.  `ShortChunks`: two chunks
  are no longer than a frame and the next preamble, one chunk and half a preamble
  no longer than a frame, and the search window holds a chunk, and a preamble and
  a half.  In the model a frame is lost with chunks of 5 and 14 when the window
  is 12, and with chunks of 4 and 17 when the shortest frame is 27 samples.
  `ThresholdReached`: the threshold is at most 1, what a clean preamble scores.
  `NoLookalikes`: nothing but a frame, damaged or not, scores like a preamble; of
  two lookalikes and two frames in a row the first frame is lost.  The run meets
  the first two, and has lookalikes besides, in layouts of three items.
* `SchemesCarry`, for `EverySegmentFits`: every scheme a Mac of the model may come
  to use, if its Packetizer is made at all, has stages that take what the one
  before makes of whole bytes (`StagesAgree`), room for a PDU of one byte, and no
  room for a PDU longer than the header's length field can say.  Each is needed:
  without it `send_iq` raises for a PDU of the Mac's own making.  The schemes of
  `adaptive` meet it; `FindsLargest` does without.
* `Gates`: the sync threshold is positive.  At 0 a capture of silence passes
  for a frame, and there is nothing in it to estimate an offset from.
* `SchemesAlike == StrictFecCheck => Fecs = {ConfiguredFec}`: the replicas keep
  the scheme the Mac was built with (see above), so with the strict check
  `receive_iq_batch` does what `receive_iq` does only as long as the scheme stays.

### The arguments

`EntityProofs` has what holds whoever drives the entities.  On the operators of
`Reassembly`: what `Drain` takes out and keeps, that `Ingest` keeps types, leaves
at most a window pending and the expected SN not among them (`IngestStalled`),
that within one generation what is delivered stays in ascending order with the
expected SN above all of it (`IngestOrdered`), and that, when no position between
what was handed over and the one that arrives is further than the window, no gap
is given up and what is handed over grows by a run of positions (`IngestExact`,
used by all three links; `HeldBack` is its hypothesis, in positions, whatever the
generation).  On the operations of `AmEntity`: each keeps `EntityInv`, given that a
report it acts on is true (`ReportTrue`: all it acknowledges has arrived).  In
`EntityInv`, in-order delivery depends on where the receiver stands: all that was
handed over, or is being collected, lies below `expected` and in ascending runs
without a gap inside an SDU (`ReceiverOrdered`), and what is pending lies above
it.  No PDU is forgotten: `Accounted`.  `ExactSoFar` is what holds until a gap is
given up: exactly the positions below `expected` were handed over, and every PDU
received is one of those or pending; an arrival keeps it when nothing was sent
further than the window beyond `expected` (`ReceiveExact`).

There too is `Lossless`.  `UmInv` says that, as long as nothing was lost or burnt,
there is a position `n` up to which all was handed over or collected, the later
ones are on the air or pending and not both, and `n` itself is not pending
(`Complete`).  Nothing else ties SNs to positions when the stream wraps.

`AmLinkProofs`.  `LinkInv` adds to `EntityInv` that the reports under way are true:
each was when it was built, and stays so because `received` and `expected` only
grow (`ReportsTrue`).  `Exact` adds that the sender keeps nothing further than
`MaxAhead` behind its next PDU; the oldest missing PDU is one it keeps, which
bounds what can be pending.

`AsServed` is the refinement.  `SduShape` says how `transmit` cuts the stream: an
SDU starts first or after the end of another, and without a refused one the
stream is whole SDUs only.  With it `LinkInv` gives what the caller has in every
state (`AsPromised`): a later delivery is of a later SDU, because after the end of
the one another must start before the other can end; and while nothing was
skipped place `i` of what was handed over holds position `i - 1`
(`NothingSkipped`), so that up to there as many SDUs started as ended, and the one
under way (`StartsFollowEnds`).  A step then numbers an SDU, adds deliveries,
gives up, or changes nothing the caller sees: what `ingest` hands over lies behind
all it handed over before, so no delivery is changed by it, not even whether an
SDU lacked its beginning, and no gap it left is filled later
(`IngestAddsDeliveries`).  The last two statements about counts are inductions
over positions; they are proved from a least counterexample (`LeastElement`).

`MacSessionProofs`.  For `bind` the invariant is what the two PDUs on the air say
(`BindInv`); that a field of four bytes reads back is shown for bytes of any width,
by the arithmetic of `\div` and `%` (`U32RoundTrip`).  For `send`, `Windowed` says
that between calls the buffer is empty, and that during one every PDU in it has
been NACKed by every report that arrived: the peer can NACK all of it, since
nothing sent lies a window beyond what it waits for, and a report takes out
exactly what it does not ask for again (`ReportReads`).  After `max_retries + 2`
rounds, one report lost, no PDU has a retry left.  What was sent by then ends
with the end of an SDU (`WholeSent`), so nothing is left half collected.

`ReceiversProofs`.  Each step of `Receivers` is shown to be a step of `RxLoop` or
to leave its variables as they are.  For the pool the invariant says that a
result is either what a decode gives or of a frame still dealt to some worker
(`Dealt`: workers stride by their number), and that the native struct of a busy
worker's replica holds that worker's frame; when no worker has anything left,
every result is there.  For the two slots it says who has which slot
(`SlotsInv`), and that what waits in them are the frames between the last one
decoded and the last one captured, in their order (`FramesInv`).

For the streaming receiver `StreamInv` says that a start, once found, lies near an
item and within what was searched, and that whatever has been returned lies wholly
before `bufStart` (`Behind`): so the next frame is a later one, and a start found
is a bounded way into the buffer.  That no frame is lost rests on what the metric
prefers: a preamble that is whole in the buffer is a peak, and with one there no
other start is (`InViewPeaks`, `PeaksExact`), because a window `a` samples off
matches `2a` samples less and loses at most `a` of its energy.  `KeepInv` says that
what was cut off has been returned, was damaged or was swallowed (`CutBehind`,
`Intact`), that while the receiver seeks no preamble in its buffer is older than a
chunk or a preamble and a half (`AllDue`), that a start it has taken is the first
intact one left, or lies beside what is not intact (`Taken`), and that a decoded
header announced its own frame, or has swallowed all that begins before the end
of what it announced (`Claimed`).  So wherever that end lies, it cuts no intact
frame that is still to come.  With `ShortChunks` the first preamble has been
taken before the second is whole (`OneInView`), and is not trimmed away meanwhile
(`TrimmedKeepsUp`).

`DroneLinkProofs`.  `OneHandshake` counts requests and answers on the wires and in
the receivers' hands, and is broken only by a ground unit that asks while one is
under way.  `GroundInv` adds when it may ask: while it has not asked yet, is
bound, or its watchdog has just cleared `bound`, nothing is under way
(`Settled => Quiet`); and its watchdog sees a silence only when bound.  An air
unit that starts again, however often, sends no bind frame of its own accord.  A
ground unit does, whatever is still under way: the property is about one that
has not been started again.

`TuiUnitProofs`.  `LockInv` says who holds the lock and how often (`LockHeld`): the
one thread between a `with push_lock:` and its end, twice while it pushes, and
nobody when there is none.  A count of the threads inside is not enough, since
`Free` lets the holder in again.  `InStep` adds that modem and segmenter differ
only while the receiver is between the two steps of `set_tx_scheme`, during
which, by the lock, nobody cuts a payload.  Steps are grouped by what they do to
the lock: taken, kept, taken again, let go of, or not touched (`OutsideKeeps`).

`OfdmLinkProofs`.  A report carries, as history, the truth it was made from.
The invariant orders the controller's last truth, the one under way and the
present one (`Ordered`: by lives of the peer, then by counts), says that what the
controller holds is that truth clamped, and that its streak never exceeds the
run of good intervals counted by `goodRun` (`StreakInv`).  The intervals between
two truths of one life are then the differences the controller computes.

There too are the two theorems about the sending side.  `LargestFitting` is a
recursive function, and the library knows that such a definition has the value
its equation says, and induction, only by theorems with an operator as a
parameter.  Both are proved again with sets and functions in their place:
`SetInduction`, from the least element of a set of numbers, and
`RecursionExists`, which builds the solution of any recursion with one recursive
call on an argument of lower rank.  The rank of a search is the length of its
range (`Distance`).  What every turn of the loop keeps (`Sought`) is that what was
found fits, that the range starts a byte after it, and that nothing above the
range fits; the last because a longer payload never takes fewer bits
(`LengthGrows`, over blocks that are full, shortened or absent, and both stages),
and its start is whole bytes, so that the rounding of the middle skips none.
`TxInv` then says that the segmenter's copy is the capacity of the scheme in use
unless a call raised, and that every PDU kept is whole bytes: that, no longer
than what fits, is what each stage of `generate_frame` takes (`FittingIsFramed`).

`NeverUnchecked` follows a header from end to end.  Each of its 112 bits has a
slot of its own (`SlotsDiffer`: the places of `np.linspace`, rounded to even, are
never nearer than one), a slot is one data bin of one symbol (`SlotIs`), and the
bins of data, pilots and nulls are distinct (`DataIs`), so one point turned over
is one bit wrong (`OneTurnedOver`).  The estimate from the training symbol is the
phase the channel gave each bin (`EstimateIs`), and equalising takes it away
again (`HeaderArrives`): what the receiver decodes is the header as it was sent,
with the wrong bits turned over.  In it the three bits of the key are those of
its code, whatever the scramble mask, and one wrong bit makes them the code of
"none" only for `NearNone` (`CodeRead`, `NameRead`).  The invariant
(`UncheckedInv`) says that whatever happened to the payload, what is on the air
is such a header behind such a training symbol, with at most the one wrong bit
(`AirHolds`), and that the codec in the memo has the key it is looked up by
(`MemoNamed`); without the latter a kept codec could leave out a check.

`FirstPreambleFound` is about sums and an inequality.  Prefix sums are what their
recursion says (`CumSumIs`), so the difference of two is the sum over a window
(`WindowSum`), and the kernel's window, slid by one sample, is the same sum
again (`NextWindowIs`).  The invariant (`SearchInv`) says just that of the three
running sums, and that what is kept is the first of the highest scores so far
(`Highest`, which one more candidate extends and `ArgMaxIs` finds in the array
code).  What a score of 1 means is the inequality of Cauchy and Schwarz: the
energy of a correlation is at most the product of the energies of both sides, and
equal to it only if one side is a multiple of the other (`Schwarz`, by adding up
squares that cannot be negative, `ApartAddsUp`; `Proportional`).  Schmidl-Cox
divides by the mean of the two energies, squared, so there they are equal too and
the multiple is one turn (`TurnIs`), which is `HalvesAlike`; for Zadoff-Chu it is
any factor (`FactorIs`), which is `TemplateAt`.  Nothing bounds samples, template or lengths.  `OffsetIsUndone`
needs of the estimate that it is the offset when the halves were the same
(`PhaseEstimateIs`); `CorrectInv` says that the kernel's phase is the array's
after any number of samples.  That the kernel does what the array does holds for
any FFT; but in quarter turns per sample, only FFTs of 2 and 4 have offsets in
range at all besides none.

`FecBackendProofs`.  A probe is begun once per process and build; until it ends
its thread holds the lock and no library is there, and what it leaves is either
the library or a reason (`ProbeInv`, `ProberInv`).  What lies in the directory is
whole, unless two processes with one pid once met under its temporary name, and of
the architecture its name says, the portable one's excepted (`NameInv`); until
two have met there, what lies under a temporary name is what its one writer has
made of it (`FileInv`), so that the rename finds a whole file.  A thread that has
come to build `b` has an excuse for each build before it (`AskerInv`); a step of one thread disturbs
nobody else's (`Frame`), a kill takes a whole process.

## Model-checked only

* Liveness (`Progress`, `CallReturns`, `NoLimbo`, `ComesBackUnlessBindLost`,
  `StoppedEnds`, `ComesBackUnlessRefused`, `Recovers`): the proof system has no
  support for ENABLED and fairness.
* What codecs and kernels compute (`CorrectedWithinReach`, `DamageNoticed`,
  `KernelsAgree`): folds over blocks, trellises and fields, whose proofs would be
  those of coding theory.  The runs check them over bounded inputs.
* That echoes within the prefix are undone (`EchoesUndone`, the other part of
  `AirUndone`): it is that a DFT over Gaussian integers turns a circular
  convolution into products, and only an FFT of 4 has its roots there.
* `NoFrameLost` and `Prompt` when lookalikes are on the air (see `NoLookalikes`).

## Not modelled

* Numbers: float rounding, Gaussian noise, soft decisions (LLRs), the MMSE
  channel estimator, interpolation between pilots.  TLC has integers; the models
  take inputs on which the code's arithmetic is exact.  The CFO from pilots is
  left out because quarter turns, the offsets that are exact here, lie outside
  the range in which it is unambiguous.
  With an echo Schmidl-Cox may start late, where the prefix protects nothing;
  `Equalizing` takes starts that are right or early.
* `exchange_link_quality` and the counters behind it; `_phy_round` leaves rounds
  that raise out of them.  An explicit `reset_stream` in mid-stream.
* The AFF3CT bridge (`fec/_native_aff3ct.py`): one child process per variant with
  a pipe and no lock.  Two threads that decode at once may take each other's
  answers, an interrupted decode leaves its answer in the pipe for the next one,
  and a child that died stays in `_processes`.  These are defects on the page;
  a model would restate them.
* Two dashboard units that block each other: both sockets full and both
  receivers waiting for their own lock.  `TuiUnit` has one unit with an open
  peer.  A restarted unit numbers from 0 while its UM peer expects more, so its
  lines are dropped as stale; `DroneLink` leaves UM out.
* `TrafficGenerator._run` looks at `stop` (`traffic.py:84`) and then, in `send_fn`
  (`air_unit.py:194`), at `bound_event`.  `TuiUnit` has the two in one step, so
  the one payload that goes out when `stop()` comes between them is, in the model,
  one that went out before `stop()`.
* The small term that `ZadoffChuSync` adds to the denominator of its metric
  (`zadoff_chu.py:162`), a millionth of the mean energy, which keeps windows that
  are all but empty from winning: samples are integers here, and a window that
  is not empty is never as weak as that.  Of several perfect copies of the
  template at different strengths the code so takes the first of the strongest;
  without the term `FirstPreamble` has the first of all.
* Of the ping-pong receivers: buffers inside a frame (a frame counts to the
  buffer it ends in) and the waits' timeouts, which change nothing.  Captures
  that drop the oldest buffer, or drop on a timeout, splice samples that were
  not contiguous; they are not modelled.
* The whole-block search of `capacity.py`, which no scheme reaches; block
  registry and array backends; dashboards, plots, measurements.

## Plan

1. Two `TuiUnit`s over bounded sockets, for the deadlock across them; UM streams
   across a restart.
2. The time domain composed with the frame codec.
