----------------------------- MODULE Equalizing -----------------------------
(***************************************************************************)
(* What a receiver does with the symbols behind the preamble, in time and  *)
(* frequency: OfdmModulator puts a cyclic prefix before every symbol, the  *)
(* channel adds echoes, and the receiver takes its slots from where it     *)
(* believes the frame begins, estimates the channel from the training      *)
(* symbols (LSChannelEstimator) and divides it out (ZFEqualizer, or        *)
(* MMSEEqualizer).  A Fourier transform of four points multiplies by       *)
(* quarter turns only and is exact.  Spectra and samples are counted from  *)
(* 0; the 1/4 of the inverse transform is left out on both sides.          *)
(*                                                                         *)
(* The estimate is interpolated for bins that carry nothing, of which no   *)
(* symbol is taken; that is left out.                                      *)
(***************************************************************************)
EXTENDS Acquisition, FiniteSets, SequencesExt

CONSTANTS CpLen,
          TrainValues,      \* bin -> its value in training; the bins in use
          NTraining,        \* n_training_symbols
          Preamble,         \* the samples before the first training symbol
          Payloads,         \* spectra of the symbols after the training
          Channels,         \* multipath_taps
          NoiseVars         \* MMSEEqualizer.noise_var, a fraction; 0 for ZFEqualizer

KnownBins == DOMAIN TrainValues

ASSUME EqualizingAssumption ==
    /\ CpLen \in 0 .. FftLen - 1 /\ NTraining \in Nat \ {0}
    /\ KnownBins \subseteq 0 .. FftLen - 1
    /\ \A bin \in KnownBins : Energy(TrainValues[bin]) \in {1, 2}
    /\ \A p \in Payloads : \A s \in DOMAIN p : DOMAIN p[s] = KnownBins

VARIABLES taps,         \* the channel
          early,        \* samples by which start_index precedes the frame
          payload,
          noiseVar,     \* of the equalizer
          symbol,       \* symbols received
          hSum,         \* h_hat_data_sum
          equalized     \* per symbol after the training, per bin: a fraction

receiving == << taps, early, payload, noiseVar, symbol, hSum, equalized >>

-----------------------------------------------------------------------------
Total(terms) == FoldLeft(Plus, << 0, 0 >>, terms)

SlotLen == FftLen + CpLen

\* ifft of a spectrum
InverseTransform(freq) ==
    [n \in 0 .. FftLen - 1 |->
        Total([k \in 1 .. FftLen |->
            IF k - 1 \in DOMAIN freq THEN Turned(freq[k - 1], (k - 1) * n) ELSE << 0, 0 >>])]

\* Mutant: the prefix is the symbol's beginning.
ModulatedPrefixedByHead(freq) ==
    LET time == InverseTransform(freq)
    IN  [i \in 1 .. SlotLen |-> time[IF i <= CpLen THEN i - 1 ELSE i - CpLen - 1]]

\* OfdmModulator.process: the end of the symbol first, then all of it
Modulated(freq) ==
    LET time == InverseTransform(freq)
    IN  [i \in 1 .. SlotLen |-> time[(i - 1 - CpLen) % FftLen]]

\* OfdmDemodulator.process of one slot
Demodulated(slot) ==
    [k \in 0 .. FftLen - 1 |->
        Total([n \in 1 .. FftLen |-> Turned(slot[CpLen + n], -k * (n - 1))])]

Symbols == [i \in 1 .. NTraining |-> TrainValues] \o payload

Frame == Preamble \o FlattenSeq([i \in DOMAIN Symbols |-> Modulated(Symbols[i])])

\* convolve(frame, multipath_taps), cut to the frame's length
Echoed(frame) ==
    [n \in DOMAIN frame |->
        Total([l \in DOMAIN taps |->
            IF n - l + 1 \in DOMAIN frame THEN Times(taps[l], frame[n - l + 1])
            ELSE << 0, 0 >>])]

\* Slot i of those that follow the preamble
ExtractSlot(samples, i) ==
    LET pos == Len(Preamble) - early + (i - 1) * SlotLen
    IN  SubSeq(samples, pos + 1, pos + SlotLen)

Received == Demodulated(ExtractSlot(Echoed(Frame), symbol + 1))

-----------------------------------------------------------------------------
\* rx_pilots / tx_pilots, times 2: the energy of a training value is 1 or 2.
Estimated(grid, bin) ==
    LET h == Times(grid[bin], Conj(TrainValues[bin]))
    IN  IF Energy(TrainValues[bin]) = 2 THEN h ELSE Plus(h, h)

TrainingSymbol ==
    /\ pc = "receive" /\ symbol < NTraining
    /\ hSum' = LET grid == Received
               IN  [bin \in KnownBins |-> Plus(hSum[bin], Estimated(grid, bin))]
    /\ symbol' = symbol + 1
    /\ UNCHANGED << searchVars, taps, early, payload, noiseVar, equalized >>

\* rx_data * conj(h) / (abs(h)^2 + noise_var), with h = hSum / (2 NTraining) and
\* the 4 that the transforms leave in grid and hSum.
EqualizedPoint(grid, bin) ==
    LET h == hSum[bin]
        scale == 2 * NTraining
        point == Times(grid[bin], Conj(h))
    IN  [num |-> << scale * noiseVar.den * point[1], scale * noiseVar.den * point[2] >>,
         den |-> noiseVar.den * Energy(h)
                    + noiseVar.num * (FftLen * scale) * (FftLen * scale)]

PayloadSymbol ==
    /\ pc = "receive" /\ symbol >= NTraining /\ symbol < Len(Symbols)
    /\ equalized' = LET grid == Received
                    IN  Append(equalized, [bin \in KnownBins |-> EqualizedPoint(grid, bin)])
    /\ symbol' = symbol + 1
    /\ UNCHANGED << searchVars, taps, early, payload, noiseVar, hSum >>

\* Acquisition has found the frame, `early` samples too early.
EqualizingInit ==
    /\ clean = << >> /\ turn = 0 /\ sums = << >> /\ d = 0 /\ best = << >>
    /\ step = 0 /\ phase = 0 /\ out = << >>
    /\ pc = "receive"
    /\ taps \in Channels /\ early \in 0 .. CpLen /\ payload \in Payloads
    /\ noiseVar \in NoiseVars
    /\ symbol = 0
    /\ hSum = [bin \in KnownBins |-> << 0, 0 >>]
    /\ equalized = << >>

Equalizing == TrainingSymbol \/ PayloadSymbol

-----------------------------------------------------------------------------
\* The prefix takes in the longest echo and what the start is early by.
WithinPrefix == Len(taps) - 1 + early <= CpLen

\* A point comes back on the ray it was sent on, shortened by the noise term
\* alone: at full length by ZFEqualizer, never longer.
OnItsRay(point, h, sent) ==
    LET full == noiseVar.den * Energy(h)
    IN  /\ point.num = << full * sent[1], full * sent[2] >>
        /\ full <= point.den
        /\ noiseVar.num = 0 => full = point.den

\* While echoes and the error of the start stay within the cyclic prefix, no
\* symbol leaks into another and the channel is divided out of each, whatever
\* its taps, on every bin that it lets through.
EchoesUndone ==
    WithinPrefix =>
        \A s \in DOMAIN equalized : \A bin \in KnownBins :
            OnItsRay(equalized[s][bin], hSum[bin], payload[s][bin])
=============================================================================
