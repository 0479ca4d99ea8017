----------------------------- MODULE Acquisition -----------------------------
(***************************************************************************)
(* A receiver finding the preamble of a frame in the samples it captured   *)
(* and undoing the carrier offset: SchmidlCoxSync and SchmidlCoxCFO, each  *)
(* by array operations and by the jitted kernel that stands in for them,   *)
(* and ZadoffChuSync.  A sample is a pair of integers, and the channel     *)
(* turns it by whole quarter turns per sample, so that all of it is exact; *)
(* float rounding, and the 1e-12 of a denominator where it only breaks     *)
(* ties, are left out.                                                     *)
(*                                                                         *)
(* A step is one turn of a kernel's loop.                                  *)
(***************************************************************************)
EXTENDS Integers, Sequences

CONSTANTS FftLen,
          Template,     \* ZadoffChuSync._template
          SyncThreshold,    \* Ofdm.sync_threshold, a fraction
          Clean,        \* what may be captured, before the carrier offset
          Turns         \* carrier offsets, in quarter turns per sample

HalfLen == FftLen \div 2

Complex == Int \X Int

\* An odd fft_size and fewer samples than a preamble raise; a template has
\* energy in every sample.
ASSUME AcquisitionAssumption ==
    /\ FftLen \in Nat \ {0} /\ FftLen % 2 = 0
    /\ Template \in Seq(Complex \ {<< 0, 0 >>}) /\ Len(Template) = FftLen
    /\ \A s \in Clean : s \in Seq(Complex) /\ Len(s) >= FftLen
    /\ Turns \subseteq 0 .. 3

VARIABLES clean,    \* the samples without the offset
          turn,     \* the offset
          pc,       \* where the receiver is
          sums,     \* the kernel's window: p, r1, r2
          d,        \* the candidate it stands for
          best,     \* best_d and best_metric
          step,     \* the estimate: quarter turns per sample
          phase,    \* of the correcting kernel, in quarter turns
          out       \* samples it has corrected

searchVars == << clean, turn, pc, sums, d, best, step, phase, out >>

-----------------------------------------------------------------------------
Plus(a, b) == << a[1] + b[1], a[2] + b[2] >>
Difference(a, b) == << a[1] - b[1], a[2] - b[2] >>
Times(a, b) == << a[1] * b[1] - a[2] * b[2], a[1] * b[2] + a[2] * b[1] >>
Conj(a) == << a[1], -a[2] >>
Energy(a) == a[1] * a[1] + a[2] * a[2]

Turned(a, quarters) ==
    LET q == quarters % 4
    IN  CASE q = 0 -> a
          [] q = 1 -> << -a[2], a[1] >>
          [] q = 2 -> << -a[1], -a[2] >>
          [] q = 3 -> << a[2], -a[1] >>

Captured(s, quarters) == [n \in DOMAIN s |-> Turned(s[n], quarters * (n - 1))]

rx == Captured(clean, turn)

\* [0, s1, s1 + s2, ...], from index 0
CumSum(s) ==
    LET sum[n \in 0 .. Len(s)] == IF n = 0 THEN 0 ELSE sum[n - 1] + s[n]
    IN  sum

CumSumComplex(s) ==
    LET sum[n \in 0 .. Len(s)] == IF n = 0 THEN << 0, 0 >> ELSE Plus(sum[n - 1], s[n])
    IN  sum

\* Metrics are fractions; that of a window without energy is 0.
Metric(num, den) == IF den = 0 THEN [num |-> 0, den |-> 1] ELSE [num |-> num, den |-> den]

Above(a, b) == a.num * b.den > b.num * a.den

IsOne(a) == a.num = a.den

\* xp.argmax: the first of the highest
ArgMax(metric) ==
    CHOOSE i \in DOMAIN metric :
        \A j \in DOMAIN metric :
            ~Above(metric[j], metric[i]) /\ (j < i => Above(metric[i], metric[j]))

-----------------------------------------------------------------------------
(* Candidates are counted from 0, samples of a sequence from 1.            *)

\* Twice R(d), over both halves
BothHalves(r1, r2) == r1 + r2

TimingMetric(p, r1, r2) == Metric(4 * Energy(p), BothHalves(r1, r2) * BothHalves(r1, r2))

\* SchmidlCoxSync.process by prefix sums
ArraySearch(samples) ==
    LET L == HalfLen
        n == Len(samples)
        a == [m \in 1 .. n - L |-> Times(Conj(samples[m]), samples[m + L])]
        aCum == CumSumComplex(a)
        eCum == CumSum([m \in 1 .. n |-> Energy(samples[m])])
        b2Cum == [m \in 0 .. n - L |-> eCum[L + m] - eCum[L]]
        metric == [c \in 0 .. n - 2 * L |->
                      TimingMetric(Difference(aCum[c + L], aCum[c]),
                                   eCum[c + L] - eCum[c], b2Cum[c + L] - b2Cum[c])]
        start == ArgMax(metric)
    IN  [at |-> start, metric |-> metric[start]]

\* ZadoffChuSync.process: the template at every candidate
TemplateSearch(samples) ==
    LET n == Len(samples)
        eCum == CumSum([m \in 1 .. n |-> Energy(samples[m])])
        templateEnergy == CumSum([m \in 1 .. FftLen |-> Energy(Template[m])])[FftLen]
        y(c) == CumSumComplex([m \in 1 .. FftLen |->
                                  Times(Conj(Template[m]), samples[c + m])])[FftLen]
        metric == [c \in 0 .. n - FftLen |->
                      Metric(Energy(y(c)), (eCum[c + FftLen] - eCum[c]) * templateEnergy)]
        start == ArgMax(metric)
    IN  [at |-> start, metric |-> metric[start]]

-----------------------------------------------------------------------------
(* The kernel of the search                                                *)

SumsOf(window) == TimingMetric(window.p, window.r1, window.r2)

\* The window at candidate 0, summed directly
FirstWindow(samples) ==
    [p |-> CumSumComplex([m \in 1 .. HalfLen |->
                Times(Conj(samples[m]), samples[m + HalfLen])])[HalfLen],
     r1 |-> CumSum([m \in 1 .. HalfLen |-> Energy(samples[m])])[HalfLen],
     r2 |-> CumSum([m \in 1 .. HalfLen |-> Energy(samples[m + HalfLen])])[HalfLen]]

\* Mutant: the sample in the middle leaves only one of the halves.
NextWindowOnce(window, c) ==
    LET gone == rx[c]
        mid == rx[c + HalfLen]
        new == rx[c + 2 * HalfLen]
    IN  [p |-> Plus(window.p, Difference(Times(Conj(mid), new), Times(Conj(gone), mid))),
         r1 |-> window.r1 + Energy(mid) - Energy(gone),
         r2 |-> window.r2 + Energy(new)]

\* The window at candidate c from that at c - 1
NextWindow(window, c) ==
    LET gone == rx[c]
        mid == rx[c + HalfLen]
        new == rx[c + 2 * HalfLen]
    IN  [p |-> Plus(window.p, Difference(Times(Conj(mid), new), Times(Conj(gone), mid))),
         r1 |-> window.r1 + Energy(mid) - Energy(gone),
         r2 |-> window.r2 + Energy(new) - Energy(mid)]

Slide ==
    /\ pc = "search" /\ d < Len(rx) - 2 * HalfLen
    /\ d' = d + 1
    /\ sums' = NextWindow(sums, d + 1)
    /\ best' = IF Above(SumsOf(sums'), best.metric) THEN [at |-> d + 1, metric |-> SumsOf(sums')]
               ELSE best
    /\ UNCHANGED << clean, turn, pc, step, phase, out >>

-----------------------------------------------------------------------------
(* SchmidlCoxCFO at the candidate found                                    *)

\* conj(first half) * second half, summed
Correlation(samples, c) ==
    CumSumComplex([m \in 1 .. HalfLen |->
        Times(Conj(samples[c + m]), samples[c + HalfLen + m])])[HalfLen]

\* The angle in quarter turns, of a correlation on the real axis: half a turn
\* or none.
Angle(p) == IF p[1] < 0 THEN 2 ELSE 0

Searched == pc = "search" /\ d = Len(rx) - 2 * HalfLen

\* rx_process: no frame in these samples.
Miss ==
    /\ Searched /\ Above(SyncThreshold, best.metric)
    /\ pc' = "missed"
    /\ UNCHANGED << clean, turn, sums, d, best, step, phase, out >>

\* Followed where it is a whole number of quarter turns per sample.
Estimate ==
    /\ Searched /\ ~Above(SyncThreshold, best.metric)
    /\ Correlation(rx, best.at)[2] = 0
    /\ Angle(Correlation(rx, best.at)) % HalfLen = 0
    /\ step' = Angle(Correlation(rx, best.at)) \div HalfLen
    /\ pc' = "correct"
    /\ UNCHANGED << clean, turn, sums, d, best, phase, out >>

\* The same for all samples at once
CorrectedAll(samples) == [n \in DOMAIN samples |-> Turned(samples[n], -step * (n - 1))]

\* Mutant: the phase moves on before it is used.
CorrectAhead ==
    /\ pc = "correct" /\ Len(out) < Len(rx)
    /\ phase' = (phase - step) % 4
    /\ out' = Append(out, Turned(rx[Len(out) + 1], phase'))
    /\ pc' = IF Len(out') = Len(rx) THEN "done" ELSE pc
    /\ UNCHANGED << clean, turn, sums, d, best, step >>

\* One sample of the correcting kernel; its phase advances by a constant.
Correct ==
    /\ pc = "correct" /\ Len(out) < Len(rx)
    /\ out' = Append(out, Turned(rx[Len(out) + 1], phase))
    /\ phase' = (phase - step) % 4
    /\ pc' = IF Len(out') = Len(rx) THEN "done" ELSE pc
    /\ UNCHANGED << clean, turn, sums, d, best, step >>

SearchInit ==
    /\ clean \in Clean /\ turn \in Turns
    /\ pc = "search"
    /\ d = 0
    /\ sums = FirstWindow(rx)
    /\ best = [at |-> 0, metric |-> SumsOf(sums)]
    /\ step = 0 /\ phase = 0 /\ out = << >>

SearchNext == Slide \/ Miss \/ Estimate \/ Correct

SearchSpec == SearchInit /\ [][SearchNext]_searchVars

-----------------------------------------------------------------------------
(* What must hold.                                                         *)

Silent(samples, c, n) == \A m \in 1 .. n : samples[c + m] = << 0, 0 >>

\* Two halves that are the same but for one turn, of any angle: any two samples
\* of one have the same lengths and the same angle between them as in the other.
HalvesAlike(samples, c) ==
    /\ ~Silent(samples, c, HalfLen)
    /\ \A m, k \in 1 .. HalfLen :
            Times(Conj(samples[c + HalfLen + m]), samples[c + HalfLen + k])
                = Times(Conj(samples[c + m]), samples[c + k])

SameHalves(samples, c) ==
    \A m \in 1 .. HalfLen : samples[c + m] = samples[c + HalfLen + m]

\* The template, turned by any angle and of any strength: one factor for all
\* samples.
TemplateAt(samples, c) ==
    /\ ~Silent(samples, c, FftLen)
    /\ \A m, k \in 1 .. FftLen :
            Times(samples[c + m], Template[k]) = Times(samples[c + k], Template[m])

Candidates == 0 .. Len(rx) - FftLen

First(found) == CHOOSE c \in found : \A e \in found : c <= e

One == [num |-> 1, den |-> 1]

\* What a search that looks for `found` has to answer: nothing scores above 1,
\* exactly what it looks for scores 1, and it stands at the first of these.
Finds(search, found) ==
    /\ ~Above(search.metric, One)
    /\ IsOne(search.metric) <=> found /= {}
    /\ found /= {} => search.at = First(found)

\* A preamble in the samples is found wherever it stands and whatever surrounds
\* it, at its first candidate, and scores exactly 1; without one no candidate
\* does.  The jitted kernel's sliding sums and the prefix sums find the same
\* (the module docstring's spike beside a silent region would break this).
FirstPreamble ==
    Searched =>
        /\ best = ArraySearch(rx)
        /\ Finds(best, {c \in Candidates : HalvesAlike(rx, c)})
        /\ Finds(TemplateSearch(rx), {c \in Candidates : TemplateAt(rx, c)})

\* Offsets "in (-1, 1]" of a subcarrier's distance, which is 4 / FftLen quarter
\* turns: at most half a turn in half a preamble.
InRange == turn * HalfLen \in 0 .. 2

\* Once a preamble was found, the corrected samples are those sent: the estimate
\* and the constant step of the correcting kernel undo any offset in range, and
\* the kernel does to every sample what the array operations do.
OffsetUndone ==
    pc = "done" =>
        /\ out = CorrectedAll(rx)
        /\ InRange /\ SameHalves(clean, best.at) => out = clean
=============================================================================
