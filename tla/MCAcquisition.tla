---------------------------- MODULE MCAcquisition ----------------------------
(***************************************************************************)
(* Every capture of six samples of a small set: preambles of four at any   *)
(* place, cut, scaled, repeated and beside silence.  And every channel of  *)
(* up to three taps, with every error of the start that a prefix of two    *)
(* samples could bear, behind a preamble, two training symbols and two     *)
(* symbols that differ.                                                    *)
(***************************************************************************)
EXTENDS Equalizing

Samples == {<< 0, 0 >>, << 1, 0 >>, << 0, 1 >>, << -1, 0 >>, << 2, 0 >>}

MCClean == [1 .. 6 -> Samples]

MCThreshold == [num |-> 1, den |-> 2]

\* Constant amplitude, and no correlation with itself shifted around.
MCTemplate == << << 1, 0 >>, << 1, 0 >>, << 1, 0 >>, << -1, 0 >> >>

\* Bin 0 is null, bin 2 the pilot.
MCTrainValues == [bin \in 1 .. 3 |-> IF bin = 2 THEN << 1, 0 >> ELSE << bin - 2, 1 >>]

Qpsk == {<< 1, 1 >>, << 1, -1 >>, << -1, 1 >>, << -1, -1 >>}

Spectrum(low, high) == [bin \in 1 .. 3 |-> CASE bin = 1 -> low [] bin = 2 -> << 1, 0 >> [] bin = 3 -> high]

MCPayloads == {<< Spectrum(a, b), Spectrum(b, << -1, -1 >>) >> : a, b \in Qpsk}

MCChannels == UNION {[1 .. n -> Samples \ {<< 2, 0 >>}] : n \in 1 .. 3}

MCNoiseVars == {[num |-> 0, den |-> 1], [num |-> 1, den |-> 8]}

MCInit ==
    \/ SearchInit
       /\ taps = << >> /\ early = 0 /\ payload = << >> /\ noiseVar = << >>
       /\ symbol = 0 /\ hSum = << >> /\ equalized = << >>
    \/ EqualizingInit

MCNext ==
    \/ SearchNext /\ UNCHANGED receiving
    \/ Equalizing

MCSpec == MCInit /\ [][MCNext]_<< searchVars, receiving >>

\* What the air did to a frame is undone: the carrier offset and the echoes.
AirUndone == OffsetUndone /\ EchoesUndone
=============================================================================
