---------------------------- MODULE AdaptiveLink ----------------------------
(***************************************************************************)
(* One direction of a link with adaptive modulation: a Mac whose modem an  *)
(* McsController chooses (examples/drone_tui/air_unit.py, ground_unit.py)  *)
(* from the reports of a peer, which counts the frames it gets from the    *)
(* IQ front end (mac/mac.py) or from the streaming receiver                *)
(* (examples/drone_air_unit.py).  Without a controller it is a Mac whose   *)
(* caller sets the scheme: TxScheme.                                       *)
(***************************************************************************)
EXTENDS TxScheme

-----------------------------------------------------------------------------
(* mac/quality.py: the counters of one receiver and the report it sends of *)
(* them; and examples/drone_tui/adaptive_mcs.py: the modulation the other  *)
(* end transmits with, from those reports.  The means of RSSI and EVM      *)
(* decide nothing and are left out.                                        *)

CONSTANT U16Max     \* _U16_MAX: the largest count a report can hold

NoQuality == [attempts |-> 0, delivered |-> 0]

\* LinkQualityTracker.observe.
Observe(quality, delivered) ==
    [attempts |-> quality.attempts + 1,
     delivered |-> quality.delivered + (IF delivered THEN 1 ELSE 0)]

Clamped(n) == IF n < U16Max THEN n ELSE U16Max

\* encode_quality_report and decode_quality_report.
Report(quality) ==
    [attempts |-> Clamped(quality.attempts), delivered |-> Clamped(quality.delivered)]
-----------------------------------------------------------------------------

CONSTANTS TableLen,     \* entries of the table, from the most robust one
          DownPercent,  \* down_ratio
          UpPercent,    \* up_ratio
          UpStreak      \* up_streak_needed

ASSUME McsAssumption ==
    /\ TableLen \in Nat \ {0}
    /\ DownPercent \in Nat /\ UpPercent \in Nat /\ DownPercent <= UpPercent
    /\ UpStreak \in Nat \ {0} /\ U16Max \in Nat

Levels == 0 .. TableLen - 1

NewController(start) == [index |-> start, streak |-> 0, attempts |-> 0, delivered |-> 0]

Bad(d) == 100 * d.delivered < DownPercent * d.attempts
Good(d) == 100 * d.delivered >= UpPercent * d.attempts

\* Mutant: the report's own ratio, which is that of the link's whole life.
SinceLastLifetime(mcs, report) == report

\* What happened since the report before this one.
SinceLast(mcs, report) ==
    [attempts |-> report.attempts - mcs.attempts, delivered |-> report.delivered - mcs.delivered]

\* Mutant: the good intervals before a climb count for the next.
StepKeepingStreak(mcs, d) ==
    IF Bad(d) THEN [mcs EXCEPT !.index = IF @ = 0 THEN 0 ELSE @ - 1, !.streak = 0]
    ELSE IF ~Good(d) THEN [mcs EXCEPT !.streak = 0]
    ELSE IF mcs.streak + 1 >= UpStreak /\ mcs.index < TableLen - 1
         THEN [mcs EXCEPT !.index = @ + 1, !.streak = @ + 1]
         ELSE [mcs EXCEPT !.streak = @ + 1]

\* What an interval with frames in it does to level and streak.
Step(mcs, d) ==
    IF Bad(d) THEN [mcs EXCEPT !.index = IF @ = 0 THEN 0 ELSE @ - 1, !.streak = 0]
    ELSE IF ~Good(d) THEN [mcs EXCEPT !.streak = 0]
    ELSE IF mcs.streak + 1 >= UpStreak /\ mcs.index < TableLen - 1
         THEN [mcs EXCEPT !.index = @ + 1, !.streak = 0]
         ELSE [mcs EXCEPT !.streak = @ + 1]

\* on_quality_report.
OnQualityReport(mcs, report) ==
    LET d == SinceLast(mcs, report)
        noted == [mcs EXCEPT !.attempts = report.attempts, !.delivered = report.delivered]
    IN  IF d.attempts <= 0 THEN noted ELSE Step(noted, d)
-----------------------------------------------------------------------------
(* The link.                                                               *)

CONSTANTS McsTable,     \* modulations, from the most robust one
          Paths,        \* receive paths of the peer: "iq", "streaming"
          Failures,     \* how frames fail that do not arrive: "crc", "fec"
          AdaptiveSchemes, \* schemes of the links that have a controller
          MaxAttempts,  \* bound: frames of one life of the peer
          MaxLives      \* bound: lives of the peer

\* A controller starts at an entry of its table.
ASSUME TableAssumption ==
    /\ Len(McsTable) = TableLen /\ McsTable \in Seq(DOMAIN BitsPerSymbol)
    /\ \A scheme \in AdaptiveSchemes : \E level \in Levels : McsTable[level + 1] = scheme.mod

VARIABLES adaptive,     \* whether there is a controller
          path,         \* the peer's receive path
          channel,      \* the highest level whose frames arrive, and how others fail
          mcs,          \* the controller
          peer,         \* the peer's tracker
          arrived,      \* what it would say had it seen every frame sent
          life,         \* lives of the peer so far
          report,       \* a report on its way, with the truth of its moment
          base,         \* the truth at the last report that arrived
          goodRun       \* intervals in a row, the last one included, that were good

linkVars == << adaptive, path, channel, mcs, peer, arrived, life, report, base, goodRun >>
vars == << txVars, linkVars >>

None == [sent |-> FALSE]

Truth == [count |-> arrived, life |-> life]

Start == CHOOSE level \in Levels : McsTable[level + 1] = ofdm.mod

Init ==
    /\ TxInit
    /\ adaptive \in BOOLEAN
    /\ adaptive => mode = "um" /\ ofdm \in AdaptiveSchemes
    /\ path \in IF adaptive THEN Paths ELSE {"iq"}
    /\ channel = [reach |-> TableLen - 1, failure |-> CHOOSE failure \in Failures : TRUE]
    /\ mcs = NewController(Start)
    /\ peer = NoQuality /\ arrived = NoQuality /\ life = 1
    /\ report = None
    /\ base = [count |-> NoQuality, life |-> 1]
    /\ goodRun = 0

\* A frame that does not arrive is found and fails its CRC, or fails its FEC,
\* which raises.
Channel(level, failure) ==
    /\ adaptive /\ level /= channel.reach
    /\ channel' = [reach |-> level, failure |-> failure]
    /\ UNCHANGED << txVars, adaptive, path, mcs, peer, arrived, life, report, base, goodRun >>

-----------------------------------------------------------------------------
\* Mutant: a decode that raises is no attempt at all.
CountedOnlyDecoded(via, fate) == fate /= "fec"

\* The IQ front end counts a frame whose decode raises; rx_streaming returns
\* None for it, and its caller counts what is returned.
Counted(via, fate) == via = "iq" \/ fate /= "fec"

Arrives == mcs.index <= channel.reach

\* The last count is the bound's; the truth stays there while nothing is counted.
Frame ==
    LET fate == IF Arrives THEN "delivered" ELSE channel.failure
    IN  /\ adaptive /\ peer.attempts < MaxAttempts
        /\ peer' = IF Counted(path, fate) THEN Observe(peer, Arrives) ELSE peer
        /\ arrived' = IF arrived.attempts < MaxAttempts THEN Observe(arrived, Arrives) ELSE arrived
        /\ UNCHANGED << txVars, adaptive, path, channel, mcs, life, report, base, goodRun >>

\* A new process at the other end counts from nothing.
PeerRestarts ==
    /\ adaptive /\ life < MaxLives
    /\ life' = life + 1
    /\ peer' = NoQuality /\ arrived' = NoQuality
    /\ UNCHANGED << txVars, adaptive, path, channel, mcs, report, base, goodRun >>

BuildReport ==
    /\ adaptive /\ ~report.sent
    /\ report' = [sent |-> TRUE, counts |-> Report(peer), truth |-> Truth]
    /\ UNCHANGED << txVars, adaptive, path, channel, mcs, peer, arrived, life, base, goodRun >>

LoseReport ==
    /\ report.sent
    /\ report' = None
    /\ UNCHANGED << txVars, adaptive, path, channel, mcs, peer, arrived, life, base, goodRun >>

\* What truly happened between two reports.
Interval(from, to) ==
    [attempts |-> to.count.attempts - from.count.attempts,
     delivered |-> to.count.delivered - from.count.delivered]

\* The receive loop hands the report to the controller and, when it says so,
\* sets the modem.
ReceiveReport ==
    LET new == OnQualityReport(mcs, report.counts)
        d == Interval(base, report.truth)
    IN  /\ report.sent
        /\ mcs' = new
        /\ IF new.index /= mcs.index
           THEN SetTxScheme([ofdm EXCEPT !.mod = McsTable[new.index + 1]])
           ELSE UNCHANGED << ofdm, maxSegment, segmenter, rejected, last >>
        /\ report' = None
        /\ base' = report.truth
        /\ goodRun' = IF d.attempts = 0 THEN goodRun
                      ELSE IF new.index = mcs.index /\ Good(d) THEN goodRun + 1 ELSE 0
        /\ UNCHANGED << mode, bound, retx, adaptive, path, channel, peer, arrived, life >>

Next ==
    \/ ~adaptive /\ TxNext /\ UNCHANGED linkVars
    \/ \E level \in Levels, failure \in Failures : Channel(level, failure)
    \/ Frame
    \/ PeerRestarts
    \/ BuildReport
    \/ LoseReport
    \/ ReceiveReport

Spec == Init /\ [][Next]_vars

\* Both ends keep sending reports, which are frames too, and not every one of
\* the peer's is lost.
FairSpec ==
    /\ Spec
    /\ WF_vars(Frame)
    /\ WF_vars(BuildReport)
    /\ SF_vars(ReceiveReport)

-----------------------------------------------------------------------------
(* What must hold.                                                         *)

\* The schemes a link may come to use carry its PDUs.
SchemesCarry ==
    \A scheme \in Schemes, mod \in {s.mod : s \in Schemes} \cup Modems \cup Range(McsTable) :
        \A fecs \in Fecs \cup {<< scheme.fec, scheme.fec1 >>} :
            LET configured == [scheme EXCEPT !.mod = mod, !.fec = fecs[1], !.fec1 = fecs[2]]
            IN  PacketizerAccepts(configured) => Carries(configured)

\* The peer's counters have outgrown the report's fields.
Saturated == peer.attempts >= U16Max

\* The report that arrives is of the same life of the peer as the last one,
\* counts every frame, and none of its counters is clamped.
Plain == report.truth.life = base.life /\ path = "iq" /\ report.truth.count.attempts < U16Max

\* "step DOWN immediately on any bad interval": what counts is what happened
\* between two reports that arrived, however many were lost between them, however
\* good the link was before, whatever restart of the peer went before.
DownOnBadInterval ==
    [][ReceiveReport /\ Plain =>
        LET d == Interval(base, report.truth)
        IN  d.attempts > 0 /\ Bad(d) /\ mcs.index > 0 => mcs'.index = mcs.index - 1]_vars

\* "step UP only after up_streak_needed CONSECUTIVE good intervals": never on
\* fewer, and never on frames sent before the last change of level.
UpOnGoodRun ==
    [][adaptive /\ mcs'.index > mcs.index /\ Plain /\ life = 1 =>
        goodRun + 1 >= UpStreak /\ Good(Interval(base, report.truth))]_vars

\* A link at a level the channel does not carry leaves it for a lower one, until
\* one arrives ("a much worse link"), unless the peer's counters have run into
\* their clamp, where the controller is frozen.
Recovers == []<>(adaptive => Arrives \/ Saturated)
=============================================================================
