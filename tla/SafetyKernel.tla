---------------------------- MODULE SafetyKernel ----------------------------
(***************************************************************************)
(* The boat-relative safety score (orca_kernels/safety.py, vessel.py,      *)
(* contract.py).  One question is a boat, the readings that reached the    *)
(* kernel and how far the forecast is trusted; the verdict is a score with *)
(* an advisory band and an interval, or an abstention.                     *)
(*                                                                         *)
(* Units are integers: wave height, wind speed and swell period in tenths, *)
(* hazards and scores in thousandths, weights, margins, squall risk and    *)
(* reliability in percent.                                                 *)
(***************************************************************************)
EXTENDS Integers, Absent

CONSTANT Questions   \* the questions the kernel may be asked

VARIABLES asked, verdict

kernelVars == <<asked, verdict>>

\* Where a boat moves from routine to caution to avoid, and the period below
\* which the swell is uncomfortable.
ClassThresholds ==
    {t \in [wave : (Nat \ {0}) \X (Nat \ {0}), wind : (Nat \ {0}) \X (Nat \ {0}), period : Nat \ {0}] :
        t.wave[1] < t.wave[2] /\ t.wind[1] < t.wind[2]}

ClassDefaults ==
    [catamaran  |-> [wave |-> <<10, 15>>, wind |-> <<70, 100>>, period |-> 70],
     frp_vallam |-> [wave |-> <<15, 20>>, wind |-> <<80, 120>>, period |-> 60],
     gillnetter |-> [wave |-> <<20, 30>>, wind |-> <<100, 150>>, period |-> 50],
     mechanized_trawler |-> [wave |-> <<25, 40>>, wind |-> <<130, 180>>, period |-> 40]]

Weight == [wave |-> 45, wind |-> 30, period |-> 15, squall |-> 10]
Required == {"wave", "wind"}
Drivers == DOMAIN Weight
MinReliability == 25

Boat == [class : DOMAIN ClassDefaults, overrides : ClassThresholds \cup {None},
         freeboard : Nat \ {0}, length : Nat \ {0}, motorised : BOOLEAN, radio : BOOLEAN]
Reading == [value : Int \cup {None}, stale : BOOLEAN, required : BOOLEAN]

\* SafetyDrivers: wave height and wind speed are always there, and required.
ASSUME KernelAssumption ==
    /\ None \notin Int /\ None \notin Reading /\ None \notin ClassThresholds /\ None \notin {"safe", "caution", "avoid"}
    /\ \A q \in Questions :
          /\ q.boat \in Boat /\ q.reliability \in 0..100
          /\ q.sea \in [Drivers -> Reading \cup {None}]
          /\ \A d \in Required : q.sea[d] # None /\ q.sea[d].required

\* VesselProfile.thresholds: what is set for the boat itself replaces the whole
\* row of its class.
Thresholds(boat) == IF boat.overrides = None THEN ClassDefaults[boat.class] ELSE boat.overrides

Least(a, b) == IF a <= b THEN a ELSE b
Most(a, b) == IF a >= b THEN a ELSE b
Nearest(n, d) == (2 * n + d) \div (2 * d)

\* VesselProfile.margin_factor: freeboard (cm) against 8% of the length (dm),
\* within ten percent, and never a credit for a boat without an engine.
MarginFactor(boat) ==
    LET ratio == Most(90, Least(110, (boat.freeboard * 1000) \div (8 * boat.length)))
    IN  IF boat.motorised THEN ratio ELSE Least(ratio, 100)

\* normalise_hazard and swell_period_hazard
NormaliseHazard(value, caution, avoid) ==
    IF value <= caution THEN 0
    ELSE IF value >= avoid THEN 1000
    ELSE ((value - caution) * 1000) \div (avoid - caution)

\* Below the floor counts as out of range.
MutSwellPeriodHazardFloor(period, comfortable) ==
    IF period >= comfortable \/ 2 * period <= comfortable THEN 0
    ELSE ((comfortable - period) * 2000) \div comfortable

SwellPeriodHazard(period, comfortable) ==
    IF period >= comfortable THEN 0
    ELSE IF 2 * period <= comfortable THEN 1000
    ELSE ((comfortable - period) * 2000) \div comfortable

DriverHazard(boat, d, value) ==
    LET t == Thresholds(boat) IN
    IF d = "period" THEN SwellPeriodHazard(value, t.period)
    ELSE IF d = "squall" THEN 10 * Most(0, Least(100, value))
    ELSE NormaliseHazard(value, t[d][1], t[d][2])

\* A driver of a sea is None when it was not supplied at all, otherwise an
\* input whose value may be missing and which may be stale.
Supplied(sea) == {d \in Drivers : sea[d] # None}
Present(sea) == {d \in Supplied(sea) : sea[d].value # None}

\* KernelInput.blocks_result
BlocksResult(sea, d) ==
    /\ sea[d] # None
    /\ sea[d].required
    /\ sea[d].value = None \/ sea[d].stale

StaleBlockers(sea) == {d \in Supplied(sea) : BlocksResult(sea, d) /\ sea[d].stale}
MissingBlockers(sea) == {d \in Supplied(sea) : BlocksResult(sea, d)}

\* The sum over the drivers in S.
Total(f, S) ==
    LET at(d) == IF d \in S THEN f[d] ELSE 0
    IN  at("wave") + at("wind") + at("period") + at("squall")

Abstains(reason) == [reason |-> reason, score |-> None, band |-> None,
                     lower |-> None, upper |-> None]

BandFor(score) == IF score >= 700 THEN "safe" ELSE IF score >= 400 THEN "caution" ELSE "avoid"

\* _confidence_band: three points, widened by unreliability, by absent
\* drivers and by having no way to call for help.
SpreadOf(boat, reliability, missing) ==
    30 + ((100 - reliability) * 5) \div 2 + 2 * missing + (IF boat.radio THEN 0 ELSE 50)

\* The score over the drivers that are present: the weighted hazard,
\* renormalised to the weight in use and divided by the boat's margin.
Score(boat, sea) ==
    LET hazard == [d \in Present(sea) |-> Weight[d] * DriverHazard(boat, d, sea[d].value)]
        used   == Total(Weight, Present(sea))
    IN  1000 - Least(1000, Nearest(Total(hazard, Present(sea)) * 100,
                                   used * MarginFactor(boat)))

Scored(boat, sea, reliability) ==
    LET score  == Score(boat, sea)
        spread == SpreadOf(boat, reliability, 100 - Total(Weight, Present(sea)))
    IN  [reason |-> None, score |-> score, band |-> BandFor(score),
         lower |-> Most(0, score - spread), upper |-> Least(1000, score + spread)]

\* compute_safety_score
ComputeSafetyScore(q) ==
    IF StaleBlockers(q.sea) # {} THEN Abstains("stale_input")
    ELSE IF MissingBlockers(q.sea) # {} THEN Abstains("missing_required_input")
    ELSE IF q.reliability < MinReliability THEN Abstains("insufficient_evidence")
    ELSE Scored(q.boat, q.sea, q.reliability)

KernelInit == asked \in Questions /\ verdict = ComputeSafetyScore(asked)

Ask == /\ asked' \in Questions
       /\ verdict' = ComputeSafetyScore(asked')

KernelSpec == KernelInit /\ [][Ask]_kernelVars

-----------------------------------------------------------------------------
Rougher(d, a, b) == IF d = "period" THEN b <= a ELSE a <= b

\* The same drivers, each at least as bad.
WorseSea(a, b) ==
    /\ Present(a) = Present(b)
    /\ \A d \in Present(a) : Rougher(d, a[d].value, b[d].value)

Seaworthiness == [catamaran |-> 1, frp_vallam |-> 2, gillnetter |-> 3,
                  mechanized_trawler |-> 4]

Stricter(s, t) ==
    /\ \A d \in {"wave", "wind"} : s[d][1] <= t[d][1] /\ s[d][2] <= t[d][2]
    /\ t.period <= s.period

\* Boat e is judged at least as strictly as boat b: both by their classes, and
\* its class is no better, or by thresholds that are nowhere higher.
NoBetterFound(e, b) ==
    \/ e.overrides = None /\ b.overrides = None /\ Seaworthiness[e.class] <= Seaworthiness[b.class]
    \/ Stricter(Thresholds(e), Thresholds(b))

\* A worse sea, met by a boat that is judged no less strictly and has no better
\* margin, never scores higher, however well either forecast is trusted:
\* reliability "never raises the score" (safety.py:140) and no driver's hazard
\* turns around.
WorseSeaNeverScoresHigher ==
    [][(/\ verdict.score # None /\ verdict'.score # None
        /\ WorseSea(asked.sea, asked'.sea)
        /\ NoBetterFound(asked'.boat, asked.boat)
        /\ MarginFactor(asked'.boat) <= MarginFactor(asked.boat))
       => verdict'.score <= verdict.score]_kernelVars

\* A forecast trusted less gives an interval that contains the old one, or no
\* answer at all; it never sharpens what was said about the same sea.
LessReliableIsLessSure ==
    [][(/\ asked'.sea = asked.sea /\ asked'.boat = asked.boat
        /\ asked'.reliability < asked.reliability /\ verdict'.score # None)
       => /\ verdict.score # None
          /\ verdict'.lower <= verdict.lower /\ verdict.upper <= verdict'.upper]_kernelVars

\* "A better-found hull of the same class is credited a little, never enough
\* to turn an unsafe sea into a safe one" (safety.py:228): between two boats that
\* are judged by the same thresholds no margin turns avoid into safe.
AvoidIsNeverMarginedAway ==
    [][(/\ asked'.sea = asked.sea /\ Thresholds(asked'.boat) = Thresholds(asked.boat)
        /\ verdict.band = "avoid")
       => verdict'.band # "safe"]_kernelVars

\* The same of two boats of one class, whatever thresholds are set for either.
ClassDecidesAvoid ==
    [][(/\ asked'.sea = asked.sea /\ asked'.boat.class = asked.boat.class
        /\ verdict.band = "avoid")
       => verdict'.band # "safe"]_kernelVars

\* Nothing that makes the passage worse, or less certain, makes it look better.
ScoreIsMonotone ==
    WorseSeaNeverScoresHigher /\ LessReliableIsLessSure /\ AvoidIsNeverMarginedAway

\* "A driver at its class 'avoid' threshold alone can pull the verdict out of
\* safe" (safety.py:69).  Only the wave height can, for a hull of full margin.
AvoidAloneLeavesSafe ==
    (/\ verdict.score # None /\ MarginFactor(asked.boat) <= 100
     /\ \E d \in Present(asked.sea) : DriverHazard(asked.boat, d, asked.sea[d].value) = 1000)
    => verdict.band # "safe"

\* "Losing lightning data should make ORCA less sure" (contract.py:51): the
\* answer without an optional reading is not surer than the one with it.
SilenceNeverReassures ==
    [][(/\ verdict.score # None /\ verdict'.score # None
        /\ asked'.boat = asked.boat /\ asked'.reliability = asked.reliability
        /\ Present(asked'.sea) \subseteq Present(asked.sea)
        /\ \A d \in Present(asked'.sea) : asked'.sea[d] = asked.sea[d])
       => verdict'.upper - verdict'.lower >= verdict.upper - verdict.lower]_kernelVars
=============================================================================
