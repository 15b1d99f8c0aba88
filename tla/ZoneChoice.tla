----------------------------- MODULE ZoneChoice -----------------------------
(***************************************************************************)
(* Choosing fishing grounds (orca_kernels/zones.py) and flagging anomalies *)
(* (anomaly.py).  Candidate zones are compared on four objectives; what is *)
(* shown is the undominated ones, cut to a few that differ.  Time passes   *)
(* between two rankings and a zone advisory loses its weight with age.     *)
(***************************************************************************)
EXTENDS Integers, Sequences, FiniteSetsExt, SequencesExt, Absent

CONSTANTS Fields,       \* the lists of candidates a ranking may be given
          Series,       \* the daily sea-temperature series: exceeds the 90th percentile?
          MaxOptions,   \* max_options
          MaxHours      \* bound on the clock

\* distance, fuel and safety in any unit; the id stands for its place in the
\* order of the ids.
Zone == [id : Int, proximity : Nat \cup {None}, issued : Nat \cup {None}, front : Int,
         distance : Int, fuel : Int, safety : Int, compliant : BOOLEAN]

ASSUME ZonesAssumption ==
    /\ None \notin Nat \cup {"high", "moderate"} /\ MaxOptions \in Nat \ {0} /\ MaxHours \in Nat
    /\ Fields \subseteq Seq(Zone)
    \* an id names one candidate
    /\ \A cs \in Fields : \A i, j \in DOMAIN cs : cs[i].id = cs[j].id => i = j
    /\ Series \subseteq Seq(BOOLEAN)

VARIABLES field, hour, shown, days, heatwave

zoneVars == <<field, hour, shown, days, heatwave>>

FullWeightAge == 56
ZeroWeightAge == 112
HeatwaveMinDays == 5
HeatwaveHighDays == 10

\* ZoneCandidate.pfz_weight, in 56ths
PfzWeight(c, now) ==
    IF c.proximity = None \/ c.issued = None THEN 0
    ELSE IF now - c.issued <= FullWeightAge THEN 56
    ELSE IF now - c.issued >= ZeroWeightAge THEN 0
    ELSE ZeroWeightAge - (now - c.issued)

\* catch_signal: closeness to the advisory node (nothing past 50 km), weighted
\* by its age, and the strength of the front.
CatchSignal(c, now) ==
    (IF c.proximity # None /\ c.proximity < 50
     THEN (50 - c.proximity) * PfzWeight(c, now) ELSE 0) + c.front

\* objectives: every component is better when higher
Objectives(c, now) == <<CatchSignal(c, now), -c.distance, -c.fuel, c.safety>>

Dominates(a, b) ==
    /\ \A i \in DOMAIN a : a[i] >= b[i]
    /\ \E i \in DOMAIN a : a[i] > b[i]

\* Beaten only by what is better at everything.
MutBeatenAtAll(c, others, now) ==
    \E o \in others : \A i \in 1..4 : Objectives(o, now)[i] > Objectives(c, now)[i]

Beaten(c, others, now) ==
    \E o \in others : o.id # c.id /\ Dominates(Objectives(o, now), Objectives(c, now))

\* The key both sorts use: the better catch, then the id.
ShownBefore(a, b, now) ==
    \/ CatchSignal(a, now) > CatchSignal(b, now)
    \/ CatchSignal(a, now) = CatchSignal(b, now) /\ a.id < b.id

\* sorted keeps equals as they were supplied.
Ahead(cs, i, j, now) ==
    ShownBefore(cs[i], cs[j], now) \/ (~ShownBefore(cs[j], cs[i], now) /\ i < j)

\* What stands at the chosen places of a list, sorted.
InOrder(cs, chosen, now) ==
    [n \in 1..Cardinality(chosen) |->
        cs[CHOOSE i \in chosen : Cardinality({j \in chosen : Ahead(cs, j, i, now)}) = n - 1]]

ParetoFrontier(cs, candidates, now) ==
    InOrder(cs, {i \in candidates : ~Beaten(cs[i], {cs[j] : j \in candidates}, now)}, now)

\* Python's max and min return the first of the equals.
FirstBest(cs, value) ==
    cs[CHOOSE i \in DOMAIN cs :
         /\ \A j \in DOMAIN cs : value[j] <= value[i]
         /\ \A j \in 1..(i - 1) : value[j] < value[i]]

\* _spread: the best catch, the safest and the cheapest, then by rank.
Extremes(frontier, now) ==
    <<FirstBest(frontier, [i \in DOMAIN frontier |-> CatchSignal(frontier[i], now)]),
      FirstBest(frontier, [i \in DOMAIN frontier |-> frontier[i].safety]),
      FirstBest(frontier, [i \in DOMAIN frontier |-> -frontier[i].fuel])>>

Spread(frontier, now) ==
    IF Len(frontier) <= MaxOptions THEN frontier
    ELSE LET wanted    == Extremes(frontier, now) \o frontier
             before(i) == {wanted[j] : j \in 1..(i - 1)}
         IN  InOrder(wanted, {i \in DOMAIN wanted : /\ wanted[i] \notin before(i)
                                                   /\ Cardinality(before(i)) < MaxOptions}, now)

\* rank_fishing_zones: the reason it abstained for, or the zones it shows.
RankFishingZones(cs, now) ==
    LET compliant == {i \in DOMAIN cs : cs[i].compliant} IN
    IF cs = <<>> THEN [reason |-> "insufficient_evidence", zones |-> <<>>]
    ELSE IF compliant = {} THEN [reason |-> "constraint_violation", zones |-> <<>>]
    ELSE [reason |-> None, zones |-> Spread(ParetoFrontier(cs, compliant, now), now)]

\* detect_marine_heatwave: for each day the run of hot days that ends with it.
HotStreak(series) ==
    LET current[n \in 0..Len(series)] ==
            IF n = 0 THEN 0 ELSE IF series[n] THEN current[n - 1] + 1 ELSE 0
    IN  current

LongestStreak(series) == Max({HotStreak(series)[n] : n \in 0..Len(series)})

DetectHeatwave(series) ==
    IF Len(series) < HeatwaveMinDays \/ LongestStreak(series) < HeatwaveMinDays THEN None
    ELSE IF LongestStreak(series) >= HeatwaveHighDays THEN "high"
    ELSE "moderate"

-----------------------------------------------------------------------------
ZoneInit ==
    /\ field \in Fields /\ hour = 0
    /\ shown = RankFishingZones(field, 0)
    /\ days \in Series /\ heatwave = DetectHeatwave(days)

\* The same question asked later: the advisories have aged.
RankAgain ==
    /\ hour < MaxHours
    /\ hour' \in {h \in {56, 84, 112} : hour < h}
    /\ shown' = RankFishingZones(field, hour')
    /\ UNCHANGED <<field, days, heatwave>>

ZoneSpec == ZoneInit /\ [][RankAgain]_zoneVars

-----------------------------------------------------------------------------
Allowed == {c \in ToSet(field) : c.compliant}

\* A zone that is shown is not beaten, on the day it is shown, by any zone
\* the boat may fish, and a zone under a hard constraint is never shown.
NothingShownIsBeaten ==
    \A c \in ToSet(shown.zones) :
        /\ c \in Allowed
        /\ \A o \in Allowed : ~Dominates(Objectives(o, hour), Objectives(c, hour))

\* "This keeps the best catch, the safest and the cheapest" (zones.py:246): for
\* each of the three aims, something as good as the best allowed zone is shown.
EveryAimHasAnOption ==
    shown.reason = None =>
        \A o \in Allowed :
            /\ \E c \in ToSet(shown.zones) : CatchSignal(c, hour) >= CatchSignal(o, hour)
            /\ \E c \in ToSet(shown.zones) : c.safety >= o.safety
            /\ \E c \in ToSet(shown.zones) : c.fuel <= o.fuel

\* "The UI must not reshuffle between identical queries" (zones.py:132): the
\* order in which the candidates were supplied does not show.
SupplyOrderDoesNotShow ==
    shown = RankFishingZones(Reverse(field), hour)

\* The running count finds a heatwave exactly when some five consecutive days
\* were all hot, and calls it high exactly when some ten were.
HeatwaveByDefinition ==
    LET Consecutive(n) == \E i \in 0..(Len(days) - n) : \A j \in 1..n : days[i + j] IN
    /\ (heatwave # None) <=> Consecutive(HeatwaveMinDays)
    /\ (heatwave = "high") <=> Consecutive(HeatwaveHighDays)

\* The options shown, and the heatwave reported beside them, are those the
\* definitions give, whatever the order of supply.
ChoicesAreRight ==
    /\ NothingShownIsBeaten /\ EveryAimHasAnOption /\ SupplyOrderDoesNotShow
    /\ HeatwaveByDefinition
=============================================================================
