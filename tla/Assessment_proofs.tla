--------------------------- MODULE Assessment_proofs ---------------------------
(***************************************************************************)
(* What is computed from the evidence and what the shore does with it, for *)
(* every boat, sea, course, ban and area.                                  *)
(***************************************************************************)
EXTENDS AssessmentMC, FiniteSetTheorems, SequenceTheorems, WellFoundedInduction, TLAPS

(* The authority's desk.                                                   *)

DeskInv ==
    /\ where \in [Users -> Zones \cup {None}]
    /\ ReportedBoatsAreRecalled /\ BroadcastsErrWide

\* What a document says of the boats it was addressed to.
RecallIsRight(d) == \A u \in d.reported : u \in d.recipients <=> u \in d.inside
BroadcastIsWide(d) == (d.inside \ d.recipients) \cap (d.reported \cup d.unknown) = {}

LEMMA PublishKeeps ==
    ASSUME DeskInv, NEW d, Publish(d),
           d.workflow = "boat_recall" => RecallIsRight(d), d.says = "area" => BroadcastIsWide(d)
    PROVE  DeskInv'
<1>1. documents' = documents \cup {d} /\ UNCHANGED where
    BY DEF Publish
<1>2. ReportedBoatsAreRecalled'
    BY <1>1 DEF ReportedBoatsAreRecalled, DeskInv, Recalls, RecallIsRight
<1>3. BroadcastsErrWide'
    BY <1>1 DEF BroadcastsErrWide, DeskInv, BroadcastIsWide
<1> QED
    BY <1>1, <1>2, <1>3 DEF DeskInv

\* A fix says where the boat is, or that it is ashore.
LEMMA FixIsTrue ==
    ASSUME DeskInv, NEW u \in Users
    PROVE  /\ Fix(u) # None /\ (Fix(u).atSea <=> where[u] # None)
           /\ where[u] # None => Fix(u).zone = where[u]
<1>1. Fix(u) \in [zone : Zones, atSea : BOOLEAN]
    BY DeskAssumption DEF DeskAssumption, DeskInv, Fix
<1>2. Fix(u) # None
    BY <1>1, DeskAssumption DEF DeskAssumption
<1> QED
    BY <1>2 DEF Fix

LEMMA RecallKeeps ==
    ASSUME DeskInv, NEW area, DispatchRecall(area)
    PROVE  DeskInv'
<1> DEFINE d == Document("boat_recall", area, "return", Addressed(area))
<1>1. d.workflow = "boat_recall" /\ d.says = "return" /\ d.recipients = Addressed(area)
    BY DEF Document
<1>2. /\ d.inside = {u \in Users : Within(where[u], area)}
      /\ d.reported = {u \in Users : state[u] = Fix(u)}
    BY DEF Document
<1>3. ASSUME NEW u \in Users, state[u] = Fix(u)
      PROVE  u \in Addressed(area) <=> Within(where[u], area)
    BY <1>3, FixIsTrue DEF Addressed, IsAtSea, InArea, Within
<1>4. Publish(d)
    BY DEF DispatchRecall
<1> HIDE DEF d
<1>5. RecallIsRight(d)
    BY <1>1, <1>2, <1>3 DEF RecallIsRight
<1> QED
    BY <1>1, <1>4, <1>5, PublishKeeps

LEMMA AdviseKeeps ==
    ASSUME DeskInv, NEW status, AdviseHarbour(status)
    PROVE  DeskInv'
<1> DEFINE d == Document("harbour_advisory", {Harbour}, ResponseType(status), {})
<1>1. d.workflow = "harbour_advisory" /\ d.says = ResponseType(status)
    BY DEF Document
<1>2. Publish(d)
    BY DEF AdviseHarbour
<1> HIDE DEF d
<1>3. d.workflow # "boat_recall" /\ d.says # "area"
    BY <1>1 DEF ResponseType
<1> QED
    BY <1>2, <1>3, PublishKeeps

LEMMA BroadcastKeeps ==
    ASSUME DeskInv, NEW area, NEW fleet \in BOOLEAN, Broadcast(area, fleet)
    PROVE  DeskInv'
<1> DEFINE d == Document("authority_broadcast", area, IF fleet THEN "fleet" ELSE "area",
                         Recipients(area, fleet))
<1>1. /\ d.workflow = "authority_broadcast" /\ d.says = (IF fleet THEN "fleet" ELSE "area")
      /\ d.recipients = Recipients(area, fleet)
    BY DEF Document
<1>2. /\ d.inside = {u \in Users : Within(where[u], area)}
      /\ d.reported = {u \in Users : state[u] = Fix(u)}
      /\ d.unknown = {u \in Users : state[u] = None}
    BY DEF Document
<1>3. ASSUME ~fleet, NEW u \in Users, Within(where[u], area), state[u] = Fix(u) \/ state[u] = None
      PROVE  u \in Recipients(area, fleet)
    BY <1>3, FixIsTrue DEF Recipients, InArea, Within
<1>4. Publish(d)
    BY DEF Broadcast
<1> HIDE DEF d
<1>5. d.says = "area" => BroadcastIsWide(d)
    BY <1>1, <1>2, <1>3 DEF BroadcastIsWide
<1> QED
    BY <1>1, <1>4, <1>5, PublishKeeps

LEMMA DeskInvStep ==
    ASSUME DeskInv, [DeskNext]_deskVars
    PROVE  DeskInv'
<1>1. ASSUME NEW u \in Users, NEW z \in Zones \cup {None}, Move(u, z)
      PROVE  DeskInv'
    BY <1>1 DEF Move, DeskInv, ReportedBoatsAreRecalled, BroadcastsErrWide, Recalls
<1>2. ASSUME NEW u \in Users, ReportPosition(u)
      PROVE  DeskInv'
    BY <1>2 DEF ReportPosition, DeskInv, ReportedBoatsAreRecalled, BroadcastsErrWide, Recalls
<1>3. CASE DeskTick
    <2>1. documents' \subseteq documents /\ UNCHANGED where
        BY <1>3 DEF DeskTick
    <2> QED
        BY <2>1 DEF DeskInv, ReportedBoatsAreRecalled, BroadcastsErrWide, Recalls
<1>4. CASE UNCHANGED deskVars
    BY <1>4 DEF deskVars, DeskInv, ReportedBoatsAreRecalled, BroadcastsErrWide, Recalls
<1> QED
    BY <1>1, <1>2, <1>3, <1>4, RecallKeeps, AdviseKeeps, BroadcastKeeps DEF DeskNext

-----------------------------------------------------------------------------
(* Closures.                                                               *)

\* The table holds the columns of the notifications in force, and the plan is
\* what they and the areas say of it today.
ClosureInv ==
    /\ today \in Days /\ issued \subseteq Bans
    /\ stored = {[id |-> b.id, jurisdiction |-> b.jurisdiction, severity |-> b.severity,
                  window |-> b.window] : b \in issued}
    /\ plan # None =>
          plan.blocked = BlockingOnly(EvaluateTemporal(stored, today, plan.where)
                                        \cup EvaluateAreas(plan.containing, today))

\* A year's days counted from one of them.
LEMMA Countdown ==
    ASSUME NEW n \in Nat \ {0}, NEW first \in 1..n, NEW day \in 1..n
    PROVE  (day - first + n) % n = IF first <= day THEN day - first ELSE day - first + n
<1>1. CASE first <= day
    BY <1>1
<1>2. CASE ~(first <= day)
    BY <1>2
<1> QED
    BY <1>1, <1>2

LEMMA YearOfDays == \E n \in Nat \ {0} : Days = 1..n
<1>1. Cardinality(Days) \in Nat /\ Cardinality(Days) # 0
    BY ClosureAssumption, FS_CardinalityType, FS_EmptySet DEF ClosureAssumption
<1> QED
    BY <1>1, ClosureAssumption DEF ClosureAssumption

LEMMA SeasonRuns ==
    ASSUME NEW w \in SeasonalWindow, today \in Days
    PROVE  InSeason(w, today) <=> Running(w)
<1>1. PICK n \in Nat \ {0} : Days = 1..n
    BY YearOfDays
<1>2. Cardinality(Days) = n
    BY <1>1, FS_Interval
<1>3. w.first \in 1..n /\ w.last \in 1..n /\ today \in 1..n
    BY <1>1 DEF SeasonalWindow
<1>4. /\ Into(w.first, today) = IF w.first <= today THEN today - w.first ELSE today - w.first + n
      /\ Into(w.first, w.last) = IF w.first <= w.last THEN w.last - w.first ELSE w.last - w.first + n
    BY <1>2, <1>3, Countdown DEF Into
<1> QED
    BY <1>3, <1>4 DEF InSeason, Running

LEMMA ClosureInvStep ==
    ASSUME ClosureInv, [ClosureNext]_closureVars
    PROVE  ClosureInv'
<1>1. ASSUME NEW ban \in Bans, LoadSeasonalBan(ban)
      PROVE  ClosureInv'
    <2> DEFINE Row(b) == [id |-> b.id, jurisdiction |-> b.jurisdiction, severity |-> b.severity,
                          window |-> b.window]
    <2>1. /\ issued' = {b \in issued : b.id # ban.id} \cup {ban}
          /\ stored' = {r \in stored : r.id # ban.id} \cup {Row(ban)}
          /\ plan' = None /\ today' = today
        BY <1>1 DEF LoadSeasonalBan
    <2>2. stored = {Row(b) : b \in issued} /\ \A b : Row(b).id = b.id
        BY DEF ClosureInv
    <2> HIDE DEF Row
    <2>3. stored' = {Row(b) : b \in issued'}
        BY <2>1, <2>2
    <2> QED
        BY <2>1, <2>3 DEF ClosureInv, Row
<1>2. ASSUME NEW at, NEW containing, CheckPlan(at, containing)
      PROVE  ClosureInv'
    BY <1>2 DEF CheckPlan, ClosureInv
<1>3. CASE NextDay
    <2>1. 1 \in Days
        BY YearOfDays
    <2> QED
        BY <1>3, <2>1 DEF NextDay, ClosureInv
<1>4. ASSUME NEW area \in Areas, LoadProtectedArea(area)
      PROVE  ClosureInv'
    BY <1>4 DEF LoadProtectedArea, ClosureInv
<1>5. CASE UNCHANGED closureVars
    BY <1>5 DEF closureVars, ClosureInv
<1> QED
    BY <1>1, <1>2, <1>3, <1>4, <1>5 DEF ClosureNext

\* A window's membership is one run of days, so the plan that the code checked
\* by membership is the plan the runs of days give.
LEMMA ClosureInvSuffices ==
    ASSUME ClosureInv
    PROVE  SeasonIsOneRun /\ PlansObeyTheLatestRules
<1>1. today \in Days /\ issued \subseteq Bans
    BY DEF ClosureInv
<1>2. /\ \A b \in issued : b.window \in SeasonalWindow
      /\ \A a \in Areas : a.seasons \subseteq SeasonalWindow
    BY <1>1, ClosureAssumption DEF ClosureAssumption
<1>3. \A w \in SeasonalWindow : InSeason(w, today) <=> Running(w)
    BY <1>1, SeasonRuns
<1>4. SeasonIsOneRun
    BY <1>2, <1>3 DEF SeasonIsOneRun, Seasons, Running
<1>5. ASSUME plan # None
      PROVE  {v.id : v \in plan.blocked} =
                {b.id : b \in {b \in issued : b.severity = "hard" /\ b.jurisdiction \in plan.where
                                                /\ Running(b.window)}}
                \cup {a.id : a \in {a \in Areas : a.severity = "hard" /\ a.id \in plan.containing
                                      /\ (a.seasons # {} => \E w \in a.seasons : Running(w))}}
    <2> DEFINE Bound == {b \in issued : b.severity = "hard" /\ b.jurisdiction \in plan.where
                                          /\ Running(b.window)}
               Closed == {a \in Areas : a.severity = "hard" /\ a.id \in plan.containing
                                          /\ (a.seasons # {} => \E w \in a.seasons : Running(w))}
               Said == EvaluateTemporal(stored, today, plan.where)
               Drawn == EvaluateAreas(plan.containing, today)
    <2>1. plan.blocked = {v \in Said \cup Drawn : v.blocks}
        BY <1>5 DEF ClosureInv, BlockingOnly
    <2>2. {v.id : v \in {v \in Said : v.blocks}} = {b.id : b \in Bound}
        <3>1. Said = {Violation(b.id, b.severity) : b \in {b \in issued : b.jurisdiction \in plan.where
                                                                           /\ Running(b.window)}}
            <4> DEFINE Row(b) == [id |-> b.id, jurisdiction |-> b.jurisdiction, severity |-> b.severity,
                                  window |-> b.window]
            <4>1. stored = {Row(b) : b \in issued}
                BY DEF ClosureInv
            <4>2. \A b \in issued : /\ Row(b).id = b.id /\ Row(b).severity = b.severity
                                    /\ Row(b).jurisdiction = b.jurisdiction
                                    /\ (InSeason(Row(b).window, today) <=> Running(b.window))
                BY <1>2, <1>3
            <4> HIDE DEF Row
            <4> QED
                BY <4>1, <4>2 DEF EvaluateTemporal
        <3>2. \A b : Violation(b.id, b.severity).id = b.id
                     /\ (Violation(b.id, b.severity).blocks <=> b.severity = "hard")
            BY DEF Violation
        <3> QED
            BY <3>1, <3>2
    <2>3. {v.id : v \in {v \in Drawn : v.blocks}} = {a.id : a \in Closed}
        <3>1. \A a \in Areas : IsClosedOn(a, today) <=> (a.seasons # {} => \E w \in a.seasons : Running(w))
            BY <1>2, <1>3 DEF IsClosedOn
        <3>2. Drawn = {Violation(a.id, a.severity) : a \in {a \in Areas : a.id \in plan.containing
                           /\ (a.seasons # {} => \E w \in a.seasons : Running(w))}}
            BY <3>1 DEF EvaluateAreas
        <3>3. \A b : Violation(b.id, b.severity).id = b.id
                     /\ (Violation(b.id, b.severity).blocks <=> b.severity = "hard")
            BY DEF Violation
        <3> QED
            BY <3>2, <3>3
    <2> HIDE DEF Said, Drawn
    <2> QED
        BY <2>1, <2>2, <2>3
<1> QED
    BY <1>4, <1>5 DEF PlansObeyTheLatestRules

\* For a year of any length, any bans and areas, boats and zones: plans obey
\* the latest rules, a recall addresses a boat whose last report is true just
\* when it is in the area, and a broadcast leaves out none that is there unless
\* its last report says otherwise.
THEOREM ShoreTheorem == AssessmentSpec => []ShoreIsObeyed
<1>1. AssessmentInit => ClosureInv /\ DeskInv
    <2> SUFFICES ASSUME AssessmentInit
                 PROVE  ClosureInv /\ DeskInv
        OBVIOUS
    <2>1. today \in Days /\ issued = {} /\ stored = {} /\ plan = None
        BY YearOfDays DEF AssessmentInit, ClosureInit
    <2>2. where \in [Users -> Zones \cup {None}] /\ documents = {}
        BY DeskAssumption DEF AssessmentInit, DeskInit, DeskAssumption
    <2> QED
        BY <2>1, <2>2 DEF ClosureInv, DeskInv, ReportedBoatsAreRecalled, BroadcastsErrWide, Recalls
<1>2. [AssessmentNext]_assessmentVars => [ClosureNext]_closureVars /\ [DeskNext]_deskVars
    BY DEF AssessmentNext, assessmentVars
<1>3. ClosureInv /\ DeskInv => ShoreIsObeyed
    BY ClosureInvSuffices DEF DeskInv, ShoreIsObeyed
<1> QED
    BY <1>1, <1>2, <1>3, ClosureInvStep, DeskInvStep, PTL DEF AssessmentSpec

-----------------------------------------------------------------------------
(* Quotients of natural numbers, rounded down or to the nearest.           *)

Positive == Nat \ {0}

LEMMA DivisionBounds ==
    ASSUME NEW a \in Nat, NEW b \in Positive
    PROVE  a \div b \in Nat /\ b * (a \div b) <= a /\ a < b * (a \div b) + b
BY DEF Positive

LEMMA BelowQuotient ==
    ASSUME NEW q \in Nat, NEW c \in Nat, NEW d \in Positive, q * d <= c
    PROVE  q <= c \div d
<1> DEFINE r == c \div d
<1>1. r \in Nat /\ c < d * r + d
    BY DivisionBounds
<1> HIDE DEF r
<1>2. \A x, y \in Nat, z \in Positive : x > y => x * z >= z * y + z
    BY DEF Positive
<1> QED
    BY <1>1, <1>2 DEF r, Positive

LEMMA QuotientsInOrder ==
    ASSUME NEW a \in Nat, NEW b \in Positive, NEW c \in Nat, NEW d \in Positive, a * d <= c * b
    PROVE  a \div b <= c \div d
<1> DEFINE q == a \div b
<1>1. q \in Nat /\ b * q <= a
    BY DivisionBounds
<1> HIDE DEF q
<1>2. (b * q) * d <= a * d
    BY <1>1 DEF Positive
<1>3. (q * d) * b <= c * b
    BY <1>1, <1>2 DEF Positive
<1>4. \A x, y \in Nat, z \in Positive : x * z <= y * z => x <= y
    BY DEF Positive
<1>5. q * d \in Nat
    BY <1>1 DEF Positive
<1>6. q * d <= c
    BY <1>3, <1>4, <1>5
<1> QED
    BY <1>1, <1>6, BelowQuotient DEF q

\* A larger number over a smaller one is nearest to no smaller one.
LEMMA NearestInOrder ==
    ASSUME NEW a \in Nat, NEW b \in Positive, NEW c \in Nat, NEW d \in Positive, a <= c, d <= b
    PROVE  Nearest(a, b) \in Nat /\ Nearest(a, b) <= Nearest(c, d)
<1>1. 2 * a + b \in Nat /\ 2 * b \in Positive /\ 2 * c + d \in Nat /\ 2 * d \in Positive
    BY DEF Positive
<1>2. a * d <= c * b
    BY DEF Positive
<1>3. (2 * a + b) * (2 * d) <= (2 * c + d) * (2 * b)
    <2>1. /\ (2 * a + b) * (2 * d) = 4 * (a * d) + 2 * (b * d)
          /\ (2 * c + d) * (2 * b) = 4 * (c * b) + 2 * (b * d)
        BY DEF Positive
    <2>2. a * d \in Nat /\ c * b \in Nat /\ b * d \in Nat
        BY DEF Positive
    <2> QED
        BY <1>2, <2>1, <2>2
<1> QED
    BY <1>1, <1>3, QuotientsInOrder, DivisionBounds DEF Nearest

-----------------------------------------------------------------------------
(* The safety score.                                                       *)

LEMMA RowsInOrder ==
    \A b, e \in DOMAIN ClassDefaults :
        Seaworthiness[e] <= Seaworthiness[b] =>
            LET t == ClassDefaults[b]  s == ClassDefaults[e] IN
            /\ t.wave[1] \in Nat /\ t.wave[2] \in Nat /\ s.wave[1] \in Nat /\ s.wave[2] \in Nat
            /\ t.wind[1] \in Nat /\ t.wind[2] \in Nat /\ s.wind[1] \in Nat /\ s.wind[2] \in Nat
            /\ t.wave[1] < t.wave[2] /\ s.wave[1] < s.wave[2]
            /\ t.wind[1] < t.wind[2] /\ s.wind[1] < s.wind[2]
            /\ s.wave[1] <= t.wave[1] /\ s.wave[2] <= t.wave[2]
            /\ s.wind[1] <= t.wind[1] /\ s.wind[2] <= t.wind[2]
            /\ t.period \in Positive /\ s.period \in Positive /\ t.period <= s.period
<1>1. DOMAIN ClassDefaults = {"catamaran", "frp_vallam", "gillnetter", "mechanized_trawler"}
    BY DEF ClassDefaults
<1>2. SUFFICES ASSUME NEW b \in DOMAIN ClassDefaults, NEW e \in DOMAIN ClassDefaults,
                      Seaworthiness[e] <= Seaworthiness[b]
               PROVE  LET t == ClassDefaults[b]  s == ClassDefaults[e] IN
            /\ t.wave[1] \in Nat /\ t.wave[2] \in Nat /\ s.wave[1] \in Nat /\ s.wave[2] \in Nat
            /\ t.wind[1] \in Nat /\ t.wind[2] \in Nat /\ s.wind[1] \in Nat /\ s.wind[2] \in Nat
            /\ t.wave[1] < t.wave[2] /\ s.wave[1] < s.wave[2]
            /\ t.wind[1] < t.wind[2] /\ s.wind[1] < s.wind[2]
            /\ s.wave[1] <= t.wave[1] /\ s.wave[2] <= t.wave[2]
            /\ s.wind[1] <= t.wind[1] /\ s.wind[2] <= t.wind[2]
            /\ t.period \in Positive /\ s.period \in Positive /\ t.period <= s.period
    OBVIOUS
<1>3. CASE b = "catamaran"
    BY <1>1, <1>2, <1>3 DEF ClassDefaults, Seaworthiness, Positive
<1>4. CASE b = "frp_vallam"
    BY <1>1, <1>2, <1>4 DEF ClassDefaults, Seaworthiness, Positive
<1>5. CASE b = "gillnetter"
    BY <1>1, <1>2, <1>5 DEF ClassDefaults, Seaworthiness, Positive
<1>6. CASE b = "mechanized_trawler"
    BY <1>1, <1>2, <1>6 DEF ClassDefaults, Seaworthiness, Positive
<1> QED
    BY <1>1, <1>3, <1>4, <1>5, <1>6

LEMMA ThresholdFacts ==
    ASSUME NEW b \in Boat, NEW e \in Boat, NoBetterFound(e, b)
    PROVE  LET t == Thresholds(b)  s == Thresholds(e) IN
           /\ t.wave[1] \in Nat /\ t.wave[2] \in Nat /\ s.wave[1] \in Nat /\ s.wave[2] \in Nat
           /\ t.wind[1] \in Nat /\ t.wind[2] \in Nat /\ s.wind[1] \in Nat /\ s.wind[2] \in Nat
           /\ t.wave[1] < t.wave[2] /\ s.wave[1] < s.wave[2]
           /\ t.wind[1] < t.wind[2] /\ s.wind[1] < s.wind[2]
           /\ s.wave[1] <= t.wave[1] /\ s.wave[2] <= t.wave[2]
           /\ s.wind[1] <= t.wind[1] /\ s.wind[2] <= t.wind[2]
           /\ t.period \in Positive /\ s.period \in Positive /\ t.period <= s.period
<1> DEFINE Sound(t) == /\ t.wave[1] \in Nat /\ t.wave[2] \in Nat /\ t.wave[1] < t.wave[2]
                       /\ t.wind[1] \in Nat /\ t.wind[2] \in Nat /\ t.wind[1] < t.wind[2]
                       /\ t.period \in Positive
           t == Thresholds(b)  s == Thresholds(e)
<1>1. ASSUME NEW x \in Boat
      PROVE  Sound(Thresholds(x))
    <2>1. CASE x.overrides = None
        <3>1. x.class \in DOMAIN ClassDefaults /\ Seaworthiness[x.class] <= Seaworthiness[x.class]
            <4>1. x.class \in DOMAIN ClassDefaults
                BY DEF Boat
            <4> QED
                BY <4>1 DEF ClassDefaults, Seaworthiness
        <3> QED
            BY <2>1, <3>1, RowsInOrder DEF Thresholds
    <2>2. CASE x.overrides # None
        <3>1. x.overrides \in ClassThresholds /\ Thresholds(x) = x.overrides
            BY <2>2 DEF Boat, Thresholds
        <3> QED
            BY <3>1 DEF ClassThresholds, Positive
    <2> QED
        BY <2>1, <2>2
<1>2. Sound(t) /\ Sound(s)
    BY <1>1
<1>3. /\ s.wave[1] <= t.wave[1] /\ s.wave[2] <= t.wave[2]
      /\ s.wind[1] <= t.wind[1] /\ s.wind[2] <= t.wind[2] /\ t.period <= s.period
    <2>1. CASE e.overrides = None /\ b.overrides = None /\ Seaworthiness[e.class] <= Seaworthiness[b.class]
        <3>1. e.class \in DOMAIN ClassDefaults /\ b.class \in DOMAIN ClassDefaults
            BY DEF Boat
        <3> QED
            BY <2>1, <3>1, RowsInOrder DEF Thresholds
    <2>2. CASE Stricter(s, t)
        BY <2>2 DEF Stricter
    <2> QED
        BY <2>1, <2>2 DEF NoBetterFound
<1> HIDE DEF t, s
<1>4. /\ t.wave[1] \in Nat /\ t.wave[2] \in Nat /\ s.wave[1] \in Nat /\ s.wave[2] \in Nat
      /\ t.wind[1] \in Nat /\ t.wind[2] \in Nat /\ s.wind[1] \in Nat /\ s.wind[2] \in Nat
      /\ t.wave[1] < t.wave[2] /\ s.wave[1] < s.wave[2]
      /\ t.wind[1] < t.wind[2] /\ s.wind[1] < s.wind[2]
      /\ t.period \in Positive /\ s.period \in Positive
    BY <1>2
<1> QED
    BY <1>3, <1>4 DEF t, s

LEMMA NoBoatBeatsItself ==
    ASSUME NEW b \in Boat
    PROVE  NoBetterFound(b, b)
<1>1. CASE b.overrides = None
    <2>1. b.class \in DOMAIN ClassDefaults
        BY DEF Boat
    <2>2. Seaworthiness[b.class] <= Seaworthiness[b.class]
        BY <2>1 DEF ClassDefaults, Seaworthiness
    <2> QED
        BY <1>1, <2>2 DEF NoBetterFound
<1>2. CASE b.overrides # None
    <2> DEFINE t == b.overrides
    <2>1. t \in ClassThresholds /\ Thresholds(b) = t
        BY <1>2 DEF Boat, Thresholds
    <2>2. /\ t.wave[1] \in Nat /\ t.wave[2] \in Nat /\ t.wind[1] \in Nat /\ t.wind[2] \in Nat
          /\ t.period \in Nat /\ t["wave"] = t.wave /\ t["wind"] = t.wind
        BY <2>1 DEF ClassThresholds
    <2> HIDE DEF t
    <2> QED
        BY <2>1, <2>2 DEF NoBetterFound, Stricter
<1> QED
    BY <1>1, <1>2

Thousandths == 0..1000

LEMMA RampsInOrder ==
    ASSUME NEW v \in Int, NEW w \in Int, NEW c \in Int, NEW a \in Int, NEW e \in Int, NEW b \in Int,
           v <= w, c < v, v < a, e <= c, b <= a, e < b
    PROVE  (v - c) * (b - e) <= (w - e) * (a - c)
<1>1. \A x, A, d \in Nat : x <= A => x * (A + d) <= (x + d) * A
    OBVIOUS
<1>2. (v - c) * ((a - c) + (c - e)) <= ((v - c) + (c - e)) * (a - c)
    BY <1>1
<1>3. (v - c) * (b - e) <= (v - c) * ((a - c) + (c - e))
    OBVIOUS
<1>4. ((v - c) + (c - e)) * (a - c) <= (w - e) * (a - c)
    OBVIOUS
<1> QED
    BY <1>2, <1>3, <1>4

LEMMA NormaliseHazardInRange ==
    ASSUME NEW v \in Int, NEW c \in Nat, NEW a \in Nat, c < a
    PROVE  NormaliseHazard(v, c, a) \in Thousandths
<1>1. CASE v <= c \/ v >= a
    BY <1>1 DEF NormaliseHazard, Thousandths
<1>2. CASE c < v /\ v < a
    <2> DEFINE n == (v - c) * 1000  d == a - c
    <2>1. n \in Nat /\ d \in Positive /\ n <= 1000 * d
        BY <1>2 DEF Positive
    <2> HIDE DEF n, d
    <2>2. n \div d \in Nat /\ d * (n \div d) <= n
        BY <2>1, DivisionBounds
    <2>3. \A x, y \in Nat, z \in Positive : z * x <= y * z => x <= y
        BY DEF Positive
    <2>4. d * (n \div d) <= 1000 * d
        BY <2>1, <2>2 DEF Positive
    <2>5. n \div d <= 1000
        BY <2>1, <2>2, <2>3, <2>4
    <2>6. NormaliseHazard(v, c, a) = n \div d
        BY <1>2 DEF NormaliseHazard, n, d
    <2> QED
        BY <2>2, <2>5, <2>6 DEF Thousandths
<1> QED
    BY <1>1, <1>2

LEMMA NormaliseHazardInOrder ==
    ASSUME NEW v \in Int, NEW w \in Int, NEW c \in Nat, NEW a \in Nat, NEW e \in Nat, NEW b \in Nat,
           v <= w, c < a, e < b, e <= c, b <= a
    PROVE  NormaliseHazard(v, c, a) <= NormaliseHazard(w, e, b)
<1>1. NormaliseHazard(v, c, a) \in Thousandths /\ NormaliseHazard(w, e, b) \in Thousandths
    BY NormaliseHazardInRange
<1>2. CASE v <= c
    <2>1. NormaliseHazard(v, c, a) = 0
        BY <1>2 DEF NormaliseHazard
    <2> QED
        BY <1>1, <2>1 DEF Thousandths
<1>3. CASE w >= b
    <2>1. NormaliseHazard(w, e, b) = 1000
        BY <1>3 DEF NormaliseHazard
    <2> QED
        BY <1>1, <2>1 DEF Thousandths
<1>4. CASE c < v /\ w < b
    <2>1. (v - c) * (b - e) <= (w - e) * (a - c)
        BY <1>4, RampsInOrder
    <2>2. ((v - c) * 1000) * (b - e) <= ((w - e) * 1000) * (a - c)
        BY <1>4, <2>1
    <2>3. /\ (v - c) * 1000 \in Nat /\ a - c \in Positive
          /\ (w - e) * 1000 \in Nat /\ b - e \in Positive
        BY <1>4 DEF Positive
    <2> DEFINE m == (v - c) * 1000  k == (w - e) * 1000  x == a - c  y == b - e
    <2>4. NormaliseHazard(v, c, a) = m \div x /\ NormaliseHazard(w, e, b) = k \div y
        BY <1>4 DEF NormaliseHazard
    <2>5. m \in Nat /\ x \in Positive /\ k \in Nat /\ y \in Positive /\ m * y <= k * x
        BY <2>2, <2>3
    <2> HIDE DEF m, k, x, y
    <2>6. m \div x <= k \div y
        BY <2>5, QuotientsInOrder
    <2> QED
        BY <2>4, <2>6
<1> QED
    BY <1>2, <1>3, <1>4

LEMMA SwellPeriodHazardInRange ==
    ASSUME NEW p \in Int, NEW m \in Positive
    PROVE  SwellPeriodHazard(p, m) \in Thousandths
<1>1. CASE p >= m \/ 2 * p <= m
    BY <1>1 DEF SwellPeriodHazard, Thousandths
<1>2. CASE p < m /\ m < 2 * p
    <2> DEFINE n == (m - p) * 2000
    <2>1. n \in Nat /\ n <= 1000 * m
        BY <1>2 DEF Positive
    <2> HIDE DEF n
    <2>2. n \div m \in Nat /\ m * (n \div m) <= n
        BY <2>1, DivisionBounds
    <2>3. \A x, y \in Nat, z \in Positive : z * x <= y * z => x <= y
        BY DEF Positive
    <2>4. m * (n \div m) <= 1000 * m
        BY <2>1, <2>2 DEF Positive
    <2>5. n \div m <= 1000
        BY <2>1, <2>2, <2>3, <2>4
    <2>6. SwellPeriodHazard(p, m) = n \div m
        BY <1>2 DEF SwellPeriodHazard, n, Positive
    <2> QED
        BY <2>2, <2>5, <2>6 DEF Thousandths
<1> QED
    BY <1>1, <1>2 DEF Positive

LEMMA SwellPeriodHazardInOrder ==
    ASSUME NEW p \in Int, NEW q \in Int, NEW m \in Positive, NEW k \in Positive, q <= p, m <= k
    PROVE  SwellPeriodHazard(p, m) <= SwellPeriodHazard(q, k)
<1>1. SwellPeriodHazard(p, m) \in Thousandths /\ SwellPeriodHazard(q, k) \in Thousandths
    BY SwellPeriodHazardInRange
<1>2. CASE p >= m
    <2>1. SwellPeriodHazard(p, m) = 0
        BY <1>2 DEF SwellPeriodHazard
    <2> QED
        BY <1>1, <2>1 DEF Thousandths
<1>3. CASE p < m /\ 2 * q <= k
    <2>1. SwellPeriodHazard(q, k) = 1000
        BY <1>3 DEF SwellPeriodHazard, Positive
    <2> QED
        BY <1>1, <2>1 DEF Thousandths
<1>4. CASE p < m /\ k < 2 * q
    <2>1. q > 0 /\ q < k /\ m < 2 * p
        BY <1>4 DEF Positive
    <2>2. q * m <= p * k
        BY <2>1 DEF Positive
    <2>3. (m - p) * k <= (k - q) * m
        <3>1. (m - p) * k = m * k - p * k /\ (k - q) * m = m * k - q * m
            BY DEF Positive
        <3>2. m * k \in Int /\ p * k \in Int /\ q * m \in Int
            BY DEF Positive
        <3> QED
            BY <2>2, <3>1, <3>2
    <2>4. ((m - p) * 2000) * k <= ((k - q) * 2000) * m
        BY <2>3 DEF Positive
    <2>5. (m - p) * 2000 \in Nat /\ (k - q) * 2000 \in Nat
        BY <1>4, <2>1 DEF Positive
    <2>6. ((m - p) * 2000) \div m <= ((k - q) * 2000) \div k
        BY <2>4, <2>5, QuotientsInOrder
    <2> QED
        BY <1>4, <2>1, <2>6 DEF SwellPeriodHazard, Positive
<1> QED
    BY <1>2, <1>3, <1>4 DEF Positive

LEMMA DriverNames == Drivers = {"wave", "wind", "period", "squall"}
BY DEF Drivers, Weight

LEMMA TotalsInOrder ==
    ASSUME NEW S \in SUBSET Drivers, NEW f \in [S -> Nat], NEW g \in [S -> Nat], \A d \in S : f[d] <= g[d]
    PROVE  Total(f, S) \in Nat /\ Total(g, S) \in Nat /\ Total(f, S) <= Total(g, S)
<1> DEFINE F(d) == IF d \in S THEN f[d] ELSE 0
           G(d) == IF d \in S THEN g[d] ELSE 0
<1>1. \A d : F(d) \in Nat /\ G(d) \in Nat /\ F(d) <= G(d)
    OBVIOUS
<1>2. /\ Total(f, S) = F("wave") + F("wind") + F("period") + F("squall")
      /\ Total(g, S) = G("wave") + G("wind") + G("period") + G("squall")
    BY DEF Total
<1> HIDE DEF F, G
<1> QED
    BY <1>1, <1>2

LEMMA DriverHazardInOrder ==
    ASSUME NEW b \in Boat, NEW e \in Boat, NoBetterFound(e, b),
           NEW d \in Drivers, NEW v \in Int, NEW w \in Int, Rougher(d, v, w)
    PROVE  /\ DriverHazard(b, d, v) \in Thousandths /\ DriverHazard(e, d, w) \in Thousandths
           /\ DriverHazard(b, d, v) <= DriverHazard(e, d, w)
<1> DEFINE t == Thresholds(b)  s == Thresholds(e)
<1>1. /\ t.wave[1] \in Nat /\ t.wave[2] \in Nat /\ s.wave[1] \in Nat /\ s.wave[2] \in Nat
      /\ t.wind[1] \in Nat /\ t.wind[2] \in Nat /\ s.wind[1] \in Nat /\ s.wind[2] \in Nat
      /\ t.wave[1] < t.wave[2] /\ s.wave[1] < s.wave[2]
      /\ t.wind[1] < t.wind[2] /\ s.wind[1] < s.wind[2]
      /\ s.wave[1] <= t.wave[1] /\ s.wave[2] <= t.wave[2]
      /\ s.wind[1] <= t.wind[1] /\ s.wind[2] <= t.wind[2]
      /\ t.period \in Positive /\ s.period \in Positive /\ t.period <= s.period
    BY ThresholdFacts
<1>2. CASE d = "wave"
    <2>1. /\ DriverHazard(b, d, v) = NormaliseHazard(v, t.wave[1], t.wave[2])
          /\ DriverHazard(e, d, w) = NormaliseHazard(w, s.wave[1], s.wave[2])
        BY <1>2 DEF DriverHazard
    <2>2. v <= w
        BY <1>2 DEF Rougher
    <2> DEFINE c == t.wave[1]  a == t.wave[2]  x == s.wave[1]  y == s.wave[2]
    <2>3. c \in Nat /\ a \in Nat /\ x \in Nat /\ y \in Nat /\ c < a /\ x < y /\ x <= c /\ y <= a
        BY <1>1
    <2> HIDE DEF c, a, x, y
    <2>4. NormaliseHazard(v, c, a) \in Thousandths /\ NormaliseHazard(w, x, y) \in Thousandths
        BY <2>3, NormaliseHazardInRange
    <2>5. NormaliseHazard(v, c, a) <= NormaliseHazard(w, x, y)
        BY <2>2, <2>3, NormaliseHazardInOrder
    <2> QED
        BY <2>1, <2>4, <2>5 DEF c, a, x, y
<1>3. CASE d = "wind"
    <2>1. /\ DriverHazard(b, d, v) = NormaliseHazard(v, t.wind[1], t.wind[2])
          /\ DriverHazard(e, d, w) = NormaliseHazard(w, s.wind[1], s.wind[2])
        BY <1>3 DEF DriverHazard
    <2>2. v <= w
        BY <1>3 DEF Rougher
    <2> DEFINE c == t.wind[1]  a == t.wind[2]  x == s.wind[1]  y == s.wind[2]
    <2>3. c \in Nat /\ a \in Nat /\ x \in Nat /\ y \in Nat /\ c < a /\ x < y /\ x <= c /\ y <= a
        BY <1>1
    <2> HIDE DEF c, a, x, y
    <2>4. NormaliseHazard(v, c, a) \in Thousandths /\ NormaliseHazard(w, x, y) \in Thousandths
        BY <2>3, NormaliseHazardInRange
    <2>5. NormaliseHazard(v, c, a) <= NormaliseHazard(w, x, y)
        BY <2>2, <2>3, NormaliseHazardInOrder
    <2> QED
        BY <2>1, <2>4, <2>5 DEF c, a, x, y
<1>4. CASE d = "period"
    <2>1. /\ DriverHazard(b, d, v) = SwellPeriodHazard(v, t.period)
          /\ DriverHazard(e, d, w) = SwellPeriodHazard(w, s.period)
        BY <1>4 DEF DriverHazard
    <2>2. w <= v
        BY <1>4 DEF Rougher
    <2> HIDE DEF t, s
    <2> QED
        BY <1>1, <2>1, <2>2, SwellPeriodHazardInRange, SwellPeriodHazardInOrder
<1>5. CASE d = "squall"
    <2>1. /\ DriverHazard(b, d, v) = 10 * Most(0, Least(100, v))
          /\ DriverHazard(e, d, w) = 10 * Most(0, Least(100, w))
        BY <1>5 DEF DriverHazard
    <2>2. v <= w
        BY <1>5 DEF Rougher
    <2> QED
        BY <2>1, <2>2 DEF Most, Least, Thousandths
<1> QED
    BY <1>2, <1>3, <1>4, <1>5, DriverNames

\* The numerator and the denominators that Score divides.
HazardOf(boat, sea) == Total([d \in Present(sea) |-> Weight[d] * DriverHazard(boat, d, sea[d].value)],
                             Present(sea))
UsedOf(sea) == Total(Weight, Present(sea))

LEMMA AskedFacts ==
    ASSUME NEW q \in Questions
    PROVE  /\ q.boat \in Boat /\ q.reliability \in 0..100
           /\ Present(q.sea) \subseteq Drivers /\ \A d \in Present(q.sea) : q.sea[d].value \in Int
           /\ MarginFactor(q.boat) \in 90..110
<1>1. q.boat \in Boat /\ q.reliability \in 0..100 /\ q.sea \in [Drivers -> Reading \cup {None}]
    BY KernelAssumption DEF KernelAssumption
<1>2. \A d \in Present(q.sea) : d \in Drivers /\ q.sea[d].value \in Int
    BY <1>1 DEF Present, Supplied, Reading
<1>3. MarginFactor(q.boat) \in 90..110
    <2> DEFINE n == q.boat.freeboard * 1000  d == 8 * q.boat.length  r == n \div d
    <2>1. n \in Nat /\ d \in Positive
        BY <1>1 DEF Boat, Positive
    <2>2. r \in Nat
        BY <2>1, DivisionBounds
    <2>3. MarginFactor(q.boat) = IF q.boat.motorised THEN Most(90, Least(110, r))
                                 ELSE Least(Most(90, Least(110, r)), 100)
        BY DEF MarginFactor
    <2> HIDE DEF r
    <2> QED
        BY <2>2, <2>3 DEF Most, Least
<1> QED
    BY <1>1, <1>2, <1>3 DEF Boat

LEMMA WeightFacts == \A d \in Drivers : Weight[d] \in Nat
BY DriverNames DEF Weight

LEMMA HazardsInOrder ==
    ASSUME NEW p \in Questions, NEW q \in Questions, WorseSea(p.sea, q.sea),
           NoBetterFound(q.boat, p.boat)
    PROVE  /\ HazardOf(p.boat, p.sea) \in Nat /\ HazardOf(q.boat, q.sea) \in Nat
           /\ HazardOf(p.boat, p.sea) <= HazardOf(q.boat, q.sea)
           /\ UsedOf(p.sea) = UsedOf(q.sea)
<1> DEFINE S == Present(p.sea)
           f == [d \in S |-> Weight[d] * DriverHazard(p.boat, d, p.sea[d].value)]
           g == [d \in S |-> Weight[d] * DriverHazard(q.boat, d, q.sea[d].value)]
<1>1. Present(q.sea) = S /\ \A d \in S : Rougher(d, p.sea[d].value, q.sea[d].value)
    BY DEF WorseSea
<1>2. S \in SUBSET Drivers
    BY AskedFacts
<1>3. ASSUME NEW d \in S
      PROVE  f[d] \in Nat /\ g[d] \in Nat /\ f[d] <= g[d]
    <2> DEFINE x == DriverHazard(p.boat, d, p.sea[d].value)  y == DriverHazard(q.boat, d, q.sea[d].value)
    <2>1. x \in Thousandths /\ y \in Thousandths /\ x <= y
        BY <1>1, <1>2, AskedFacts, DriverHazardInOrder
    <2>2. Weight[d] \in Nat /\ f[d] = Weight[d] * x /\ g[d] = Weight[d] * y
        BY <1>2, WeightFacts
    <2> HIDE DEF x, y
    <2>3. \A i, j, k \in Nat : i <= j => k * i \in Nat /\ k * j \in Nat /\ k * i <= k * j
        OBVIOUS
    <2>4. x \in Nat /\ y \in Nat
        BY <2>1 DEF Thousandths
    <2> HIDE DEF f, g
    <2> QED
        BY <2>1, <2>2, <2>3, <2>4
<1>4. f = [d \in S |-> f[d]] /\ g = [d \in S |-> g[d]]
    OBVIOUS
<1>5. HazardOf(p.boat, p.sea) = Total(f, S) /\ HazardOf(q.boat, q.sea) = Total(g, S)
    BY <1>1 DEF HazardOf
<1> HIDE DEF f, g
<1>6. f \in [S -> Nat] /\ g \in [S -> Nat]
    BY <1>3, <1>4
<1>7. UsedOf(p.sea) = UsedOf(q.sea)
    BY <1>1 DEF UsedOf
<1> QED
    BY <1>2, <1>3, <1>5, <1>6, <1>7, TotalsInOrder

Answered(q) ==
    StaleBlockers(q.sea) = {} /\ MissingBlockers(q.sea) = {} /\ ~(q.reliability < MinReliability)

LEMMA AnsweredIffScored ==
    ASSUME NEW q
    PROVE  /\ Answered(q) => ComputeSafetyScore(q) = Scored(q.boat, q.sea, q.reliability)
           /\ ~Answered(q) => ComputeSafetyScore(q).score = None /\ ComputeSafetyScore(q).band = None
<1>1. \A r : Abstains(r).score = None /\ Abstains(r).band = None
    BY DEF Abstains
<1> QED
    BY <1>1 DEF Answered, ComputeSafetyScore

\* What is behind a score: the required drivers, a weight in use of at least
\* theirs, and nothing that blocks the result.
LEMMA ScoreFacts ==
    ASSUME NEW q \in Questions, Answered(q)
    PROVE  /\ MissingBlockers(q.sea) = {} /\ q.reliability >= MinReliability
           /\ ComputeSafetyScore(q) = Scored(q.boat, q.sea, q.reliability)
           /\ UsedOf(q.sea) \in 75..100 /\ HazardOf(q.boat, q.sea) \in Nat
<1>2. StaleBlockers(q.sea) = {} /\ MissingBlockers(q.sea) = {} /\ ~(q.reliability < MinReliability)
    BY DEF Answered
<1>3. ComputeSafetyScore(q) = Scored(q.boat, q.sea, q.reliability)
    BY AnsweredIffScored
<1>4. Required \subseteq Present(q.sea)
    <2>1. \A d \in Required : d \in Drivers /\ q.sea[d] # None /\ q.sea[d].required
        BY DriverNames, KernelAssumption DEF KernelAssumption, Required
    <2>2. \A d \in Required : d \in Supplied(q.sea) /\ ~BlocksResult(q.sea, d)
        BY <1>2, <2>1 DEF Supplied, MissingBlockers
    <2> QED
        BY <2>1, <2>2 DEF Present, BlocksResult
<1>5. UsedOf(q.sea) \in 75..100
    <2>1. "wave" \in Present(q.sea) /\ "wind" \in Present(q.sea)
        BY <1>4 DEF Required
    <2> QED
        BY <2>1 DEF UsedOf, Total, Weight
<1>6. HazardOf(q.boat, q.sea) \in Nat
    <2>1. WorseSea(q.sea, q.sea)
        <3>1. \A d \in Present(q.sea) : q.sea[d].value \in Int
            BY AskedFacts
        <3> QED
            BY <3>1 DEF WorseSea, Rougher
    <2>2. NoBetterFound(q.boat, q.boat)
        BY AskedFacts, NoBoatBeatsItself
    <2> QED
        BY <2>1, <2>2, HazardsInOrder
<1>7. q.reliability >= MinReliability
    BY <1>2, AskedFacts DEF MinReliability
<1> QED
    BY <1>2, <1>3, <1>5, <1>6, <1>7

\* The hazard in thousandths that a score is what is left of.
RiskOf(boat, sea) == Nearest(HazardOf(boat, sea) * 100, UsedOf(sea) * MarginFactor(boat))

LEMMA RiskFacts ==
    ASSUME NEW q \in Questions, Answered(q)
    PROVE  /\ RiskOf(q.boat, q.sea) \in Nat
           /\ HazardOf(q.boat, q.sea) * 100 \in Nat /\ UsedOf(q.sea) * MarginFactor(q.boat) \in Positive
           /\ Score(q.boat, q.sea) = 1000 - Least(1000, RiskOf(q.boat, q.sea))
           /\ ComputeSafetyScore(q).score = Score(q.boat, q.sea)
           /\ ComputeSafetyScore(q).score \in 0..1000
<1> DEFINE h == HazardOf(q.boat, q.sea)  u == UsedOf(q.sea)  m == MarginFactor(q.boat)
<1>1. h \in Nat /\ u \in 75..100 /\ m \in 90..110
    BY ScoreFacts, AskedFacts
<1> HIDE DEF h, u, m
<1>2. h * 100 \in Nat /\ u * m \in Positive
    BY <1>1 DEF Positive
<1>3. Nearest(h * 100, u * m) \in Nat
    <2> DEFINE x == h * 100  y == u * m
    <2>1. x \in Nat /\ y \in Positive
        BY <1>2
    <2> HIDE DEF x, y
    <2>2. x <= x /\ y <= y
        BY <2>1 DEF Positive
    <2>3. Nearest(x, y) \in Nat
        BY <2>1, <2>2, NearestInOrder
    <2> QED
        BY <2>3 DEF x, y
<1>4. RiskOf(q.boat, q.sea) \in Nat
    BY <1>3 DEF RiskOf, h, u, m
<1>5. Score(q.boat, q.sea) = 1000 - Least(1000, RiskOf(q.boat, q.sea))
    BY DEF Score, RiskOf, HazardOf, UsedOf
<1>6. ComputeSafetyScore(q).score = Score(q.boat, q.sea)
    BY ScoreFacts DEF Scored
<1>7. ComputeSafetyScore(q).score \in 0..1000
    BY <1>4, <1>5, <1>6 DEF Least
<1> QED
    BY <1>2, <1>4, <1>5, <1>6, <1>7 DEF h, u, m

LEMMA WorseNeverHigher ==
    ASSUME NEW p \in Questions, NEW q \in Questions,
           ComputeSafetyScore(p).score # None, ComputeSafetyScore(q).score # None,
           WorseSea(p.sea, q.sea), NoBetterFound(q.boat, p.boat),
           MarginFactor(q.boat) <= MarginFactor(p.boat)
    PROVE  ComputeSafetyScore(q).score <= ComputeSafetyScore(p).score
<1>0. Answered(p) /\ Answered(q)
    BY AnsweredIffScored
<1> DEFINE a == HazardOf(p.boat, p.sea) * 100  b == UsedOf(p.sea) * MarginFactor(p.boat)
           c == HazardOf(q.boat, q.sea) * 100  d == UsedOf(q.sea) * MarginFactor(q.boat)
<1>1. a \in Nat /\ c \in Nat /\ b \in Positive /\ d \in Positive
    BY <1>0, RiskFacts
<1>2. a <= c
    BY HazardsInOrder
<1>3. d <= b
    <2> DEFINE u == UsedOf(p.sea)  m == MarginFactor(p.boat)  k == MarginFactor(q.boat)
    <2>1. UsedOf(q.sea) = u
        BY HazardsInOrder
    <2>2. u \in 75..100 /\ m \in 90..110 /\ k \in 90..110 /\ k <= m
        BY <1>0, ScoreFacts, AskedFacts
    <2> HIDE DEF u, m, k
    <2>3. u * k <= u * m
        BY <2>2
    <2> QED
        BY <2>1, <2>3 DEF u, m, k
<1> HIDE DEF a, b, c, d
<1>4. Nearest(a, b) \in Nat /\ Nearest(a, b) <= Nearest(c, d)
    BY <1>1, <1>2, <1>3, NearestInOrder
<1>5. RiskOf(p.boat, p.sea) = Nearest(a, b) /\ RiskOf(q.boat, q.sea) = Nearest(c, d)
    BY DEF RiskOf, a, b, c, d
<1>6. RiskOf(p.boat, p.sea) \in Nat /\ RiskOf(q.boat, q.sea) \in Nat
    BY <1>0, RiskFacts
<1>7. /\ ComputeSafetyScore(p).score = 1000 - Least(1000, RiskOf(p.boat, p.sea))
      /\ ComputeSafetyScore(q).score = 1000 - Least(1000, RiskOf(q.boat, q.sea))
    BY <1>0, RiskFacts
<1> QED
    BY <1>4, <1>5, <1>6, <1>7 DEF Least

\* Trusting the forecast less blocks nothing new but the answer itself, and
\* widens the interval on both sides.
LEMMA LessReliableWider ==
    ASSUME NEW p \in Questions, NEW q \in Questions, q.sea = p.sea, q.boat = p.boat,
           q.reliability < p.reliability, ComputeSafetyScore(q).score # None
    PROVE  /\ ComputeSafetyScore(p).score # None
           /\ ComputeSafetyScore(q).lower <= ComputeSafetyScore(p).lower
           /\ ComputeSafetyScore(p).upper <= ComputeSafetyScore(q).upper
<1>0. Answered(q)
    BY AnsweredIffScored
<1>1. p.reliability \in 0..100 /\ q.reliability \in 0..100
    BY AskedFacts
<1>2. /\ MissingBlockers(p.sea) = {} /\ StaleBlockers(p.sea) = {} /\ ~(p.reliability < MinReliability)
      /\ ComputeSafetyScore(q) = Scored(p.boat, p.sea, q.reliability)
    <2>1. MissingBlockers(p.sea) = {} /\ q.reliability >= MinReliability
        BY <1>0, ScoreFacts
    <2>2. StaleBlockers(p.sea) = {}
        BY <2>1 DEF StaleBlockers, MissingBlockers
    <2>3. ~(p.reliability < MinReliability)
        BY <1>1, <2>1 DEF MinReliability
    <2> QED
        BY <1>0, <2>1, <2>2, <2>3, ScoreFacts
<1>a. Answered(p)
    BY <1>2 DEF Answered
<1>3. ComputeSafetyScore(p) = Scored(p.boat, p.sea, p.reliability)
    BY <1>a, AnsweredIffScored
<1> DEFINE s == Score(p.boat, p.sea)  missing == 100 - UsedOf(p.sea)
           x == SpreadOf(p.boat, p.reliability, missing)  y == SpreadOf(p.boat, q.reliability, missing)
<1>4. s \in 0..1000
    BY <1>a, RiskFacts
<1>5. missing \in 0..25
    <2>1. UsedOf(p.sea) \in 75..100
        BY <1>a, ScoreFacts
    <2> QED
        BY <2>1
<1>6. /\ ComputeSafetyScore(p).score = s
      /\ ComputeSafetyScore(p).lower = Most(0, s - x) /\ ComputeSafetyScore(p).upper = Least(1000, s + x)
      /\ ComputeSafetyScore(q).lower = Most(0, s - y) /\ ComputeSafetyScore(q).upper = Least(1000, s + y)
    BY <1>2, <1>3 DEF Scored, UsedOf
<1>7. x \in Int /\ y \in Int /\ x <= y
    <2>1. \A m \in 0..25, i, j \in 0..100 :
            j < i => /\ 30 + ((100 - i) * 5) \div 2 + 2 * m <= 30 + ((100 - j) * 5) \div 2 + 2 * m
                     /\ 30 + ((100 - i) * 5) \div 2 + 2 * m \in Int
                     /\ 30 + ((100 - j) * 5) \div 2 + 2 * m \in Int
        OBVIOUS
    <2> HIDE DEF missing
    <2>2. /\ 30 + ((100 - p.reliability) * 5) \div 2 + 2 * missing
                <= 30 + ((100 - q.reliability) * 5) \div 2 + 2 * missing
          /\ 30 + ((100 - p.reliability) * 5) \div 2 + 2 * missing \in Int
          /\ 30 + ((100 - q.reliability) * 5) \div 2 + 2 * missing \in Int
        BY <1>1, <1>5, <2>1
    <2> QED
        BY <2>2 DEF SpreadOf
<1> HIDE DEF s, x, y
<1>8. s # None
    BY <1>4, KernelAssumption DEF KernelAssumption
<1> QED
    BY <1>4, <1>6, <1>7, <1>8 DEF Most, Least

\* A margin is worth a tenth either way: three hundred points are out of its
\* reach.
LEMMA AvoidStaysUnsafe ==
    ASSUME NEW p \in Questions, NEW q \in Questions, q.sea = p.sea, Thresholds(q.boat) = Thresholds(p.boat),
           ComputeSafetyScore(p).band = "avoid"
    PROVE  ComputeSafetyScore(q).band # "safe"
<1>1. Answered(p)
    BY AnsweredIffScored, KernelAssumption DEF KernelAssumption
<1>2. CASE ~Answered(q)
    BY <1>2, AnsweredIffScored, KernelAssumption DEF KernelAssumption
<1>3. CASE Answered(q)
    <2> DEFINE h == HazardOf(p.boat, p.sea)  u == UsedOf(p.sea)
               m == MarginFactor(p.boat)  k == MarginFactor(q.boat)
               a == h * 100  b == u * m  d == u * k
    <2>1. h \in Nat /\ u \in 75..100 /\ m \in 90..110 /\ k \in 90..110
        BY <1>1, ScoreFacts, AskedFacts
    <2>2. HazardOf(q.boat, q.sea) = h /\ UsedOf(q.sea) = u
        <3>1. \A v \in {"wave", "wind", "period", "squall"} : \A x :
                 DriverHazard(q.boat, v, x) = DriverHazard(p.boat, v, x)
            BY DEF DriverHazard
        <3>2. \A v \in Present(p.sea) : v \in {"wave", "wind", "period", "squall"}
            BY AskedFacts, DriverNames
        <3> QED
            BY <3>1, <3>2 DEF HazardOf, UsedOf
    <2>3. RiskOf(p.boat, p.sea) = Nearest(a, b) /\ RiskOf(q.boat, q.sea) = Nearest(a, d)
        BY <2>2 DEF RiskOf
    <2>4. 600 < RiskOf(p.boat, p.sea)
        <3>1. ComputeSafetyScore(p).band = BandFor(Score(p.boat, p.sea))
            BY <1>1, AnsweredIffScored DEF Scored
        <3>2. RiskOf(p.boat, p.sea) \in Nat /\ Score(p.boat, p.sea) = 1000 - Least(1000, RiskOf(p.boat, p.sea))
            BY <1>1, RiskFacts
        <3>3. Score(p.boat, p.sea) < 400
            BY <3>1, <3>2 DEF BandFor, Least
        <3> QED
            BY <3>2, <3>3 DEF Least
    <2>5. a \in Nat /\ b \in Positive /\ d \in Positive /\ 9 * d <= 11 * b
        <3> HIDE DEF h, u, m, k
        <3>1. a \in Nat /\ b \in Positive /\ d \in Positive
            BY <2>1 DEF Positive
        <3>2. 9 * k <= 11 * m
            BY <2>1
        <3>3. u * (9 * k) <= u * (11 * m)
            BY <2>1, <3>2
        <3>4. u * (9 * k) = 9 * d /\ u * (11 * m) = 11 * b
            BY <2>1
        <3> QED
            BY <3>1, <3>3, <3>4
    <2> HIDE DEF a, b, d
    <2>6. 300 < Nearest(a, d)
        <3>1. 2 * a + b \in Nat /\ 2 * b \in Positive /\ 2 * a + d \in Nat /\ 2 * d \in Positive
            BY <2>5 DEF Positive
        <3>2. /\ (2 * a + b) \div (2 * b) \in Nat
              /\ (2 * b) * ((2 * a + b) \div (2 * b)) <= 2 * a + b
            BY <3>1, DivisionBounds
        <3>3. 601 <= (2 * a + b) \div (2 * b)
            BY <2>3, <2>4, <3>2 DEF Nearest
        <3>4. 1202 * b <= 2 * a + b
            <4>1. \A x \in Positive, y \in Nat : 601 <= y => 601 * x <= x * y
                BY DEF Positive
            <4>2. 601 * (2 * b) <= (2 * b) * ((2 * a + b) \div (2 * b))
                BY <3>1, <3>2, <3>3, <4>1
            <4> QED
                BY <2>5, <3>2, <4>2 DEF Positive
        <3>5. 301 * (2 * d) <= 2 * a + d
            BY <2>5, <3>4 DEF Positive
        <3>6. 301 <= (2 * a + d) \div (2 * d)
            BY <3>1, <3>5, BelowQuotient
        <3> QED
            BY <3>1, <3>6, DivisionBounds DEF Nearest
    <2>7. Score(q.boat, q.sea) < 700
        <3>1. RiskOf(q.boat, q.sea) \in Nat /\ Score(q.boat, q.sea) = 1000 - Least(1000, RiskOf(q.boat, q.sea))
            BY <1>3, RiskFacts
        <3> QED
            BY <2>3, <2>6, <3>1 DEF Least
    <2>8. ComputeSafetyScore(q).band = BandFor(Score(q.boat, q.sea))
        BY <1>3, AnsweredIffScored DEF Scored
    <2>9. Score(q.boat, q.sea) \in Int
        <3>1. ComputeSafetyScore(q).score = Score(q.boat, q.sea) /\ ComputeSafetyScore(q).score \in 0..1000
            BY <1>3, RiskFacts
        <3> QED
            BY <3>1
    <2> QED
        BY <2>7, <2>8, <2>9 DEF BandFor
<1> QED
    BY <1>2, <1>3

KernelInv == asked \in Questions /\ verdict = ComputeSafetyScore(asked)

LEMMA KernelInvariance == KernelSpec => []KernelInv
<1>1. KernelInit => KernelInv
    BY DEF KernelInit, KernelInv
<1>2. KernelInv /\ [Ask]_kernelVars => KernelInv'
    BY DEF KernelInv, Ask, kernelVars
<1> QED
    BY <1>1, <1>2, PTL DEF KernelSpec

\* What an assessment and the one after it owe each other.
StepIsMonotone ==
    /\ (/\ verdict.score # None /\ verdict'.score # None
        /\ WorseSea(asked.sea, asked'.sea)
        /\ NoBetterFound(asked'.boat, asked.boat)
        /\ MarginFactor(asked'.boat) <= MarginFactor(asked.boat))
       => verdict'.score <= verdict.score
    /\ (/\ asked'.sea = asked.sea /\ asked'.boat = asked.boat
        /\ asked'.reliability < asked.reliability /\ verdict'.score # None)
       => /\ verdict.score # None
          /\ verdict'.lower <= verdict.lower /\ verdict.upper <= verdict'.upper
    /\ (/\ asked'.sea = asked.sea /\ Thresholds(asked'.boat) = Thresholds(asked.boat)
        /\ verdict.band = "avoid")
       => verdict'.band # "safe"

LEMMA AskIsMonotone ==
    ASSUME KernelInv, Ask
    PROVE  StepIsMonotone
<1>1. asked \in Questions /\ verdict = ComputeSafetyScore(asked)
    BY DEF KernelInv
<1>2. asked' \in Questions /\ verdict' = ComputeSafetyScore(asked')
    BY DEF Ask
<1> QED
    BY <1>1, <1>2, WorseNeverHigher, LessReliableWider, AvoidStaysUnsafe DEF StepIsMonotone

\* For every boat, judged by its class or by thresholds of its own, and every
\* reading of every driver: nothing that makes the passage worse, or less
\* certain, makes it look better.
THEOREM ScoreTheorem == KernelSpec => ScoreIsMonotone
<1>1. KernelInv /\ Ask => StepIsMonotone
    BY AskIsMonotone
<1>2. KernelSpec => WorseSeaNeverScoresHigher
    BY <1>1, KernelInvariance, PTL DEF KernelSpec, StepIsMonotone, WorseSeaNeverScoresHigher
<1>3. KernelSpec => LessReliableIsLessSure
    BY <1>1, KernelInvariance, PTL DEF KernelSpec, StepIsMonotone, LessReliableIsLessSure
<1>4. KernelSpec => AvoidIsNeverMarginedAway
    BY <1>1, KernelInvariance, PTL DEF KernelSpec, StepIsMonotone, AvoidIsNeverMarginedAway
<1> QED
    BY <1>2, <1>3, <1>4 DEF ScoreIsMonotone

-----------------------------------------------------------------------------
(* Drift towards the boundary.                                             *)

Band == {"crossed", "red", "amber", "clear"}
Proximity == [at : Nat, side : Sides, band : Band]

Across(p, t) == SideAt(p, t) # SideToKeep(p)

\* The boat is across at t, some sample saw it across, and none before t did.
SeenFrom(p, samples, t) ==
    /\ Across(p, t)
    /\ \E i \in DOMAIN samples : Across(p, samples[i].at)
    /\ \A i \in DOMAIN samples : Across(p, samples[i].at) => t <= samples[i].at

\* Across at the end of the span, and not at its beginning.
SpanOK(p, samples, s) ==
    /\ s \in [low : Nat, high : Nat] /\ s.low <= s.high
    /\ SeenFrom(p, samples, s.high)
    /\ s.high = 0 \/ ~Across(p, s.low)

CrossingOK(p, samples, c) ==
    /\ c \in Nat /\ SeenFrom(p, samples, c)
    /\ c = 0 \/ \E t \in Nat : t <= c /\ c <= t + Tolerance /\ ~Across(p, t)

SampleOK(p, i, sample) ==
    /\ sample \in Proximity /\ sample.at = (i - 1) * StepSeconds /\ sample.at <= Horizon
    /\ (sample.band = "crossed") <=> Across(p, sample.at)

FoundOK(p, samples, s, c) ==
    /\ s # None => c = None /\ SpanOK(p, samples, s)
    /\ s = None /\ c # None => CrossingOK(p, samples, c)
    /\ s = None /\ c = None => \A i \in DOMAIN samples : ~Across(p, samples[i].at)

DriftInv ==
    /\ passage \in Passages /\ done \in BOOLEAN
    /\ track \in Seq(Proximity) /\ elapsed \in Nat /\ elapsed = Len(track) * StepSeconds
    /\ \A i \in DOMAIN track : SampleOK(passage, i, track[i])
    /\ FoundOK(passage, track, span, crossing)
    /\ done => span = None /\ elapsed > Horizon

LEMMA SidesOfAPassage ==
    ASSUME NEW p \in Passages, NEW t
    PROVE  SideAt(p, t) \in Sides /\ SideToKeep(p) \in Sides
BY PassagesAssumption DEF PassagesAssumption, SideAt, SideToKeep, Opposite, Sides

LEMMA ProximityIsOne ==
    ASSUME NEW p \in Passages, NEW t \in Nat
    PROVE  /\ ProximityAt(p, t) \in Proximity /\ ProximityAt(p, t).at = t
           /\ (ProximityAt(p, t).band = "crossed") <=> Across(p, t)
BY SidesOfAPassage DEF ProximityAt, Proximity, WarningBand, Band, Across

\* A further sample, no earlier than the ones before it, leaves what was first
\* seen first.
LEMMA LaterSampleKeeps ==
    ASSUME NEW p, NEW samples \in Seq(Proximity), NEW new \in Proximity, NEW t \in Nat,
           \A i \in DOMAIN samples : samples[i].at <= new.at,
           SeenFrom(p, samples, t)
    PROVE  SeenFrom(p, Append(samples, new), t)
<1> DEFINE n == Len(samples)  more == Append(samples, new)
<1>1. /\ n \in Nat /\ DOMAIN samples = 1..n /\ DOMAIN more = 1..(n + 1)
      /\ more[n + 1] = new /\ \A i \in 1..n : more[i] = samples[i] /\ samples[i] \in Proximity
    BY AppendProperties
<1>2. PICK i \in 1..n : Across(p, samples[i].at) /\ t <= samples[i].at
    BY <1>1 DEF SeenFrom
<1>3. t <= new.at
    BY <1>1, <1>2 DEF Proximity
<1>4. i \in 1..(n + 1) /\ more[i] = samples[i]
    BY <1>1
<1>5. \A j \in 1..(n + 1) : j \in 1..n \/ j = n + 1
    BY <1>1
<1> HIDE DEF more
<1>6. \A j \in 1..n : Across(p, samples[j].at) => t <= samples[j].at
    BY <1>1 DEF SeenFrom
<1>7. \A j \in 1..(n + 1) : Across(p, more[j].at) => t <= more[j].at
    BY <1>1, <1>3, <1>5, <1>6
<1>8. \E j \in 1..(n + 1) : Across(p, more[j].at)
    BY <1>2, <1>4
<1>9. Across(p, t)
    BY DEF SeenFrom
<1>10. SeenFrom(p, more, t)
    BY <1>1, <1>7, <1>8, <1>9 DEF SeenFrom
<1> QED
    BY <1>10 DEF more

LEMMA SampleKeeps ==
    ASSUME DriftInv, Sample
    PROVE  DriftInv'
<1> DEFINE n == Len(track)  new == ProximityAt(passage, elapsed)
<1>1. n \in Nat /\ DOMAIN track = 1..n /\ track \in Seq(Proximity)
    BY DEF DriftInv
<1>2. passage \in Passages /\ elapsed \in Nat /\ elapsed = n * StepSeconds /\ elapsed <= Horizon
    BY DEF DriftInv, Sample
<1>3. /\ track' = Append(track, new) /\ elapsed' = elapsed + StepSeconds
      /\ passage' = passage /\ crossing' = crossing /\ done' = done /\ ~done /\ span = None
      /\ span' = IF crossing = None /\ Across(passage, elapsed) THEN [low |-> Before, high |-> elapsed] ELSE None
    BY DEF Sample, Across
<1>4. new \in Proximity /\ new.at = elapsed /\ ((new.band = "crossed") <=> Across(passage, elapsed))
    BY <1>2, ProximityIsOne
<1> HIDE DEF new
<1>5. /\ track' \in Seq(Proximity) /\ Len(track') = n + 1 /\ DOMAIN track' = 1..(n + 1)
      /\ track'[n + 1] = new /\ \A i \in 1..n : track'[i] = track[i]
    BY <1>1, <1>3, <1>4, AppendProperties
<1>6. StepSeconds \in Nat /\ Horizon \in Nat /\ Tolerance \in Nat
    BY DriftAssumption DEF DriftAssumption
<1>7. elapsed' \in Nat /\ elapsed' = Len(track') * StepSeconds
    BY <1>1, <1>2, <1>3, <1>5, <1>6
<1>8. \A i \in 1..n : SampleOK(passage, i, track[i])
    BY <1>1 DEF DriftInv
<1>9. SampleOK(passage, n + 1, new)
    BY <1>1, <1>2, <1>4 DEF SampleOK
<1>10. \A j \in 1..(n + 1) : j \in 1..n \/ j = n + 1
    BY <1>1
<1>11. \A j \in 1..(n + 1) : SampleOK(passage, j, track'[j])
    BY <1>5, <1>8, <1>9, <1>10
<1>12. \A i \in 1..n : track[i].at <= elapsed /\ track[i].at \in Nat
    <2>1. \A i \in 1..n : (i - 1) * StepSeconds <= n * StepSeconds /\ (i - 1) * StepSeconds \in Nat
        BY <1>1, <1>6
    <2> QED
        BY <1>1, <1>2, <1>8, <2>1 DEF SampleOK
<1>13. ASSUME NEW t \in Nat, SeenFrom(passage, track, t)
       PROVE  SeenFrom(passage, track', t)
    <2>1. \A i \in DOMAIN track : track[i].at <= new.at
        BY <1>1, <1>4, <1>12
    <2> QED
        BY <1>1, <1>3, <1>4, <1>13, <2>1, LaterSampleKeeps
<1>14. FoundOK(passage, track', span', crossing')
    <2>1. CASE crossing # None
        <3>1. CrossingOK(passage, track, crossing)
            BY <1>3, <2>1 DEF DriftInv, FoundOK
        <3>2. CrossingOK(passage, track', crossing)
            BY <1>13, <3>1 DEF CrossingOK
        <3> QED
            BY <1>3, <2>1, <3>2 DEF FoundOK
    <2>2. CASE crossing = None /\ ~Across(passage, elapsed)
        <3>1. \A i \in 1..n : ~Across(passage, track[i].at)
            BY <1>1, <1>3, <2>2 DEF DriftInv, FoundOK
        <3>2. \A j \in 1..(n + 1) : ~Across(passage, track'[j].at)
            BY <1>4, <1>5, <1>10, <2>2, <3>1
        <3> QED
            BY <1>3, <1>5, <2>2, <3>2 DEF FoundOK
    <2>3. CASE crossing = None /\ Across(passage, elapsed)
        <3> DEFINE s == [low |-> Before, high |-> elapsed]
        <3>1. span' = s /\ crossing' = None
            BY <1>3, <2>3
        <3>2. \A i \in 1..n : ~Across(passage, track[i].at)
            BY <1>1, <1>3, <2>3 DEF DriftInv, FoundOK
        <3>3. SeenFrom(passage, track', elapsed)
            <4>1. n + 1 \in 1..(n + 1)
                BY <1>1
            <4>2. \A j \in 1..(n + 1) : Across(passage, track'[j].at) => elapsed <= track'[j].at
                BY <1>2, <1>4, <1>5, <1>10, <3>2
            <4> QED
                BY <1>4, <1>5, <2>3, <4>1, <4>2 DEF SeenFrom
        <3>4. Before \in Nat /\ Before <= elapsed /\ (elapsed = 0 \/ ~Across(passage, Before))
            <4>1. CASE track = <<>>
                <5>1. elapsed = 0
                    BY <1>2, <1>6, <4>1
                <5> QED
                    BY <4>1, <5>1 DEF Before
            <4>2. CASE track # <<>>
                <5>1. n \in 1..n /\ Before = track[n].at
                    BY <1>1, <4>2, EmptySeq DEF Before
                <5> QED
                    BY <1>12, <3>2, <5>1
            <4> QED
                BY <4>1, <4>2
        <3>5. SpanOK(passage, track', s)
            BY <1>2, <3>3, <3>4 DEF SpanOK
        <3> HIDE DEF s
        <3>6. s # None
            BY <3>5, PassagesAssumption DEF SpanOK, PassagesAssumption
        <3> QED
            BY <3>1, <3>5, <3>6 DEF FoundOK
    <2> QED
        BY <2>1, <2>2, <2>3
<1> QED
    BY <1>1, <1>2, <1>3, <1>5, <1>7, <1>11, <1>14 DEF DriftInv

LEMMA MiddleOfASpan ==
    ASSUME NEW a \in Nat, NEW b \in Nat, a <= b
    PROVE  (a + b) \div 2 \in Nat /\ a <= (a + b) \div 2 /\ (a + b) \div 2 <= b
OBVIOUS

LEMMA BisectKeeps ==
    ASSUME DriftInv, Bisect
    PROVE  DriftInv'
<1> DEFINE middle == (span.low + span.high) \div 2
<1>1. /\ passage' = passage /\ elapsed' = elapsed /\ track' = track /\ crossing' = crossing
      /\ done' = done /\ span # None
      /\ span' = IF ~Across(passage, middle) THEN [span EXCEPT !.low = middle] ELSE [span EXCEPT !.high = middle]
    BY DEF Bisect, Across
<1>2. crossing = None /\ SpanOK(passage, track, span)
    BY <1>1 DEF DriftInv, FoundOK
<1>3. middle \in Nat /\ span.low <= middle /\ middle <= span.high
    BY <1>2, MiddleOfASpan DEF SpanOK
<1> HIDE DEF middle
<1>4. SpanOK(passage, track, span')
    <2>1. CASE ~Across(passage, middle)
        <3>1. span' \in [low : Nat, high : Nat] /\ span'.low = middle /\ span'.high = span.high
            BY <1>1, <1>2, <1>3, <2>1 DEF SpanOK
        <3> QED
            BY <1>2, <1>3, <2>1, <3>1 DEF SpanOK
    <2>2. CASE Across(passage, middle)
        <3>1. span' \in [low : Nat, high : Nat] /\ span'.low = span.low /\ span'.high = middle
            BY <1>1, <1>2, <1>3, <2>2 DEF SpanOK
        <3>2. SeenFrom(passage, track, middle)
            <4>1. \A i \in DOMAIN track : track[i].at \in Nat
                BY DEF DriftInv, SampleOK, Proximity
            <4> QED
                BY <1>2, <1>3, <2>2, <4>1 DEF SeenFrom, SpanOK
        <3>3. middle = 0 \/ ~Across(passage, span.low)
            BY <1>2, <1>3 DEF SpanOK
        <3> QED
            BY <1>3, <3>1, <3>2, <3>3 DEF SpanOK
    <2> QED
        BY <2>1, <2>2
<1>5. FoundOK(passage, track', span', crossing')
    <2>1. span' # None
        BY <1>4, PassagesAssumption DEF SpanOK, PassagesAssumption
    <2> QED
        BY <1>1, <1>2, <1>4, <2>1 DEF FoundOK
<1> QED
    BY <1>1, <1>5 DEF DriftInv

LEMMA FoundKeeps ==
    ASSUME DriftInv, Found
    PROVE  DriftInv'
<1>1. /\ passage' = passage /\ elapsed' = elapsed /\ track' = track /\ done' = done
      /\ span # None /\ span' = None /\ crossing' = span.high /\ span.high - span.low <= Tolerance
    BY DEF Found
<1>2. SpanOK(passage, track, span)
    BY <1>1 DEF DriftInv, FoundOK
<1>3. span.high \in Nat /\ span.low \in Nat /\ Tolerance \in Nat /\ span.low <= span.high
    BY <1>2, DriftAssumption DEF SpanOK, DriftAssumption
<1>4. CrossingOK(passage, track, crossing')
    <2>1. span.high <= span.low + Tolerance
        BY <1>1, <1>3
    <2> QED
        BY <1>1, <1>2, <1>3, <2>1 DEF SpanOK, CrossingOK
<1>5. crossing' # None
    BY <1>1, <1>3, PassagesAssumption DEF PassagesAssumption
<1>6. FoundOK(passage, track', span', crossing')
    BY <1>1, <1>4, <1>5 DEF FoundOK
<1> QED
    BY <1>1, <1>6 DEF DriftInv

LEMMA DriftInvBegins == DriftInit => DriftInv
<1> SUFFICES ASSUME DriftInit
             PROVE  DriftInv
    OBVIOUS
<1>1. /\ passage \in Passages /\ elapsed = 0 /\ track = <<>> /\ span = None /\ crossing = None
      /\ done = FALSE
    BY DEF DriftInit
<1>2. track \in Seq(Proximity) /\ DOMAIN track = {} /\ Len(track) = 0
    BY <1>1, EmptySeq
<1>3. elapsed = Len(track) * StepSeconds
    BY <1>1, <1>2, DriftAssumption DEF DriftAssumption
<1>4. FoundOK(passage, track, span, crossing)
    BY <1>1, <1>2 DEF FoundOK
<1>5. elapsed \in Nat
    BY <1>1
<1> QED
    BY <1>1, <1>2, <1>3, <1>4, <1>5 DEF DriftInv

LEMMA DriftInvStep == DriftInv /\ [DriftNext]_driftVars => DriftInv'
<1> SUFFICES ASSUME DriftInv, [DriftNext]_driftVars
             PROVE  DriftInv'
    OBVIOUS
<1>1. CASE Sample
    BY <1>1, SampleKeeps
<1>2. CASE Bisect
    BY <1>2, BisectKeeps
<1>3. CASE Found
    BY <1>3, FoundKeeps
<1>4. CASE Report
    BY <1>4 DEF Report, DriftInv
<1>5. CASE UNCHANGED driftVars
    BY <1>5 DEF driftVars, DriftInv
<1> QED
    BY <1>1, <1>2, <1>3, <1>4, <1>5 DEF DriftNext

\* The track, the bracket being bisected and the crossing found always tell the
\* same story of when the boat was first seen across.
THEOREM DriftInvariance == DriftSpec => []DriftInv
BY DriftInvBegins, DriftInvStep, PTL DEF DriftSpec

LEMMA LargerOfZero ==
    ASSUME NEW n \in Int
    PROVE  Max({0, n}) \in Nat /\ n <= Max({0, n}) /\ (Max({0, n}) = 0 \/ Max({0, n}) = n)
BY DEF Max

LEMMA CrossingIsReal == DriftInv => ReportedCrossingIsReal
<1> SUFFICES ASSUME DriftInv, done PROVE ReportedCrossingIsReal
    BY DEF ReportedCrossingIsReal
<1>1. span = None /\ FoundOK(passage, track, span, crossing)
    BY DEF DriftInv
<1>2. \A i \in DOMAIN track : (track[i].band = "crossed") <=> Across(passage, track[i].at)
    BY DEF DriftInv, SampleOK
<1>3. CASE crossing = None
    BY <1>1, <1>2, <1>3 DEF FoundOK, ReportedCrossingIsReal
<1>4. CASE crossing # None
    <2>1. CrossingOK(passage, track, crossing)
        BY <1>1, <1>4 DEF FoundOK
    <2>2. crossing = 0 \/ \E t \in Max({0, crossing - Tolerance})..crossing : ~Away(t)
        <3>1. SUFFICES ASSUME crossing # 0
                       PROVE  \E t \in Max({0, crossing - Tolerance})..crossing : ~Away(t)
            OBVIOUS
        <3>2. PICK t \in Nat : t <= crossing /\ crossing <= t + Tolerance /\ ~Across(passage, t)
            BY <2>1, <3>1 DEF CrossingOK
        <3>3. crossing \in Nat /\ Tolerance \in Nat /\ crossing - Tolerance \in Int
            BY <2>1, DriftAssumption DEF CrossingOK, DriftAssumption
        <3>4. /\ Max({0, crossing - Tolerance}) \in Nat
              /\ Max({0, crossing - Tolerance}) = 0 \/ Max({0, crossing - Tolerance}) = crossing - Tolerance
            BY <3>3, LargerOfZero
        <3>5. t \in Max({0, crossing - Tolerance})..crossing
            BY <3>2, <3>3, <3>4
        <3> QED
            BY <3>2, <3>5 DEF Away, Across
    <2> QED
        BY <1>2, <1>4, <2>1, <2>2 DEF CrossingOK, SeenFrom, Away, Across, ReportedCrossingIsReal
<1> QED
    BY <1>3, <1>4

\* For every course over the line, however often it is crossed: a crossing is
\* reported exactly when a sample was across, the boat is across at it and was
\* not within the tolerance before, and no sample across is earlier.
THEOREM CrossingTheorem == DriftSpec => []ReportedCrossingIsReal
BY CrossingIsReal, DriftInvariance, PTL

\* The course of a boat that keeps to the side it started on, over a line it
\* meets once: it is across from the meeting on.
LEMMA OnceAcross ==
    ASSUME NEW p \in Passages, p.home = None, NEW c, p.line = {c}
    PROVE  c \in Nat /\ \A t \in Nat : Across(p, t) <=> c <= p.speed * t
<1>1. c \in Nat /\ p.speed \in Nat /\ p.start \in Sides
    BY PassagesAssumption DEF PassagesAssumption
<1>2. ASSUME NEW t \in Nat
      PROVE  Across(p, t) <=> c <= p.speed * t
    <2>1. SideToKeep(p) = p.start /\ Opposite(p.start) # p.start
        BY <1>1 DEF SideToKeep, Opposite, Sides
    <2>2. CASE c <= p.speed * t
        <3>1. {d \in p.line : d <= Moved(p, t)} = {c}
            BY <2>2 DEF Moved
        <3>2. Cardinality({c}) = 1
            BY FS_Singleton
        <3>3. 1 % 2 # 0
            OBVIOUS
        <3>4. SideAt(p, t) = Opposite(p.start)
            BY <3>1, <3>2, <3>3 DEF SideAt
        <3> QED
            BY <2>1, <2>2, <3>4 DEF Across
    <2>3. CASE ~(c <= p.speed * t)
        <3>1. {d \in p.line : d <= Moved(p, t)} = {}
            BY <2>3 DEF Moved
        <3>2. Cardinality({}) = 0
            BY FS_EmptySet
        <3>3. 0 % 2 = 0
            OBVIOUS
        <3>4. SideAt(p, t) = p.start
            BY <3>1, <3>2, <3>3 DEF SideAt
        <3> QED
            BY <2>1, <2>3, <3>4 DEF Across
    <2> QED
        BY <2>2, <2>3
<1> QED
    BY <1>1, <1>2

LEMMA OnceAcrossForGood ==
    ASSUME NEW p \in Passages, p.home = None, Cardinality(p.line) = 1,
           NEW t \in Nat, NEW u \in Nat, t <= u, Across(p, t)
    PROVE  Across(p, u)
<1>1. PICK c : p.line = {c}
    BY FS_Singleton, PassagesAssumption DEF PassagesAssumption
<1>2. p.speed \in Nat
    BY PassagesAssumption DEF PassagesAssumption
<1>3. p.speed * t <= p.speed * u
    BY <1>2
<1> QED
    BY <1>1, <1>2, <1>3, OnceAcross

\* When the projection is done, the last moment of the horizon was sampled.
LEMMA TheHorizonIsSampled ==
    ASSUME Horizon % StepSeconds = 0, DriftInv, done
    PROVE  \E i \in DOMAIN track : track[i].at = Horizon
<1> DEFINE k == Horizon \div StepSeconds  n == Len(track)
<1>1. StepSeconds \in Positive /\ Horizon \in Nat
    BY DriftAssumption DEF DriftAssumption, Positive
<1>2. k \in Nat /\ Horizon = StepSeconds * k
    BY <1>1 DEF Positive
<1>3. n \in Nat /\ DOMAIN track = 1..n /\ Horizon < n * StepSeconds
    BY DEF DriftInv
<1> HIDE DEF k
<1>4. k < n
    BY <1>1, <1>2, <1>3 DEF Positive
<1>5. k + 1 \in 1..n
    BY <1>2, <1>3, <1>4
<1>6. track[k + 1].at = ((k + 1) - 1) * StepSeconds
    BY <1>3, <1>5 DEF DriftInv, SampleOK
<1>7. track[k + 1].at = Horizon
    BY <1>1, <1>2, <1>6 DEF Positive
<1> QED
    BY <1>3, <1>5, <1>7

LEMMA LeastElement ==
    ASSUME NEW T \in SUBSET Nat, T # {}
    PROVE  \E n \in T : \A m \in T : n <= m
<1>1. PICK n \in T : \A m \in T : <<m, n>> \notin OpToRel(<, Nat)
    BY NatLessThanWellFounded, WFMin
<1>2. \A m \in T : ~(m < n)
    BY <1>1 DEF OpToRel
<1> QED
    BY <1>2

LEMMA LeastMoment ==
    ASSUME NEW S \in SUBSET Nat, S # {}
    PROVE  Min(S) \in S /\ \A t \in S : Min(S) <= t
<1>1. PICK t \in S : \A u \in S : t <= u
    BY LeastElement
<1> QED
    BY <1>1 DEF Min

LEMMA SingleIsForeseen ==
    ASSUME Horizon % StepSeconds = 0
    PROVE  DriftInv => SingleCrossingIsForeseen
<1> DEFINE first == {t \in 0..Horizon : Away(t)}
<1> SUFFICES ASSUME DriftInv, done, passage.home = None, Cardinality(passage.line) = 1
             PROVE  IF first = {} THEN crossing = None
                    ELSE crossing # None /\ Gap(crossing, Min(first)) <= Tolerance
    BY DEF SingleCrossingIsForeseen
<1>1. passage \in Passages /\ span = None /\ FoundOK(passage, track, span, crossing)
    BY DEF DriftInv
<1>2. Horizon \in Nat /\ Tolerance \in Nat
    BY DriftAssumption DEF DriftAssumption
<1>3. \A t : t \in first <=> t \in Nat /\ t <= Horizon /\ Across(passage, t)
    BY <1>2 DEF Away, Across
<1> HIDE DEF first
<1>4. ASSUME crossing # None
      PROVE  CrossingOK(passage, track, crossing) /\ crossing \in first
    <2>1. CrossingOK(passage, track, crossing)
        BY <1>1, <1>4 DEF FoundOK
    <2>2. PICK i \in DOMAIN track : crossing <= track[i].at
        BY <2>1 DEF CrossingOK, SeenFrom
    <2>3. track[i].at \in Nat /\ track[i].at <= Horizon
        BY DEF DriftInv, SampleOK, Proximity
    <2> QED
        BY <1>2, <1>3, <2>1, <2>2, <2>3 DEF CrossingOK, SeenFrom
<1>5. CASE first = {}
    BY <1>4, <1>5
<1>6. CASE first # {}
    <2> DEFINE m == Min(first)
    <2>1. m \in first /\ \A t \in first : m <= t
        <3>1. first \in SUBSET Nat
            BY <1>3
        <3> QED
            BY <1>6, <3>1, LeastMoment
    <2> HIDE DEF m
    <2>2. m \in Nat /\ m <= Horizon /\ Across(passage, m)
        BY <1>3, <2>1
    <2>3. Across(passage, Horizon)
        BY <1>1, <1>2, <2>2, OnceAcrossForGood
    <2>4. crossing # None
        BY <1>1, <2>3, TheHorizonIsSampled DEF FoundOK
    <2>5. CrossingOK(passage, track, crossing) /\ m <= crossing
        BY <1>4, <2>1, <2>4
    <2>6. crossing <= m + Tolerance
        <3>1. CASE crossing = 0
            BY <1>2, <2>2, <3>1
        <3>2. CASE crossing # 0
            <4>1. PICK t \in Nat : t <= crossing /\ crossing <= t + Tolerance /\ ~Across(passage, t)
                BY <2>5, <3>2 DEF CrossingOK
            <4>2. ~(m <= t)
                BY <1>1, <2>2, <4>1, OnceAcrossForGood
            <4> QED
                BY <1>2, <2>2, <2>5, <4>1, <4>2 DEF CrossingOK
        <3> QED
            BY <3>1, <3>2
    <2>7. crossing \in Nat
        BY <2>5 DEF CrossingOK
    <2>8. Gap(crossing, m) <= Tolerance
        BY <1>2, <2>2, <2>5, <2>6, <2>7 DEF Gap
    <2> QED
        BY <1>6, <2>4, <2>8 DEF m
<1> QED
    BY <1>5, <1>6

\* A boat that meets the line once is warned of it, whatever its speed, its
\* distance and the horizon, when the steps end on the horizon: between the
\* last of them and the horizon nothing is looked at.
THEOREM SingleCrossingTheorem ==
    ASSUME Horizon % StepSeconds = 0
    PROVE  DriftSpec => []SingleCrossingIsForeseen
BY SingleIsForeseen, DriftInvariance, PTL


-----------------------------------------------------------------------------
(* Finite sets in an order.                                                *)

Precedes(S, R, x) == {y \in S : <<y, x>> \in R}
Place(S, R, x) == Cardinality(Precedes(S, R, x))

StrictOrder(S, R) ==
    /\ \A x \in S : <<x, x>> \notin R
    /\ \A x, y, z \in S : <<x, y>> \in R /\ <<y, z>> \in R => <<x, z>> \in R
    /\ \A x, y \in S : x = y \/ <<x, y>> \in R \/ <<y, x>> \in R

LEMMA PlaceRises ==
    ASSUME NEW S, NEW R, IsFiniteSet(S), StrictOrder(S, R)
    PROVE  /\ \A x \in S : Place(S, R, x) \in 0..(Cardinality(S) - 1)
           /\ \A x, y \in S : <<x, y>> \in R <=> Place(S, R, x) < Place(S, R, y)
<1>1. Cardinality(S) \in Nat /\ \A x : Precedes(S, R, x) \in SUBSET S
    BY FS_CardinalityType DEF Precedes
<1>2. ASSUME NEW T \in SUBSET S, NEW U \in SUBSET T, U # T
      PROVE  Cardinality(U) \in Nat /\ Cardinality(T) \in Nat /\ Cardinality(U) < Cardinality(T)
    <2>1. IsFiniteSet(T) /\ Cardinality(T) \in Nat
        BY FS_Subset, FS_CardinalityType
    <2>2. IsFiniteSet(U) /\ Cardinality(U) \in Nat
        BY FS_Subset, FS_CardinalityType, <2>1
    <2>3. Cardinality(U) <= Cardinality(T) /\ Cardinality(U) # Cardinality(T)
        BY FS_Subset, <2>1, <1>2
    <2> QED
        BY <2>1, <2>2, <2>3
<1>3. ASSUME NEW x \in S
      PROVE  Place(S, R, x) \in 0..(Cardinality(S) - 1)
    <2>1. Precedes(S, R, x) # S
        BY DEF Precedes, StrictOrder
    <2>2. Place(S, R, x) \in Nat /\ Place(S, R, x) < Cardinality(S)
        BY <1>1, <1>2, <2>1 DEF Place
    <2> QED
        BY <1>1, <2>2
<1>4. ASSUME NEW x \in S, NEW y \in S, <<x, y>> \in R
      PROVE  Place(S, R, x) < Place(S, R, y)
    <2>1. Precedes(S, R, x) \subseteq Precedes(S, R, y)
        BY <1>4 DEF Precedes, StrictOrder
    <2>2. x \in Precedes(S, R, y) /\ x \notin Precedes(S, R, x)
        BY <1>4 DEF Precedes, StrictOrder
    <2> QED
        BY <1>1, <1>2, <2>1, <2>2 DEF Place
<1>5. ASSUME NEW x \in S, NEW y \in S, Place(S, R, x) < Place(S, R, y)
      PROVE  <<x, y>> \in R
    <2>1. Place(S, R, x) \in Int /\ Place(S, R, y) \in Int
        BY <1>1, <1>3
    <2>2. x # y /\ <<y, x>> \notin R
        BY <1>4, <1>5, <2>1
    <2> QED
        BY <2>2 DEF StrictOrder
<1> QED
    BY <1>3, <1>4, <1>5

\* Every place is somebody's.
LEMMA PlacesAreTaken ==
    ASSUME NEW S, NEW R, IsFiniteSet(S), StrictOrder(S, R)
    PROVE  \A i \in 0..(Cardinality(S) - 1) : \E x \in S : Place(S, R, x) = i
<1> DEFINE n == Cardinality(S)
           f == [x \in S |-> Place(S, R, x)]
           P == 0..(n - 1)
<1>1. n \in Nat
    BY FS_CardinalityType
<1>2. IsFiniteSet(P) /\ Cardinality(P) = n
    BY <1>1, FS_Interval
<1>3. f \in [S -> P]
    BY PlaceRises
<1>4. \A x, y \in S : f[x] = f[y] => x = y
    <2>1. \A x, y \in S : x = y \/ f[x] < f[y] \/ f[y] < f[x]
        BY PlaceRises DEF StrictOrder
    <2>2. \A x \in S : f[x] \in Int
        BY <1>1, <1>3
    <2> HIDE DEF f
    <2> QED
        BY <2>1, <2>2
<1>5. f \in Injection(S, P)
    BY <1>3, <1>4, Zenon DEF Injection, IsInjective
<1>6. f \in Surjection(S, P)
    BY <1>2, <1>5, FS_Injection, Zenon
<1>7. \A i \in P : \E x \in S : f[x] = i
    BY <1>6, Zenon DEF Surjection
<1> QED
    BY <1>7

LEMMA ImageOfInjection ==
    ASSUME NEW S, IsFiniteSet(S), NEW f, S \subseteq DOMAIN f,
           \A x, y \in S : f[x] = f[y] => x = y
    PROVE  IsFiniteSet({f[x] : x \in S}) /\ Cardinality({f[x] : x \in S}) = Cardinality(S)
<1> DEFINE T == {f[x] : x \in S}
           g == [x \in S |-> f[x]]
<1>1. g \in [S -> T] /\ \A y \in T : \E x \in S : g[x] = y
    OBVIOUS
<1>2. \A x, y \in S : g[x] = g[y] => x = y
    OBVIOUS
<1> HIDE DEF g, T
<1>3. g \in Bijection(S, T)
    BY <1>1, <1>2, Zenon DEF Bijection, Injection, Surjection, IsInjective
<1> QED
    BY <1>3, FS_Bijection, Zenon DEF ExistsBijection, T

-----------------------------------------------------------------------------
(* The choice of zones.                                                    *)

DistinctIds(S) == \A c, d \in S : c.id = d.id => c = d

ByRank(S, now) == {p \in S \X S : ShownBefore(p[1], p[2], now)}

\* A set of zones in the order of the key.
Sorted(S, now) ==
    [n \in 1..Cardinality(S) |-> CHOOSE c \in S : Place(S, ByRank(S, now), c) = n - 1]

LEMMA SignalIsAnInteger ==
    ASSUME NEW c \in Zone, NEW now \in Int
    PROVE  CatchSignal(c, now) \in Int
<1>1. c.proximity \in Nat \cup {None} /\ c.issued \in Nat \cup {None} /\ c.front \in Int
    BY DEF Zone
<1>2. PfzWeight(c, now) \in Int
    BY <1>1 DEF PfzWeight, FullWeightAge, ZeroWeightAge
<1>3. c.proximity # None => (50 - c.proximity) * PfzWeight(c, now) \in Int
    BY <1>1, <1>2
<1> QED
    BY <1>1, <1>3 DEF CatchSignal

LEMMA RankIsStrict ==
    ASSUME NEW S \in SUBSET Zone, DistinctIds(S), NEW now \in Int
    PROVE  StrictOrder(S, ByRank(S, now))
<1> DEFINE s == [c \in S |-> CatchSignal(c, now)]  d == [c \in S |-> c.id]
<1>1. \A c \in S : s[c] \in Int /\ d[c] \in Int
    BY SignalIsAnInteger DEF Zone
<1>2. \A x, y \in S : <<x, y>> \in ByRank(S, now) <=> (s[x] > s[y] \/ (s[x] = s[y] /\ d[x] < d[y]))
    BY DEF ByRank, ShownBefore
<1>3. \A x, y \in S : d[x] = d[y] => x = y
    BY DEF DistinctIds
<1> HIDE DEF s, d
<1>4. \A x \in S : <<x, x>> \notin ByRank(S, now)
    BY <1>1, <1>2
<1>5. \A x, y, z \in S : <<x, y>> \in ByRank(S, now) /\ <<y, z>> \in ByRank(S, now) => <<x, z>> \in ByRank(S, now)
    BY <1>1, <1>2
<1>6. ASSUME NEW x \in S, NEW y \in S
      PROVE  x = y \/ <<x, y>> \in ByRank(S, now) \/ <<y, x>> \in ByRank(S, now)
    <2>1. s[x] \in Int /\ s[y] \in Int /\ d[x] \in Int /\ d[y] \in Int /\ (d[x] = d[y] => x = y)
        BY <1>1, <1>3
    <2>2. \/ s[x] > s[y] \/ (s[x] = s[y] /\ d[x] < d[y])
          \/ s[y] > s[x] \/ (s[y] = s[x] /\ d[y] < d[x]) \/ x = y
        BY <2>1
    <2> QED
        BY <1>2, <2>2
<1> QED
    BY <1>4, <1>5, <1>6 DEF StrictOrder

\* z holds each zone of S once, at its place.
Arranges(z, S, now) ==
    /\ Cardinality(S) \in Nat /\ Len(z) = Cardinality(S) /\ DOMAIN z = 1..Cardinality(S)
    /\ z = [n \in 1..Cardinality(S) |-> z[n]]
    /\ \A n \in 1..Cardinality(S) : z[n] \in S /\ Place(S, ByRank(S, now), z[n]) = n - 1
    /\ \A c \in S : \E n \in 1..Cardinality(S) : z[n] = c
    /\ \A m, n \in 1..Cardinality(S) : z[m] = z[n] => m = n

LEMMA SortedByPlace ==
    ASSUME NEW S \in SUBSET Zone, IsFiniteSet(S), DistinctIds(S), NEW now \in Int
    PROVE  Arranges(Sorted(S, now), S, now)
<1> DEFINE R == ByRank(S, now)  size == Cardinality(S)  z == Sorted(S, now)
<1>1. size \in Nat /\ StrictOrder(S, R)
    BY FS_CardinalityType, RankIsStrict
<1>2. z = [n \in 1..size |-> CHOOSE c \in S : Place(S, R, c) = n - 1]
    BY DEF Sorted
<1>3. \A c \in S : Place(S, R, c) \in 0..(size - 1)
    BY <1>1, PlaceRises
<1>4. \A c, d \in S : Place(S, R, c) = Place(S, R, d) => c = d
    <2>1. \A c, d \in S : <<c, d>> \in R <=> Place(S, R, c) < Place(S, R, d)
        BY <1>1, PlaceRises
    <2>2. \A c, d \in S : c = d \/ <<c, d>> \in R \/ <<d, c>> \in R
        BY <1>1 DEF StrictOrder
    <2> HIDE DEF R, size
    <2>3. ASSUME NEW c \in S, NEW d \in S, Place(S, R, c) = Place(S, R, d)
          PROVE  c = d
        <3>1. Place(S, R, c) \in 0..(size - 1) /\ Place(S, R, d) \in 0..(size - 1)
            BY <1>3
        <3>2. ~(Place(S, R, c) < Place(S, R, d)) /\ ~(Place(S, R, d) < Place(S, R, c))
            BY <1>1, <2>3, <3>1
        <3> QED
            BY <2>1, <2>2, <3>2
    <2> QED
        BY <2>3, Zenon
<1>5. \A i \in 0..(size - 1) : \E c \in S : Place(S, R, c) = i
    BY <1>1, PlacesAreTaken, Zenon
<1> HIDE DEF R, size, z
<1>6. ASSUME NEW n \in 1..size
      PROVE  z[n] \in S /\ Place(S, R, z[n]) = n - 1
    <2>1. n - 1 \in 0..(size - 1)
        BY <1>1
    <2>2. \E c \in S : Place(S, R, c) = n - 1
        BY <1>5, <2>1
    <2>3. z[n] = CHOOSE c \in S : Place(S, R, c) = n - 1
        BY <1>2
    <2> QED
        BY <2>2, <2>3, Zenon
<1>7. ASSUME NEW c \in S
      PROVE  \E n \in 1..size : z[n] = c
    <2> DEFINE n == Place(S, R, c) + 1
    <2>1. n \in 1..size /\ n - 1 = Place(S, R, c)
        BY <1>1, <1>3
    <2>2. z[n] \in S /\ Place(S, R, z[n]) = n - 1
        BY <1>6, <2>1
    <2>3. z[n] = c
        BY <1>4, <2>1, <2>2
    <2> QED
        BY <2>1, <2>3
<1>8. \A m, n \in 1..size : z[m] = z[n] => m = n
    <2>1. \A m, n \in 1..size : m - 1 = n - 1 => m = n
        BY <1>1
    <2> QED
        BY <1>6, <2>1
<1>9. DOMAIN z = 1..size /\ Len(z) = size /\ z = [n \in 1..size |-> z[n]]
    BY <1>1, <1>2
<1> QED
    BY <1>1, <1>6, <1>7, <1>8, <1>9 DEF R, size, z, Arranges

\* Sorting what stands at distinct places sorts the set of what stands there.
LEMMA InOrderSorts ==
    ASSUME NEW cs, NEW chosen, IsFiniteSet(chosen), chosen \subseteq Int, chosen \subseteq DOMAIN cs,
           \A i, j \in chosen : cs[i] = cs[j] => i = j,
           NEW S \in SUBSET Zone, S = {cs[i] : i \in chosen}, DistinctIds(S), NEW now \in Int
    PROVE  IsFiniteSet(S) /\ InOrder(cs, chosen, now) = Sorted(S, now)
<1> DEFINE R == ByRank(S, now)  size == Cardinality(S)
           z == Sorted(S, now)
           before(i) == {j \in chosen : Ahead(cs, j, i, now)}
<1>1. IsFiniteSet(S) /\ Cardinality(chosen) = size
    BY ImageOfInjection
<1>2. size \in Nat /\ StrictOrder(S, R)
    BY <1>1, FS_CardinalityType, RankIsStrict
<1>3. ASSUME NEW i \in chosen, NEW j \in chosen
      PROVE  Ahead(cs, j, i, now) <=> <<cs[j], cs[i]>> \in R
    <2>1. cs[i] \in S /\ cs[j] \in S
        OBVIOUS
    <2>2. /\ <<cs[j], cs[i]>> \in R <=> ShownBefore(cs[j], cs[i], now)
          /\ <<cs[i], cs[j]>> \in R <=> ShownBefore(cs[i], cs[j], now)
        BY <2>1 DEF ByRank
    <2>3. <<cs[i], cs[i]>> \notin R /\ (cs[i] = cs[j] \/ <<cs[i], cs[j]>> \in R \/ <<cs[j], cs[i]>> \in R)
        BY <1>2, <2>1 DEF StrictOrder
    <2>4. ~(<<cs[i], cs[j]>> \in R /\ <<cs[j], cs[i]>> \in R)
        BY <1>2, <2>1 DEF StrictOrder
    <2>5. CASE i = j
        <3>1. ~(j < i)
            <4>1. i \in Int
                OBVIOUS
            <4> QED
                BY <4>1, <2>5
        <3> QED
            BY <2>2, <2>3, <2>5, <3>1 DEF Ahead
    <2>6. CASE i # j
        <3>1. cs[i] # cs[j]
            BY <2>6
        <3> QED
            BY <2>2, <2>3, <2>4, <3>1 DEF Ahead
    <2> QED
        BY <2>5, <2>6
<1>4. ASSUME NEW i \in chosen
      PROVE  Cardinality(before(i)) = Place(S, R, cs[i])
    <2>1. Precedes(S, R, cs[i]) = {cs[j] : j \in before(i)}
        BY <1>3 DEF Precedes
    <2>2. IsFiniteSet(before(i)) /\ before(i) \subseteq DOMAIN cs
        BY FS_Subset
    <2>3. \A j, k \in before(i) : cs[j] = cs[k] => j = k
        OBVIOUS
    <2> HIDE DEF before
    <2> QED
        BY <2>1, <2>2, <2>3, ImageOfInjection DEF Place
<1>5. /\ DOMAIN z = 1..size
      /\ \A n \in 1..size : z[n] \in S /\ Place(S, R, z[n]) = n - 1
      /\ \A c \in S : \E n \in 1..size : z[n] = c
      /\ z = [n \in 1..size |-> z[n]]
    <2>1. Arranges(z, S, now)
        BY <1>1, SortedByPlace
    <2> QED
        BY <2>1 DEF Arranges
<1>6. InOrder(cs, chosen, now) =
          [n \in 1..Cardinality(chosen) |-> cs[CHOOSE i \in chosen : Cardinality(before(i)) = n - 1]]
    BY DEF InOrder
<1> HIDE DEF R, size, before, z
<1>8. ASSUME NEW n \in 1..size
      PROVE  cs[CHOOSE i \in chosen : Cardinality(before(i)) = n - 1] = z[n]
    <2> DEFINE i0 == CHOOSE i \in chosen : Cardinality(before(i)) = n - 1
    <2>1. PICK i \in chosen : cs[i] = z[n]
        BY <1>5
    <2>2. Cardinality(before(i)) = n - 1
        BY <1>4, <1>5, <2>1
    <2>3. i0 \in chosen /\ Cardinality(before(i0)) = n - 1
        BY <2>2, Zenon
    <2> HIDE DEF i0
    <2>4. cs[i0] \in S /\ Place(S, R, cs[i0]) = n - 1
        BY <1>4, <2>3
    <2>5. PICK m \in 1..size : z[m] = cs[i0]
        BY <1>5, <2>4
    <2>6. m - 1 = n - 1
        BY <1>5, <2>4, <2>5
    <2>7. m = n
        BY <1>2, <2>6
    <2> QED
        BY <2>5, <2>7 DEF i0
<1>9. InOrder(cs, chosen, now) = [n \in 1..size |-> z[n]]
    BY <1>1, <1>6, <1>8, Zenon
<1> QED
    BY <1>1, <1>5, <1>9 DEF z

-----------------------------------------------------------------------------
(* What is not beaten.                                                     *)

AsGood(a, b) == \A i \in 1..4 : a[i] >= b[i]

Frontier(C, now) == {c \in C : ~Beaten(c, C, now)}

LEMMA ObjectivesAreIntegers ==
    ASSUME NEW c \in Zone, NEW now \in Int
    PROVE  DOMAIN Objectives(c, now) = 1..4 /\ \A i \in 1..4 : Objectives(c, now)[i] \in Int
<1>1. CatchSignal(c, now) \in Int /\ c.distance \in Int /\ c.fuel \in Int /\ c.safety \in Int
    BY SignalIsAnInteger DEF Zone
<1> DEFINE s == CatchSignal(c, now)  d == c.distance  f == c.fuel  g == c.safety
<1>2. Objectives(c, now) = <<s, -d, -f, g>>
    BY DEF Objectives
<1> HIDE DEF s, d, f, g
<1> QED
    BY <1>1, <1>2 DEF s, d, f, g

LEMMA DominanceIsStrict ==
    ASSUME NEW S \in SUBSET Zone, NEW now \in Int
    PROVE  LET o == [c \in S |-> Objectives(c, now)] IN
           /\ \A c \in S : ~Dominates(o[c], o[c]) /\ AsGood(o[c], o[c])
           /\ \A a, b, c \in S : AsGood(o[a], o[b]) /\ AsGood(o[b], o[c]) => AsGood(o[a], o[c])
           /\ \A a, b \in S : Dominates(o[a], o[b]) => AsGood(o[a], o[b])
           /\ \A a, b, c \in S : Dominates(o[a], o[b]) /\ Dominates(o[b], o[c]) => Dominates(o[a], o[c])
<1> DEFINE o == [c \in S |-> Objectives(c, now)]
<1>1. \A c \in S : DOMAIN o[c] = 1..4 /\ \A i \in 1..4 : o[c][i] \in Int
    BY ObjectivesAreIntegers
<1> HIDE DEF o
<1>2. \A a, b \in S : Dominates(o[a], o[b]) <=> (\A i \in 1..4 : o[a][i] >= o[b][i]) /\ (\E i \in 1..4 : o[a][i] > o[b][i])
    BY <1>1 DEF Dominates
<1>3. \A c \in S : ~Dominates(o[c], o[c]) /\ AsGood(o[c], o[c])
    BY <1>1, <1>2 DEF AsGood
<1>4. \A a, b, c \in S : AsGood(o[a], o[b]) /\ AsGood(o[b], o[c]) => AsGood(o[a], o[c])
    BY <1>1 DEF AsGood
<1>5. \A a, b \in S : Dominates(o[a], o[b]) => AsGood(o[a], o[b])
    BY <1>2 DEF AsGood
<1>6. ASSUME NEW a \in S, NEW b \in S, NEW c \in S, Dominates(o[a], o[b]), Dominates(o[b], o[c])
      PROVE  Dominates(o[a], o[c])
    <2>1. AsGood(o[a], o[c])
        BY <1>4, <1>5, <1>6
    <2>2. PICK i \in 1..4 : o[a][i] > o[b][i]
        BY <1>2, <1>6
    <2>3. o[b][i] >= o[c][i]
        BY <1>2, <1>6
    <2>4. o[a][i] > o[c][i]
        BY <1>1, <2>2, <2>3
    <2> QED
        BY <1>2, <2>1, <2>4 DEF AsGood
<1> QED
    BY <1>3, <1>4, <1>5, <1>6 DEF o

\* Nothing in the frontier is dominated, and whatever is left out of it falls
\* behind something in it.
LEMMA FrontierHolds ==
    ASSUME NEW C \in SUBSET Zone, IsFiniteSet(C), DistinctIds(C), NEW now \in Int
    PROVE  /\ \A c \in Frontier(C, now), o \in C : ~Dominates(Objectives(o, now), Objectives(c, now))
           /\ \A o \in C : \E c \in Frontier(C, now) : AsGood(Objectives(c, now), Objectives(o, now))
<1> DEFINE ob == [c \in C |-> Objectives(c, now)]
           Over(c) == {e \in C : Dominates(ob[e], ob[c])}
<1>1. /\ \A c \in C : ~Dominates(ob[c], ob[c]) /\ AsGood(ob[c], ob[c])
      /\ \A a, b, c \in C : AsGood(ob[a], ob[b]) /\ AsGood(ob[b], ob[c]) => AsGood(ob[a], ob[c])
      /\ \A a, b \in C : Dominates(ob[a], ob[b]) => AsGood(ob[a], ob[b])
      /\ \A a, b, c \in C : Dominates(ob[a], ob[b]) /\ Dominates(ob[b], ob[c]) => Dominates(ob[a], ob[c])
    BY DominanceIsStrict
<1>2. \A c \in C : ob[c] = Objectives(c, now)
    OBVIOUS
<1> HIDE DEF ob
<1>3. \A c \in C : c \in Frontier(C, now) <=> \A e \in C : ~Dominates(ob[e], ob[c])
    BY <1>1, <1>2 DEF Frontier, Beaten, DistinctIds
<1>4. \A c \in C : IsFiniteSet(Over(c)) /\ Cardinality(Over(c)) \in Nat
    BY FS_Subset, FS_CardinalityType
<1>5. ASSUME NEW o \in C
      PROVE  \E c \in C : c \in Frontier(C, now) /\ AsGood(ob[c], ob[o])
    <2> DEFINE G == {c \in C : AsGood(ob[c], ob[o])}
               T == {Cardinality(Over(c)) : c \in G}
    <2>1. o \in G
        BY <1>1
    <2>2. T \in SUBSET Nat /\ T # {}
        BY <1>4, <2>1
    <2>3. PICK n \in T : \A m \in T : n <= m
        BY <2>2, LeastElement
    <2>4. PICK c \in G : n = Cardinality(Over(c))
        BY <2>3
    <2>5. ASSUME NEW e \in C, Dominates(ob[e], ob[c])
          PROVE  FALSE
        <3>1. e \in G
            BY <1>1, <2>5
        <3>2. Over(e) \subseteq Over(c) /\ e \in Over(c) /\ e \notin Over(e)
            BY <1>1, <2>5
        <3>3. Cardinality(Over(e)) < Cardinality(Over(c))
            <4> HIDE DEF Over, G, T
            <4>1. IsFiniteSet(Over(c)) /\ Cardinality(Over(c)) \in Nat /\ Cardinality(Over(e)) \in Nat
                BY <1>4, <2>5 DEF G
            <4>2. Cardinality(Over(e)) <= Cardinality(Over(c)) /\ Cardinality(Over(e)) # Cardinality(Over(c))
                BY <3>2, <4>1, FS_Subset
            <4> QED
                BY <4>1, <4>2
        <3>4. n <= Cardinality(Over(e)) /\ n \in Nat /\ Cardinality(Over(e)) \in Nat
            BY <1>4, <2>2, <2>3, <3>1
        <3> QED
            BY <2>4, <3>3, <3>4
    <2>6. c \in C /\ c \in Frontier(C, now)
        BY <1>3, <2>5
    <2> QED
        BY <2>6
<1> QED
    BY <1>2, <1>3, <1>5 DEF Frontier

\* The first of the best is one of the best.
LEMMA FirstBestIsBest ==
    ASSUME NEW L \in Nat \ {0}, NEW z, DOMAIN z = 1..L, NEW v \in [1..L -> Int]
    PROVE  \E i \in 1..L : FirstBest(z, v) = z[i] /\ \A j \in 1..L : v[j] <= v[i]
<1> DEFINE D == 1..L
           Over(i) == {j \in D : v[j] > v[i]}
           T == {Cardinality(Over(i)) : i \in D}
           B == {i \in D : \A j \in D : v[j] <= v[i]}
<1>1. IsFiniteSet(D) /\ 1 \in D /\ D \subseteq Nat
    BY FS_Interval
<1>2. \A i \in D : v[i] \in Int
    OBVIOUS
<1>3. \A i \in D : IsFiniteSet(Over(i)) /\ Cardinality(Over(i)) \in Nat
    BY <1>1, FS_Subset, FS_CardinalityType
<1>4. PICK n \in T : \A m \in T : n <= m
    <2>1. T \in SUBSET Nat /\ T # {}
        BY <1>1, <1>3
    <2> QED
        BY <2>1, LeastElement
<1>5. PICK k \in D : n = Cardinality(Over(k))
    BY <1>4
<1> HIDE DEF D
<1>6. ASSUME NEW j \in D
      PROVE  v[j] <= v[k]
    <2>1. CASE v[j] > v[k]
        <3>1. Over(j) \subseteq Over(k) /\ j \in Over(k) /\ j \notin Over(j)
            BY <1>2, <2>1
        <3>2. n <= Cardinality(Over(j))
            BY <1>4
        <3> HIDE DEF Over, T
        <3>3. Cardinality(Over(j)) <= Cardinality(Over(k)) /\ Cardinality(Over(j)) # Cardinality(Over(k))
            BY <1>3, <3>1, FS_Subset
        <3> QED
            BY <1>3, <1>5, <3>2, <3>3
    <2> QED
        BY <1>2, <2>1
<1>7. PICK i \in B : \A j \in B : i <= j
    <2>1. B \in SUBSET Nat /\ k \in B
        BY <1>1, <1>6
    <2> QED
        BY <2>1, LeastElement
<1>8. ASSUME NEW j \in 1..(i - 1)
      PROVE  v[j] < v[i]
    <2>1. j \in D /\ j < i
        BY <1>7 DEF D
    <2>2. j \notin B
        BY <1>1, <1>7, <2>1
    <2>3. PICK m \in D : ~(v[j] >= v[m])
        BY <1>2, <2>1, <2>2
    <2>4. v[m] <= v[i]
        BY <1>7
    <2> QED
        BY <1>2, <1>7, <2>1, <2>3, <2>4
<1> DEFINE First(a) == (\A j \in D : v[j] <= v[a]) /\ (\A j \in 1..(a - 1) : v[j] < v[a])
           f == CHOOSE a \in D : First(a)
<1>9. f \in D /\ First(f)
    <2>1. i \in D /\ First(i)
        BY <1>7, <1>8
    <2> HIDE DEF First
    <2> QED
        BY <2>1, Zenon
<1>10. FirstBest(z, v) = z[f]
    BY DEF FirstBest, D
<1> QED
    BY <1>9, <1>10 DEF D

\* For each of the three aims, W holds something as good as all of F.
MeetsAims(W, F, now) ==
    \A o \in F : /\ \E c \in W : CatchSignal(c, now) >= CatchSignal(o, now)
                 /\ \E c \in W : c.safety >= o.safety
                 /\ \E c \in W : c.fuel <= o.fuel

\* The three that _spread puts first are there, and meet the aims.
LEMMA ExtremesMeetAims ==
    ASSUME NEW F \in SUBSET Zone, NEW now \in Int, NEW z, Arranges(z, F, now), F # {}
    PROVE  LET e == Extremes(z, now) IN
           /\ e = <<e[1], e[2], e[3]>> /\ e[1] \in F /\ e[2] \in F /\ e[3] \in F
           /\ MeetsAims({e[1], e[2], e[3]}, F, now)
<1> DEFINE L == Cardinality(F)
           catch == [i \in DOMAIN z |-> CatchSignal(z[i], now)]
           safe == [i \in DOMAIN z |-> z[i].safety]
           cheap == [i \in DOMAIN z |-> -z[i].fuel]
           e == Extremes(z, now)
<1>1. /\ L \in Nat /\ DOMAIN z = 1..L
      /\ \A n \in 1..L : z[n] \in F
      /\ \A c \in F : \E n \in 1..L : z[n] = c
    BY DEF Arranges
<1>2. L \in Nat \ {0} /\ \A n \in 1..L : z[n] \in Zone
    BY <1>1
<1>3. \A n \in 1..L : CatchSignal(z[n], now) \in Int /\ z[n].safety \in Int /\ z[n].fuel \in Int
    BY <1>2, SignalIsAnInteger DEF Zone
<1>4. catch \in [1..L -> Int] /\ safe \in [1..L -> Int] /\ cheap \in [1..L -> Int]
    BY <1>1, <1>3
<1>5. e = <<FirstBest(z, catch), FirstBest(z, safe), FirstBest(z, cheap)>>
    BY DEF Extremes
<1>6. e = <<e[1], e[2], e[3]>> /\ e[1] = FirstBest(z, catch) /\ e[2] = FirstBest(z, safe) /\ e[3] = FirstBest(z, cheap)
    BY <1>5
<1> HIDE DEF catch, safe, cheap, e, L
<1>7. PICK i \in 1..L : e[1] = z[i] /\ \A j \in 1..L : catch[j] <= catch[i]
    <2>1. \E b \in 1..L : FirstBest(z, catch) = z[b] /\ \A j \in 1..L : catch[j] <= catch[b]
        BY <1>1, <1>2, <1>4, FirstBestIsBest, Zenon
    <2> QED
        BY <1>6, <2>1, Zenon
<1>8. PICK k \in 1..L : e[2] = z[k] /\ \A j \in 1..L : safe[j] <= safe[k]
    <2>1. \E b \in 1..L : FirstBest(z, safe) = z[b] /\ \A j \in 1..L : safe[j] <= safe[b]
        BY <1>1, <1>2, <1>4, FirstBestIsBest, Zenon
    <2> QED
        BY <1>6, <2>1, Zenon
<1>9. PICK m \in 1..L : e[3] = z[m] /\ \A j \in 1..L : cheap[j] <= cheap[m]
    <2>1. \E b \in 1..L : FirstBest(z, cheap) = z[b] /\ \A j \in 1..L : cheap[j] <= cheap[b]
        BY <1>1, <1>2, <1>4, FirstBestIsBest, Zenon
    <2> QED
        BY <1>6, <2>1, Zenon
<1>10. ASSUME NEW o \in F
       PROVE  /\ CatchSignal(e[1], now) >= CatchSignal(o, now)
              /\ e[2].safety >= o.safety
              /\ e[3].fuel <= o.fuel
    <2>1. PICK j \in 1..L : z[j] = o
        BY <1>1
    <2>2. catch[j] <= catch[i] /\ safe[j] <= safe[k] /\ cheap[j] <= cheap[m]
        BY <1>7, <1>8, <1>9
    <2>3. /\ catch[j] = CatchSignal(o, now) /\ catch[i] = CatchSignal(e[1], now)
          /\ safe[j] = o.safety /\ safe[k] = e[2].safety
          /\ cheap[j] = -o.fuel /\ cheap[m] = -e[3].fuel
        BY <1>1, <1>7, <1>8, <1>9, <2>1 DEF catch, safe, cheap
    <2>4. CatchSignal(o, now) \in Int /\ CatchSignal(e[1], now) \in Int /\ o.fuel \in Int /\ e[3].fuel \in Int
          /\ o.safety \in Int /\ e[2].safety \in Int
        BY <1>3, <1>7, <1>8, <1>9, <2>1
    <2> QED
        BY <2>2, <2>3, <2>4
<1>11. MeetsAims({e[1], e[2], e[3]}, F, now)
    BY <1>10 DEF MeetsAims
<1> QED
    BY <1>1, <1>6, <1>7, <1>8, <1>9, <1>11 DEF e

\* _spread shows a part of the frontier, in order; with room for three, the
\* three extremes are in it.
LEMMA SpreadKeepsTheExtremes ==
    ASSUME NEW F \in SUBSET Zone, IsFiniteSet(F), F # {}, DistinctIds(F), NEW now \in Int
    PROVE  \E W \in SUBSET F :
             /\ Spread(Sorted(F, now), now) = Sorted(W, now) /\ IsFiniteSet(W)
             /\ MaxOptions >= 3 => MeetsAims(W, F, now)
<1> DEFINE z == Sorted(F, now)  L == Cardinality(F)  e == Extremes(z, now)
           wanted == e \o z
           before(i) == {wanted[j] : j \in 1..(i - 1)}
           chosen == {i \in DOMAIN wanted : wanted[i] \notin before(i) /\ Cardinality(before(i)) < MaxOptions}
           W == {wanted[i] : i \in chosen}
<1>1. Arranges(z, F, now)
    BY SortedByPlace
<1>2. L \in Nat /\ Len(z) = L /\ DOMAIN z = 1..L /\ \A n \in 1..L : z[n] \in F
    BY <1>1 DEF Arranges
<1>3. /\ e = <<e[1], e[2], e[3]>> /\ e[1] \in F /\ e[2] \in F /\ e[3] \in F
      /\ MeetsAims({e[1], e[2], e[3]}, F, now)
    BY <1>1, ExtremesMeetAims
<1>4. MaxOptions \in Nat \ {0}
    BY ZonesAssumption DEF ZonesAssumption
<1>5. CASE Len(z) <= MaxOptions
    <2>1. Spread(z, now) = z
        BY <1>5 DEF Spread
    <2>2. MeetsAims(F, F, now)
        BY <1>3 DEF MeetsAims
    <2> QED
        BY <2>1, <2>2
<1>6. CASE ~(Len(z) <= MaxOptions)
    <2>1. Spread(z, now) = InOrder(wanted, chosen, now)
        BY <1>6 DEF Spread
    <2>2. z \in Seq(F)
        <3>1. z = [n \in 1..L |-> z[n]]
            BY <1>1 DEF Arranges
        <3> QED
            BY <1>2, <3>1
    <2>3. e \in Seq(F) /\ Len(e) = 3
        <3> DEFINE a == e[1]  b == e[2]  c == e[3]
        <3>1. e = <<a, b, c>> /\ a \in F /\ b \in F /\ c \in F
            BY <1>3
        <3> HIDE DEF a, b, c, e
        <3>2. <<a, b, c>> \in Seq(F) /\ Len(<<a, b, c>>) = 3
            BY <3>1
        <3> QED
            BY <3>1, <3>2
    <2> HIDE DEF z, e, L
    <2>4. wanted \in Seq(F) /\ DOMAIN wanted = 1..(3 + L) /\ wanted[1] = e[1] /\ wanted[2] = e[2] /\ wanted[3] = e[3]
        <3>1. /\ wanted \in Seq(F) /\ Len(wanted) = 3 + L
              /\ \A i \in 1..(3 + L) : wanted[i] = IF i <= 3 THEN e[i] ELSE z[i - 3]
            <4>1. /\ wanted \in Seq(F) /\ Len(wanted) = Len(e) + Len(z)
                  /\ \A i \in 1..(Len(e) + Len(z)) :
                        wanted[i] = IF i <= Len(e) THEN e[i] ELSE z[i - Len(e)]
                BY <2>2, <2>3, ConcatProperties, Zenon
            <4> HIDE DEF wanted
            <4> QED
                BY <1>2, <2>3, <4>1
        <3>2. 1 \in 1..(3 + L) /\ 2 \in 1..(3 + L) /\ 3 \in 1..(3 + L)
            BY <1>2
        <3> HIDE DEF wanted
        <3> QED
            BY <3>1, <3>2
    <2> HIDE DEF wanted
    <2>5. chosen \subseteq DOMAIN wanted /\ chosen \subseteq Int /\ IsFiniteSet(chosen)
        <3>1. IsFiniteSet(1..(3 + L)) /\ 1..(3 + L) \subseteq Int
            BY <1>2, FS_Interval
        <3> HIDE DEF before
        <3> QED
            BY <2>4, <3>1, FS_Subset
    <2>6. \A i, j \in chosen : wanted[i] = wanted[j] => i = j
        <3>1. ASSUME NEW i \in chosen, NEW j \in chosen, wanted[i] = wanted[j], i < j
              PROVE  FALSE
            <4>1. i \in 1..(j - 1)
                BY <2>4, <1>2, <3>1
            <4> QED
                BY <3>1, <4>1
        <3>2. \A i, j \in chosen : i \in Int /\ j \in Int
            BY <2>5
        <3> HIDE DEF chosen
        <3> QED
            BY <3>1, <3>2
    <2>7. W \in SUBSET F /\ W \in SUBSET Zone /\ DistinctIds(W)
        <3> HIDE DEF chosen
        <3>1. \A i \in chosen : wanted[i] \in F
            <4>1. \A i \in DOMAIN wanted : wanted[i] \in F
                <5>1. \A i \in 1..Len(wanted) : wanted[i] \in F
                    BY <2>4, ElementOfSeq
                <5>2. DOMAIN wanted = 1..Len(wanted)
                    BY <2>4
                <5> QED
                    BY <5>1, <5>2
            <4> QED
                BY <2>5, <4>1
        <3>2. W \subseteq F
            BY <3>1
        <3> HIDE DEF W
        <3> QED
            BY <3>2 DEF DistinctIds
    <2>8. IsFiniteSet(W) /\ InOrder(wanted, chosen, now) = Sorted(W, now)
        <3> HIDE DEF chosen
        <3> QED
            BY <2>5, <2>6, <2>7, InOrderSorts
    <2>9. ASSUME MaxOptions >= 3
          PROVE  {e[1], e[2], e[3]} \subseteq W
        <3>1. before(1) = {} /\ before(2) = {e[1]} /\ before(3) = {e[1], e[2]}
            <4>1. 1..(1 - 1) = {} /\ 1..(2 - 1) = {1} /\ 1..(3 - 1) = {1, 2}
                OBVIOUS
            <4> QED
                BY <2>4, <4>1
        <3>2. Cardinality({}) = 0 /\ Cardinality({e[1]}) = 1 /\ Cardinality({e[1], e[2]}) <= 2
            <4>1. Cardinality({}) = 0 /\ Cardinality({e[1]}) = 1 /\ IsFiniteSet({e[1]})
                BY FS_EmptySet, FS_Singleton
            <4>2. {e[1], e[2]} = {e[1]} \cup {e[2]}
                OBVIOUS
            <4>3. Cardinality({e[1]} \cup {e[2]}) = IF e[2] \in {e[1]} THEN 1 ELSE 1 + 1
                <5> DEFINE one == {e[1]}
                <5>1. IsFiniteSet(one) /\ Cardinality(one) = 1
                    BY <4>1
                <5> HIDE DEF one
                <5>2. Cardinality(one \cup {e[2]}) = IF e[2] \in one THEN Cardinality(one) ELSE Cardinality(one) + 1
                    BY <5>1, FS_AddElement
                <5> QED
                    BY <5>1, <5>2 DEF one
            <4> QED
                BY <4>1, <4>2, <4>3
        <3>3. 1 \in DOMAIN wanted /\ 2 \in DOMAIN wanted /\ 3 \in DOMAIN wanted
            BY <1>2, <2>4
        <3> HIDE DEF before
        <3>4. e[1] \in W
            <4>1. Cardinality(before(1)) < MaxOptions /\ wanted[1] \notin before(1)
                BY <2>9, <1>4, <3>1, <3>2
            <4> QED
                BY <2>4, <3>3, <4>1
        <3>5. e[2] \in W
            <4>1. CASE e[2] \in before(2)
                BY <3>1, <3>4, <4>1
            <4>2. CASE e[2] \notin before(2)
                <5>1. Cardinality(before(2)) < MaxOptions
                    BY <2>9, <1>4, <3>1, <3>2
                <5> QED
                    BY <2>4, <3>3, <4>2, <5>1
            <4> QED
                BY <4>1, <4>2
        <3>6. e[3] \in W
            <4>1. CASE e[3] \in before(3)
                BY <3>1, <3>4, <3>5, <4>1
            <4>2. CASE e[3] \notin before(3)
                <5>1. Cardinality(before(3)) \in Nat /\ Cardinality(before(3)) < MaxOptions
                    <6>1. IsFiniteSet({e[1]} \cup {e[2]}) /\ {e[1], e[2]} = {e[1]} \cup {e[2]}
                        <7>1. {e[1], e[2]} = {e[1]} \cup {e[2]} /\ IsFiniteSet({e[1]})
                            BY FS_Singleton
                        <7>2. IsFiniteSet({e[1]} \cup {e[2]})
                            BY <7>1, FS_AddElement, Zenon
                        <7> QED
                            BY <7>1, <7>2
                    <6>2. Cardinality({e[1], e[2]}) \in Nat
                        BY <6>1, FS_CardinalityType
                    <6> QED
                        BY <2>9, <1>4, <3>1, <3>2, <6>2
                <5> QED
                    BY <2>4, <3>3, <4>2, <5>1
            <4> QED
                BY <4>1, <4>2
        <3> QED
            BY <3>4, <3>5, <3>6
    <2>10. MaxOptions >= 3 => MeetsAims(W, F, now)
        <3> HIDE DEF W
        <3> QED
            BY <1>3, <2>9 DEF MeetsAims
    <2> QED
        BY <2>1, <2>7, <2>8, <2>10 DEF z
<1> QED
    BY <1>5, <1>6

-----------------------------------------------------------------------------
(* The ranking.                                                            *)

IsField(cs) == cs \in Seq(Zone) /\ \A i, j \in DOMAIN cs : cs[i].id = cs[j].id => i = j

CompliantAmong(cs) == {c \in ToSet(cs) : c.compliant}

LEMMA CompliantIsFinite ==
    ASSUME NEW cs, IsField(cs)
    PROVE  /\ CompliantAmong(cs) \in SUBSET Zone /\ DistinctIds(CompliantAmong(cs))
           /\ IsFiniteSet(CompliantAmong(cs))
           /\ DOMAIN cs \subseteq Int /\ IsFiniteSet(DOMAIN cs)
           /\ \A i, j \in DOMAIN cs : cs[i] = cs[j] => i = j
<1> DEFINE D == {i \in DOMAIN cs : cs[i].compliant}
<1>1. Len(cs) \in Nat /\ DOMAIN cs = 1..Len(cs) /\ \A i \in 1..Len(cs) : cs[i] \in Zone
    BY ElementOfSeq DEF IsField
<1>2. DOMAIN cs \subseteq Int /\ IsFiniteSet(DOMAIN cs)
    BY <1>1, FS_Interval
<1>3. \A i, j \in DOMAIN cs : cs[i].id = cs[j].id => i = j
    BY DEF IsField
<1>4. CompliantAmong(cs) = {cs[i] : i \in D}
    BY DEF CompliantAmong, ToSet
<1>5. CompliantAmong(cs) \in SUBSET Zone /\ DistinctIds(CompliantAmong(cs))
    <2>1. \A i \in D : i \in DOMAIN cs /\ cs[i] \in Zone
        BY <1>1
    <2>2. \A i, j \in D : cs[i].id = cs[j].id => cs[i] = cs[j]
        BY <1>3
    <2> HIDE DEF D
    <2> QED
        BY <1>4, <2>1, <2>2 DEF DistinctIds
<1>6. IsFiniteSet(CompliantAmong(cs))
    <2>1. IsFiniteSet(D) /\ D \subseteq DOMAIN cs
        BY <1>2, FS_Subset
    <2>2. \A i, j \in D : cs[i] = cs[j] => i = j
        BY <1>3
    <2> HIDE DEF D
    <2> QED
        BY <1>4, <2>1, <2>2, ImageOfInjection
<1> QED
    BY <1>2, <1>3, <1>5, <1>6

LEMMA FrontierInOrder ==
    ASSUME NEW cs, IsField(cs), NEW now \in Int
    PROVE  ParetoFrontier(cs, {i \in DOMAIN cs : cs[i].compliant}, now)
               = Sorted(Frontier(CompliantAmong(cs), now), now)
<1> DEFINE D == {i \in DOMAIN cs : cs[i].compliant}  C == CompliantAmong(cs)  F == Frontier(C, now)
           chosen == {i \in D : ~Beaten(cs[i], C, now)}
<1>1. C = {cs[i] : i \in D}
    BY DEF CompliantAmong, ToSet
<1>2. ParetoFrontier(cs, D, now) = InOrder(cs, {i \in D : ~Beaten(cs[i], {cs[j] : j \in D}, now)}, now)
    BY DEF ParetoFrontier
<1>3. ParetoFrontier(cs, D, now) = InOrder(cs, chosen, now)
    <2> HIDE DEF D, C
    <2> QED
        BY <1>1, <1>2, Zenon
<1>4. F = {cs[i] : i \in chosen}
    <2> HIDE DEF D, C
    <2> QED
        BY <1>1 DEF Frontier
<1>5. /\ C \in SUBSET Zone /\ DistinctIds(C) /\ DOMAIN cs \subseteq Int /\ IsFiniteSet(DOMAIN cs)
      /\ \A i, j \in DOMAIN cs : cs[i] = cs[j] => i = j
    BY CompliantIsFinite
<1>6. F \in SUBSET Zone /\ DistinctIds(F)
    <2> HIDE DEF C
    <2> QED
        BY <1>5 DEF Frontier, DistinctIds
<1>7. chosen \subseteq DOMAIN cs
    OBVIOUS
<1> HIDE DEF D, C, F, chosen
<1>8. IsFiniteSet(chosen) /\ chosen \subseteq Int /\ \A i, j \in chosen : cs[i] = cs[j] => i = j
    BY <1>5, <1>7, FS_Subset
<1>9. InOrder(cs, chosen, now) = Sorted(F, now)
    BY <1>4, <1>6, <1>7, <1>8, InOrderSorts
<1> QED
    BY <1>3, <1>9 DEF D, C, F

\* What is shown depends on which candidates comply, not on how they are listed.
LEMMA RankingShows ==
    ASSUME NEW cs, IsField(cs), NEW now \in Int
    PROVE  LET C == CompliantAmong(cs) IN
           RankFishingZones(cs, now) =
               IF cs = <<>> THEN [reason |-> "insufficient_evidence", zones |-> <<>>]
               ELSE IF C = {} THEN [reason |-> "constraint_violation", zones |-> <<>>]
               ELSE [reason |-> None, zones |-> Spread(Sorted(Frontier(C, now), now), now)]
<1> DEFINE D == {i \in DOMAIN cs : cs[i].compliant}
<1>1. CompliantAmong(cs) = {} <=> D = {}
    BY DEF CompliantAmong, ToSet
<1>2. ParetoFrontier(cs, D, now) = Sorted(Frontier(CompliantAmong(cs), now), now)
    BY FrontierInOrder
<1>3. RankFishingZones(cs, now) =
          IF cs = <<>> THEN [reason |-> "insufficient_evidence", zones |-> <<>>]
          ELSE IF D = {} THEN [reason |-> "constraint_violation", zones |-> <<>>]
          ELSE [reason |-> None, zones |-> Spread(ParetoFrontier(cs, D, now), now)]
    BY DEF RankFishingZones
<1> HIDE DEF D
<1> QED
    BY <1>1, <1>2, <1>3

LEMMA ReversedIsTheSame ==
    ASSUME NEW cs, IsField(cs)
    PROVE  /\ IsField(Reverse(cs)) /\ CompliantAmong(Reverse(cs)) = CompliantAmong(cs)
           /\ Reverse(cs) = <<>> <=> cs = <<>>
<1> DEFINE n == Len(cs)  r == Reverse(cs)
<1>1. n \in Nat /\ DOMAIN cs = 1..n /\ cs \in Seq(Zone) /\ \A i \in 1..n : cs[i] \in Zone
    BY ElementOfSeq DEF IsField
<1>2. r = [i \in 1..n |-> cs[(n - i) + 1]]
    BY DEF Reverse
<1>3. \A i \in 1..n : (n - i) + 1 \in 1..n /\ r[i] = cs[(n - i) + 1] /\ i = (n - ((n - i) + 1)) + 1
    BY <1>1, <1>2
<1>4. DOMAIN r = 1..n
    BY <1>2
<1>5. r \in Seq(Zone)
    BY <1>1, <1>2, <1>3
<1>6. \A i, j \in DOMAIN cs : cs[i].id = cs[j].id => i = j
    BY DEF IsField
<1> HIDE DEF n, r
<1>7. \A i, j \in DOMAIN r : r[i].id = r[j].id => i = j
    <2>1. ASSUME NEW i \in 1..n, NEW j \in 1..n, r[i].id = r[j].id
          PROVE  i = j
        <3>1. (n - i) + 1 = (n - j) + 1
            BY <1>1, <1>3, <1>6, <2>1
        <3> QED
            BY <1>1, <3>1
    <2> QED
        BY <1>4, <2>1
<1>8. {r[i] : i \in 1..n} = {cs[i] : i \in 1..n}
    <2>1. \A i \in 1..n : \E j \in 1..n : r[i] = cs[j]
        BY <1>3
    <2>2. \A j \in 1..n : \E i \in 1..n : r[i] = cs[j]
        <3>1. ASSUME NEW j \in 1..n
              PROVE  \E i \in 1..n : r[i] = cs[j]
            <4> DEFINE i == (n - j) + 1
            <4>1. i \in 1..n /\ (n - i) + 1 = j
                BY <1>1
            <4>2. r[i] = cs[j]
                BY <1>3, <4>1
            <4> QED
                BY <4>1, <4>2
        <3> QED
            BY <3>1
    <2> DEFINE N == 1..n
    <2> HIDE DEF N
    <2>3. {r[i] : i \in N} \subseteq {cs[i] : i \in N}
        BY <2>1, Zenon DEF N
    <2>4. {cs[i] : i \in N} \subseteq {r[i] : i \in N}
        BY <2>2, Zenon DEF N
    <2> QED
        BY <2>3, <2>4 DEF N
<1>9. r = <<>> <=> cs = <<>>
    BY <1>1, <1>2, <1>4, <1>5 DEF n
<1> QED
    BY <1>1, <1>4, <1>5, <1>7, <1>8, <1>9 DEF r, IsField, CompliantAmong, ToSet

\* Whatever candidates there are and whenever they are ranked.
RankedRight(cs, r, now) ==
    LET C == CompliantAmong(cs) IN
    /\ \A c \in ToSet(r.zones) :
          c \in C /\ \A o \in C : ~Dominates(Objectives(o, now), Objectives(c, now))
    /\ MaxOptions >= 3 => MeetsAims(ToSet(r.zones), C, now)
    /\ r = RankFishingZones(Reverse(cs), now)

LEMMA RankingIsRight ==
    ASSUME NEW cs, IsField(cs), NEW now \in Int
    PROVE  RankedRight(cs, RankFishingZones(cs, now), now)
<1> DEFINE C == CompliantAmong(cs)  F == Frontier(C, now)  r == RankFishingZones(cs, now)
<1>1. C \in SUBSET Zone /\ DistinctIds(C) /\ IsFiniteSet(C)
    BY CompliantIsFinite
<1>2. r = IF cs = <<>> THEN [reason |-> "insufficient_evidence", zones |-> <<>>]
          ELSE IF C = {} THEN [reason |-> "constraint_violation", zones |-> <<>>]
          ELSE [reason |-> None, zones |-> Spread(Sorted(F, now), now)]
    BY RankingShows
<1>3. r = RankFishingZones(Reverse(cs), now)
    <2>1. IsField(Reverse(cs)) /\ CompliantAmong(Reverse(cs)) = C /\ (Reverse(cs) = <<>> <=> cs = <<>>)
        BY ReversedIsTheSame
    <2>2. RankFishingZones(Reverse(cs), now) =
              IF Reverse(cs) = <<>> THEN [reason |-> "insufficient_evidence", zones |-> <<>>]
              ELSE IF CompliantAmong(Reverse(cs)) = {} THEN [reason |-> "constraint_violation", zones |-> <<>>]
              ELSE [reason |-> None,
                    zones |-> Spread(Sorted(Frontier(CompliantAmong(Reverse(cs)), now), now), now)]
        BY <2>1, RankingShows
    <2> HIDE DEF C, r
    <2> QED
        BY <1>2, <2>1, <2>2, Zenon
<1> HIDE DEF r
<1>4. ASSUME C = {}
      PROVE  RankedRight(cs, r, now)
    <2>1. ToSet(r.zones) = {}
        BY <1>2, <1>4 DEF ToSet
    <2>2. MeetsAims(ToSet(r.zones), C, now)
        BY <1>4 DEF MeetsAims
    <2> QED
        BY <1>3, <2>1, <2>2 DEF RankedRight
<1>5. ASSUME C # {}
      PROVE  RankedRight(cs, r, now)
    <2>1. cs # <<>>
        BY <1>5 DEF CompliantAmong, ToSet
    <2>2. r.zones = Spread(Sorted(F, now), now)
        BY <1>2, <1>5, <2>1
    <2>3. F \in SUBSET C /\ F \in SUBSET Zone /\ IsFiniteSet(F) /\ DistinctIds(F)
        <3>1. F \in SUBSET C
            BY DEF Frontier
        <3> HIDE DEF F, C
        <3> QED
            BY <1>1, <3>1, FS_Subset DEF DistinctIds
    <2>4. /\ \A c \in F, o \in C : ~Dominates(Objectives(o, now), Objectives(c, now))
          /\ \A o \in C : \E c \in F : AsGood(Objectives(c, now), Objectives(o, now))
        BY <1>1, FrontierHolds
    <2> HIDE DEF C, F
    <2>5. F # {}
        BY <1>5, <2>4
    <2>6. PICK W \in SUBSET F : /\ Spread(Sorted(F, now), now) = Sorted(W, now) /\ IsFiniteSet(W)
                                /\ MaxOptions >= 3 => MeetsAims(W, F, now)
        BY <2>3, <2>5, SpreadKeepsTheExtremes
    <2>7. ToSet(r.zones) = W
        <3>1. Arranges(Sorted(W, now), W, now)
            BY <2>3, <2>6, SortedByPlace DEF DistinctIds
        <3> QED
            BY <2>2, <2>6, <3>1 DEF Arranges, ToSet
    <2>8. ASSUME MaxOptions >= 3
          PROVE  MeetsAims(W, C, now)
        <3>1. ASSUME NEW o \in C
              PROVE  /\ \E c \in W : CatchSignal(c, now) >= CatchSignal(o, now)
                     /\ \E c \in W : c.safety >= o.safety
                     /\ \E c \in W : c.fuel <= o.fuel
            <4>1. PICK f \in F : AsGood(Objectives(f, now), Objectives(o, now))
                BY <2>4
            <4>2. CatchSignal(f, now) >= CatchSignal(o, now) /\ -f.fuel >= -o.fuel /\ f.safety >= o.safety
                <5>1. 1 \in 1..4 /\ 3 \in 1..4 /\ 4 \in 1..4
                    OBVIOUS
                <5>2. /\ Objectives(f, now)[1] >= Objectives(o, now)[1]
                      /\ Objectives(f, now)[3] >= Objectives(o, now)[3]
                      /\ Objectives(f, now)[4] >= Objectives(o, now)[4]
                    BY <4>1, <5>1 DEF AsGood
                <5> QED
                    BY <5>2 DEF Objectives
            <4>3. \A c \in C : CatchSignal(c, now) \in Int /\ c.fuel \in Int /\ c.safety \in Int
                BY <1>1, SignalIsAnInteger DEF Zone
            <4>4. f \in C /\ W \subseteq C
                BY <2>3
            <4>5. /\ \E c \in W : CatchSignal(c, now) >= CatchSignal(f, now)
                  /\ \E c \in W : c.safety >= f.safety
                  /\ \E c \in W : c.fuel <= f.fuel
                BY <2>6, <2>8 DEF MeetsAims
            <4>6. \E c \in W : CatchSignal(c, now) >= CatchSignal(o, now)
                BY <4>2, <4>3, <4>4, <4>5
            <4>7. \E c \in W : c.safety >= o.safety
                BY <4>2, <4>3, <4>4, <4>5
            <4>8. \E c \in W : c.fuel <= o.fuel
                BY <4>2, <4>3, <4>4, <4>5
            <4> QED
                BY <4>6, <4>7, <4>8
        <3> QED
            BY <3>1 DEF MeetsAims
    <2>9. \A c \in ToSet(r.zones) : c \in C /\ \A o \in C : ~Dominates(Objectives(o, now), Objectives(c, now))
        BY <2>3, <2>4, <2>6, <2>7
    <2> QED
        BY <1>3, <2>7, <2>8, <2>9 DEF RankedRight, C
<1> QED
    BY <1>4, <1>5 DEF r

-----------------------------------------------------------------------------
(* The heatwave.                                                           *)

LEMMA InductionSet ==
    ASSUME NEW T, 0 \in T, \A n \in Nat : n \in T => n + 1 \in T
    PROVE  \A n \in Nat : n \in T
<1> DEFINE Rest == {n \in Nat : n \notin T}
<1> SUFFICES ASSUME Rest # {}
             PROVE  FALSE
    OBVIOUS
<1>1. PICK n \in Rest : \A m \in Rest : n <= m
    BY LeastElement
<1>2. n # 0 /\ n - 1 \in Nat /\ ~(n <= n - 1)
    BY <1>1
<1>3. n - 1 \in T
    BY <1>1, <1>2
<1>4. (n - 1) + 1 \in T
    BY <1>2, <1>3
<1> QED
    BY <1>1, <1>2, <1>4

\* f counts the hot days up to each of the first n.
Counts(f, s, n) ==
    f = [i \in 0..n |-> IF i = 0 THEN 0 ELSE IF s[i] THEN f[i - 1] + 1 ELSE 0]

LEMMA CountsExist ==
    ASSUME NEW s
    PROVE  \A n \in Nat : \E f : Counts(f, s, n)
<1> DEFINE T == {n \in Nat : \E f : Counts(f, s, n)}
           one == [i \in 0..0 |-> 0]
<1>1. Counts(one, s, 0)
    <2>1. one = [i \in 0..0 |-> IF i = 0 THEN 0 ELSE IF s[i] THEN one[i - 1] + 1 ELSE 0]
        OBVIOUS
    <2> QED
        BY <2>1 DEF Counts
<1>2. ASSUME NEW n \in Nat, n \in T
      PROVE  n + 1 \in T
    <2>1. PICK f : Counts(f, s, n)
        BY <1>2
    <2>2. DOMAIN f = 0..n /\ \A i \in 0..n : f[i] = IF i = 0 THEN 0 ELSE IF s[i] THEN f[i - 1] + 1 ELSE 0
        BY <2>1 DEF Counts
    <2> DEFINE g == [i \in 0..(n + 1) |-> IF i <= n THEN f[i] ELSE IF s[i] THEN f[n] + 1 ELSE 0]
    <2>3. ASSUME NEW i \in 0..(n + 1)
          PROVE  g[i] = IF i = 0 THEN 0 ELSE IF s[i] THEN g[i - 1] + 1 ELSE 0
        <3>1. CASE i = n + 1
            <4>1. i - 1 = n /\ i # 0 /\ g[n] = f[n] /\ g[i] = IF s[i] THEN f[n] + 1 ELSE 0
                BY <3>1
            <4> QED
                BY <4>1
        <3>2. CASE i \in 0..n
            <4>1. g[i] = f[i] /\ (i # 0 => g[i - 1] = f[i - 1])
                BY <3>2
            <4> QED
                BY <2>2, <3>2, <4>1
        <3> QED
            BY <3>1, <3>2
    <2>4. g = [i \in 0..(n + 1) |-> g[i]]
        OBVIOUS
    <2> HIDE DEF g
    <2>5. Counts(g, s, n + 1)
        BY <2>3, <2>4 DEF Counts
    <2> QED
        BY <2>5
<1> HIDE DEF T
<1>3. \A n \in Nat : n \in T
    <2>1. 0 \in T
        BY <1>1 DEF T
    <2> QED
        BY <1>2, <2>1, InductionSet
<1> QED
    BY <1>3 DEF T

\* The count at a day is the length of the run of hot days that ends with it.
EndsRun(f, s, n) ==
    /\ f[n] \in 0..n
    /\ \A j \in 1..n : j > n - f[n] => s[j]
    /\ f[n] < n => ~s[n - f[n]]

LEMMA StreakEndsRun ==
    ASSUME NEW s \in Seq(BOOLEAN)
    PROVE  \A n \in 0..Len(s) : EndsRun(HotStreak(s), s, n)
<1> DEFINE L == Len(s)  f == HotStreak(s)
<1>1. L \in Nat /\ \A i \in 1..L : s[i] \in BOOLEAN
    BY ElementOfSeq
<1>2. f = CHOOSE g : g = [i \in 0..L |-> IF i = 0 THEN 0 ELSE IF s[i] THEN g[i - 1] + 1 ELSE 0]
    BY DEF HotStreak
<1>3. f = CHOOSE g : Counts(g, s, L)
    BY <1>2 DEF Counts
<1>4. \E g : Counts(g, s, L)
    BY <1>1, CountsExist
<1> HIDE DEF f, L
<1>5. Counts(f, s, L)
    BY <1>3, <1>4, Zenon
<1>6. \A i \in 0..L : f[i] = IF i = 0 THEN 0 ELSE IF s[i] THEN f[i - 1] + 1 ELSE 0
    BY <1>5 DEF Counts
<1> DEFINE T == {n \in Nat : n <= L => EndsRun(f, s, n)}
<1>7. 0 \in T
    BY <1>1, <1>6 DEF EndsRun
<1>8. ASSUME NEW n \in Nat, n \in T
      PROVE  n + 1 \in T
    <2> SUFFICES ASSUME n + 1 <= L
                 PROVE  EndsRun(f, s, n + 1)
        OBVIOUS
    <2>1. EndsRun(f, s, n)
        BY <1>1, <1>8
    <2>2. n + 1 \in 1..L /\ n + 1 \in 0..L /\ (n + 1) - 1 = n
        BY <1>1
    <2>3. f[n + 1] = IF s[n + 1] THEN f[n] + 1 ELSE 0
        BY <1>6, <2>2
    <2>4. CASE s[n + 1]
        <3>1. f[n + 1] = f[n] + 1
            BY <2>3, <2>4
        <3>2. f[n + 1] \in 0..(n + 1) /\ (n + 1) - f[n + 1] = n - f[n]
            BY <2>1, <3>1 DEF EndsRun
        <3>3. \A j \in 1..(n + 1) : j = n + 1 \/ j \in 1..n
            OBVIOUS
        <3> QED
            BY <2>1, <2>4, <3>1, <3>2, <3>3 DEF EndsRun
    <2>5. CASE ~s[n + 1]
        <3>1. f[n + 1] = 0
            BY <2>3, <2>5
        <3> QED
            BY <2>5, <3>1 DEF EndsRun
    <2> QED
        BY <2>4, <2>5
<1> HIDE DEF T
<1>9. \A n \in Nat : n \in T
    BY <1>7, <1>8, InductionSet
<1> QED
    BY <1>1, <1>9 DEF T, f, L

\* Some k consecutive days were hot.
Consecutively(s, k) == \E i \in 0..(Len(s) - k) : \A j \in 1..k : s[i + j]

LEMMA LongestIsLongEnough ==
    ASSUME NEW s \in Seq(BOOLEAN), NEW k \in Nat \ {0}
    PROVE  LongestStreak(s) \in Nat /\ (LongestStreak(s) >= k <=> Consecutively(s, k))
<1> DEFINE L == Len(s)  f == HotStreak(s)  S == {f[n] : n \in 0..L}  m == LongestStreak(s)
<1>1. L \in Nat
    OBVIOUS
<1>2. \A n \in 0..L : EndsRun(f, s, n)
    BY StreakEndsRun
<1>3. m = Max(S)
    BY DEF LongestStreak
<1> HIDE DEF f, L, m
<1>4. \A n \in 0..L : f[n] \in 0..n
    BY <1>2 DEF EndsRun
<1>5. PICK top \in S : \A x \in S : top >= x
    <2> DEFINE T == {L - x : x \in S}
    <2>1. \A x \in S : x \in Nat /\ x <= L
        BY <1>1, <1>4
    <2>2. 0 \in 0..L
        BY <1>1
    <2>3. f[0] \in S
        BY <2>2
    <2> HIDE DEF S
    <2>4. \A x \in S : L - x \in Nat
        BY <1>1, <2>1
    <2>5. T \in SUBSET Nat /\ T # {}
        BY <2>3, <2>4
    <2>6. PICK t \in T : \A u \in T : t <= u
        BY <2>5, LeastElement
    <2>7. PICK top \in S : t = L - top
        BY <2>6
    <2>8. \A x \in S : L - top <= L - x
        BY <2>6, <2>7
    <2>9. \A x \in S : top >= x
        BY <1>1, <2>1, <2>8
    <2> QED
        BY <2>9
<1>6. m \in S /\ \A x \in S : m >= x
    <2> HIDE DEF S
    <2>1. \E x \in S : \A y \in S : x >= y
        BY <1>5
    <2> QED
        BY <1>3, <2>1, Zenon DEF Max
<1>7. m \in Nat
    BY <1>1, <1>4, <1>6
<1>8. ASSUME m >= k
      PROVE  Consecutively(s, k)
    <2>1. PICK n \in 0..L : m = f[n]
        BY <1>6
    <2>2. f[n] \in 0..n /\ (\A j \in 1..n : j > n - f[n] => s[j])
        BY <1>2, <2>1 DEF EndsRun
    <2>3. n - k \in 0..(L - k)
        BY <1>1, <1>8, <2>1, <2>2
    <2>4. \A j \in 1..k : (n - k) + j \in 1..n /\ (n - k) + j > n - f[n]
        BY <1>1, <1>8, <2>1, <2>2
    <2>5. \A j \in 1..k : s[(n - k) + j]
        BY <2>2, <2>4
    <2> QED
        BY <2>3, <2>5 DEF Consecutively, L
<1>9. ASSUME Consecutively(s, k)
      PROVE  m >= k
    <2>1. PICK i \in 0..(L - k) : \A j \in 1..k : s[i + j]
        BY <1>9 DEF Consecutively, L
    <2> DEFINE n == i + k
    <2>2. n \in 0..L /\ i \in Nat
        BY <1>1, <2>1
    <2>3. f[n] \in 0..n /\ (f[n] < n => ~s[n - f[n]])
        BY <1>2, <2>2 DEF EndsRun
    <2>4. CASE f[n] < k
        <3>1. k - f[n] \in 1..k /\ i + (k - f[n]) = n - f[n] /\ f[n] < n
            BY <2>2, <2>3, <2>4
        <3>2. s[i + (k - f[n])]
            BY <2>1, <3>1
        <3> QED
            BY <2>3, <3>1, <3>2
    <2>5. CASE ~(f[n] < k)
        <3>1. m >= f[n]
            BY <1>6, <2>2
        <3> QED
            BY <1>7, <2>3, <2>2, <2>5, <3>1
    <2> QED
        BY <2>4, <2>5
<1> QED
    BY <1>7, <1>8, <1>9 DEF m

\* A series shorter than five days has no five of them hot.
HeatwaveRight(s, h) ==
    /\ (h # None) <=> Consecutively(s, HeatwaveMinDays)
    /\ (h = "high") <=> Consecutively(s, HeatwaveHighDays)

LEMMA HeatwaveIsRight ==
    ASSUME NEW s \in Seq(BOOLEAN)
    PROVE  HeatwaveRight(s, DetectHeatwave(s))
<1> DEFINE m == LongestStreak(s)  h == DetectHeatwave(s)
<1>1. m \in Nat /\ (m >= 5 <=> Consecutively(s, 5)) /\ (m >= 10 <=> Consecutively(s, 10))
    BY LongestIsLongEnough
<1>2. None # "high" /\ None # "moderate"
    BY ZonesAssumption DEF ZonesAssumption
<1>3. h = IF Len(s) < 5 \/ m < 5 THEN None ELSE IF m >= 10 THEN "high" ELSE "moderate"
    BY DEF DetectHeatwave, HeatwaveMinDays, HeatwaveHighDays
<1>4. Len(s) < 5 => ~Consecutively(s, 5) /\ ~Consecutively(s, 10)
    BY DEF Consecutively
<1> HIDE DEF m, h
<1> QED
    BY <1>1, <1>2, <1>3, <1>4 DEF HeatwaveRight, HeatwaveMinDays, HeatwaveHighDays, h

-----------------------------------------------------------------------------
ChoiceInv ==
    /\ field \in Fields /\ hour \in Nat /\ shown = RankFishingZones(field, hour)
    /\ days \in Series /\ heatwave = DetectHeatwave(days)

LEMMA ChoiceInvariance == ZoneSpec => []ChoiceInv
<1>1. ZoneInit => ChoiceInv
    BY DEF ZoneInit, ChoiceInv
<1>2. ChoiceInv /\ [RankAgain]_zoneVars => ChoiceInv'
    <2> SUFFICES ASSUME ChoiceInv, [RankAgain]_zoneVars
                 PROVE  ChoiceInv'
        OBVIOUS
    <2>1. CASE RankAgain
        <3>1. hour' \in Nat
            BY <2>1 DEF RankAgain
        <3> QED
            BY <2>1, <3>1 DEF RankAgain, ChoiceInv
    <2>2. CASE UNCHANGED zoneVars
        BY <2>2 DEF zoneVars, ChoiceInv
    <2> QED
        BY <2>1, <2>2
<1> QED
    BY <1>1, <1>2, PTL DEF ZoneSpec

LEMMA ChoiceInvIsEnough ==
    ASSUME ChoiceInv, MaxOptions >= 3
    PROVE  ChoicesAreRight
<1>1. IsField(field) /\ days \in Seq(BOOLEAN)
    BY ZonesAssumption DEF ZonesAssumption, ChoiceInv, IsField
<1>2. hour \in Int
    BY DEF ChoiceInv
<1>3. RankedRight(field, shown, hour)
    BY <1>1, <1>2, RankingIsRight DEF ChoiceInv
<1>4. Allowed = CompliantAmong(field)
    BY DEF Allowed, CompliantAmong
<1>5. NothingShownIsBeaten
    BY <1>3, <1>4 DEF NothingShownIsBeaten, RankedRight
<1>6. EveryAimHasAnOption
    BY <1>3, <1>4 DEF EveryAimHasAnOption, RankedRight, MeetsAims
<1>7. SupplyOrderDoesNotShow
    BY <1>3 DEF SupplyOrderDoesNotShow, RankedRight
<1>8. HeatwaveByDefinition
    <2>1. HeatwaveRight(days, heatwave)
        BY <1>1, HeatwaveIsRight DEF ChoiceInv
    <2> QED
        BY <2>1 DEF HeatwaveByDefinition, HeatwaveRight, Consecutively
<1> QED
    BY <1>5, <1>6, <1>7, <1>8 DEF ChoicesAreRight

\* Whatever candidates and series there are, and whenever the question is
\* asked again: what is shown is compliant and beaten by nothing compliant, with
\* room for three options (MAX_OPTIONS is three) each aim is met by one of them,
\* the order of supply does not show, and a heatwave is reported exactly for
\* five hot days in a row.
THEOREM ChoiceTheorem ==
    ASSUME MaxOptions >= 3
    PROVE  ZoneSpec => []ChoicesAreRight
<1>1. ChoiceInv => ChoicesAreRight
    BY ChoiceInvIsEnough
<1> QED
    BY <1>1, ChoiceInvariance, PTL

-----------------------------------------------------------------------------
(* Lengths.                                                                *)

LEMMA SquaresRise ==
    ASSUME NEW m \in Nat, NEW n \in Nat, m * m >= n * n
    PROVE  m >= n
<1>1. CASE m < n
    <2>1. m * m <= m * n
        BY <1>1
    <2>2. m * n < n * n
        BY <1>1
    <2>3. m * m \in Int /\ m * n \in Int /\ n * n \in Int
        OBVIOUS
    <2> QED
        BY <2>1, <2>2, <2>3
<1> QED
    BY <1>1

LEMMA ProductsRise ==
    ASSUME NEW p \in Nat, NEW q \in Nat, NEW r \in Nat, NEW s \in Nat, p >= q, r >= s
    PROVE  p * r >= q * s
<1>1. p * r >= q * r
    OBVIOUS
<1>2. q * r >= q * s
    OBVIOUS
<1>3. p * r \in Int /\ q * r \in Int /\ q * s \in Int
    OBVIOUS
<1> QED
    BY <1>1, <1>2, <1>3

LEMMA SquaresAreNatural ==
    ASSUME NEW n \in Int
    PROVE  n * n \in Nat /\ Magnitude(n) \in Nat /\ Magnitude(n) * Magnitude(n) = n * n
<1>1. CASE n >= 0
    BY <1>1 DEF Magnitude
<1>2. CASE n < 0
    <2>1. Magnitude(n) = -n /\ (-n) * (-n) = n * n
        BY <1>2 DEF Magnitude
    <2>2. -n \in Nat
        BY <1>2
    <2>3. (-n) * (-n) \in Nat
        BY <2>2
    <2> QED
        BY <2>1, <2>2, <2>3
<1> QED
    BY <1>1, <1>2

\* The length is the least number whose square is large enough.
LEMMA LengthIsLeast ==
    ASSUME NEW a \in Int, NEW b \in Int
    PROVE  /\ Hypot(a, b) \in Nat /\ Hypot(a, b) * Hypot(a, b) >= 100 * (a * a + b * b)
           /\ \A n \in Nat : n * n >= 100 * (a * a + b * b) => Hypot(a, b) <= n
<1> DEFINE u == Magnitude(a)  v == Magnitude(b)  sq == 100 * (a * a + b * b)  top == 10 * (u + v)
           S == {n \in 0..top : n * n >= sq}  h == Hypot(a, b)
<1>1. u \in Nat /\ v \in Nat /\ u * u = a * a /\ v * v = b * b /\ a * a \in Nat /\ b * b \in Nat
    BY SquaresAreNatural
<1>2. sq = 100 * (u * u + v * v)
    BY <1>1
<1>3. h = CHOOSE n \in S : \A m \in S : n <= m
    BY DEF Hypot, Min
<1> HIDE DEF u, v, h
<1>4. top \in S
    <2>1. u * v \in Nat /\ u * u \in Nat /\ v * v \in Nat
        BY <1>1
    <2>2. top * top = 100 * (u * u + v * v) + 200 * (u * v)
        BY <1>1
    <2>3. top \in 0..top
        BY <1>1
    <2>4. top * top >= sq
        BY <1>2, <2>1, <2>2
    <2> QED
        BY <2>3, <2>4
<1>5. \A n \in S : n \in Nat /\ n <= top /\ n * n >= sq
    OBVIOUS
<1>6. \A n \in Nat : n <= top /\ n * n >= sq => n \in S
    OBVIOUS
<1> HIDE DEF S, sq, top
<1>7. \E n \in S : \A m \in S : n <= m
    BY <1>4, <1>5, LeastElement
<1>8. h \in S /\ \A m \in S : h <= m
    BY <1>3, <1>7, Zenon
<1>9. ASSUME NEW n \in Nat, n * n >= sq
      PROVE  h <= n
    <2>1. h \in Nat /\ h <= top /\ top \in Nat
        BY <1>4, <1>5, <1>8
    <2>2. CASE n <= top
        BY <1>6, <1>8, <1>9, <2>2
    <2>3. CASE ~(n <= top)
        BY <2>1, <2>3
    <2> QED
        BY <2>2, <2>3
<1> QED
    BY <1>5, <1>8, <1>9 DEF h, sq

LEMMA InnerProduct ==
    ASSUME NEW a \in Int, NEW b \in Int, NEW c \in Int, NEW d \in Int
    PROVE  (a * c + b * d) * (a * c + b * d) <= (a * a + b * b) * (c * c + d * d)
<1> DEFINE t == a * c + b * d  x == a * d - b * c
<1>1. (a * a + b * b) * (c * c + d * d) = t * t + x * x
    OBVIOUS
<1>2. t \in Int /\ x \in Int
    OBVIOUS
<1> HIDE DEF t, x
<1>3. x * x \in Nat /\ t * t \in Nat
    BY <1>2, SquaresAreNatural
<1>4. t * t <= (a * a + b * b) * (c * c + d * d)
    BY <1>1, <1>3
<1> QED
    BY <1>4 DEF t

LEMMA TriangleInequality ==
    ASSUME NEW a \in Int, NEW b \in Int, NEW c \in Int, NEW d \in Int
    PROVE  Hypot(a + c, b + d) <= Hypot(a, b) + Hypot(c, d)
<1> DEFINE A == a * a + b * b  C == c * c + d * d  t == a * c + b * d
           g == Hypot(a, b)  h == Hypot(c, d)
<1>1. A \in Nat /\ C \in Nat /\ t \in Int
    <2>1. a * a \in Nat /\ b * b \in Nat /\ c * c \in Nat /\ d * d \in Nat
        BY SquaresAreNatural
    <2> QED
        BY <2>1
<1>2. g \in Nat /\ h \in Nat /\ g * g >= 100 * A /\ h * h >= 100 * C
    BY LengthIsLeast
<1>3. t * t <= A * C
    BY InnerProduct
<1>4. (a + c) * (a + c) + (b + d) * (b + d) = A + C + 2 * t
    OBVIOUS
<1> HIDE DEF A, C, t, g, h
<1>5. g * h >= 100 * t
    <2>1. CASE t < 0
        <3>1. g * h \in Nat
            BY <1>2
        <3> QED
            BY <1>1, <2>1, <3>1
    <2>2. CASE t >= 0
        <3>1. g * g \in Nat /\ h * h \in Nat /\ 100 * A \in Nat /\ 100 * C \in Nat
            BY <1>1, <1>2
        <3>2. (g * g) * (h * h) >= (100 * A) * (100 * C)
            BY <1>2, <3>1, ProductsRise
        <3>3. (g * g) * (h * h) = (g * h) * (g * h)
            BY <1>2
        <3>4. (100 * A) * (100 * C) = 10000 * (A * C) /\ (100 * t) * (100 * t) = 10000 * (t * t)
            BY <1>1
        <3>5. A * C \in Int /\ t * t \in Int
            BY <1>1
        <3>6. (g * h) * (g * h) >= (100 * t) * (100 * t)
            <4> DEFINE P == A * C  T == t * t  G == (g * h) * (g * h)
            <4>1. G \in Int
                BY <1>2
            <4>2. G >= 10000 * P /\ (100 * t) * (100 * t) = 10000 * T /\ T <= P /\ P \in Int /\ T \in Int
                BY <1>3, <3>2, <3>3, <3>4, <3>5
            <4> HIDE DEF P, T, G
            <4>3. G >= 10000 * T
                BY <4>1, <4>2
            <4> QED
                BY <4>2, <4>3 DEF G
        <3>7. g * h \in Nat /\ 100 * t \in Nat
            BY <1>1, <1>2, <2>2
        <3> QED
            BY <3>6, <3>7, SquaresRise
    <2> QED
        BY <1>1, <2>1, <2>2
<1>6. (g + h) * (g + h) >= 100 * (A + C + 2 * t)
    <2>1. (g + h) * (g + h) = g * g + h * h + 2 * (g * h)
        BY <1>2
    <2>2. g * g \in Int /\ h * h \in Int /\ g * h \in Int
        BY <1>2
    <2> QED
        BY <1>1, <1>2, <1>5, <2>1, <2>2
<1>7. g + h \in Nat
    BY <1>2
<1>8. a + c \in Int /\ b + d \in Int
    OBVIOUS
<1>9. (g + h) * (g + h) >= 100 * ((a + c) * (a + c) + (b + d) * (b + d))
    BY <1>4, <1>6
<1>10. Hypot(a + c, b + d) <= g + h
    BY <1>7, <1>8, <1>9, LengthIsLeast
<1> QED
    BY <1>10 DEF g, h

\* No component is longer than the whole, nor is seven tenths of two together.
LEMMA ComponentsAreShorter ==
    ASSUME NEW a \in Int, NEW b \in Int
    PROVE  /\ 10 * a <= Hypot(a, b) /\ 10 * b <= Hypot(a, b) /\ 7 * (a + b) <= Hypot(a, b)
           /\ a # 0 \/ b # 0 => Hypot(a, b) > 0
           /\ Hypot(0, 0) = 0 /\ Hypot(-a, b) = Hypot(a, b) /\ Hypot(a, -b) = Hypot(a, b)
<1> DEFINE A == a * a  B == b * b  h == Hypot(a, b)
<1>1. A \in Nat /\ B \in Nat /\ (a # 0 => A > 0) /\ (b # 0 => B > 0)
    <2>1. A \in Nat /\ B \in Nat
        BY SquaresAreNatural
    <2>2. (a # 0 => A # 0) /\ (b # 0 => B # 0)
        OBVIOUS
    <2> QED
        BY <2>1, <2>2
<1>2. h \in Nat /\ h * h >= 100 * (A + B)
    BY LengthIsLeast
<1>3. ASSUME NEW x \in Int, x * x <= 100 * (A + B)
      PROVE  x <= h
    <2>1. CASE x < 0
        BY <1>2, <2>1
    <2>2. CASE x >= 0
        <3>1. x \in Nat /\ x * x \in Int /\ h * h \in Int
            BY <1>2, <2>2
        <3>2. h * h >= x * x
            <4> HIDE DEF A, B, h
            <4> QED
                BY <1>1, <1>2, <1>3, <3>1
        <3> QED
            BY <1>2, <3>1, <3>2, SquaresRise
    <2> QED
        BY <2>1, <2>2
<1>4. 10 * a <= h /\ 10 * b <= h
    <2>1. (10 * a) * (10 * a) = 100 * A /\ (10 * b) * (10 * b) = 100 * B
        OBVIOUS
    <2>2. (10 * a) * (10 * a) <= 100 * (A + B) /\ (10 * b) * (10 * b) <= 100 * (A + B)
        <3> HIDE DEF A, B
        <3> QED
            BY <1>1, <2>1
    <2> QED
        BY <1>3, <2>2
<1>5. 7 * (a + b) <= h
    <2> DEFINE w == (a - b) * (a - b)
    <2>1. w \in Nat
        BY SquaresAreNatural
    <2>2. (7 * (a + b)) * (7 * (a + b)) = 98 * (A + B) - 49 * w
        OBVIOUS
    <2>3. (7 * (a + b)) * (7 * (a + b)) <= 100 * (A + B)
        <3> HIDE DEF A, B, w
        <3> QED
            BY <1>1, <2>1, <2>2
    <2> QED
        BY <1>3, <2>3
<1>6. a # 0 \/ b # 0 => h > 0
    <2>1. CASE h = 0
        <3>1. 0 >= 100 * (A + B)
            BY <1>2, <2>1
        <3> HIDE DEF A, B
        <3> QED
            BY <1>1, <3>1
    <2> QED
        BY <1>2, <2>1
<1>7. Hypot(0, 0) = 0
    <2>1. Hypot(0, 0) \in Nat /\ Hypot(0, 0) <= 0
        BY LengthIsLeast
    <2> QED
        BY <2>1
<1>8. Hypot(-a, b) = h /\ Hypot(a, -b) = h
    <2>1. (-a) * (-a) = A /\ (-b) * (-b) = B /\ Magnitude(-a) = Magnitude(a) /\ Magnitude(-b) = Magnitude(b)
        BY DEF Magnitude
    <2> QED
        BY <2>1 DEF Hypot
<1> QED
    BY <1>4, <1>5, <1>6, <1>7, <1>8

-----------------------------------------------------------------------------
(* The grid.                                                               *)

IsChart(c) ==
    /\ Cells(c) \subseteq Int \X Int /\ IsFiniteSet(Cells(c))
    /\ \A p \in Cells(c) : c.cells[p] \in GridCell
    /\ c.start \in Int \X Int /\ c.goal \in Int \X Int
    /\ c.costFn = None \/ c.costFn \in [Cells(c) \X Cells(c) -> Nat \ {0}]

LEMMA ChartsAreCharts == \A c \in Charts : IsChart(c)
BY RoutesAssumption DEF RoutesAssumption, IsChart, Cells

LEMMA Distances ==
    ASSUME NEW p \in Int \X Int, NEW q \in Int \X Int, NEW g \in Int \X Int
    PROVE  /\ Between(p, q) \in Nat /\ Between(p, g) <= Between(p, q) + Between(q, g)
           /\ Between(p, p) = 0 /\ (p # q => Between(p, q) > 0)
<1> DEFINE a == q[1] - p[1]  b == q[2] - p[2]  x == g[1] - q[1]  y == g[2] - q[2]
<1>1. a \in Int /\ b \in Int /\ x \in Int /\ y \in Int
    OBVIOUS
<1>2. g[1] - p[1] = a + x /\ g[2] - p[2] = b + y /\ p[1] - p[1] = 0 /\ p[2] - p[2] = 0
    OBVIOUS
<1>3. p # q => a # 0 \/ b # 0
    <2>1. p = <<p[1], p[2]>> /\ q = <<q[1], q[2]>>
        OBVIOUS
    <2>2. a = 0 /\ b = 0 => p[1] = q[1] /\ p[2] = q[2]
        OBVIOUS
    <2> QED
        BY <2>1, <2>2
<1>4. /\ Between(p, q) = Hypot(a, b) /\ Between(q, g) = Hypot(x, y) /\ Between(p, g) = Hypot(a + x, b + y)
      /\ Between(p, p) = Hypot(0, 0)
    BY <1>2 DEF Between
<1> HIDE DEF a, b, x, y
<1>5. Hypot(a, b) \in Nat
    BY <1>1, LengthIsLeast
<1>6. Hypot(a + x, b + y) <= Hypot(a, b) + Hypot(x, y)
    BY <1>1, TriangleInequality
<1>7. (a # 0 \/ b # 0 => Hypot(a, b) > 0) /\ Hypot(0, 0) = 0
    BY <1>1, ComponentsAreShorter
<1> QED
    BY <1>3, <1>4, <1>5, <1>6, <1>7

LEMMA RateFalls ==
    ASSUME NEW cell \in GridCell, NEW gain \in Int, NEW more \in Int, gain <= more
    PROVE  Rate(cell, gain) \in Nat /\ Rate(cell, gain) >= 1 /\ Rate(cell, more) <= Rate(cell, gain)
<1>1. cell.wave \in Int /\ cell.wind \in Int
    BY DEF GridCell
<1> DEFINE w == (6 * cell.wind) \div 100
<1>2. w \in Int
    BY <1>1
<1> HIDE DEF w
<1>3. \A g \in Int : Rate(cell, g) = LET r == 10 + 2 * cell.wave + w - g IN IF r > 1 THEN r ELSE 1
    BY DEF Rate, BaseCost, w
<1> QED
    BY <1>1, <1>2, <1>3

\* No course gains more than the whole of the current.
LEMMA GainIsBounded ==
    ASSUME NEW cell \in GridCell, NEW p \in Int \X Int, NEW q \in Int \X Int, Adjacent(p, q)
    PROVE  LET whole == Hypot(cell.east, cell.north) \div 10 IN
           whole \in Int /\ ProjectedCurrent(cell, p, q) \in Int /\ ProjectedCurrent(cell, p, q) <= whole
<1> DEFINE e == cell.east  n == cell.north  h == Hypot(e, n)  a == q[1] - p[1]  b == q[2] - p[2]
           along == b * e + a * n
<1>1. e \in Int /\ n \in Int
    BY DEF GridCell
<1>2. a \in {-1, 0, 1} /\ b \in {-1, 0, 1} /\ (a # 0 \/ b # 0)
    <2>1. a \in Int /\ b \in Int /\ Magnitude(a) <= 1 /\ Magnitude(b) <= 1
        BY DEF Adjacent
    <2>2. p = <<p[1], p[2]>> /\ q = <<q[1], q[2]>> /\ p # q
        BY DEF Adjacent
    <2>3. a = 0 /\ b = 0 => p[1] = q[1] /\ p[2] = q[2]
        OBVIOUS
    <2> QED
        BY <2>1, <2>2, <2>3 DEF Magnitude
<1>3. ProjectedCurrent(cell, p, q) = IF a # 0 /\ b # 0 THEN (7 * along) \div 10 ELSE along
    <2>1. (p[1] # q[1] <=> a # 0) /\ (p[2] # q[2] <=> b # 0)
        OBVIOUS
    <2> QED
        BY <2>1 DEF ProjectedCurrent
<1>5. /\ 10 * e <= h /\ 10 * (-e) <= h /\ 10 * n <= h /\ 10 * (-n) <= h
      /\ 7 * (e + n) <= h /\ 7 * (e + (-n)) <= h /\ 7 * ((-e) + n) <= h /\ 7 * ((-e) + (-n)) <= h
      /\ h \in Nat
    <2>1. -e \in Int /\ -n \in Int
        BY <1>1
    <2>2. Hypot(-e, n) = h /\ Hypot(e, -n) = h /\ Hypot(-e, -n) = h
        BY <1>1, <2>1, ComponentsAreShorter
    <2>3. 10 * e <= h /\ 10 * n <= h /\ 7 * (e + n) <= h
        BY <1>1, ComponentsAreShorter
    <2>4. 10 * (-e) <= Hypot(-e, n) /\ 7 * ((-e) + n) <= Hypot(-e, n)
        BY <1>1, <2>1, ComponentsAreShorter
    <2>5. 10 * (-n) <= Hypot(e, -n) /\ 7 * (e + (-n)) <= Hypot(e, -n)
        BY <1>1, <2>1, ComponentsAreShorter
    <2>6. 7 * ((-e) + (-n)) <= Hypot(-e, -n)
        BY <1>1, <2>1, ComponentsAreShorter
    <2>7. h \in Nat
        BY <1>1, LengthIsLeast
    <2> QED
        BY <2>2, <2>3, <2>4, <2>5, <2>6, <2>7
<1> HIDE DEF e, n, h, a, b
<1>6. \A x \in Int : 10 * x <= h => x <= h \div 10
    BY <1>5
<1>7. \A x \in Int : 7 * x <= h => (7 * x) \div 10 <= h \div 10
    BY <1>5
<1>8. along \in Int /\ (~(a # 0 /\ b # 0) => 10 * along <= h) /\ 7 * along <= h
    <2>1. CASE a = 0 /\ b = 1
        BY <1>1, <1>5, <2>1
    <2>2. CASE a = 0 /\ b = -1
        BY <1>1, <1>5, <2>2
    <2>3. CASE a = 1 /\ b = 0
        BY <1>1, <1>5, <2>3
    <2>4. CASE a = -1 /\ b = 0
        BY <1>1, <1>5, <2>4
    <2>5. CASE a = 1 /\ b = 1
        BY <1>1, <1>5, <2>5
    <2>6. CASE a = 1 /\ b = -1
        BY <1>1, <1>5, <2>6
    <2>7. CASE a = -1 /\ b = 1
        BY <1>1, <1>5, <2>7
    <2>8. CASE a = -1 /\ b = -1
        BY <1>1, <1>5, <2>8
    <2> QED
        BY <1>2, <2>1, <2>2, <2>3, <2>4, <2>5, <2>6, <2>7, <2>8
<1> HIDE DEF along
<1>9. ProjectedCurrent(cell, p, q) \in Int /\ ProjectedCurrent(cell, p, q) <= h \div 10 /\ h \div 10 \in Int
    BY <1>3, <1>5, <1>6, <1>7, <1>8
<1> QED
    BY <1>9 DEF h, e, n

\* min_cost_per_step is a floor under every leg.
LEMMA NoLegIsCheaper ==
    ASSUME NEW c, IsChart(c)
    PROVE  /\ MinCostPerStep(c) \in Nat
           /\ \A p \in Int \X Int, q \in Cells(c) : Adjacent(p, q) /\ IsNavigable(c, q) =>
                 LET r == Rate(c.cells[q], ProjectedCurrent(c.cells[q], p, q)) IN
                 r \in Nat /\ r >= 1 /\ MinCostPerStep(c) <= r
<1> DEFINE N == {q \in Cells(c) : IsNavigable(c, q)}
           floor == [q \in N |-> Rate(c.cells[q], Hypot(c.cells[q].east, c.cells[q].north) \div 10)]
           S == {BaseCost} \cup {floor[q] : q \in N}  m == MinCostPerStep(c)
<1>1. m = Min(S)
    BY DEF MinCostPerStep
<1>2. \A q \in N : c.cells[q] \in GridCell /\ c.cells[q].east \in Int /\ c.cells[q].north \in Int /\ q \in Int \X Int
    BY DEF IsChart, GridCell
<1>3. \A q \in N : floor[q] \in Nat
    <2>1. ASSUME NEW q \in N
          PROVE  floor[q] \in Nat
        <3> DEFINE h == Hypot(c.cells[q].east, c.cells[q].north)
        <3>1. h \in Nat
            BY <1>2, LengthIsLeast
        <3> HIDE DEF h
        <3>2. h \div 10 \in Int
            BY <3>1
        <3>3. Rate(c.cells[q], h \div 10) \in Nat
            BY <1>2, <3>2, RateFalls
        <3> QED
            BY <3>3 DEF h
    <2> QED
        BY <2>1
<1> HIDE DEF floor
<1>4. S \in SUBSET Nat /\ BaseCost \in S
    BY <1>3 DEF BaseCost
<1> HIDE DEF S
<1>5. \E x \in S : \A y \in S : x <= y
    BY <1>4, LeastElement
<1>6. m \in S /\ \A y \in S : m <= y
    BY <1>1, <1>5, Zenon DEF Min
<1>7. m \in Nat
    BY <1>4, <1>6
<1>8. ASSUME NEW p \in Int \X Int, NEW q \in Cells(c), Adjacent(p, q), IsNavigable(c, q)
      PROVE  LET r == Rate(c.cells[q], ProjectedCurrent(c.cells[q], p, q)) IN
             r \in Nat /\ r >= 1 /\ m <= r
    <2> DEFINE cell == c.cells[q]  whole == Hypot(cell.east, cell.north) \div 10
               gain == ProjectedCurrent(cell, p, q)
    <2>1. q \in N /\ cell \in GridCell /\ q \in Int \X Int
        BY <1>2, <1>8
    <2>2. whole \in Int /\ gain \in Int /\ gain <= whole
        BY <1>8, <2>1, GainIsBounded
    <2>3. Rate(cell, gain) \in Nat /\ Rate(cell, gain) >= 1 /\ Rate(cell, whole) <= Rate(cell, gain)
        BY <2>1, <2>2, RateFalls
    <2>4. floor[q] \in S /\ floor[q] = Rate(cell, whole)
        BY <2>1 DEF S, floor
    <2>5. m <= Rate(cell, whole) /\ Rate(cell, whole) \in Nat
        BY <1>4, <1>6, <2>4
    <2> HIDE DEF cell, gain, whole
    <2> QED
        BY <1>7, <2>3, <2>5 DEF cell, gain
<1> QED
    BY <1>7, <1>8

\* Where the legs keep the floor the heuristic is consistent: it falls by no
\* more than a leg costs.
LEMMA HeuristicIsConsistent ==
    ASSUME NEW c, IsChart(c)
    PROVE  /\ \A p \in Int \X Int : Heuristic(c, p) \in Nat
           /\ Heuristic(c, c.goal) = 0
           /\ \A p \in Cells(c), q \in Cells(c) : Adjacent(p, q) /\ IsNavigable(c, q) =>
                 /\ StepCost(c, p, q) \in Nat \ {0}
                 /\ KeepsTheFloor(c) => Heuristic(c, p) <= StepCost(c, p, q) + Heuristic(c, q)
<1> DEFINE m == MinCostPerStep(c)
<1>1. m \in Nat
    BY NoLegIsCheaper
<1>2. c.goal \in Int \X Int /\ \A q \in Cells(c) : q \in Int \X Int
    BY DEF IsChart
<1>3. \A p \in Int \X Int : Heuristic(c, p) = Between(p, c.goal) * m /\ Between(p, c.goal) \in Nat
    BY <1>2, Distances DEF Heuristic
<1>4. ASSUME NEW p \in Cells(c), NEW q \in Cells(c), Adjacent(p, q), IsNavigable(c, q)
      PROVE  /\ StepCost(c, p, q) \in Nat \ {0}
             /\ KeepsTheFloor(c) => Heuristic(c, p) <= StepCost(c, p, q) + Heuristic(c, q)
    <2> DEFINE r == Rate(c.cells[q], ProjectedCurrent(c.cells[q], p, q))  s == StepCost(c, p, q)
               x == Between(p, c.goal)  y == Between(p, q)  z == Between(q, c.goal)
    <2>1. p \in Int \X Int /\ q \in Int \X Int /\ p # q
        BY <1>2, <1>4 DEF Adjacent
    <2>2. r \in Nat /\ r >= 1 /\ m <= r
        BY <1>4, <2>1, NoLegIsCheaper
    <2>3. x \in Nat /\ y \in Nat /\ z \in Nat /\ x <= y + z /\ y > 0
        BY <1>2, <2>1, Distances
    <2>4. TraverseCost(c, p, q) = r * y /\ Heuristic(c, p) = x * m /\ Heuristic(c, q) = z * m
        BY <1>3, <2>1 DEF TraverseCost
    <2>5. s \in Nat \ {0} /\ (KeepsTheFloor(c) => y * m <= s)
        <3>1. CASE c.costFn = None
            <4>1. s = r * y
                BY <2>4, <3>1 DEF StepCost, LegCost
            <4> HIDE DEF r, y, m, s
            <4>2. r * y \in Nat /\ r * y >= 1
                <5>1. r * y >= 1 * 1
                    BY <2>2, <2>3, ProductsRise
                <5> QED
                    BY <2>2, <2>3, <5>1
            <4>3. y * m <= r * y
                BY <1>1, <2>2, <2>3
            <4> QED
                BY <4>1, <4>2, <4>3
        <3>2. CASE c.costFn # None
            <4>1. s = c.costFn[<<p, q>>] /\ c.costFn \in [Cells(c) \X Cells(c) -> Nat \ {0}]
                BY <3>2 DEF StepCost, LegCost, IsChart
            <4>2. KeepsTheFloor(c) => c.costFn[<<p, q>>] >= y * m
                BY <1>4, <3>2 DEF KeepsTheFloor
            <4>3. y * m \in Int
                BY <1>1, <2>3
            <4> QED
                BY <4>1, <4>2, <4>3
        <3> QED
            BY <3>1, <3>2
    <2> HIDE DEF r, x, y, z, m, s
    <2>6. x * m <= (y + z) * m /\ (y + z) * m = y * m + z * m
        BY <1>1, <2>3
    <2>7. x * m \in Int /\ y * m \in Int /\ z * m \in Int
        BY <1>1, <2>3
    <2>8. KeepsTheFloor(c) => x * m <= s + z * m
        BY <2>5, <2>6, <2>7
    <2> QED
        BY <2>4, <2>5, <2>8 DEF s
<1>5. Heuristic(c, c.goal) = 0
    <2>1. Between(c.goal, c.goal) = 0
        BY <1>2, Distances
    <2>2. 0 * m = 0
        BY <1>1
    <2> QED
        BY <1>2, <1>3, <2>1, <2>2
<1>6. \A p \in Int \X Int : Heuristic(c, p) \in Nat
    BY <1>1, <1>3
<1> QED
    BY <1>4, <1>5, <1>6

Neighbours(c, p) == {q \in Cells(c) : Adjacent(p, q) /\ IsNavigable(c, q)}

\* The eight offsets lead to the navigable neighbours, each to one.
LEMMA WaysLeadToNeighbours ==
    ASSUME NEW c, IsChart(c), NEW p \in Int \X Int
    PROVE  /\ \A i \in Ways(c, p) : Step(p, NeighbourOffsets[i]) \in Neighbours(c, p)
           /\ \A q \in Neighbours(c, p) : \E i \in Ways(c, p) : Step(p, NeighbourOffsets[i]) = q
           /\ Ways(c, p) \subseteq 1..8
<1>1. DOMAIN NeighbourOffsets = 1..8
    BY DEF NeighbourOffsets
<1>2. \A i \in 1..8 : /\ NeighbourOffsets[i] \in Int \X Int
                      /\ NeighbourOffsets[i][1] \in {-1, 0, 1} /\ NeighbourOffsets[i][2] \in {-1, 0, 1}
                      /\ NeighbourOffsets[i][1] # 0 \/ NeighbourOffsets[i][2] # 0
    BY DEF NeighbourOffsets
<1>3. \A a, b \in {-1, 0, 1} : a # 0 \/ b # 0 => \E i \in 1..8 : NeighbourOffsets[i] = <<a, b>>
    <2>1. /\ NeighbourOffsets[1] = <<-1, 0>> /\ NeighbourOffsets[2] = <<1, 0>>
          /\ NeighbourOffsets[3] = <<0, -1>> /\ NeighbourOffsets[4] = <<0, 1>>
          /\ NeighbourOffsets[5] = <<-1, -1>> /\ NeighbourOffsets[6] = <<-1, 1>>
          /\ NeighbourOffsets[7] = <<1, -1>> /\ NeighbourOffsets[8] = <<1, 1>>
        BY DEF NeighbourOffsets
    <2> QED
        BY <2>1
<1>4. \A i \in 1..8 : Adjacent(p, Step(p, NeighbourOffsets[i]))
    <2>1. ASSUME NEW i \in 1..8
          PROVE  Adjacent(p, Step(p, NeighbourOffsets[i]))
        <3> DEFINE a == NeighbourOffsets[i][1]  b == NeighbourOffsets[i][2]
        <3>1. a \in {-1, 0, 1} /\ b \in {-1, 0, 1} /\ (a # 0 \/ b # 0)
            BY <1>2
        <3> HIDE DEF a, b
        <3>2. Step(p, NeighbourOffsets[i]) = <<p[1] + a, p[2] + b>>
            BY DEF Step, a, b
        <3>3. /\ p[1] \in Int /\ p[2] \in Int
              /\ p # <<p[1] + a, p[2] + b>> /\ (p[1] + a) - p[1] = a /\ (p[2] + b) - p[2] = b
            BY <3>1
        <3>4. Magnitude(a) <= 1 /\ Magnitude(b) <= 1
            BY <3>1 DEF Magnitude
        <3> QED
            BY <3>2, <3>3, <3>4 DEF Adjacent
    <2> QED
        BY <2>1
<1>5. \A i \in Ways(c, p) : Step(p, NeighbourOffsets[i]) \in Neighbours(c, p)
    BY <1>1, <1>4 DEF Ways, Neighbours
<1>6. ASSUME NEW q \in Neighbours(c, p)
      PROVE  \E i \in Ways(c, p) : Step(p, NeighbourOffsets[i]) = q
    <2> DEFINE a == q[1] - p[1]  b == q[2] - p[2]
    <2>1. q \in Int \X Int /\ Adjacent(p, q) /\ q \in Cells(c) /\ IsNavigable(c, q)
        BY DEF Neighbours, IsChart
    <2>2. a \in Int /\ b \in Int /\ Magnitude(a) <= 1 /\ Magnitude(b) <= 1
        BY <2>1 DEF Adjacent
    <2>3. p = <<p[1], p[2]>> /\ q = <<q[1], q[2]>> /\ p # q
        BY <2>1 DEF Adjacent
    <2>4. a = 0 /\ b = 0 => p[1] = q[1] /\ p[2] = q[2]
        BY <2>1
    <2>5. a \in {-1, 0, 1} /\ b \in {-1, 0, 1} /\ (a # 0 \/ b # 0)
        BY <2>2, <2>3, <2>4 DEF Magnitude
    <2>6. p[1] + a = q[1] /\ p[2] + b = q[2]
        BY <2>1
    <2> HIDE DEF a, b
    <2>7. PICK i \in 1..8 : NeighbourOffsets[i] = <<a, b>>
        BY <1>3, <2>5
    <2>8. Step(p, NeighbourOffsets[i]) = q
        BY <2>3, <2>6, <2>7 DEF Step
    <2> QED
        BY <1>1, <2>1, <2>7, <2>8 DEF Ways
<1>7. Ways(c, p) \subseteq 1..8
    BY <1>1 DEF Ways
<1> QED
    BY <1>5, <1>6, <1>7

-----------------------------------------------------------------------------
(* The search.                                                             *)

Queued(c, o, b, p) == \E e \in o : e.cell = p /\ e.f = b[p] + Heuristic(c, p)

Expanded(c, b, p) ==
    \A q \in Neighbours(c, p) : q \in DOMAIN b /\ b[q] <= b[p] + StepCost(c, p, q)

\* What holds between two turns of the loop.  Every cell found is queued at its
\* cost or has passed its cost on; no entry promises less than the cost of its
\* cell; a cell costs at least what its predecessor and the leg do.
Search(c, o, b, from, k) ==
    /\ {c.start, c.goal} \subseteq Cells(c) /\ IsNavigable(c, c.start) /\ IsNavigable(c, c.goal)
    /\ k \in Nat
    /\ \A e \in o : /\ e.f \in Nat /\ e.at \in Nat /\ e.cell \in DOMAIN b
                    /\ e.f >= b[e.cell] + Heuristic(c, e.cell)
    /\ DOMAIN b \subseteq Cells(c) /\ \A p \in DOMAIN b : b[p] \in Nat /\ IsNavigable(c, p)
    /\ c.start \in DOMAIN b /\ b[c.start] = 0
    /\ DOMAIN from = DOMAIN b \ {c.start}
    /\ \A q \in DOMAIN from : /\ from[q] \in DOMAIN b /\ q \in Neighbours(c, from[q])
                              /\ b[q] >= b[from[q]] + StepCost(c, from[q], q)
    /\ \A p \in DOMAIN b : Queued(c, o, b, p) \/ Expanded(c, b, p)
    /\ c.goal \in DOMAIN b => Queued(c, o, b, c.goal)

LEMMA CheapestIsThere ==
    ASSUME open # {}, \A e \in open : e.f \in Nat /\ e.at \in Nat
    PROVE  Cheapest \in open /\ \A e \in open : Cheapest.f <= e.f
<1> DEFINE F == {e.f : e \in open}
<1>1. PICK f \in F : \A g \in F : f <= g
    <2>1. F \in SUBSET Nat /\ F # {}
        OBVIOUS
    <2> QED
        BY <2>1, LeastElement
<1> DEFINE O == {e \in open : e.f = f}  A == {e.at : e \in O}
<1>2. PICK t \in A : \A u \in A : t <= u
    <2>1. A \in SUBSET Nat /\ A # {}
        BY <1>1
    <2> QED
        BY <2>1, LeastElement
<1>3. PICK e \in O : e.at = t
    BY <1>2
<1>4. e \in open /\ \A d \in open : Earlier(e, d)
    <2>1. ASSUME NEW d \in open
          PROVE  Earlier(e, d)
        <3>1. e.f <= d.f /\ (d.f = e.f => e.at <= d.at)
            BY <1>1, <1>2, <1>3
        <3>2. e.f \in Nat /\ d.f \in Nat
            OBVIOUS
        <3> QED
            BY <3>1, <3>2 DEF Earlier
    <2> QED
        BY <2>1
<1>5. Cheapest \in open /\ \A d \in open : Earlier(Cheapest, d)
    BY <1>4, Zenon DEF Cheapest
<1> HIDE DEF Cheapest
<1> QED
    BY <1>5 DEF Earlier

CostVia(c, b, p, q) == b[p] + StepCost(c, p, q)

Bettered(c, b, p) == {q \in Neighbours(c, p) : q \notin DOMAIN b \/ CostVia(c, b, p, q) < b[q]}

\* What one turn of the loop does, said of cells instead of offsets.
LEMMA Relaxing ==
    ASSUME IsChart(chart), Relax, counter \in Nat, Cheapest.cell \in Int \X Int
    PROVE  LET p == Cheapest.cell
               I == Bettered(chart, best, p)
           IN
           /\ p # chart.goal /\ chart' = chart /\ route' = route /\ counter' \in Nat
           /\ DOMAIN best' = I \cup DOMAIN best /\ DOMAIN cameFrom' = I \cup DOMAIN cameFrom
           /\ \A q \in I : best'[q] = CostVia(chart, best, p, q) /\ cameFrom'[q] = p
           /\ \A q \in DOMAIN best : q \notin I => best'[q] = best[q]
           /\ \A q \in DOMAIN cameFrom : q \notin I => cameFrom'[q] = cameFrom[q]
           /\ open \ {Cheapest} \subseteq open'
           /\ \A e \in open' : \/ e \in open
                               \/ /\ e.cell \in I /\ e.f = CostVia(chart, best, p, e.cell) + Heuristic(chart, e.cell)
                                  /\ e.at \in Nat
           /\ \A q \in I : \E e \in open' : e.cell = q /\ e.f = CostVia(chart, best, p, q) + Heuristic(chart, q)
<1> DEFINE p == Cheapest.cell  I == Bettered(chart, best, p)
           cost == [q \in Neighbours(chart, p) |-> CostVia(chart, best, p, q)]
           W == Improved(p)  to == {Step(p, NeighbourOffsets[i]) : i \in W}
           nth(i) == Cardinality({j \in W : j <= i})
           entry(i) == LET q == Step(p, NeighbourOffsets[i]) IN
                       [f |-> best[p] + StepCost(chart, p, q) + Heuristic(chart, q), at |-> counter + nth(i), cell |-> q]
<1>1. /\ \A i \in Ways(chart, p) : Step(p, NeighbourOffsets[i]) \in Neighbours(chart, p)
      /\ \A q \in Neighbours(chart, p) : \E i \in Ways(chart, p) : Step(p, NeighbourOffsets[i]) = q
      /\ Ways(chart, p) \subseteq 1..8
    BY WaysLeadToNeighbours
<1>2. \A i : i \in W <=> i \in Ways(chart, p) /\ Step(p, NeighbourOffsets[i]) \in I
    BY <1>1 DEF Improved, Bettered, CostVia
<1>3. to = I
    <2>1. \A i \in W : Step(p, NeighbourOffsets[i]) \in I
        BY <1>2
    <2>2. \A q \in I : \E i \in W : Step(p, NeighbourOffsets[i]) = q
        <3>1. \A q \in I : q \in Neighbours(chart, p)
            BY DEF Bettered
        <3> HIDE DEF I, W, p
        <3> QED
            BY <1>1, <1>2, <3>1
    <2> HIDE DEF W
    <2>3. I \subseteq to
        BY <2>2
    <2> QED
        BY <2>1, <2>3
<1>4. \A q \in I : /\ cost[q] = CostVia(chart, best, p, q) /\ cost[q] = best[p] + StepCost(chart, p, q)
                    /\ q \in Neighbours(chart, p)
    BY DEF Bettered, CostVia
<1>5. W \subseteq 1..8
    <2>1. \A i \in W : i \in Ways(chart, p)
        BY <1>2
    <2> HIDE DEF W
    <2> QED
        BY <1>1, <2>1
<1>6. Cardinality(W) \in Nat /\ \A i : nth(i) \in Nat
    <2>1. IsFiniteSet(1..8)
        <3>1. 1 \in Int /\ 8 \in Int
            OBVIOUS
        <3> QED
            BY <3>1, FS_Interval, Zenon
    <2>2. \A i : {j \in W : j <= i} \subseteq W
        OBVIOUS
    <2> HIDE DEF W
    <2>3. IsFiniteSet(W)
        BY <1>5, <2>1, FS_Subset
    <2> QED
        BY <2>2, <2>3, FS_Subset, FS_CardinalityType
<1>7. /\ p # chart.goal /\ chart' = chart /\ route' = route /\ counter' = counter + Cardinality(W)
      /\ best' = Merge([q \in to |-> best[p] + StepCost(chart, p, q)], best)
      /\ cameFrom' = Merge([q \in to |-> p], cameFrom)
      /\ open' = (open \ {Cheapest}) \cup {[f |-> [q \in to |-> best[p] + StepCost(chart, p, q)][Step(p, NeighbourOffsets[i])]
                                                   + Heuristic(chart, Step(p, NeighbourOffsets[i])),
                                            at |-> counter + nth(i),
                                            cell |-> Step(p, NeighbourOffsets[i])] : i \in W}
    BY DEF Relax
<1>8. \A i \in W : [q \in to |-> best[p] + StepCost(chart, p, q)][Step(p, NeighbourOffsets[i])]
                       = cost[Step(p, NeighbourOffsets[i])]
    BY <1>2, <1>3, <1>4
<1> HIDE DEF W, to, nth, entry, cost, I, p
<1>9. /\ DOMAIN best' = I \cup DOMAIN best /\ DOMAIN cameFrom' = I \cup DOMAIN cameFrom
      /\ \A q \in I : best'[q] = best[p] + StepCost(chart, p, q) /\ cameFrom'[q] = p
      /\ \A q \in DOMAIN best : q \notin I => best'[q] = best[q]
      /\ \A q \in DOMAIN cameFrom : q \notin I => cameFrom'[q] = cameFrom[q]
    BY <1>3, <1>7 DEF Merge
<1>10. \A q \in I : best'[q] = cost[q] /\ cameFrom'[q] = p
    BY <1>4, <1>9
<1>11. ASSUME NEW e \in open', e \notin open
       PROVE  e.cell \in I /\ e.f = cost[e.cell] + Heuristic(chart, e.cell) /\ e.at \in Nat
    <2>1. PICK i \in W : e = [f |-> [q \in to |-> best[p] + StepCost(chart, p, q)][Step(p, NeighbourOffsets[i])]
                                       + Heuristic(chart, Step(p, NeighbourOffsets[i])),
                              at |-> counter + nth(i), cell |-> Step(p, NeighbourOffsets[i])]
        BY <1>7, <1>11
    <2>2. e.cell = Step(p, NeighbourOffsets[i]) /\ e.at = counter + nth(i)
          /\ e.f = cost[Step(p, NeighbourOffsets[i])] + Heuristic(chart, Step(p, NeighbourOffsets[i]))
        BY <1>8, <2>1
    <2>3. nth(i) \in Nat /\ counter + nth(i) \in Nat
        BY <1>6
    <2>4. e.cell \in I
        BY <1>2, <2>2
    <2> QED
        BY <2>2, <2>3, <2>4
<1>12. ASSUME NEW q \in I
       PROVE  \E e \in open' : e.cell = q /\ e.f = cost[q] + Heuristic(chart, q)
    <2>1. PICK i \in W : Step(p, NeighbourOffsets[i]) = q
        BY <1>3 DEF to
    <2> DEFINE e == [f |-> [r \in to |-> best[p] + StepCost(chart, p, r)][Step(p, NeighbourOffsets[i])]
                             + Heuristic(chart, Step(p, NeighbourOffsets[i])),
                     at |-> counter + nth(i), cell |-> Step(p, NeighbourOffsets[i])]
    <2>2. e \in open'
        BY <1>7
    <2>3. e.cell = q /\ e.f = cost[q] + Heuristic(chart, q)
        BY <1>8, <2>1
    <2> QED
        BY <2>2, <2>3
<1>13. counter' \in Nat /\ open \ {Cheapest} \subseteq open'
    BY <1>6, <1>7
<1>14. \A q \in I : best'[q] = CostVia(chart, best, p, q)
    BY <1>4, <1>10
<1>15. \A e \in open' : \/ e \in open
                        \/ /\ e.cell \in I /\ e.f = CostVia(chart, best, p, e.cell) + Heuristic(chart, e.cell)
                           /\ e.at \in Nat
    BY <1>4, <1>11
<1>16. \A q \in I : \E e \in open' : e.cell = q /\ e.f = CostVia(chart, best, p, q) + Heuristic(chart, q)
    BY <1>4, <1>12
<1> QED
    BY <1>7, <1>9, <1>10, <1>13, <1>14, <1>15, <1>16 DEF I, p

LEMMA RelaxKeeps ==
    ASSUME IsChart(chart), Search(chart, open, best, cameFrom, counter), Relax
    PROVE  Search(chart, open', best', cameFrom', counter')
<1> DEFINE c == chart  p == Cheapest.cell  N == Neighbours(c, p)
           cost == [q \in N |-> CostVia(c, best, p, q)]  I == Bettered(c, best, p)
           h == [q \in Cells(c) |-> Heuristic(c, q)]
           b == best'  from == cameFrom'  o == open'
<1>1. /\ {c.start, c.goal} \subseteq Cells(c) /\ IsNavigable(c, c.start) /\ IsNavigable(c, c.goal)
      /\ counter \in Nat
      /\ \A e \in open : /\ e.f \in Nat /\ e.at \in Nat /\ e.cell \in DOMAIN best
                         /\ e.f >= best[e.cell] + Heuristic(c, e.cell)
      /\ DOMAIN best \subseteq Cells(c) /\ \A q \in DOMAIN best : best[q] \in Nat /\ IsNavigable(c, q)
      /\ c.start \in DOMAIN best /\ best[c.start] = 0
      /\ DOMAIN cameFrom = DOMAIN best \ {c.start}
      /\ \A q \in DOMAIN cameFrom : /\ cameFrom[q] \in DOMAIN best /\ q \in Neighbours(c, cameFrom[q])
                                    /\ best[q] >= best[cameFrom[q]] + StepCost(c, cameFrom[q], q)
      /\ \A q \in DOMAIN best : Queued(c, open, best, q) \/ Expanded(c, best, q)
      /\ c.goal \in DOMAIN best => Queued(c, open, best, c.goal)
    BY DEF Search
<1>2. Cells(c) \subseteq Int \X Int /\ \A q \in Cells(c) : h[q] \in Nat /\ h[q] = Heuristic(c, q)
    BY HeuristicIsConsistent DEF IsChart
<1>3. \A x \in Cells(c) : \A q \in Neighbours(c, x) :
          q \in Cells(c) /\ q # x /\ IsNavigable(c, q) /\ StepCost(c, x, q) \in Nat \ {0}
    BY <1>2, HeuristicIsConsistent DEF Neighbours, Adjacent
<1>4. Cheapest \in open /\ p \in DOMAIN best /\ p \in Cells(c) /\ p \in Int \X Int
    <2>1. open # {}
        BY DEF Relax
    <2>2. Cheapest \in open
        BY <1>1, <2>1, CheapestIsThere
    <2> HIDE DEF Cheapest
    <2> QED
        BY <1>1, <1>2, <2>2
<1>5. \A q \in N : cost[q] = best[p] + StepCost(c, p, q) /\ cost[q] \in Nat \ {0} /\ q # p /\ q \in Cells(c)
                   /\ IsNavigable(c, q)
    BY <1>1, <1>3, <1>4 DEF CostVia
<1>6. \A q : q \in I <=> q \in N /\ (q \notin DOMAIN best \/ cost[q] < best[q])
    BY DEF Bettered
<1>7. /\ p # c.goal /\ counter' \in Nat
      /\ DOMAIN b = I \cup DOMAIN best /\ DOMAIN from = I \cup DOMAIN cameFrom
      /\ \A q \in I : b[q] = cost[q] /\ from[q] = p
      /\ \A q \in DOMAIN best : q \notin I => b[q] = best[q]
      /\ \A q \in DOMAIN cameFrom : q \notin I => from[q] = cameFrom[q]
      /\ open \ {Cheapest} \subseteq o
      /\ \A e \in o : \/ e \in open
                      \/ e.cell \in I /\ e.f = cost[e.cell] + Heuristic(c, e.cell) /\ e.at \in Nat
      /\ \A q \in I : \E e \in o : e.cell = q /\ e.f = cost[q] + Heuristic(c, q)
    <2> DEFINE via(q) == CostVia(chart, best, p, q)
    <2>1. \A q \in I : cost[q] = via(q)
        BY DEF Bettered
    <2>2. p \in Int \X Int /\ counter \in Nat
        BY <1>1, <1>4
    <2> HIDE DEF Cheapest
    <2>3. /\ p # c.goal /\ counter' \in Nat
          /\ DOMAIN b = I \cup DOMAIN best /\ DOMAIN from = I \cup DOMAIN cameFrom
          /\ \A q \in I : b[q] = via(q) /\ from[q] = p
          /\ \A q \in DOMAIN best : q \notin I => b[q] = best[q]
          /\ \A q \in DOMAIN cameFrom : q \notin I => from[q] = cameFrom[q]
          /\ open \ {Cheapest} \subseteq o
          /\ \A e \in o : \/ e \in open
                          \/ e.cell \in I /\ e.f = via(e.cell) + Heuristic(c, e.cell) /\ e.at \in Nat
          /\ \A q \in I : \E e \in o : e.cell = q /\ e.f = via(q) + Heuristic(c, q)
        BY <2>2, Relaxing
    <2> HIDE DEF via, I, cost, p
    <2> QED
        BY <2>1, <2>3
<1> HIDE DEF c, p, N, cost, I, h, b, from, o, Cheapest
<1>8. /\ DOMAIN b = I \cup DOMAIN best
      /\ \A q \in I : b[q] = cost[q]
      /\ \A q \in DOMAIN best : q \notin I => b[q] = best[q]
    BY <1>7
<1>9. /\ DOMAIN from = I \cup DOMAIN cameFrom
      /\ \A q \in I : from[q] = p
      /\ \A q \in DOMAIN cameFrom : q \notin I => from[q] = cameFrom[q]
    BY <1>7
<1>10. \A q \in DOMAIN b : b[q] \in Nat /\ q \in Cells(c) /\ IsNavigable(c, q)
    BY <1>1, <1>5, <1>6, <1>8
<1>11. \A q \in DOMAIN best : q \in DOMAIN b /\ b[q] <= best[q] /\ best[q] \in Nat
    BY <1>1, <1>5, <1>6, <1>8
<1>12. p \notin I /\ c.start \notin I /\ b[p] = best[p] /\ b[c.start] = 0
    BY <1>1, <1>4, <1>5, <1>6, <1>8
<1>13. \A e \in o : /\ e.f \in Nat /\ e.at \in Nat /\ e.cell \in DOMAIN b
                    /\ e.f >= b[e.cell] + Heuristic(c, e.cell)
    <2>1. ASSUME NEW e \in o, e \in open
          PROVE  /\ e.f \in Nat /\ e.at \in Nat /\ e.cell \in DOMAIN b
                 /\ e.f >= b[e.cell] + Heuristic(c, e.cell)
        <3>1. e.cell \in DOMAIN best /\ e.cell \in Cells(c) /\ e.f >= best[e.cell] + h[e.cell]
            BY <1>1, <1>2, <2>1
        <3>2. b[e.cell] <= best[e.cell] /\ b[e.cell] \in Nat /\ h[e.cell] \in Nat /\ best[e.cell] \in Nat
            BY <1>2, <1>10, <1>11, <3>1
        <3>3. e.f \in Nat /\ e.f >= b[e.cell] + h[e.cell]
            BY <1>1, <2>1, <3>1, <3>2
        <3> QED
            BY <1>1, <1>2, <1>11, <2>1, <3>1, <3>3
    <2>2. ASSUME NEW e \in o, e.cell \in I, e.f = cost[e.cell] + Heuristic(c, e.cell), e.at \in Nat
          PROVE  /\ e.f \in Nat /\ e.at \in Nat /\ e.cell \in DOMAIN b
                 /\ e.f >= b[e.cell] + Heuristic(c, e.cell)
        <3>1. e.cell \in Cells(c) /\ e.cell \in DOMAIN b /\ cost[e.cell] \in Nat /\ b[e.cell] = cost[e.cell]
            BY <1>5, <1>6, <1>8, <2>2
        <3>2. Heuristic(c, e.cell) \in Nat
            BY <1>2, <3>1
        <3> QED
            BY <2>2, <3>1, <3>2
    <2> QED
        BY <1>7, <2>1, <2>2
<1>14. DOMAIN from = DOMAIN b \ {c.start}
    BY <1>1, <1>8, <1>9, <1>12
<1>15. ASSUME NEW q \in DOMAIN from
       PROVE  /\ from[q] \in DOMAIN b /\ q \in Neighbours(c, from[q])
              /\ b[q] >= b[from[q]] + StepCost(c, from[q], q)
    <2>1. CASE q \in I
        <3>1. from[q] = p /\ p \in DOMAIN b /\ q \in N /\ b[q] = cost[q] /\ cost[q] \in Nat
            BY <1>4, <1>5, <1>6, <1>8, <1>9, <2>1
        <3>2. cost[q] = b[p] + StepCost(c, p, q)
            BY <1>5, <1>12, <3>1
        <3> QED
            BY <3>1, <3>2 DEF N
    <2>2. CASE q \notin I
        <3> DEFINE x == cameFrom[q]
        <3>1. q \in DOMAIN cameFrom /\ from[q] = x /\ q \in DOMAIN best
            BY <1>1, <1>9, <2>2
        <3>2. x \in DOMAIN best /\ q \in Neighbours(c, x) /\ best[q] >= best[x] + StepCost(c, x, q)
            BY <1>1, <3>1
        <3>3. StepCost(c, x, q) \in Nat
            BY <1>1, <1>3, <3>2
        <3>4. b[q] = best[q] /\ b[x] <= best[x] /\ x \in DOMAIN b /\ b[x] \in Nat /\ best[x] \in Nat /\ best[q] \in Nat
            BY <1>8, <1>10, <1>11, <2>2, <3>1, <3>2
        <3> QED
            BY <3>1, <3>2, <3>3, <3>4
    <2> QED
        BY <2>1, <2>2
<1>16. ASSUME NEW q \in I
       PROVE  Queued(c, o, b, q)
    <2>1. PICK e \in o : e.cell = q /\ e.f = cost[q] + Heuristic(c, q)
        BY <1>7
    <2>2. b[q] = cost[q]
        BY <1>8
    <2> QED
        BY <2>1, <2>2 DEF Queued
<1>17. ASSUME NEW q \in DOMAIN best, q \notin I, q # p, Queued(c, open, best, q)
       PROVE  Queued(c, o, b, q)
    <2>1. PICK e \in open : e.cell = q /\ e.f = best[q] + Heuristic(c, q)
        BY <1>17 DEF Queued
    <2>2. e # Cheapest
        BY <1>17, <2>1 DEF p
    <2> QED
        BY <1>7, <1>8, <1>17, <2>1, <2>2 DEF Queued
<1>18. ASSUME NEW q \in DOMAIN best, q \notin I, Expanded(c, best, q)
       PROVE  Expanded(c, b, q)
    <2>1. ASSUME NEW r \in Neighbours(c, q)
          PROVE  r \in DOMAIN b /\ b[r] <= b[q] + StepCost(c, q, r)
        <3>1. r \in DOMAIN best /\ best[r] <= best[q] + StepCost(c, q, r)
            BY <1>18 DEF Expanded
        <3>2. b[q] = best[q] /\ b[r] <= best[r] /\ r \in DOMAIN b
            BY <1>8, <1>11, <1>18, <3>1
        <3>3. StepCost(c, q, r) \in Nat /\ b[r] \in Nat /\ best[r] \in Nat /\ best[q] \in Nat
            BY <1>1, <1>3, <1>10, <3>1, <3>2
        <3> QED
            BY <3>1, <3>2, <3>3
    <2> QED
        BY <2>1 DEF Expanded
<1>19. Expanded(c, b, p)
    <2>1. ASSUME NEW r \in Neighbours(c, p)
          PROVE  r \in DOMAIN b /\ b[r] <= b[p] + StepCost(c, p, r)
        <3>1. r \in N /\ cost[r] = b[p] + StepCost(c, p, r) /\ cost[r] \in Nat
            BY <1>5, <1>12 DEF N
        <3>2. CASE r \in I
            BY <1>8, <3>1, <3>2
        <3>3. CASE r \notin I
            <4>1. r \in DOMAIN best /\ ~(cost[r] < best[r])
                BY <1>6, <3>1, <3>3
            <4> QED
                BY <1>8, <1>11, <3>1, <3>3, <4>1
        <3> QED
            BY <3>2, <3>3
    <2> QED
        BY <2>1 DEF Expanded
<1>20. \A q \in DOMAIN b : Queued(c, o, b, q) \/ Expanded(c, b, q)
    BY <1>1, <1>8, <1>16, <1>17, <1>18, <1>19
<1>21. c.goal \in DOMAIN b => Queued(c, o, b, c.goal)
    BY <1>1, <1>7, <1>8, <1>16, <1>17
<1>22. c.start \in DOMAIN b
    BY <1>1, <1>11
<1>23. DOMAIN b \subseteq Cells(c)
    BY <1>10
<1>24. Search(c, o, b, from, counter')
    <2> DEFINE k == counter'
    <2>1. k \in Nat
        BY <1>7
    <2> HIDE DEF k
    <2>2. Search(c, o, b, from, k)
        BY <1>1, <1>10, <1>12, <1>13, <1>14, <1>15, <1>20, <1>21, <1>22, <1>23, <2>1 DEF Search
    <2> QED
        BY <2>2 DEF k
<1> QED
    BY <1>24 DEF c, o, b, from

-----------------------------------------------------------------------------
(* Every way is accounted for.                                             *)

\* Where w buys the way to x, either x was found for no more, and has passed
\* its cost on, or some entry of the heap stands for a way as cheap.
Accounted(c, o, b, x, w) ==
    \/ x \in DOMAIN b /\ b[x] <= w /\ Expanded(c, b, x)
    \/ \E e \in o : e.f <= w + Heuristic(c, x)

LEMMA FoundIsAccounted ==
    ASSUME NEW c, NEW o, NEW b, NEW from, NEW k, IsChart(c), Search(c, o, b, from, k),
           NEW x \in DOMAIN b, NEW w \in Int, b[x] <= w
    PROVE  Accounted(c, o, b, x, w)
<1>1. CASE Expanded(c, b, x)
    BY <1>1 DEF Accounted
<1>2. CASE Queued(c, o, b, x)
    <2>1. PICK e \in o : e.cell = x /\ e.f = b[x] + Heuristic(c, x)
        BY <1>2 DEF Queued
    <2>2. b[x] \in Nat /\ x \in Int \X Int
        BY DEF Search, IsChart
    <2>3. Heuristic(c, x) \in Nat
        BY <2>2, HeuristicIsConsistent
    <2>4. e.f <= w + Heuristic(c, x)
        BY <2>1, <2>2, <2>3
    <2> QED
        BY <2>4 DEF Accounted
<1> QED
    BY <1>1, <1>2 DEF Search

LEMMA OnwardIsAccounted ==
    ASSUME NEW c, NEW o, NEW b, NEW from, NEW k, IsChart(c), Search(c, o, b, from, k),
           KeepsTheFloor(c) \/ o = {},
           NEW x \in Cells(c), NEW w \in Int, Accounted(c, o, b, x, w), NEW q \in Neighbours(c, x)
    PROVE  Accounted(c, o, b, q, w + StepCost(c, x, q))
<1>1. /\ x \in Int \X Int /\ q \in Cells(c) /\ q \in Int \X Int
      /\ Adjacent(x, q) /\ IsNavigable(c, q)
    BY DEF IsChart, Neighbours
<1>2. /\ Heuristic(c, x) \in Nat /\ Heuristic(c, q) \in Nat /\ StepCost(c, x, q) \in Nat
      /\ o = {} \/ Heuristic(c, x) <= StepCost(c, x, q) + Heuristic(c, q)
    BY <1>1, HeuristicIsConsistent
<1> DEFINE v == w + StepCost(c, x, q)
<1>3. v \in Int
    BY <1>2
<1>4. CASE x \in DOMAIN b /\ b[x] <= w /\ Expanded(c, b, x)
    <2>1. q \in DOMAIN b /\ b[q] <= b[x] + StepCost(c, x, q)
        BY <1>4 DEF Expanded
    <2>2. b[q] \in Nat /\ b[x] \in Nat
        BY <1>4, <2>1 DEF Search
    <2>3. b[q] <= v
        BY <1>2, <1>4, <2>1, <2>2
    <2> HIDE DEF v
    <2>4. Accounted(c, o, b, q, v)
        BY <1>3, <2>1, <2>3, FoundIsAccounted
    <2> QED
        BY <2>4 DEF v
<1>5. ASSUME NEW e \in o, e.f <= w + Heuristic(c, x)
      PROVE  Accounted(c, o, b, q, v)
    <2>1. e.f \in Nat
        BY DEF Search
    <2>2. e.f <= v + Heuristic(c, q)
        BY <1>2, <1>5, <2>1
    <2> QED
        BY <2>2 DEF Accounted
<1> QED
    BY <1>4, <1>5 DEF Accounted

LEMMA StartIsAccounted ==
    ASSUME NEW c, NEW o, NEW b, NEW from, NEW k, IsChart(c), Search(c, o, b, from, k)
    PROVE  Accounted(c, o, b, c.start, 0)
<1>1. c.start \in DOMAIN b /\ b[c.start] <= 0
    BY DEF Search
<1> QED
    BY <1>1, FoundIsAccounted

LEMMA SearchBegins ==
    ASSUME RouteInit, route = None
    PROVE  IsChart(chart) /\ Search(chart, open, best, cameFrom, counter)
<1> DEFINE c == chart
<1>1. IsChart(c) /\ c \in Charts
    BY ChartsAreCharts DEF RouteInit
<1>2. None \notin {Abstained("out_of_coverage"), Abstained("constraint_violation")}
    <2>1. \A r \in {"out_of_coverage", "constraint_violation"} :
              Abstained(r) \in [reason : {None, "out_of_coverage", "constraint_violation"},
                                path : Seq(Cells(c)), cost : Nat \cup {None}]
        BY EmptySeq DEF Abstained
    <2>2. None \notin [reason : {None, "out_of_coverage", "constraint_violation"},
                       path : Seq(Cells(c)), cost : Nat \cup {None}]
        BY <1>1, RoutesAssumption DEF RoutesAssumption, Cells
    <2> QED
        BY <2>1, <2>2
<1>3. /\ {c.start, c.goal} \subseteq Cells(c) /\ IsNavigable(c, c.start) /\ IsNavigable(c, c.goal)
      /\ counter = 0 /\ cameFrom = <<>>
      /\ open = {[f |-> Heuristic(c, c.start), at |-> 0, cell |-> c.start]}
      /\ best = [p \in {c.start} |-> 0]
    BY <1>2 DEF RouteInit
<1>4. c.start \in Int \X Int /\ Heuristic(c, c.start) \in Nat
    BY <1>1, HeuristicIsConsistent DEF IsChart
<1>5. DOMAIN best = {c.start} /\ best[c.start] = 0 /\ DOMAIN cameFrom = {}
    BY <1>3
<1>6. ASSUME NEW e \in open
      PROVE  e.f = Heuristic(c, c.start) /\ e.at = 0 /\ e.cell = c.start
    BY <1>3
<1>7. \E e \in open : e.cell = c.start /\ e.f = Heuristic(c, c.start)
    BY <1>3
<1>8. best[c.start] + Heuristic(c, c.start) = Heuristic(c, c.start)
    BY <1>4, <1>5
<1> HIDE DEF c
<1>9. Queued(c, open, best, c.start)
    BY <1>7, <1>8 DEF Queued
<1>10. \A e \in open : /\ e.f \in Nat /\ e.at \in Nat /\ e.cell \in DOMAIN best
                       /\ e.f >= best[e.cell] + Heuristic(c, e.cell)
    BY <1>4, <1>5, <1>6, <1>8
<1>11. \A p \in DOMAIN best : p = c.start
    BY <1>5
<1>12. c.goal \in DOMAIN best => Queued(c, open, best, c.goal)
    BY <1>9, <1>11
<1>13. DOMAIN cameFrom = DOMAIN best \ {c.start}
    BY <1>5
<1>14. counter \in Nat
    BY <1>3
<1>15. Search(c, open, best, cameFrom, counter)
    BY <1>3, <1>5, <1>9, <1>10, <1>11, <1>12, <1>13, <1>14 DEF Search
<1> QED
    BY <1>1, <1>15 DEF c

-----------------------------------------------------------------------------
(* What a path costs.                                                      *)

\* f sums the costs of the first n legs of a path.
Sums(f, c, fn, path, n) ==
    f = [i \in 0..n |-> IF i = 0 THEN 0 ELSE f[i - 1] + LegCost(c, fn, path[i], path[i + 1])]

LEMMA SumsExist ==
    ASSUME NEW c, NEW fn, NEW path
    PROVE  \A n \in Nat : \E f : Sums(f, c, fn, path, n)
<1> DEFINE T == {n \in Nat : \E f : Sums(f, c, fn, path, n)}
           one == [i \in 0..0 |-> 0]
           leg(i) == LegCost(c, fn, path[i], path[i + 1])
<1>1. Sums(one, c, fn, path, 0)
    <2>1. one = [i \in 0..0 |-> IF i = 0 THEN 0 ELSE one[i - 1] + leg(i)]
        OBVIOUS
    <2> QED
        BY <2>1 DEF Sums
<1>2. ASSUME NEW n \in Nat, n \in T
      PROVE  n + 1 \in T
    <2>1. PICK f : Sums(f, c, fn, path, n)
        BY <1>2
    <2>2. DOMAIN f = 0..n /\ \A i \in 0..n : f[i] = IF i = 0 THEN 0 ELSE f[i - 1] + leg(i)
        BY <2>1 DEF Sums
    <2> HIDE DEF leg
    <2> DEFINE g == [i \in 0..(n + 1) |-> IF i <= n THEN f[i] ELSE f[n] + leg(i)]
    <2>3. ASSUME NEW i \in 0..(n + 1)
          PROVE  g[i] = IF i = 0 THEN 0 ELSE g[i - 1] + leg(i)
        <3>1. CASE i = n + 1
            <4>1. i - 1 = n /\ i # 0 /\ g[n] = f[n] /\ g[i] = f[n] + leg(i)
                BY <3>1
            <4> QED
                BY <4>1
        <3>2. CASE i \in 0..n
            <4>1. g[i] = f[i] /\ (i # 0 => g[i - 1] = f[i - 1])
                BY <3>2
            <4> QED
                BY <2>2, <3>2, <4>1
        <3> QED
            BY <3>1, <3>2
    <2>4. g = [i \in 0..(n + 1) |-> g[i]]
        OBVIOUS
    <2> HIDE DEF g
    <2>5. Sums(g, c, fn, path, n + 1)
        BY <2>3, <2>4 DEF Sums, leg
    <2> QED
        BY <2>5
<1> HIDE DEF T
<1>3. \A n \in Nat : n \in T
    <2>1. 0 \in T
        BY <1>1 DEF T
    <2> QED
        BY <1>2, <2>1, InductionSet
<1> QED
    BY <1>3 DEF T

LEMMA CostIsSummed ==
    ASSUME NEW c, NEW fn, NEW path, Len(path) \in Nat \ {0}
    PROVE  \E f : /\ CostAlong(c, fn, path) = f[Len(path) - 1] /\ f[0] = 0
                  /\ \A i \in 1..(Len(path) - 1) : f[i] = f[i - 1] + LegCost(c, fn, path[i], path[i + 1])
<1> DEFINE n == Len(path) - 1  f == CHOOSE g : Sums(g, c, fn, path, n)
<1>1. n \in Nat
    OBVIOUS
<1>2. CostAlong(c, fn, path) = f[n]
    BY DEF CostAlong, Sums
<1> HIDE DEF n
<1>3. \E g : Sums(g, c, fn, path, n)
    BY <1>1, SumsExist
<1>4. Sums(f, c, fn, path, n)
    BY <1>3, Zenon
<1> HIDE DEF f
<1>5. f[0] = 0 /\ \A i \in 1..n : f[i] = f[i - 1] + LegCost(c, fn, path[i], path[i + 1])
    <2>1. \A i \in 0..n : f[i] = IF i = 0 THEN 0 ELSE f[i - 1] + LegCost(c, fn, path[i], path[i + 1])
        BY <1>4 DEF Sums
    <2> QED
        BY <1>1, <2>1
<1> QED
    BY <1>2, <1>5 DEF n

\* A way through the grid: each cell but the first a navigable neighbour of the
\* one before.
IsWay(c, path) ==
    /\ Len(path) \in Nat \ {0} /\ path[1] = c.start /\ c.start \in Cells(c)
    /\ \A i \in 1..(Len(path) - 1) : path[i + 1] \in Neighbours(c, path[i])

LEMMA WaysAreAccounted ==
    ASSUME NEW c, NEW o, NEW b, NEW from, NEW k, IsChart(c), Search(c, o, b, from, k),
           KeepsTheFloor(c) \/ o = {}, NEW path, IsWay(c, path)
    PROVE  CostAlong(c, c.costFn, path) \in Nat /\ Accounted(c, o, b, path[Len(path)], CostAlong(c, c.costFn, path))
<1> DEFINE n == Len(path) - 1
<1>1. n \in Nat /\ Len(path) = n + 1
    BY DEF IsWay
<1>2. PICK f : /\ CostAlong(c, c.costFn, path) = f[n] /\ f[0] = 0
               /\ \A i \in 1..n : f[i] = f[i - 1] + StepCost(c, path[i], path[i + 1])
    <2>1. Len(path) \in Nat \ {0}
        BY DEF IsWay
    <2> DEFINE fn == c.costFn
    <2> HIDE DEF fn
    <2>2. \E f : /\ CostAlong(c, fn, path) = f[Len(path) - 1] /\ f[0] = 0
                 /\ \A i \in 1..(Len(path) - 1) : f[i] = f[i - 1] + LegCost(c, fn, path[i], path[i + 1])
        BY <2>1, CostIsSummed
    <2> QED
        BY <2>2 DEF StepCost, fn
<1>3. path[1] = c.start /\ c.start \in Cells(c) /\ \A i \in 1..n : path[i + 1] \in Neighbours(c, path[i])
    BY DEF IsWay
<1> HIDE DEF n
<1> DEFINE T == {i \in Nat : i <= n => /\ path[i + 1] \in Cells(c) /\ f[i] \in Nat
                                        /\ Accounted(c, o, b, path[i + 1], f[i])}
<1>4. 0 \in T
    <2>1. Accounted(c, o, b, c.start, 0)
        BY StartIsAccounted
    <2> QED
        BY <1>2, <1>3, <2>1
<1>5. ASSUME NEW i \in Nat, i \in T
      PROVE  i + 1 \in T
    <2> SUFFICES ASSUME i + 1 <= n
                 PROVE  /\ path[(i + 1) + 1] \in Cells(c) /\ f[i + 1] \in Nat
                        /\ Accounted(c, o, b, path[(i + 1) + 1], f[i + 1])
        OBVIOUS
    <2> DEFINE x == path[i + 1]  q == path[(i + 1) + 1]
    <2>1. i <= n /\ i + 1 \in 1..n /\ (i + 1) - 1 = i
        BY <1>1
    <2>2. x \in Cells(c) /\ f[i] \in Nat /\ Accounted(c, o, b, x, f[i])
        BY <1>5, <2>1
    <2>3. q \in Neighbours(c, x) /\ f[i + 1] = f[i] + StepCost(c, x, q)
        BY <1>2, <1>3, <2>1
    <2> HIDE DEF x, q
    <2>4. /\ q \in Cells(c) /\ Adjacent(x, q) /\ IsNavigable(c, q) /\ x \in Int \X Int
        BY <2>2, <2>3 DEF Neighbours, IsChart
    <2>5. StepCost(c, x, q) \in Nat
        BY <2>2, <2>4, HeuristicIsConsistent
    <2>6. Accounted(c, o, b, q, f[i] + StepCost(c, x, q))
        BY <2>2, <2>3, OnwardIsAccounted
    <2>7. q \in Cells(c) /\ f[i + 1] \in Nat /\ Accounted(c, o, b, q, f[i + 1])
        BY <2>2, <2>3, <2>4, <2>5, <2>6
    <2> QED
        BY <2>7 DEF q
<1> HIDE DEF T
<1>6. \A i \in Nat : i \in T
    BY <1>4, <1>5, InductionSet
<1>7. f[n] \in Nat /\ Accounted(c, o, b, path[n + 1], f[n])
    BY <1>1, <1>6 DEF T
<1> QED
    BY <1>1, <1>2, <1>7

-----------------------------------------------------------------------------
(* The path that is remembered.                                            *)

\* f traces the predecessors of p back, n times at most.
Traced(f, from, p, n) ==
    f = [i \in 0..n |-> IF i = 0 THEN <<p>> ELSE Back(from, f[i - 1])]

LEMMA TracesExist ==
    ASSUME NEW from, NEW p
    PROVE  \A n \in Nat : \E f : Traced(f, from, p, n)
<1> DEFINE T == {n \in Nat : \E f : Traced(f, from, p, n)}
           one == [i \in 0..0 |-> <<p>>]
<1>1. Traced(one, from, p, 0)
    <2>1. one = [i \in 0..0 |-> IF i = 0 THEN <<p>> ELSE Back(from, one[i - 1])]
        OBVIOUS
    <2> QED
        BY <2>1 DEF Traced
<1>2. ASSUME NEW n \in Nat, n \in T
      PROVE  n + 1 \in T
    <2>1. PICK f : Traced(f, from, p, n)
        BY <1>2
    <2>2. DOMAIN f = 0..n /\ \A i \in 0..n : f[i] = IF i = 0 THEN <<p>> ELSE Back(from, f[i - 1])
        BY <2>1 DEF Traced
    <2> DEFINE g == [i \in 0..(n + 1) |-> IF i <= n THEN f[i] ELSE Back(from, f[n])]
    <2>3. ASSUME NEW i \in 0..(n + 1)
          PROVE  g[i] = IF i = 0 THEN <<p>> ELSE Back(from, g[i - 1])
        <3>1. CASE i = n + 1
            <4>1. i - 1 = n /\ i # 0 /\ g[n] = f[n] /\ g[i] = Back(from, f[n])
                BY <3>1
            <4> QED
                BY <4>1
        <3>2. CASE i \in 0..n
            <4>1. g[i] = f[i] /\ (i # 0 => g[i - 1] = f[i - 1])
                BY <3>2
            <4> QED
                BY <2>2, <3>2, <4>1
        <3> QED
            BY <3>1, <3>2
    <2>4. g = [i \in 0..(n + 1) |-> g[i]]
        OBVIOUS
    <2> HIDE DEF g
    <2>5. Traced(g, from, p, n + 1)
        BY <2>3, <2>4 DEF Traced
    <2> QED
        BY <2>5
<1> HIDE DEF T
<1>3. \A n \in Nat : n \in T
    <2>1. 0 \in T
        BY <1>1 DEF T
    <2> QED
        BY <1>2, <2>1, InductionSet
<1> QED
    BY <1>3 DEF T

\* t runs over cells of D to p along from, and stops short of the beginning
\* only where it has been traced n times.
Leads(t, from, D, p, n) ==
    /\ t \in Seq(D) /\ Len(t) \in 1..(n + 1) /\ t[Len(t)] = p
    /\ \A i \in 1..(Len(t) - 1) : t[i + 1] \in DOMAIN from /\ from[t[i + 1]] = t[i]
    /\ t[1] \in DOMAIN from => Len(t) = n + 1

LEMMA BackLeads ==
    ASSUME NEW from, NEW D, \A q \in DOMAIN from : from[q] \in D, NEW p, NEW n \in Nat,
           NEW t, Leads(t, from, D, p, n)
    PROVE  Leads(Back(from, t), from, D, p, n + 1)
<1>1. /\ t \in Seq(D) /\ Len(t) \in Nat /\ Len(t) >= 1 /\ Len(t) <= n + 1 /\ t[Len(t)] = p
      /\ \A i \in 1..(Len(t) - 1) : t[i + 1] \in DOMAIN from /\ from[t[i + 1]] = t[i]
    BY DEF Leads
<1>2. CASE t[1] \notin DOMAIN from
    <2>1. Back(from, t) = t
        BY <1>2 DEF Back
    <2>2. Len(t) \in 1..((n + 1) + 1)
        BY <1>1
    <2> QED
        BY <1>1, <1>2, <2>1, <2>2 DEF Leads
<1>3. CASE t[1] \in DOMAIN from
    <2> DEFINE x == from[t[1]]  s == <<x>> \o t  L == Len(t)
    <2>1. Back(from, t) = s /\ L = n + 1
        BY <1>3 DEF Back, Leads
    <2>2. x \in D /\ <<x>> \in Seq(D) /\ Len(<<x>>) = 1 /\ <<x>>[1] = x
        BY <1>3
    <2>3. s \in Seq(D) /\ Len(s) = Len(<<x>>) + L
          /\ \A i \in 1..(Len(<<x>>) + L) : s[i] = IF i <= Len(<<x>>) THEN <<x>>[i] ELSE t[i - Len(<<x>>)]
        <3> DEFINE u == <<x>>
        <3>1. t \in Seq(D) /\ u \in Seq(D)
            BY <1>1, <2>2
        <3> HIDE DEF u, x
        <3> QED
            BY <3>1, ConcatProperties, Zenon DEF u
    <2>4. Len(s) = L + 1 /\ s[1] = x /\ \A i \in 1..L : s[i + 1] = t[i]
        <3> HIDE DEF s, x, L
        <3>1. L \in Nat
            BY <1>1 DEF L
        <3>2. s[1] = x
            BY <2>2, <2>3, <3>1
        <3>3. ASSUME NEW i \in 1..L
              PROVE  s[i + 1] = t[i]
            <4>1. i + 1 \in 1..(1 + L) /\ ~(i + 1 <= 1) /\ (i + 1) - 1 = i
                BY <3>1
            <4> QED
                BY <2>2, <2>3, <4>1
        <3> QED
            BY <2>2, <2>3, <3>1, <3>2, <3>3
    <2> HIDE DEF s, x
    <2>5. L \in Nat /\ L >= 1 /\ L = Len(t)
        BY <1>1
    <2> HIDE DEF L
    <2>6. s[Len(s)] = p
        BY <1>1, <2>4, <2>5
    <2>7. ASSUME NEW i \in 1..(Len(s) - 1)
          PROVE  s[i + 1] \in DOMAIN from /\ from[s[i + 1]] = s[i]
        <3>1. CASE i = 1
            <4>1. s[i + 1] = t[1] /\ s[i] = x
                BY <2>4, <2>5, <3>1
            <4> QED
                BY <1>3, <4>1 DEF x
        <3>2. CASE i # 1
            <4>1. i - 1 \in 1..(Len(t) - 1) /\ i \in 1..L /\ i - 1 \in 1..L /\ (i - 1) + 1 = i
                BY <2>4, <2>5, <3>2
            <4>2. s[i + 1] = t[i] /\ s[i] = t[i - 1]
                BY <2>4, <4>1
            <4> QED
                BY <1>1, <4>1, <4>2
        <3> QED
            BY <3>1, <3>2
    <2>8. Len(s) \in 1..((n + 1) + 1) /\ Len(s) = (n + 1) + 1
        BY <2>1, <2>4, <2>5
    <2> QED
        BY <2>1, <2>3, <2>6, <2>7, <2>8 DEF Leads
<1> QED
    BY <1>2, <1>3

LEMMA TrailLeads ==
    ASSUME NEW from, NEW D, \A q \in DOMAIN from : from[q] \in D, NEW p \in D,
           Cardinality(DOMAIN from) \in Nat
    PROVE  Leads(Trail(from, p), from, D, p, Cardinality(DOMAIN from))
<1> DEFINE n == Cardinality(DOMAIN from)  f == CHOOSE g : Traced(g, from, p, n)
<1>1. Trail(from, p) = f[n]
    BY DEF Trail, Traced
<1>2. n \in Nat
    OBVIOUS
<1> HIDE DEF n
<1>3. \E g : Traced(g, from, p, n)
    BY <1>2, TracesExist
<1>4. Traced(f, from, p, n)
    BY <1>3, Zenon
<1> HIDE DEF f
<1>5. \A i \in 0..n : f[i] = IF i = 0 THEN <<p>> ELSE Back(from, f[i - 1])
    BY <1>4 DEF Traced
<1> DEFINE T == {i \in Nat : i <= n => Leads(f[i], from, D, p, i)}
<1>6. 0 \in T
    <2>1. f[0] = <<p>>
        BY <1>2, <1>5
    <2>2. Leads(<<p>>, from, D, p, 0)
        BY DEF Leads
    <2> QED
        BY <2>1, <2>2
<1>7. ASSUME NEW i \in Nat, i \in T
      PROVE  i + 1 \in T
    <2> SUFFICES ASSUME i + 1 <= n
                 PROVE  Leads(f[i + 1], from, D, p, i + 1)
        OBVIOUS
    <2>1. Leads(f[i], from, D, p, i)
        BY <1>2, <1>7
    <2>2. i + 1 \in 0..n /\ i + 1 # 0 /\ (i + 1) - 1 = i
        BY <1>2
    <2>3. f[i + 1] = Back(from, f[i])
        BY <1>5, <2>2
    <2> QED
        BY <2>1, <2>3, BackLeads
<1> HIDE DEF T
<1>8. \A i \in Nat : i \in T
    BY <1>6, <1>7, InductionSet
<1>9. Leads(f[n], from, D, p, n)
    BY <1>2, <1>8 DEF T
<1> QED
    BY <1>1, <1>9 DEF n

\* What the sums of a rising path come to.
LEMMA TrailIsAWay ==
    ASSUME NEW c, NEW o, NEW b, NEW from, NEW k, IsChart(c), Search(c, o, b, from, k),
           NEW p \in DOMAIN b
    PROVE  LET t == Trail(from, p) IN
           /\ IsWay(c, t) /\ t[Len(t)] = p /\ CostAlong(c, c.costFn, t) <= b[p]
           /\ \A i \in 1..Len(t) : t[i] \in DOMAIN b
           /\ Len(t) <= Cardinality(Cells(c)) /\ Cardinality(Cells(c)) \in Nat
<1> DEFINE t == Trail(from, p)  D == DOMAIN b  N == Cardinality(DOMAIN from)
<1>1. /\ D \subseteq Cells(c) /\ \A q \in D : b[q] \in Nat
      /\ c.start \in D /\ b[c.start] = 0 /\ DOMAIN from = D \ {c.start}
      /\ \A q \in DOMAIN from : /\ from[q] \in D /\ q \in Neighbours(c, from[q])
                                /\ b[q] >= b[from[q]] + StepCost(c, from[q], q)
    BY DEF Search
<1>2. IsFiniteSet(Cells(c)) /\ IsFiniteSet(D) /\ IsFiniteSet(DOMAIN from)
    <2>1. IsFiniteSet(Cells(c)) /\ D \in SUBSET Cells(c) /\ DOMAIN from \in SUBSET D
        BY <1>1 DEF IsChart
    <2> HIDE DEF D
    <2>2. IsFiniteSet(D)
        BY <2>1, FS_Subset
    <2> QED
        BY <2>1, <2>2, FS_Subset
<1>3. N \in Nat /\ N + 1 <= Cardinality(Cells(c)) /\ Cardinality(Cells(c)) \in Nat
    <2>1. Cardinality(D \ {c.start}) = Cardinality(D) - 1 /\ Cardinality(D) \in Nat
        BY <1>1, <1>2, FS_RemoveElement, FS_CardinalityType
    <2>2. Cardinality(D) <= Cardinality(Cells(c))
        BY <1>1, <1>2, FS_Subset
    <2>3. N \in Nat /\ Cardinality(Cells(c)) \in Nat
        BY <1>2, FS_CardinalityType
    <2> QED
        BY <1>1, <2>1, <2>2, <2>3
<1> HIDE DEF N
<1>4. Leads(t, from, D, p, N)
    <2>1. \A q \in DOMAIN from : from[q] \in D
        BY <1>1
    <2>2. Cardinality(DOMAIN from) \in Nat /\ p \in D
        BY <1>3 DEF N
    <2> HIDE DEF D
    <2>3. Leads(t, from, D, p, Cardinality(DOMAIN from))
        BY <2>1, <2>2, TrailLeads
    <2> QED
        BY <2>3 DEF N
<1> HIDE DEF t, D
<1> DEFINE L == Len(t)
<1>5. /\ t \in Seq(D) /\ L \in Nat /\ L >= 1 /\ L <= N + 1 /\ t[L] = p
      /\ \A i \in 1..(L - 1) : t[i + 1] \in DOMAIN from /\ from[t[i + 1]] = t[i]
      /\ t[1] \in DOMAIN from => L = N + 1
    BY <1>3, <1>4 DEF Leads
<1>6. \A i \in 1..L : t[i] \in D
    BY <1>5, ElementOfSeq
<1> HIDE DEF L
<1>7. ASSUME NEW i \in 1..(L - 1)
      PROVE  /\ t[i] \in D /\ t[i + 1] \in D /\ t[i + 1] \in Neighbours(c, t[i])
             /\ StepCost(c, t[i], t[i + 1]) \in Nat \ {0}
             /\ b[t[i + 1]] >= b[t[i]] + StepCost(c, t[i], t[i + 1])
    <2> DEFINE x == t[i]  q == t[i + 1]
    <2>1. q \in DOMAIN from /\ from[q] = x /\ i \in 1..L /\ i + 1 \in 1..L
        BY <1>5
    <2>2. x \in D /\ q \in D /\ q \in Neighbours(c, x) /\ b[q] >= b[x] + StepCost(c, x, q)
        BY <1>1, <1>6, <2>1
    <2> HIDE DEF x, q
    <2>3. x \in Int \X Int /\ q \in Cells(c) /\ Adjacent(x, q) /\ IsNavigable(c, q)
        BY <1>1, <2>2 DEF Neighbours, IsChart
    <2>4. StepCost(c, x, q) \in Nat \ {0}
        BY <1>1, <2>2, <2>3, HeuristicIsConsistent
    <2> QED
        BY <2>2, <2>4 DEF x, q
<1>8. \A i \in 1..(L - 1) : b[t[i + 1]] > b[t[i]]
    <2>1. ASSUME NEW i \in 1..(L - 1)
          PROVE  b[t[i + 1]] > b[t[i]]
        <3> DEFINE u == b[t[i]]  v == b[t[i + 1]]  w == StepCost(c, t[i], t[i + 1])
        <3>1. u \in Nat /\ v \in Nat /\ w \in Nat \ {0} /\ v >= u + w
            BY <1>1, <1>7
        <3> HIDE DEF u, v, w
        <3>2. v > u
            BY <3>1
        <3> QED
            BY <3>2 DEF u, v
    <2> QED
        BY <2>1
<1>9. \A j \in Nat : \A i \in 1..L : i + (j + 1) \in 1..L => b[t[i + (j + 1)]] > b[t[i]]
    <2> DEFINE T == {j \in Nat : \A i \in 1..L : i + (j + 1) \in 1..L => b[t[i + (j + 1)]] > b[t[i]]}
    <2>1. 0 \in T
        <3>1. \A i \in 1..L : i + (0 + 1) \in 1..L => i \in 1..(L - 1) /\ i + (0 + 1) = i + 1
            BY <1>5
        <3> QED
            BY <1>8, <3>1
    <2>2. ASSUME NEW j \in Nat, j \in T
          PROVE  j + 1 \in T
        <3>1. ASSUME NEW i \in 1..L, i + ((j + 1) + 1) \in 1..L
              PROVE  b[t[i + ((j + 1) + 1)]] > b[t[i]]
            <4>1. /\ i + (j + 1) \in 1..L /\ i + (j + 1) \in 1..(L - 1)
                  /\ i + ((j + 1) + 1) = (i + (j + 1)) + 1
                BY <1>5, <3>1
            <4>2. b[t[i + (j + 1)]] > b[t[i]]
                BY <2>2, <4>1
            <4>3. b[t[(i + (j + 1)) + 1]] > b[t[i + (j + 1)]]
                BY <1>8, <4>1
            <4>4. b[t[i]] \in Nat /\ b[t[i + (j + 1)]] \in Nat /\ b[t[(i + (j + 1)) + 1]] \in Nat
                BY <1>1, <1>6, <3>1, <4>1
            <4> QED
                BY <4>1, <4>2, <4>3, <4>4
        <3> QED
            BY <3>1
    <2> HIDE DEF T
    <2>3. \A j \in Nat : j \in T
        BY <2>1, <2>2, InductionSet
    <2> QED
        BY <2>3 DEF T
<1>10. \A i, j \in 1..L : t[i] = t[j] => i = j
    <2>1. ASSUME NEW i \in 1..L, NEW j \in 1..L, i < j
          PROVE  t[i] # t[j]
        <3>1. j - i - 1 \in Nat /\ i + ((j - i - 1) + 1) = j
            BY <1>5, <2>1
        <3>2. b[t[j]] > b[t[i]]
            BY <1>9, <3>1
        <3>3. b[t[j]] \in Nat /\ b[t[i]] \in Nat
            BY <1>1, <1>6
        <3> QED
            BY <3>2, <3>3
    <2> QED
        BY <1>5, <2>1
<1>11. t[1] = c.start
    <2> SUFFICES ASSUME t[1] # c.start
                 PROVE  FALSE
        OBVIOUS
    <2>1. t[1] \in DOMAIN from /\ L = N + 1
        BY <1>1, <1>5, <1>6
    <2>2. \A i \in 1..L : t[i] \in DOMAIN from
        <3>1. ASSUME NEW i \in 1..L
              PROVE  t[i] \in DOMAIN from
            <4>1. CASE i = 1
                BY <2>1, <4>1
            <4>2. CASE i # 1
                <5>1. i - 1 \in 1..(L - 1) /\ (i - 1) + 1 = i
                    BY <1>5, <4>2
                <5> QED
                    BY <1>5, <5>1
            <4> QED
                BY <4>1, <4>2
        <3> QED
            BY <3>1
    <2> DEFINE I == 1..L  R == {t[i] : i \in I}
    <2>3. IsFiniteSet(I) /\ Cardinality(I) = L
        <3>1. 1 \in Int /\ L \in Int /\ ~(1 > L) /\ L - 1 + 1 = L
            BY <1>5
        <3>2. IsFiniteSet(1..L) /\ Cardinality(1..L) = IF 1 > L THEN 0 ELSE L - 1 + 1
            BY <3>1, FS_Interval, Zenon
        <3> QED
            BY <3>1, <3>2
    <2>4. I \subseteq DOMAIN t
        BY <1>5 DEF L
    <2> HIDE DEF I
    <2>5. Cardinality(R) = Cardinality(I)
        <3>1. \A i, j \in I : t[i] = t[j] => i = j
            BY <1>10 DEF I
        <3> QED
            BY <2>3, <2>4, <3>1, ImageOfInjection
    <2>6. R \subseteq DOMAIN from
        BY <2>2 DEF I
    <2> HIDE DEF R
    <2>7. Cardinality(R) <= N
        BY <1>2, <2>6, FS_Subset DEF N
    <2> QED
        BY <1>3, <1>5, <2>1, <2>3, <2>5, <2>7
<1>12. IsWay(c, t)
    <2>1. Len(t) \in Nat \ {0}
        BY <1>5 DEF L
    <2>2. \A i \in 1..(Len(t) - 1) : t[i + 1] \in Neighbours(c, t[i])
        BY <1>7 DEF L
    <2> QED
        BY <1>1, <1>11, <2>1, <2>2 DEF IsWay
<1>13. CostAlong(c, c.costFn, t) <= b[p]
    <2> DEFINE n == L - 1
    <2>1. n \in Nat /\ L = n + 1
        BY <1>5
    <2>2. PICK f : /\ CostAlong(c, c.costFn, t) = f[n] /\ f[0] = 0
                   /\ \A i \in 1..n : f[i] = f[i - 1] + StepCost(c, t[i], t[i + 1])
        <3>1. Len(t) \in Nat \ {0}
            BY <1>5 DEF L
        <3> DEFINE fn == c.costFn
        <3> HIDE DEF fn
        <3>2. \E f : /\ CostAlong(c, fn, t) = f[Len(t) - 1] /\ f[0] = 0
                     /\ \A i \in 1..(Len(t) - 1) : f[i] = f[i - 1] + LegCost(c, fn, t[i], t[i + 1])
            BY <3>1, CostIsSummed
        <3> QED
            BY <3>2 DEF L, StepCost, fn
    <2> HIDE DEF n
    <2> DEFINE T == {i \in Nat : i <= n => f[i] \in Nat /\ f[i] <= b[t[i + 1]]}
    <2>3. 0 \in T
        BY <1>1, <1>11, <2>2
    <2>4. ASSUME NEW i \in Nat, i \in T
          PROVE  i + 1 \in T
        <3> SUFFICES ASSUME i + 1 <= n
                     PROVE  f[i + 1] \in Nat /\ f[i + 1] <= b[t[(i + 1) + 1]]
            OBVIOUS
        <3> DEFINE u == b[t[i + 1]]  v == b[t[(i + 1) + 1]]  w == StepCost(c, t[i + 1], t[(i + 1) + 1])
        <3>1. i + 1 \in 1..n /\ i + 1 \in 1..(L - 1) /\ (i + 1) - 1 = i /\ i <= n
            BY <2>1
        <3>2. f[i] \in Nat /\ f[i] <= u
            BY <2>4, <3>1
        <3>3. f[i + 1] = f[i] + w
            BY <2>2, <3>1
        <3>4. u \in Nat /\ v \in Nat /\ w \in Nat /\ v >= u + w
            BY <1>1, <1>7, <3>1
        <3> HIDE DEF u, v, w
        <3>5. f[i + 1] \in Nat /\ f[i + 1] <= v
            BY <3>2, <3>3, <3>4
        <3> QED
            BY <3>5 DEF v
    <2> HIDE DEF T
    <2>5. \A i \in Nat : i \in T
        BY <2>3, <2>4, InductionSet
    <2>6. f[n] <= b[t[n + 1]]
        BY <2>1, <2>5 DEF T
    <2> QED
        BY <1>5, <2>1, <2>2, <2>6
<1>14. L <= Cardinality(Cells(c))
    BY <1>3, <1>5
<1> QED
    BY <1>3, <1>5, <1>6, <1>12, <1>13, <1>14 DEF t, L, D

-----------------------------------------------------------------------------
(* The reference.                                                          *)

OneLegOn(c, w, q) == <<q, w[2] + StepCost(c, w[1], q)>>

LEMMA FurtherReaches ==
    ASSUME NEW c, IsChart(c), NEW known \in SUBSET (Cells(c) \X Nat)
    PROVE  /\ Further(c, known) \subseteq Cells(c) \X Nat
           /\ \A v \in Further(c, known) :
                 v \in known \/ \E w \in known : \E q \in Neighbours(c, w[1]) : v = OneLegOn(c, w, q)
           /\ \A w \in known : \E v \in Further(c, known) : v[1] = w[1] /\ v[2] <= w[2]
           /\ \A w \in known : \A q \in Neighbours(c, w[1]) :
                 \E v \in Further(c, known) : v[1] = q /\ v[2] <= OneLegOn(c, w, q)[2]
           /\ \A u, v \in Further(c, known) : u[1] = v[1] => u[2] = v[2]
<1> DEFINE onward == UNION {{OneLegOn(c, w, q) : q \in Neighbours(c, w[1])} : w \in known}
           all == known \cup onward
<1>1. Further(c, known) = {w \in all : \A o \in all : o[1] = w[1] => w[2] <= o[2]}
    BY DEF Further, Neighbours, OneLegOn
<1>2. \A w \in known : \A q \in Neighbours(c, w[1]) :
          OneLegOn(c, w, q) \in Cells(c) \X Nat /\ OneLegOn(c, w, q)[1] = q
    <2>1. ASSUME NEW w \in known, NEW q \in Neighbours(c, w[1])
          PROVE  OneLegOn(c, w, q) \in Cells(c) \X Nat /\ OneLegOn(c, w, q)[1] = q
        <3>1. w[1] \in Int \X Int /\ w[2] \in Nat /\ q \in Cells(c) /\ Adjacent(w[1], q) /\ IsNavigable(c, q)
            BY DEF Neighbours, IsChart
        <3>2. StepCost(c, w[1], q) \in Nat
            BY <3>1, HeuristicIsConsistent
        <3> QED
            BY <3>1, <3>2 DEF OneLegOn
    <2> QED
        BY <2>1
<1>3. all \subseteq Cells(c) \X Nat
    <2>1. onward \subseteq Cells(c) \X Nat
        BY <1>2
    <2> QED
        BY <2>1
<1>4. \A w \in known : \A q \in Neighbours(c, w[1]) : OneLegOn(c, w, q) \in all
    OBVIOUS
<1>5. \A v \in all : v \in known \/ \E w \in known : \E q \in Neighbours(c, w[1]) : v = OneLegOn(c, w, q)
    OBVIOUS
<1>6. \A w \in known : w \in all
    OBVIOUS
<1> HIDE DEF all
<1>7. ASSUME NEW u \in all
      PROVE  \E v \in Further(c, known) : v[1] = u[1] /\ v[2] <= u[2]
    <2> DEFINE T == {v[2] : v \in {o \in all : o[1] = u[1]}}
    <2>1. T \in SUBSET Nat /\ T # {} /\ u[2] \in T
        BY <1>3
    <2>2. PICK n \in T : \A m \in T : n <= m
        BY <2>1, LeastElement
    <2>3. PICK v \in all : v[1] = u[1] /\ v[2] = n
        BY <2>2
    <2>4. \A o \in all : o[1] = v[1] => v[2] <= o[2]
        BY <2>2, <2>3
    <2> QED
        BY <1>1, <2>1, <2>2, <2>3, <2>4
<1>8. Further(c, known) \subseteq all
    BY <1>1
<1>9. ASSUME NEW w \in known, NEW q \in Neighbours(c, w[1])
      PROVE  \E v \in Further(c, known) : v[1] = q /\ v[2] <= OneLegOn(c, w, q)[2]
    BY <1>2, <1>4, <1>7
<1>10. ASSUME NEW u \in Further(c, known), NEW v \in Further(c, known), u[1] = v[1]
       PROVE  u[2] = v[2]
    <2>1. u[2] <= v[2] /\ v[2] <= u[2]
        BY <1>1, <1>10
    <2>2. u[2] \in Nat /\ v[2] \in Nat
        BY <1>3, <1>8
    <2> QED
        BY <2>1, <2>2
<1> QED
    BY <1>3, <1>5, <1>6, <1>7, <1>8, <1>9, <1>10

\* f holds what can be reached in each number of moves up to n.
Spreads(f, c, n) ==
    f = [k \in 0..n |-> IF k = 0 THEN {<<c.start, 0>>} ELSE Further(c, f[k - 1])]

LEMMA SpreadsExist ==
    ASSUME NEW c
    PROVE  \A n \in Nat : \E f : Spreads(f, c, n)
<1> DEFINE T == {n \in Nat : \E f : Spreads(f, c, n)}
           one == [k \in 0..0 |-> {<<c.start, 0>>}]
<1>1. Spreads(one, c, 0)
    <2>1. one = [k \in 0..0 |-> IF k = 0 THEN {<<c.start, 0>>} ELSE Further(c, one[k - 1])]
        OBVIOUS
    <2> QED
        BY <2>1 DEF Spreads
<1>2. ASSUME NEW n \in Nat, n \in T
      PROVE  n + 1 \in T
    <2>1. PICK f : Spreads(f, c, n)
        BY <1>2
    <2>2. DOMAIN f = 0..n /\ \A k \in 0..n : f[k] = IF k = 0 THEN {<<c.start, 0>>} ELSE Further(c, f[k - 1])
        BY <2>1 DEF Spreads
    <2> DEFINE g == [k \in 0..(n + 1) |-> IF k <= n THEN f[k] ELSE Further(c, f[n])]
    <2>3. ASSUME NEW k \in 0..(n + 1)
          PROVE  g[k] = IF k = 0 THEN {<<c.start, 0>>} ELSE Further(c, g[k - 1])
        <3>1. CASE k = n + 1
            <4>1. k - 1 = n /\ k # 0 /\ g[n] = f[n] /\ g[k] = Further(c, f[n])
                BY <3>1
            <4> QED
                BY <4>1
        <3>2. CASE k \in 0..n
            <4>1. g[k] = f[k] /\ (k # 0 => g[k - 1] = f[k - 1])
                BY <3>2
            <4> QED
                BY <2>2, <3>2, <4>1
        <3> QED
            BY <3>1, <3>2
    <2>4. g = [k \in 0..(n + 1) |-> g[k]]
        OBVIOUS
    <2> HIDE DEF g
    <2>5. Spreads(g, c, n + 1)
        BY <2>3, <2>4 DEF Spreads
    <2> QED
        BY <2>5
<1> HIDE DEF T
<1>3. \A n \in Nat : n \in T
    <2>1. 0 \in T
        BY <1>1 DEF T
    <2> QED
        BY <1>2, <2>1, InductionSet
<1> QED
    BY <1>3 DEF T

MoveByMove(f, c, n) == f[0] = {<<c.start, 0>>} /\ \A k \in 1..n : f[k] = Further(c, f[k - 1])

LEMMA ReachedInMoves ==
    ASSUME NEW c, NEW n \in Nat
    PROVE  \E f : Reached(c, n) = f[n] /\ MoveByMove(f, c, n)
<1> DEFINE f == CHOOSE g : Spreads(g, c, n)
<1>1. Reached(c, n) = f[n]
    BY DEF Reached, Spreads
<1>2. \E g : Spreads(g, c, n)
    BY SpreadsExist
<1>3. Spreads(f, c, n)
    BY <1>2, Zenon
<1> HIDE DEF f
<1>4. f[0] = {<<c.start, 0>>} /\ \A k \in 1..n : f[k] = Further(c, f[k - 1])
    <2>1. \A k \in 0..n : f[k] = IF k = 0 THEN {<<c.start, 0>>} ELSE Further(c, f[k - 1])
        BY <1>3 DEF Spreads
    <2> QED
        BY <2>1
<1> QED
    BY <1>1, <1>4 DEF MoveByMove

\* Nothing is reached that the search has not accounted for ...
LEMMA ReachedIsAccounted ==
    ASSUME NEW c, NEW o, NEW b, NEW from, NEW j, IsChart(c), Search(c, o, b, from, j),
           KeepsTheFloor(c) \/ o = {}, NEW n \in Nat
    PROVE  \A w \in Reached(c, n) : /\ w \in Cells(c) \X Nat /\ Accounted(c, o, b, w[1], w[2])
<1>0. PICK f : Reached(c, n) = f[n] /\ MoveByMove(f, c, n)
    BY ReachedInMoves
<1>1. /\ Reached(c, n) = f[n] /\ f[0] = {<<c.start, 0>>}
      /\ \A k \in 1..n : f[k] = Further(c, f[k - 1])
    BY <1>0 DEF MoveByMove
<1> DEFINE Good(S) == \A w \in S : w \in Cells(c) \X Nat /\ Accounted(c, o, b, w[1], w[2])
           T == {k \in Nat : k <= n => Good(f[k])}
<1>2. 0 \in T
    <2>1. c.start \in Cells(c) /\ Accounted(c, o, b, c.start, 0)
        BY StartIsAccounted DEF Search
    <2> QED
        BY <1>1, <2>1
<1>3. ASSUME NEW k \in Nat, k \in T
      PROVE  k + 1 \in T
    <2> SUFFICES ASSUME k + 1 <= n
                 PROVE  Good(f[k + 1])
        OBVIOUS
    <2>1. Good(f[k]) /\ k + 1 \in 1..n /\ (k + 1) - 1 = k
        BY <1>3
    <2>2. f[k + 1] = Further(c, f[k])
        BY <1>1, <2>1
    <2>3. f[k] \in SUBSET (Cells(c) \X Nat)
        BY <2>1
    <2> DEFINE known == f[k]
    <2>4. /\ Further(c, known) \subseteq Cells(c) \X Nat
          /\ \A v \in Further(c, known) :
                v \in known \/ \E w \in known : \E q \in Neighbours(c, w[1]) : v = OneLegOn(c, w, q)
        BY <2>3, FurtherReaches
    <2>5. ASSUME NEW w \in known, NEW q \in Neighbours(c, w[1])
          PROVE  Accounted(c, o, b, OneLegOn(c, w, q)[1], OneLegOn(c, w, q)[2])
        <3>1. w[1] \in Cells(c) /\ w[2] \in Int /\ Accounted(c, o, b, w[1], w[2])
            BY <2>1, <2>3
        <3>2. Accounted(c, o, b, q, w[2] + StepCost(c, w[1], q))
            BY <3>1, OnwardIsAccounted
        <3> QED
            BY <3>2 DEF OneLegOn
    <2>6. \A w \in known : Accounted(c, o, b, w[1], w[2])
        BY <2>1
    <2> HIDE DEF known
    <2>7. \A v \in Further(c, known) : Accounted(c, o, b, v[1], v[2])
        BY <2>4, <2>5, <2>6
    <2> QED
        BY <2>2, <2>4, <2>7 DEF known
<1> HIDE DEF T
<1>4. \A k \in Nat : k \in T
    BY <1>2, <1>3, InductionSet
<1>5. Good(f[n])
    BY <1>4 DEF T
<1> QED
    BY <1>1, <1>5

\* ... each cell is reached at one cost ...
LEMMA ReachedOnce ==
    ASSUME NEW c, IsChart(c), c.start \in Cells(c), NEW n \in Nat
    PROVE  \A u, v \in Reached(c, n) : u[1] = v[1] => u[2] = v[2]
<1>0. PICK f : Reached(c, n) = f[n] /\ MoveByMove(f, c, n)
    BY ReachedInMoves
<1>1. /\ Reached(c, n) = f[n] /\ f[0] = {<<c.start, 0>>}
      /\ \A k \in 1..n : f[k] = Further(c, f[k - 1])
    BY <1>0 DEF MoveByMove
<1> DEFINE Once(S) == S \in SUBSET (Cells(c) \X Nat) /\ \A u, v \in S : u[1] = v[1] => u[2] = v[2]
           T == {k \in Nat : k <= n => Once(f[k])}
<1>2. 0 \in T
    BY <1>1
<1>3. ASSUME NEW k \in Nat, k \in T
      PROVE  k + 1 \in T
    <2> SUFFICES ASSUME k + 1 <= n
                 PROVE  Once(f[k + 1])
        OBVIOUS
    <2>1. Once(f[k]) /\ k + 1 \in 1..n /\ (k + 1) - 1 = k
        BY <1>3
    <2>2. f[k + 1] = Further(c, f[k])
        BY <1>1, <2>1
    <2>3. f[k] \in SUBSET (Cells(c) \X Nat)
        BY <2>1
    <2> QED
        BY <2>2, <2>3, FurtherReaches
<1> HIDE DEF T
<1>4. \A k \in Nat : k \in T
    BY <1>2, <1>3, InductionSet
<1>5. Once(f[n])
    BY <1>4 DEF T
<1> QED
    BY <1>1, <1>5

\* ... and the end of every short enough way is reached for no more than the
\* way costs.
LEMMA WaysAreReached ==
    ASSUME NEW c, IsChart(c), NEW path, IsWay(c, path), NEW n \in Nat, Len(path) <= n + 1
    PROVE  \E w \in Reached(c, n) : w[1] = path[Len(path)] /\ w[2] <= CostAlong(c, c.costFn, path)
<1>0. PICK f : Reached(c, n) = f[n] /\ MoveByMove(f, c, n)
    BY ReachedInMoves
<1>4. /\ Reached(c, n) = f[n] /\ f[0] = {<<c.start, 0>>}
      /\ \A k \in 1..n : f[k] = Further(c, f[k - 1])
    BY <1>0 DEF MoveByMove
<1> DEFINE m == Len(path) - 1
<1>1. m \in Nat /\ Len(path) = m + 1 /\ m <= n
    BY DEF IsWay
<1>2. PICK g : /\ CostAlong(c, c.costFn, path) = g[m] /\ g[0] = 0
               /\ \A i \in 1..m : g[i] = g[i - 1] + StepCost(c, path[i], path[i + 1])
    <2>1. Len(path) \in Nat \ {0}
        BY DEF IsWay
    <2> DEFINE fn == c.costFn
    <2> HIDE DEF fn
    <2>2. \E h : /\ CostAlong(c, fn, path) = h[Len(path) - 1] /\ h[0] = 0
                 /\ \A i \in 1..(Len(path) - 1) : h[i] = h[i - 1] + LegCost(c, fn, path[i], path[i + 1])
        BY <2>1, CostIsSummed
    <2> QED
        BY <2>2 DEF StepCost, fn
<1>3. path[1] = c.start /\ c.start \in Cells(c) /\ \A i \in 1..m : path[i + 1] \in Neighbours(c, path[i])
    BY DEF IsWay
<1> HIDE DEF m
<1> DEFINE at(k) == IF k <= m THEN k ELSE m
           Has(S, i) == S \in SUBSET (Cells(c) \X Nat) /\ g[i] \in Nat /\ path[i + 1] \in Cells(c)
                        /\ \E w \in S : w[1] = path[i + 1] /\ w[2] <= g[i]
           T == {k \in Nat : k <= n => Has(f[k], at(k))}
<1>5. 0 \in T
    <2>1. at(0) = 0 /\ path[0 + 1] = c.start
        BY <1>1, <1>3
    <2>2. <<c.start, 0>> \in f[0] /\ f[0] \in SUBSET (Cells(c) \X Nat)
        BY <1>3, <1>4
    <2>3. \E w \in f[0] : w[1] = path[0 + 1] /\ w[2] <= g[0]
        BY <1>2, <2>1, <2>2
    <2> QED
        BY <1>2, <1>3, <2>1, <2>2, <2>3
<1>6. ASSUME NEW k \in Nat, k \in T
      PROVE  k + 1 \in T
    <2> SUFFICES ASSUME k + 1 <= n
                 PROVE  Has(f[k + 1], at(k + 1))
        OBVIOUS
    <2> DEFINE known == f[k]  i == at(k)
    <2>1. Has(known, i) /\ k + 1 \in 1..n /\ (k + 1) - 1 = k
        BY <1>6
    <2>2. f[k + 1] = Further(c, known)
        BY <1>4, <2>1
    <2>3. i \in 0..m /\ (at(k + 1) = i \/ (i < m /\ at(k + 1) = i + 1))
        BY <1>1
    <2> HIDE DEF known, i, at
    <2>4. PICK w \in known : w[1] = path[i + 1] /\ w[2] <= g[i]
        BY <2>1
    <2>5. w[2] \in Nat /\ g[i] \in Nat /\ known \in SUBSET (Cells(c) \X Nat)
        BY <2>1
    <2>6. /\ Further(c, known) \subseteq Cells(c) \X Nat
          /\ \E v \in Further(c, known) : v[1] = w[1] /\ v[2] <= w[2]
          /\ \A q \in Neighbours(c, w[1]) :
                 \E v \in Further(c, known) : v[1] = q /\ v[2] <= OneLegOn(c, w, q)[2]
        BY <2>5, FurtherReaches
    <2>7. CASE at(k + 1) = i
        <3>1. PICK v \in Further(c, known) : v[1] = w[1] /\ v[2] <= w[2]
            BY <2>6
        <3>2. v[2] \in Nat
            BY <2>6
        <3>3. v[1] = path[i + 1] /\ v[2] <= g[i]
            BY <2>4, <2>5, <3>1, <3>2
        <3> QED
            BY <2>1, <2>2, <2>6, <2>7, <3>3
    <2>8. CASE i < m /\ at(k + 1) = i + 1
        <3> DEFINE x == path[i + 1]  q == path[(i + 1) + 1]  r == StepCost(c, x, q)
        <3>1. i + 1 \in 1..m /\ (i + 1) - 1 = i
            BY <1>1, <2>3, <2>8
        <3>2. q \in Neighbours(c, x) /\ g[i + 1] = g[i] + r
            BY <1>2, <1>3, <3>1
        <3>3. x \in Cells(c) /\ w[1] = x
            BY <2>1, <2>4
        <3> HIDE DEF x, q
        <3>4. q \in Cells(c) /\ Adjacent(x, q) /\ IsNavigable(c, q) /\ x \in Int \X Int
            BY <3>2, <3>3 DEF Neighbours, IsChart
        <3>5. r \in Nat
            BY <3>3, <3>4, HeuristicIsConsistent
        <3> HIDE DEF r
        <3>6. PICK v \in Further(c, known) : v[1] = q /\ v[2] <= OneLegOn(c, w, q)[2]
            BY <2>6, <3>2, <3>3
        <3>7. OneLegOn(c, w, q)[2] = w[2] + r
            BY <3>3 DEF OneLegOn, r
        <3>8. v[2] \in Nat
            BY <2>6
        <3>9. v[2] <= g[i + 1] /\ g[i + 1] \in Nat
            BY <2>4, <2>5, <3>2, <3>5, <3>6, <3>7, <3>8
        <3> QED
            BY <2>2, <2>6, <2>8, <3>4, <3>6, <3>9 DEF q
    <2> QED
        BY <2>3, <2>7, <2>8
<1> HIDE DEF T
<1>7. \A k \in Nat : k \in T
    BY <1>5, <1>6, InductionSet
<1>8. Has(f[n], at(n)) /\ at(n) = m
    BY <1>1, <1>7 DEF T
<1> QED
    BY <1>1, <1>2, <1>4, <1>8

-----------------------------------------------------------------------------
(* The straight line.                                                      *)

\* No integer is nearer, and ties are the only choice.
LEMMA RoundedIsNearest ==
    ASSUME NEW n \in Int, NEW d \in Nat \ {0}
    PROVE  LET m == RoundHalfEven(n, d) IN
           m \in Int /\ 2 * (m * d) <= 2 * n + d /\ 2 * n <= 2 * (m * d) + d
<1> DEFINE q == n \div d  e == n % d  x == q * d
<1>1. q \in Int /\ e \in Int /\ n = x + e /\ 0 <= e /\ e < d
    OBVIOUS
<1>2. x \in Int /\ (q + 1) * d = x + d
    BY <1>1
<1>3. RoundHalfEven(n, d) = IF 2 * e > d \/ (2 * e = d /\ q % 2 = 1) THEN q + 1 ELSE q
    BY DEF RoundHalfEven
<1> DEFINE m == RoundHalfEven(n, d)
<1>4. m \in Int /\ ((m * d = x + d /\ 2 * e >= d) \/ (m * d = x /\ 2 * e <= d))
    <2>1. CASE m = q + 1 /\ 2 * e >= d
        BY <1>1, <1>2, <2>1
    <2>2. CASE m = q /\ 2 * e <= d
        BY <1>1, <2>2
    <2>3. (m = q + 1 /\ 2 * e >= d) \/ (m = q /\ 2 * e <= d)
        <3> HIDE DEF q, e, m
        <3>1. m = IF 2 * e > d \/ (2 * e = d /\ q % 2 = 1) THEN q + 1 ELSE q
            BY <1>3 DEF m
        <3> QED
            BY <1>1, <3>1
    <2> QED
        BY <2>1, <2>2, <2>3
<1> DEFINE y == m * d
<1>5. y \in Int /\ ((y = x + d /\ 2 * e >= d) \/ (y = x /\ 2 * e <= d))
    BY <1>2, <1>4
<1> HIDE DEF x, y, e, q
<1>6. 2 * y <= 2 * n + d /\ 2 * n <= 2 * y + d
    BY <1>1, <1>2, <1>5
<1> QED
    BY <1>4, <1>6 DEF y

LEMMA RoundedWhole ==
    ASSUME NEW k \in Int, NEW d \in Nat \ {0}
    PROVE  RoundHalfEven(k * d, d) = k
<1> DEFINE m == RoundHalfEven(k * d, d)
<1>1. k * d \in Int
    OBVIOUS
<1>2. m \in Int /\ 2 * (m * d) <= 2 * (k * d) + d /\ 2 * (k * d) <= 2 * (m * d) + d
    BY <1>1, RoundedIsNearest
<1> HIDE DEF m
<1>3. m >= k
    <2> SUFFICES ASSUME m + 1 <= k
                 PROVE  FALSE
        BY <1>2
    <2>1. (m + 1) * d <= k * d
        BY <1>2
    <2>2. (m + 1) * d = m * d + d /\ m * d \in Int
        BY <1>2
    <2> QED
        BY <1>1, <1>2, <2>1, <2>2
<1>4. m <= k
    <2> SUFFICES ASSUME k + 1 <= m
                 PROVE  FALSE
        BY <1>2
    <2>1. (k + 1) * d <= m * d
        BY <1>2
    <2>2. (k + 1) * d = k * d + d /\ m * d \in Int
        BY <1>2
    <2> QED
        BY <1>1, <1>2, <2>1, <2>2
<1> QED
    BY <1>2, <1>3, <1>4 DEF m

\* Along a coordinate a line that is d moves long moves by one at most, and by
\* one each time where it has d to go.
LEMMA RoundedSteps ==
    ASSUME NEW a \in Int, NEW d \in Nat \ {0}, Magnitude(a) <= d, NEW k \in Nat
    PROVE  LET s == RoundHalfEven(a * k, d)  t == RoundHalfEven(a * (k + 1), d) IN
           /\ s \in Int /\ t \in Int /\ Magnitude(t - s) <= 1
           /\ Magnitude(a) = d => s # t
<1> DEFINE s == RoundHalfEven(a * k, d)  t == RoundHalfEven(a * (k + 1), d)
<1>1. a * k \in Int /\ a * (k + 1) \in Int /\ a * (k + 1) = a * k + a
    OBVIOUS
<1>2. /\ s \in Int /\ 2 * (s * d) <= 2 * (a * k) + d /\ 2 * (a * k) <= 2 * (s * d) + d
      /\ t \in Int /\ 2 * (t * d) <= 2 * (a * (k + 1)) + d /\ 2 * (a * (k + 1)) <= 2 * (t * d) + d
    BY <1>1, RoundedIsNearest
<1>3. CASE a = d \/ a = -d
    <2>1. CASE a = d
        <3>1. a * k = k * d /\ a * (k + 1) = (k + 1) * d /\ k \in Int /\ k + 1 \in Int
            BY <2>1
        <3>2. s = k /\ t = k + 1
            BY <3>1, RoundedWhole
        <3> HIDE DEF s, t
        <3>3. s \in Int /\ t \in Int /\ Magnitude(t - s) <= 1 /\ s # t
            BY <3>2 DEF Magnitude
        <3> QED
            BY <3>3 DEF s, t
    <2>2. CASE a = -d
        <3>1. a * k = (-k) * d /\ a * (k + 1) = (-(k + 1)) * d /\ -k \in Int /\ -(k + 1) \in Int
            BY <2>2
        <3>2. s = -k /\ t = -(k + 1)
            BY <3>1, RoundedWhole
        <3> HIDE DEF s, t
        <3>3. s \in Int /\ t \in Int /\ Magnitude(t - s) <= 1 /\ s # t
            BY <3>2 DEF Magnitude
        <3> QED
            BY <3>3 DEF s, t
    <2> QED
        BY <1>3, <2>1, <2>2
<1>4. CASE ~(a = d \/ a = -d)
    <2>1. a < d /\ -a < d /\ Magnitude(a) # d
        BY <1>4 DEF Magnitude
    <2> DEFINE x == s * d  y == t * d  u == a * k
    <2>2. x \in Int /\ y \in Int /\ u \in Int
        BY <1>1, <1>2
    <2>3. /\ 2 * x <= 2 * u + d /\ 2 * u <= 2 * x + d
          /\ 2 * y <= 2 * (u + a) + d /\ 2 * (u + a) <= 2 * y + d
        BY <1>1, <1>2
    <2> HIDE DEF s, t
    <2>4. t - s < 2
        <3> SUFFICES ASSUME s + 2 <= t
                     PROVE  FALSE
            BY <1>2
        <3>1. (s + 2) * d <= t * d /\ (s + 2) * d = s * d + 2 * d
            BY <1>2
        <3>2. x + 2 * d <= y
            BY <3>1
        <3> HIDE DEF x, y, u
        <3> QED
            BY <2>1, <2>2, <2>3, <3>2
    <2>5. s - t < 2
        <3> SUFFICES ASSUME t + 2 <= s
                     PROVE  FALSE
            BY <1>2
        <3>1. (t + 2) * d <= s * d /\ (t + 2) * d = t * d + 2 * d
            BY <1>2
        <3>2. y + 2 * d <= x
            BY <3>1
        <3> HIDE DEF x, y, u
        <3> QED
            BY <2>1, <2>2, <2>3, <3>2
    <2>6. s \in Int /\ t \in Int
        BY <1>2
    <2> HIDE DEF x, y, u
    <2>7. Magnitude(t - s) <= 1
        BY <2>4, <2>5, <2>6 DEF Magnitude
    <2> QED
        BY <2>1, <2>6, <2>7 DEF s, t
<1> QED
    BY <1>3, <1>4

\* The straight line is a way wherever all it enters is navigable.
LEMMA LineIsAWay ==
    ASSUME NEW c, IsChart(c), GreatCircleBaseline(c) # None
    PROVE  \E path : /\ IsWay(c, path) /\ path[Len(path)] = c.goal
                     /\ GreatCircleBaseline(c) = CostAlong(c, None, path)
                     /\ c.goal \in Cells(c) /\ (IsNavigable(c, c.start) => IsNavigable(c, c.goal))
<1> DEFINE a == c.goal[1] - c.start[1]  b == c.goal[2] - c.start[2]  d == Steps(c)
           path == [k \in 1..(d + 1) |-> OnTheLine(c, k - 1)]
<1>1. /\ c.start \in Int \X Int /\ c.goal \in Int \X Int /\ a \in Int /\ b \in Int
      /\ c.start[1] \in Int /\ c.start[2] \in Int
      /\ c.goal = <<c.start[1] + a, c.start[2] + b>> /\ c.start = <<c.start[1], c.start[2]>>
    <2>1. c.start \in Int \X Int /\ c.goal \in Int \X Int
        BY DEF IsChart
    <2> DEFINE s == c.start  g == c.goal
    <2> HIDE DEF s, g
    <2>2. s \in Int \X Int /\ g \in Int \X Int
        BY <2>1 DEF s, g
    <2>3. /\ s[1] \in Int /\ s[2] \in Int /\ g[1] \in Int /\ g[2] \in Int
          /\ g = <<g[1], g[2]>> /\ s = <<s[1], s[2]>>
        BY <2>2
    <2>4. s[1] + (g[1] - s[1]) = g[1] /\ s[2] + (g[2] - s[2]) = g[2]
        BY <2>3
    <2> QED
        BY <2>2, <2>3, <2>4 DEF s, g
<1>2. d \in Nat /\ Magnitude(a) <= d /\ Magnitude(b) <= d /\ (Magnitude(a) = d \/ Magnitude(b) = d)
    <2> DEFINE u == Magnitude(a)  v == Magnitude(b)  S == {u, v}
    <2>1. u \in Nat /\ v \in Nat
        BY <1>1, SquaresAreNatural
    <2>2. d = CHOOSE x \in S : \A y \in S : x >= y
        BY DEF Steps, Max
    <2> HIDE DEF u, v, d
    <2>3. \E x \in S : \A y \in S : x >= y
        BY <2>1
    <2> HIDE DEF S
    <2>4. d \in S /\ \A y \in S : d >= y
        BY <2>2, <2>3, Zenon
    <2> QED
        BY <2>1, <2>4 DEF S, u, v
<1>3. /\ c.start \in Cells(c) /\ c.goal \in Cells(c)
      /\ \A k \in 1..d : OnTheLine(c, k) \in Cells(c) /\ IsNavigable(c, OnTheLine(c, k))
      /\ GreatCircleBaseline(c) = CostAlong(c, None, path)
    BY DEF GreatCircleBaseline
<1> HIDE DEF d
<1>4. OnTheLine(c, 0) = c.start /\ OnTheLine(c, d) = c.goal
    <2>1. CASE d = 0
        <3>1. a = 0 /\ b = 0
            BY <1>1, <1>2, <2>1 DEF Magnitude
        <3> HIDE DEF a, b
        <3>2. c.goal = c.start
            BY <1>1, <3>1
        <3> QED
            BY <2>1, <3>2 DEF OnTheLine
    <2>2. CASE d # 0
        <3>1. d \in Nat \ {0}
            BY <1>2, <2>2
        <3>2. RoundHalfEven(a * d, d) = a /\ RoundHalfEven(b * d, d) = b
            BY <1>1, <3>1, RoundedWhole
        <3>3. OnTheLine(c, d) = <<c.start[1] + RoundHalfEven(a * d, d), c.start[2] + RoundHalfEven(b * d, d)>>
            BY <2>2 DEF OnTheLine, d
        <3> HIDE DEF a, b
        <3> QED
            BY <1>1, <3>2, <3>3 DEF OnTheLine
    <2> QED
        BY <2>1, <2>2
<1>5. ASSUME NEW k \in Nat, k < d
      PROVE  Adjacent(OnTheLine(c, k), OnTheLine(c, k + 1))
    <2> DEFINE s == RoundHalfEven(a * k, d)  t == RoundHalfEven(a * (k + 1), d)
               u == RoundHalfEven(b * k, d)  v == RoundHalfEven(b * (k + 1), d)
    <2>1. d \in Nat \ {0}
        BY <1>2, <1>5
    <2>2. s \in Int /\ t \in Int /\ Magnitude(t - s) <= 1 /\ (Magnitude(a) = d => s # t)
        BY <1>1, <1>2, <2>1, RoundedSteps
    <2>3. u \in Int /\ v \in Int /\ Magnitude(v - u) <= 1 /\ (Magnitude(b) = d => u # v)
        BY <1>1, <1>2, <2>1, RoundedSteps
    <2>4. OnTheLine(c, k + 1) = <<c.start[1] + t, c.start[2] + v>>
        BY DEF OnTheLine, d
    <2>5. OnTheLine(c, k) = <<c.start[1] + s, c.start[2] + u>>
        <3>1. CASE k = 0
            <4>1. 0 \in Int /\ a * k = 0 * d /\ b * k = 0 * d
                BY <1>1, <2>1, <3>1
            <4>2. s = 0 /\ u = 0
                BY <2>1, <4>1, RoundedWhole
            <4> HIDE DEF s, u
            <4> QED
                BY <1>1, <3>1, <4>2 DEF OnTheLine
        <3>2. CASE k # 0
            BY <3>2 DEF OnTheLine, d
        <3> QED
            BY <3>1, <3>2
    <2> DEFINE p == <<c.start[1] + s, c.start[2] + u>>  q == <<c.start[1] + t, c.start[2] + v>>
    <2>6. s # t \/ u # v
        BY <1>2, <2>2, <2>3
    <2> HIDE DEF s, t, u, v
    <2>7. p # q /\ q[1] - p[1] = t - s /\ q[2] - p[2] = v - u
        <3> DEFINE e == c.start[1]  f == c.start[2]
        <3>1. e \in Int /\ f \in Int
            BY <1>1
        <3> HIDE DEF e, f
        <3>2. e + s = e + t => s = t
            BY <2>2, <3>1
        <3>3. f + u = f + v => u = v
            BY <2>3, <3>1
        <3>4. <<e + s, f + u>> # <<e + t, f + v>>
            BY <2>6, <3>2, <3>3
        <3>5. (e + t) - (e + s) = t - s /\ (f + v) - (f + u) = v - u
            BY <2>2, <2>3, <3>1
        <3> QED
            BY <3>4, <3>5 DEF e, f
    <2>8. Adjacent(p, q)
        BY <2>2, <2>3, <2>7 DEF Adjacent
    <2> QED
        BY <2>4, <2>5, <2>8
<1>6. Len(path) = d + 1 /\ \A k \in 1..(d + 1) : path[k] = OnTheLine(c, k - 1)
    BY <1>2
<1> HIDE DEF path
<1>7. path[1] = c.start /\ path[Len(path)] = c.goal /\ Len(path) \in Nat \ {0}
    <2>1. 1 \in 1..(d + 1) /\ d + 1 \in 1..(d + 1) /\ 1 - 1 = 0 /\ (d + 1) - 1 = d /\ d + 1 \in Nat \ {0}
        BY <1>2
    <2> QED
        BY <1>4, <1>6, <2>1
<1>8. ASSUME NEW i \in 1..(Len(path) - 1)
      PROVE  path[i + 1] \in Neighbours(c, path[i])
    <2>1. /\ i \in 1..(d + 1) /\ i + 1 \in 1..(d + 1) /\ i - 1 \in Nat /\ i - 1 < d
          /\ (i - 1) + 1 = i /\ (i + 1) - 1 = i /\ i \in 1..d
        BY <1>2, <1>6
    <2>2. path[i] = OnTheLine(c, i - 1) /\ path[i + 1] = OnTheLine(c, i)
        BY <1>6, <2>1
    <2>3. Adjacent(OnTheLine(c, i - 1), OnTheLine(c, i))
        BY <1>5, <2>1
    <2>4. OnTheLine(c, i) \in Cells(c) /\ IsNavigable(c, OnTheLine(c, i))
        BY <1>3, <2>1
    <2> QED
        BY <2>2, <2>3, <2>4 DEF Neighbours
<1>9. IsWay(c, path)
    BY <1>3, <1>7, <1>8 DEF IsWay
<1>10. IsNavigable(c, c.start) => IsNavigable(c, c.goal)
    <2>1. CASE d = 0
        BY <1>4, <2>1
    <2>2. CASE d # 0
        <3>1. d \in 1..d
            BY <1>2, <2>2
        <3> QED
            BY <1>3, <1>4, <3>1
    <2> QED
        BY <2>1, <2>2
<1> QED
    BY <1>3, <1>7, <1>9, <1>10

-----------------------------------------------------------------------------
(* The route.                                                              *)

\* What holds of a search and of what came of it.
RouteInv ==
    /\ IsChart(chart)
    /\ route = None => Search(chart, open, best, cameFrom, counter)
    /\ RouteIsCheapest /\ StraightLineNeverWins

LEMMA NoReasonIsAVerdict ==
    \A r \in {"out_of_coverage", "constraint_violation"} : r # None /\ Abstained(r).reason = r
<1>1. None \notin {"out_of_coverage", "constraint_violation"}
    BY RoutesAssumption DEF RoutesAssumption
<1> QED
    BY <1>1 DEF Abstained

LEMMA RouteInvBegins ==
    ASSUME RouteInit
    PROVE  RouteInv
<1>1. CASE route = None
    BY <1>1, SearchBegins DEF RouteInv, RouteIsCheapest, StraightLineNeverWins
<1>2. CASE route # None
    <2>1. IsChart(chart)
        BY ChartsAreCharts DEF RouteInit
    <2>2. /\ route.reason \in {"out_of_coverage", "constraint_violation"} /\ route.reason # None
          /\ route.reason = "out_of_coverage" => ~({chart.start, chart.goal} \subseteq Cells(chart))
          /\ route.reason = "constraint_violation" => ~(IsNavigable(chart, chart.start) /\ IsNavigable(chart, chart.goal))
        <3>1. CASE ~({chart.start, chart.goal} \subseteq Cells(chart))
            <4>1. route = Abstained("out_of_coverage")
                BY <3>1 DEF RouteInit
            <4> QED
                BY <3>1, <4>1, NoReasonIsAVerdict
        <3>2. CASE {chart.start, chart.goal} \subseteq Cells(chart)
            <4>1. route = Abstained("constraint_violation")
                  /\ ~(IsNavigable(chart, chart.start) /\ IsNavigable(chart, chart.goal))
                BY <1>2, <3>2 DEF RouteInit
            <4> QED
                BY <4>1, NoReasonIsAVerdict
        <3> QED
            BY <3>1, <3>2
    <2>3. RouteIsCheapest
        BY <2>2 DEF RouteIsCheapest
    <2>4. StraightLineNeverWins
        <3> SUFFICES ASSUME GreatCircleBaseline(chart) # None, IsNavigable(chart, chart.start)
                     PROVE  FALSE
            BY DEF StraightLineNeverWins
        <3>1. /\ chart.start \in Cells(chart) /\ chart.goal \in Cells(chart)
              /\ IsNavigable(chart, chart.goal)
            BY <2>1, LineIsAWay DEF IsWay
        <3> QED
            BY <2>2, <3>1
    <2> QED
        BY <1>2, <2>1, <2>3, <2>4 DEF RouteInv
<1> QED
    BY <1>1, <1>2

\* An empty heap leaves no way to the goal, at any cost.
LEMMA NothingIsLeft ==
    ASSUME NEW c, NEW b, NEW from, NEW k, IsChart(c), Search(c, {}, b, from, k), NEW w
    PROVE  ~Accounted(c, {}, b, c.goal, w)
<1>1. c.goal \notin DOMAIN b
    BY DEF Search, Queued
<1> QED
    BY <1>1 DEF Accounted

\* Once the goal is the cheapest entry no way to it is cheaper.
LEMMA NothingIsCheaper ==
    ASSUME IsChart(chart), Search(chart, open, best, cameFrom, counter), open # {},
           Cheapest.cell = chart.goal, NEW w \in Int, Accounted(chart, open, best, chart.goal, w)
    PROVE  best[chart.goal] <= w
<1> DEFINE g == chart.goal
<1>1. \A e \in open : /\ e.f \in Nat /\ e.at \in Nat /\ e.cell \in DOMAIN best
                      /\ e.f >= best[e.cell] + Heuristic(chart, e.cell)
    BY DEF Search
<1>2. Cheapest \in open /\ \A e \in open : Cheapest.f <= e.f
    BY <1>1, CheapestIsThere
<1>3. Heuristic(chart, g) = 0
    BY HeuristicIsConsistent
<1> HIDE DEF Cheapest
<1>4. g \in DOMAIN best /\ best[g] \in Nat /\ best[g] <= Cheapest.f
    <2>1. g \in DOMAIN best
        BY <1>1, <1>2
    <2>2. best[g] \in Nat
        BY <2>1 DEF Search
    <2>3. Cheapest.f \in Nat /\ Cheapest.f >= best[g] + Heuristic(chart, g)
        BY <1>1, <1>2
    <2> QED
        BY <1>3, <2>1, <2>2, <2>3
<1>5. ASSUME NEW e \in open, e.f <= w + Heuristic(chart, g)
      PROVE  best[g] <= w
    <2>1. e.f \in Nat /\ Cheapest.f \in Nat /\ Cheapest.f <= e.f /\ e.f <= w
        BY <1>1, <1>2, <1>3, <1>5
    <2> QED
        BY <1>4, <2>1
<1> QED
    BY <1>5 DEF Accounted

\* A sailable straight line is a way to the goal.
LEMMA LineIsAccounted ==
    ASSUME NEW c, NEW o, NEW b, NEW from, NEW k, IsChart(c), Search(c, o, b, from, k),
           c.costFn = None, GreatCircleBaseline(c) # None
    PROVE  GreatCircleBaseline(c) \in Nat /\ Accounted(c, o, b, c.goal, GreatCircleBaseline(c))
<1>1. PICK path : /\ IsWay(c, path) /\ path[Len(path)] = c.goal
                  /\ GreatCircleBaseline(c) = CostAlong(c, None, path)
    BY LineIsAWay
<1>2. CostAlong(c, c.costFn, path) \in Nat /\ Accounted(c, o, b, path[Len(path)], CostAlong(c, c.costFn, path))
    <2>1. KeepsTheFloor(c)
        BY DEF KeepsTheFloor
    <2> QED
        BY <1>1, <2>1, WaysAreAccounted
<1> QED
    BY <1>1, <1>2

LEMMA ExhaustedKeeps ==
    ASSUME RouteInv, Exhausted
    PROVE  RouteInv'
<1>1. /\ IsChart(chart) /\ Search(chart, {}, best, cameFrom, counter) /\ chart' = chart
      /\ route' = Abstained("constraint_violation")
    <2>1. route = None /\ open = {} /\ chart' = chart /\ route' = Abstained("constraint_violation")
        BY DEF Exhausted
    <2>2. IsChart(chart) /\ Search(chart, open, best, cameFrom, counter)
        BY <2>1 DEF RouteInv
    <2> QED
        BY <2>1, <2>2
<1>2. route'.reason = "constraint_violation" /\ route'.reason # None
    BY <1>1, NoReasonIsAVerdict
<1>3. ReachableCosts(chart) = {}
    <2>1. Cardinality(Cells(chart)) - 1 \in Nat
        <3>1. chart.start \in Cells(chart) /\ IsFiniteSet(Cells(chart))
            BY <1>1 DEF Search, IsChart
        <3>2. Cardinality(Cells(chart)) \in Nat /\ Cardinality(Cells(chart)) # 0
            BY <3>1, FS_CardinalityType, FS_EmptySet
        <3> QED
            BY <3>2
    <2> DEFINE n == Cardinality(Cells(chart)) - 1
    <2> HIDE DEF n
    <2>2. \A w \in Reached(chart, n) : Accounted(chart, {}, best, w[1], w[2])
        BY <1>1, <2>1, ReachedIsAccounted DEF n
    <2>3. \A w \in Reached(chart, n) : w[1] # chart.goal
        BY <1>1, <2>2, NothingIsLeft
    <2> QED
        BY <2>3 DEF ReachableCosts, n
<1>4. chart.costFn = None => GreatCircleBaseline(chart) = None
    BY <1>1, LineIsAccounted, NothingIsLeft
<1>5. RouteIsCheapest'
    BY <1>1, <1>2, <1>3 DEF RouteIsCheapest
<1>6. StraightLineNeverWins'
    BY <1>1, <1>4 DEF StraightLineNeverWins
<1>7. Search(chart', open', best', cameFrom', counter')
    BY <1>1 DEF Exhausted
<1> QED
    BY <1>1, <1>5, <1>6, <1>7 DEF RouteInv

LEMMA ArriveKeeps ==
    ASSUME RouteInv, Arrive
    PROVE  RouteInv'
<1> DEFINE c == chart  g == c.goal  t == Trail(cameFrom, g)  n == Cardinality(Cells(c)) - 1
<1>1. /\ IsChart(c) /\ Search(c, open, best, cameFrom, counter) /\ open # {} /\ Cheapest.cell = g
      /\ chart' = c /\ route' = [reason |-> None, path |-> t, cost |-> best[g]]
    BY DEF Arrive, RouteInv
<1>2. g \in DOMAIN best /\ best[g] \in Nat
    <2>1. \A e \in open : e.f \in Nat /\ e.at \in Nat /\ e.cell \in DOMAIN best
        BY <1>1 DEF Search
    <2>2. Cheapest \in open
        BY <1>1, <2>1, CheapestIsThere
    <2> HIDE DEF Cheapest
    <2>3. g \in DOMAIN best
        BY <1>1, <2>1, <2>2
    <2> QED
        BY <1>1, <2>3 DEF Search
<1>3. /\ IsWay(c, t) /\ t[Len(t)] = g /\ CostAlong(c, c.costFn, t) <= best[g]
      /\ \A i \in 1..Len(t) : t[i] \in DOMAIN best
      /\ Len(t) <= Cardinality(Cells(c)) /\ Cardinality(Cells(c)) \in Nat
    BY <1>1, <1>2, TrailIsAWay
<1>4. KeepsTheFloor(c) => /\ CostAlong(c, c.costFn, t) \in Nat
                          /\ Accounted(c, open, best, g, CostAlong(c, c.costFn, t))
    BY <1>1, <1>3, WaysAreAccounted
<1>5. \A w \in Int : Accounted(c, open, best, g, w) => best[g] <= w
    BY <1>1, NothingIsCheaper
<1> HIDE DEF c, g, t
<1>6. KeepsTheFloor(c) => CostAlong(c, c.costFn, t) = best[g]
    <2> SUFFICES ASSUME KeepsTheFloor(c)
                 PROVE  CostAlong(c, c.costFn, t) = best[g]
        OBVIOUS
    <2>1. best[g] <= CostAlong(c, c.costFn, t)
        BY <1>4, <1>5
    <2> QED
        BY <1>2, <1>3, <1>4, <2>1
<1>7. n \in Nat /\ Len(t) <= n + 1
    BY <1>3 DEF IsWay
<1> HIDE DEF n
<1>8. KeepsTheFloor(c) => ReachableCosts(c) = {best[g]}
    <2> SUFFICES ASSUME KeepsTheFloor(c)
                 PROVE  ReachableCosts(c) = {best[g]}
        OBVIOUS
    <2>1. ReachableCosts(c) = {w[2] : w \in {v \in Reached(c, n) : v[1] = g}}
        BY DEF ReachableCosts, n, g, c
    <2>2. \A w \in Reached(c, n) : w \in Cells(c) \X Nat /\ Accounted(c, open, best, w[1], w[2])
        BY <1>1, <1>7, ReachedIsAccounted
    <2>3. PICK w \in Reached(c, n) : w[1] = g /\ w[2] <= best[g]
        <3>1. \E w \in Reached(c, n) : w[1] = t[Len(t)] /\ w[2] <= CostAlong(c, c.costFn, t)
            BY <1>1, <1>3, <1>7, WaysAreReached
        <3> QED
            BY <1>3, <1>6, <3>1
    <2>4. \A v \in Reached(c, n) : v[1] = g => v[2] \in Nat /\ best[g] <= v[2]
        BY <1>5, <2>2
    <2>5. ASSUME NEW v \in Reached(c, n), v[1] = g
          PROVE  v[2] = best[g]
        <3>1. c.start \in Cells(c)
            BY <1>3 DEF IsWay
        <3>2. v[2] = w[2]
            BY <1>1, <1>7, <2>3, <2>5, <3>1, ReachedOnce
        <3>3. w[2] \in Nat /\ best[g] <= w[2]
            BY <2>3, <2>4
        <3> QED
            BY <1>2, <2>3, <3>2, <3>3
    <2> QED
        <3>1. w[2] = best[g]
            BY <2>3, <2>5
        <3> QED
            BY <2>1, <2>3, <2>5, <3>1
<1>9. route'.reason = None /\ route'.path = t /\ route'.cost = best[g]
    BY <1>1
<1>10. RouteIsCheapest'
    <2>1. /\ t[1] = c.start /\ t[Len(t)] = c.goal /\ Len(t) \in Nat
          /\ \A i \in 1..(Len(t) - 1) : t[i + 1] \in Neighbours(c, t[i])
        BY <1>3 DEF IsWay, g
    <2>2. \A i \in 1..Len(t) : IsNavigable(c, t[i])
        BY <1>1, <1>3 DEF Search
    <2>3. \A i \in 1..(Len(t) - 1) : Adjacent(t[i], t[i + 1])
        BY <2>1 DEF Neighbours
    <2>4. None # "constraint_violation"
        BY NoReasonIsAVerdict
    <2> QED
        BY <1>1, <1>3, <1>6, <1>8, <1>9, <2>1, <2>2, <2>3, <2>4 DEF RouteIsCheapest
<1>11. StraightLineNeverWins'
    <2>1. c.costFn = None /\ GreatCircleBaseline(c) # None => best[g] <= GreatCircleBaseline(c)
        <3>1. c.costFn = None /\ GreatCircleBaseline(c) # None
              => GreatCircleBaseline(c) \in Nat /\ Accounted(c, open, best, g, GreatCircleBaseline(c))
            BY <1>1, LineIsAccounted DEF g
        <3> QED
            BY <1>5, <3>1
    <2> QED
        BY <1>1, <1>9, <2>1 DEF StraightLineNeverWins
<1>12. Search(chart', open', best', cameFrom', counter')
    BY <1>1 DEF Arrive, c
<1> QED
    BY <1>1, <1>10, <1>11, <1>12 DEF RouteInv

LEMMA RelaxKeepsAll ==
    ASSUME RouteInv, Relax
    PROVE  RouteInv'
<1>1. route = None /\ route' = None /\ chart' = chart
    BY DEF Relax
<1>2. IsChart(chart) /\ Search(chart, open, best, cameFrom, counter)
    BY <1>1 DEF RouteInv
<1>3. Search(chart', open', best', cameFrom', counter')
    BY <1>1, <1>2, RelaxKeeps
<1> QED
    BY <1>1, <1>2, <1>3 DEF RouteInv, RouteIsCheapest, StraightLineNeverWins

LEMMA RouteInvStep == RouteInv /\ [RouteNext]_routeVars => RouteInv'
<1> SUFFICES ASSUME RouteInv, [RouteNext]_routeVars
             PROVE  RouteInv'
    OBVIOUS
<1>1. CASE Exhausted
    BY <1>1, ExhaustedKeeps
<1>2. CASE Arrive
    BY <1>2, ArriveKeeps
<1>3. CASE Relax
    BY <1>3, RelaxKeepsAll
<1>4. CASE UNCHANGED routeVars
    <2>1. chart' = chart /\ open' = open /\ best' = best /\ cameFrom' = cameFrom /\ counter' = counter
          /\ route' = route
        BY <1>4 DEF routeVars
    <2> QED
        BY <2>1 DEF RouteInv, RouteIsCheapest, StraightLineNeverWins
<1> QED
    BY <1>1, <1>2, <1>3, <1>4 DEF RouteNext

\* Over any finite grid of any waves, winds, currents and depths, with any cells
\* fenced off and any positive price of a leg, a route that is returned is
\* sailable and a search that gives up had no way.  Where the prices keep the
\* floor, as the water's own do, A* keeps its optimality: no way is cheaper.
\* Priced by the water, the straight line never beats what was found.
THEOREM RouteTheorem == RouteSpec => [](RouteIsCheapest /\ StraightLineNeverWins)
<1>1. RouteInit => RouteInv
    BY RouteInvBegins
<1>2. RouteInv /\ [RouteNext]_routeVars => RouteInv'
    BY RouteInvStep
<1>3. RouteInv => RouteIsCheapest /\ StraightLineNeverWins
    BY DEF RouteInv
<1> QED
    BY <1>1, <1>2, <1>3, PTL DEF RouteSpec

-----------------------------------------------------------------------------
(* The run's question of both kinds of course.                             *)

\* A behaviour looks at one part: the search and the watch keep what they keep
\* where they are looked at, and say nothing where they rest.
CoursesInv ==
    /\ part = "route" => RouteInv
    /\ part # "route" => route = None
    /\ part = "drift" => DriftInv
    /\ part # "drift" => ~done

\* Over every chart, passage and horizon that the steps end on: what is found
\* is sailable and, where legs keep the floor, the cheapest, a crossing that is
\* reported is one, and a single crossing is foreseen.
THEOREM CoursesTheorem ==
    ASSUME Horizon % StepSeconds = 0
    PROVE  AssessmentSpec => []CoursesAreRight
<1>1. AssessmentInit => CoursesInv
    <2> SUFFICES ASSUME AssessmentInit
                 PROVE  CoursesInv
        OBVIOUS
    <2>1. (part = "route" => RouteInit) /\ (part # "route" => route = None)
        BY DEF AssessmentInit
    <2>2. (part = "drift" => DriftInit) /\ ~done
        BY DEF AssessmentInit, DriftInit
    <2> QED
        BY <2>1, <2>2, RouteInvBegins, DriftInvBegins DEF CoursesInv
<1>2. CoursesInv /\ [AssessmentNext]_assessmentVars => CoursesInv'
    <2> SUFFICES ASSUME CoursesInv, [AssessmentNext]_assessmentVars
                 PROVE  CoursesInv'
        OBVIOUS
    <2>1. /\ part' = part
          /\ part = "route" => [RouteNext]_routeVars
          /\ part # "route" => UNCHANGED routeVars
          /\ part = "drift" => [DriftNext]_driftVars
          /\ part # "drift" => UNCHANGED driftVars
        BY DEF AssessmentNext, assessmentVars
    <2>2. part = "route" => RouteInv'
        BY <2>1, RouteInvStep DEF CoursesInv
    <2>3. part # "route" => route' = None
        BY <2>1 DEF CoursesInv, routeVars
    <2>4. part = "drift" => DriftInv'
        BY <2>1, DriftInvStep DEF CoursesInv
    <2>5. part # "drift" => ~done'
        BY <2>1 DEF CoursesInv, driftVars
    <2> QED
        BY <2>1, <2>2, <2>3, <2>4, <2>5 DEF CoursesInv
<1>3. CoursesInv => CoursesAreRight
    <2> SUFFICES ASSUME CoursesInv
                 PROVE  CoursesAreRight
        OBVIOUS
    <2>1. RouteIsCheapest /\ StraightLineNeverWins
        BY DEF CoursesInv, RouteInv, RouteIsCheapest, StraightLineNeverWins
    <2>2. ReportedCrossingIsReal
        <3>1. CASE part = "drift"
            BY <3>1, CrossingIsReal DEF CoursesInv
        <3>2. CASE part # "drift"
            BY <3>2 DEF CoursesInv, ReportedCrossingIsReal
        <3> QED
            BY <3>1, <3>2
    <2>3. SingleCrossingIsForeseen
        <3>1. CASE part = "drift"
            BY <3>1, SingleIsForeseen DEF CoursesInv
        <3>2. CASE part # "drift"
            BY <3>2 DEF CoursesInv, SingleCrossingIsForeseen
        <3> QED
            BY <3>1, <3>2
    <2> QED
        BY <2>1, <2>2, <2>3 DEF CoursesAreRight
<1> QED
    BY <1>1, <1>2, <1>3, PTL DEF AssessmentSpec

-----------------------------------------------------------------------------
(* The alert rules over time.                                              *)

\* f joins the first n sequences of s, as FlattenSeq does.
Joins(f, s, n) == f = [i \in 1..n |-> IF i = 1 THEN s[i] ELSE f[i - 1] \o s[i]]

LEMMA JoinsExist ==
    ASSUME NEW s
    PROVE  \A n \in Nat : \E f : Joins(f, s, n)
<1> DEFINE T == {n \in Nat : \E f : Joins(f, s, n)}
<1>1. \E f : Joins(f, s, 0)
    <2> DEFINE none == [i \in 1..0 |-> 0]
    <2>1. none = [i \in 1..0 |-> IF i = 1 THEN s[i] ELSE none[i - 1] \o s[i]]
        OBVIOUS
    <2> QED
        BY <2>1 DEF Joins
<1>2. ASSUME NEW n \in Nat, n \in T
      PROVE  n + 1 \in T
    <2>1. PICK f : Joins(f, s, n)
        BY <1>2
    <2>2. \A i \in 1..n : f[i] = IF i = 1 THEN s[i] ELSE f[i - 1] \o s[i]
        BY <2>1 DEF Joins
    <2> DEFINE g == [i \in 1..(n + 1) |-> IF i <= n THEN f[i] ELSE IF i = 1 THEN s[i] ELSE f[n] \o s[i]]
    <2>3. ASSUME NEW i \in 1..(n + 1)
          PROVE  g[i] = IF i = 1 THEN s[i] ELSE g[i - 1] \o s[i]
        <3>1. CASE i = n + 1
            <4>1. g[i] = IF i = 1 THEN s[i] ELSE f[n] \o s[i]
                BY <3>1
            <4>2. i # 1 => i - 1 = n /\ g[n] = f[n]
                BY <3>1
            <4> QED
                BY <4>1, <4>2
        <3>2. CASE i \in 1..n
            <4>1. g[i] = f[i] /\ (i # 1 => g[i - 1] = f[i - 1])
                BY <3>2
            <4> QED
                BY <2>2, <3>2, <4>1
        <3> QED
            BY <3>1, <3>2
    <2>4. g = [i \in 1..(n + 1) |-> g[i]]
        OBVIOUS
    <2> HIDE DEF g
    <2>5. Joins(g, s, n + 1)
        BY <2>3, <2>4 DEF Joins
    <2> QED
        BY <2>5
<1> HIDE DEF T
<1>3. \A n \in Nat : n \in T
    <2>1. 0 \in T
        BY <1>1 DEF T
    <2> QED
        BY <1>2, <2>1, InductionSet
<1> QED
    BY <1>3 DEF T

\* What occurs in a sequence, and in one of the first n of several.
Occurs(x, t) == \E j \in DOMAIN t : t[j] = x
OccursInOne(x, s, n) == \E i \in 1..n : Occurs(x, s[i])

LEMMA ConcatHolds ==
    ASSUME NEW S, NEW a \in Seq(S), NEW b \in Seq(S), NEW x
    PROVE  a \o b \in Seq(S) /\ (Occurs(x, a \o b) <=> Occurs(x, a) \/ Occurs(x, b))
<1> DEFINE t == a \o b
<1>1. /\ t \in Seq(S) /\ Len(t) = Len(a) + Len(b) /\ Len(a) \in Nat /\ Len(b) \in Nat
      /\ DOMAIN t = 1..Len(t) /\ DOMAIN a = 1..Len(a) /\ DOMAIN b = 1..Len(b)
    OBVIOUS
<1>2. \A j \in 1..Len(t) : t[j] = IF j <= Len(a) THEN a[j] ELSE b[j - Len(a)]
    BY <1>1
<1> HIDE DEF t
<1>3. ASSUME NEW j \in 1..Len(a)
      PROVE  j \in 1..Len(t) /\ t[j] = a[j]
    BY <1>1, <1>2
<1>4. ASSUME NEW j \in 1..Len(b)
      PROVE  j + Len(a) \in 1..Len(t) /\ t[j + Len(a)] = b[j]
    <2>1. j + Len(a) \in 1..Len(t) /\ ~(j + Len(a) <= Len(a)) /\ (j + Len(a)) - Len(a) = j
        BY <1>1
    <2> QED
        BY <1>2, <2>1
<1>5. ASSUME NEW j \in 1..Len(t)
      PROVE  \/ j \in 1..Len(a) /\ t[j] = a[j]
             \/ j - Len(a) \in 1..Len(b) /\ t[j] = b[j - Len(a)]
    <2>1. j \in 1..Len(a) \/ (~(j <= Len(a)) /\ j - Len(a) \in 1..Len(b))
        BY <1>1
    <2> QED
        BY <1>2, <2>1
<1>6. Occurs(x, t) => Occurs(x, a) \/ Occurs(x, b)
    BY <1>1, <1>5 DEF Occurs
<1>7. Occurs(x, a) \/ Occurs(x, b) => Occurs(x, t)
    BY <1>1, <1>3, <1>4 DEF Occurs
<1> QED
    BY <1>1, <1>6, <1>7 DEF t

\* Flattening neither loses nor invents an element.
LEMMA FlattenHolds ==
    ASSUME NEW S, NEW s \in Seq(Seq(S))
    PROVE  /\ FlattenSeq(s) \in Seq(S)
           /\ \A x : Occurs(x, FlattenSeq(s)) <=> \E i \in DOMAIN s : Occurs(x, s[i])
<1> DEFINE L == Len(s)
<1>1. L \in Nat /\ DOMAIN s = 1..L /\ \A i \in 1..L : s[i] \in Seq(S)
    OBVIOUS
<1>2. CASE L = 0
    <2>1. FlattenSeq(s) = s /\ s = << >>
        BY <1>2 DEF FlattenSeq
    <2> QED
        BY <2>1 DEF Occurs
<1>3. CASE L # 0
    <2> DEFINE f == CHOOSE g : Joins(g, s, L)
    <2>1. FlattenSeq(s) = f[L]
        BY <1>3 DEF FlattenSeq, Joins
    <2> HIDE DEF L
    <2>2. \E g : Joins(g, s, L)
        BY <1>1, JoinsExist
    <2>3. Joins(f, s, L)
        BY <2>2, Zenon
    <2> HIDE DEF f
    <2>4. \A i \in 1..L : f[i] = IF i = 1 THEN s[i] ELSE f[i - 1] \o s[i]
        BY <2>3 DEF Joins
    <2> DEFINE Good(n) == f[n] \in Seq(S) /\ \A x : Occurs(x, f[n]) <=> OccursInOne(x, s, n)
               T == {n \in Nat : n \in 1..L => Good(n)}
    <2>5. 0 \in T
        OBVIOUS
    <2>6. ASSUME NEW n \in Nat, n \in T
          PROVE  n + 1 \in T
        <3> SUFFICES ASSUME n + 1 \in 1..L
                     PROVE  Good(n + 1)
            OBVIOUS
        <3>1. CASE n = 0
            <4>1. f[n + 1] = s[n + 1] /\ n + 1 = 1
                BY <2>4, <3>1
            <4>2. 1 \in 1..L /\ \A x : OccursInOne(x, s, 1) <=> Occurs(x, s[1])
                BY <3>1 DEF OccursInOne
            <4> QED
                BY <1>1, <4>1, <4>2
        <3>2. CASE n # 0
            <4>1. n \in 1..L /\ n + 1 # 1 /\ (n + 1) - 1 = n
                BY <1>1, <3>2
            <4>2. f[n + 1] = f[n] \o s[n + 1]
                BY <2>4, <4>1
            <4>3. Good(n)
                BY <2>6, <4>1
            <4>4. f[n] \in Seq(S) /\ s[n + 1] \in Seq(S)
                BY <1>1, <4>3
            <4>5. \A x : Occurs(x, f[n] \o s[n + 1]) <=> Occurs(x, f[n]) \/ Occurs(x, s[n + 1])
                BY <4>4, ConcatHolds
            <4>6. \A x : OccursInOne(x, s, n + 1) <=> OccursInOne(x, s, n) \/ Occurs(x, s[n + 1])
                <5>1. \A i : i \in 1..(n + 1) <=> i \in 1..n \/ i = n + 1
                    OBVIOUS
                <5> QED
                    BY <5>1 DEF OccursInOne
            <4>7. f[n + 1] \in Seq(S)
                BY <4>2, <4>4, ConcatHolds
            <4>8. \A x : Occurs(x, f[n + 1]) <=> OccursInOne(x, s, n + 1)
                BY <4>2, <4>3, <4>5, <4>6
            <4> QED
                BY <4>7, <4>8
        <3> QED
            BY <3>1, <3>2
    <2> HIDE DEF T, Good
    <2>7. \A n \in Nat : n \in T
        BY <2>5, <2>6, InductionSet
    <2>8. Good(L)
        BY <1>1, <1>3, <2>7 DEF T
    <2> QED
        BY <1>1, <2>1, <2>8 DEF Good, OccursInOne
<1> QED
    BY <1>2, <1>3

\* The results of the rules.
Verdicts == [trigger : TriggerId, hazard : Hazard, outcome : Outcome, minutes : Minutes]

LEMMA Ranks ==
    /\ OutcomeRank["unevaluated"] = -1 /\ OutcomeRank["clear"] = 0 /\ OutcomeRank["watch"] = 1
    /\ OutcomeRank["warning"] = 2 /\ OutcomeRank["emergency"] = 3
BY DEF OutcomeRank, Outcome

LEMMA GradedIsAnOutcome ==
    ASSUME NEW value \in Nat, NEW watch \in Nat, NEW warning \in Nat
    PROVE  Graded(value, watch, warning) \in {"clear", "watch", "warning"}
BY DEF Graded

\* What the rules of the vessel and of the boundary say.
OfVessel(c, boat) == {CheckWaveHeight(c, boat), CheckWindSpeed(c, boat), CheckLightning(c, boat), CheckSquall(c)}
OfBoundary(g) == {CheckGeofenceProximity(g), CheckPredictiveDrift(g)}

LEMMA VesselVerdicts ==
    ASSUME NEW c \in Conditions, NEW boat \in Vessel
    PROVE  OfVessel(c, boat) \subseteq Verdicts
<1>1. CheckWaveHeight(c, boat) \in Verdicts
    <2>1. (IF c.wave = None \/ c.age > MaxConditionAge THEN "unevaluated"
           ELSE Graded(c.wave, boat.cautionWave, boat.avoidWave)) \in Outcome
        <3>1. c.wave # None => c.wave \in Nat /\ boat.cautionWave \in Nat /\ boat.avoidWave \in Nat
            BY DEF Conditions, Vessel
        <3> QED
            BY <3>1, GradedIsAnOutcome DEF Outcome
    <2> QED
        BY <2>1 DEF CheckWaveHeight, Plain, Verdict, Verdicts, Hazard, Minutes, TriggerId
<1>2. CheckWindSpeed(c, boat) \in Verdicts
    <2>1. (IF c.wind = None \/ c.age > MaxConditionAge THEN "unevaluated"
           ELSE Graded(c.wind, boat.cautionWind, boat.avoidWind)) \in Outcome
        <3>1. c.wind # None => c.wind \in Nat /\ boat.cautionWind \in Nat /\ boat.avoidWind \in Nat
            BY DEF Conditions, Vessel
        <3> QED
            BY <3>1, GradedIsAnOutcome DEF Outcome
    <2> QED
        BY <2>1 DEF CheckWindSpeed, Plain, Verdict, Verdicts, Hazard, Minutes, TriggerId
<1>3. CheckLightning(c, boat) \in Verdicts
    <2> DEFINE graded == Graded(c.strikes, LightningWatch, LightningWarning)
    <2>1. c.strikes # None => graded \in Outcome
        <3>1. c.strikes # None => c.strikes \in Nat
            BY DEF Conditions
        <3>2. LightningWatch \in Nat /\ LightningWarning \in Nat
            BY DEF LightningWatch, LightningWarning
        <3> QED
            BY <3>1, <3>2, GradedIsAnOutcome DEF Outcome
    <2> DEFINE said == IF c.strikes = None THEN "unevaluated"
                       ELSE IF graded = "warning" /\ ~IsDecked(boat) THEN "emergency" ELSE graded
    <2>2. said \in Outcome
        BY <2>1 DEF Outcome
    <2>3. CheckLightning(c, boat) = Plain("vessel.lightning", said)
        BY DEF CheckLightning
    <2> HIDE DEF said
    <2> QED
        BY <2>2, <2>3 DEF Plain, Verdict, Verdicts, Hazard, Minutes, TriggerId
<1>4. CheckSquall(c) \in Verdicts
    <2>1. (IF c.squall = None THEN "unevaluated" ELSE Graded(c.squall, SquallWatch, SquallWarning)) \in Outcome
        <3>1. c.squall # None => c.squall \in Nat
            BY DEF Conditions
        <3>2. SquallWatch \in Nat /\ SquallWarning \in Nat
            BY DEF SquallWatch, SquallWarning
        <3> QED
            BY <3>1, <3>2, GradedIsAnOutcome DEF Outcome
    <2> QED
        BY <2>1 DEF CheckSquall, Plain, Verdict, Verdicts, Hazard, Minutes, TriggerId
<1> QED
    BY <1>1, <1>2, <1>3, <1>4 DEF OfVessel

LEMMA BoundaryVerdicts ==
    ASSUME NEW g \in Geofence
    PROVE  OfBoundary(g) \subseteq Verdicts
<1>1. CheckGeofenceProximity(g) \in Verdicts
    <2>1. g.band \in {"clear", "amber", "red", "crossed"}
        BY DEF Geofence
    <2>2. [clear |-> "clear", amber |-> "watch", red |-> "warning", crossed |-> "emergency"][g.band] \in Outcome
        BY <2>1 DEF Outcome
    <2> QED
        BY <2>2 DEF CheckGeofenceProximity, Plain, Verdict, Verdicts, Hazard, Minutes, TriggerId
<1>2. CheckPredictiveDrift(g) \in Verdicts
    <2>1. g.crossing \in Nat \cup {None}
        BY DEF Geofence
    <2> DEFINE said == CASE g.crossing = None -> "clear"
                         [] g.crossing # None /\ g.crossing <= DriftImmediateHorizon -> "emergency"
                         [] OTHER -> IF g.crossing <= DriftWarningHorizon THEN "warning" ELSE "watch"
    <2>2. said \in Outcome
        BY DEF Outcome
    <2>3. CheckPredictiveDrift(g) = Verdict("geofence.predictive_drift", None, said, g.crossing)
        BY DEF CheckPredictiveDrift
    <2> HIDE DEF said
    <2> QED
        BY <2>1, <2>2, <2>3 DEF Verdict, Verdicts, Hazard, Minutes, TriggerId
<1> QED
    BY <1>1, <1>2 DEF OfBoundary

LEMMA CycloneVerdicts ==
    ASSUME NEW c \in Cyclone
    PROVE  CheckCycloneWind(c) \in Verdicts /\ CheckCycloneCone(c) \in Verdicts
<1>1. c.name \in Hazard
    BY DEF Cyclone, Hazard
<1>2. CheckCycloneWind(c) \in Verdicts
    <2> DEFINE said == CASE c.ring = None -> "clear"
                         [] c.ring # None /\ c.ring >= 50 -> "emergency"
                         [] OTHER -> IF c.ring >= 34 THEN "warning" ELSE "watch"
    <2>1. said \in Outcome
        BY DEF Outcome
    <2>2. CheckCycloneWind(c) = Verdict("cyclone.wind_radius", c.name, said, None)
        BY DEF CheckCycloneWind
    <2> HIDE DEF said
    <2> QED
        BY <1>1, <2>1, <2>2 DEF Verdict, Verdicts, Minutes, TriggerId
<1>3. CheckCycloneCone(c) \in Verdicts
    BY <1>1 DEF CheckCycloneCone, Plain, Verdict, Verdicts, Minutes, TriggerId, Hazard, Outcome
<1> QED
    BY <1>2, <1>3

\* Which results a set of drivers has, in whatever order.
OfCyclones(cyclones, r) ==
    \E i \in DOMAIN cyclones :
        /\ IsActive(cyclones[i])
        /\ r \in {CheckCycloneWind(cyclones[i]), CheckCycloneCone(cyclones[i])}

LEMMA CyclonesAreHeard ==
    ASSUME NEW cyclones \in Seq(Cyclone)
    PROVE  /\ EvaluateCyclones(cyclones) \in Seq(Verdicts)
           /\ \A r : Occurs(r, EvaluateCyclones(cyclones)) <=> OfCyclones(cyclones, r)
<1> DEFINE Both(c) == <<CheckCycloneWind(c), CheckCycloneCone(c)>>
           said == [i \in DOMAIN cyclones |-> IF IsActive(cyclones[i]) THEN Both(cyclones[i]) ELSE << >>]
<1>1. DOMAIN cyclones = 1..Len(cyclones) /\ Len(cyclones) \in Nat /\ \A i \in DOMAIN cyclones : cyclones[i] \in Cyclone
    OBVIOUS
<1>2. EvaluateCyclones(cyclones) = FlattenSeq(said)
    BY DEF EvaluateCyclones
<1>3. ASSUME NEW c \in Cyclone
      PROVE  /\ Both(c) \in Seq(Verdicts)
             /\ \A r : Occurs(r, Both(c)) <=> r \in {CheckCycloneWind(c), CheckCycloneCone(c)}
    <2>1. Both(c) \in Seq(Verdicts)
        BY CycloneVerdicts
    <2> DEFINE pair == Both(c)
    <2>2. DOMAIN pair = {1, 2} /\ pair[1] = CheckCycloneWind(c) /\ pair[2] = CheckCycloneCone(c)
        OBVIOUS
    <2> HIDE DEF pair
    <2>3. \A r : Occurs(r, pair) <=> r \in {CheckCycloneWind(c), CheckCycloneCone(c)}
        BY <2>2 DEF Occurs
    <2> QED
        BY <2>1, <2>3 DEF pair
<1> HIDE DEF Both
<1>4. said \in Seq(Seq(Verdicts)) /\ DOMAIN said = DOMAIN cyclones
    BY <1>1, <1>3
<1>5. ASSUME NEW r, NEW i \in DOMAIN cyclones
      PROVE  Occurs(r, said[i]) <=> /\ IsActive(cyclones[i])
                                    /\ r \in {CheckCycloneWind(cyclones[i]), CheckCycloneCone(cyclones[i])}
    <2>1. CASE IsActive(cyclones[i])
        BY <1>1, <1>3, <2>1
    <2>2. CASE ~IsActive(cyclones[i])
        BY <2>2 DEF Occurs
    <2> QED
        BY <2>1, <2>2
<1> HIDE DEF said
<1>6. /\ FlattenSeq(said) \in Seq(Verdicts)
      /\ \A r : Occurs(r, FlattenSeq(said)) <=> \E i \in DOMAIN said : Occurs(r, said[i])
    BY <1>4, FlattenHolds
<1>7. \A r : (\E i \in DOMAIN said : Occurs(r, said[i])) <=> OfCyclones(cyclones, r)
    BY <1>4, <1>5 DEF OfCyclones
<1> QED
    BY <1>2, <1>6, <1>7

LEMMA AllAreHeard ==
    ASSUME NEW v \in Views, v.conditions # None, v.geofence # None
    PROVE  \A r : Occurs(r, EvaluateAll(v)) <=>
              \/ OfCyclones(v.cyclones, r)
              \/ r \in OfVessel(v.conditions, v.vessel)
              \/ r \in OfBoundary(v.geofence)
<1> DEFINE a == EvaluateCyclones(v.cyclones)
           b == EvaluateVesselConditions(v.conditions, v.vessel)
           c == <<CheckGeofenceProximity(v.geofence), CheckPredictiveDrift(v.geofence)>>
<1>1. v.cyclones \in Seq(Cyclone) /\ v.conditions \in Conditions /\ v.vessel \in Vessel /\ v.geofence \in Geofence
    BY ViewsAssumption DEF ViewsAssumption
<1>2. a \in Seq(Verdicts) /\ \A r : Occurs(r, a) <=> OfCyclones(v.cyclones, r)
    BY <1>1, CyclonesAreHeard
<1>3. b \in Seq(Verdicts) /\ \A r : Occurs(r, b) <=> r \in OfVessel(v.conditions, v.vessel)
    <2> DEFINE p == CheckWaveHeight(v.conditions, v.vessel)  q == CheckWindSpeed(v.conditions, v.vessel)
               s == CheckLightning(v.conditions, v.vessel)  t == CheckSquall(v.conditions)
    <2>1. {p, q, s, t} \subseteq Verdicts /\ OfVessel(v.conditions, v.vessel) = {p, q, s, t}
        BY <1>1, VesselVerdicts DEF OfVessel
    <2>2. b = <<p, q, s, t>>
        BY DEF EvaluateVesselConditions
    <2> HIDE DEF p, q, s, t
    <2>3. DOMAIN b = {1, 2, 3, 4} /\ b[1] = p /\ b[2] = q /\ b[3] = s /\ b[4] = t /\ b \in Seq(Verdicts)
        BY <2>1, <2>2
    <2> HIDE DEF b
    <2> QED
        BY <2>1, <2>3 DEF Occurs
<1>4. c \in Seq(Verdicts) /\ \A r : Occurs(r, c) <=> r \in OfBoundary(v.geofence)
    <2> DEFINE p == CheckGeofenceProximity(v.geofence)  q == CheckPredictiveDrift(v.geofence)
    <2>1. {p, q} \subseteq Verdicts /\ OfBoundary(v.geofence) = {p, q}
        BY <1>1, BoundaryVerdicts DEF OfBoundary
    <2>2. c = <<p, q>>
        OBVIOUS
    <2> HIDE DEF p, q
    <2>3. DOMAIN c = {1, 2} /\ c[1] = p /\ c[2] = q /\ c \in Seq(Verdicts)
        BY <2>1, <2>2
    <2> HIDE DEF c
    <2> QED
        BY <2>1, <2>3 DEF Occurs
<1>5. EvaluateAll(v) = (a \o b) \o c
    BY DEF EvaluateAll
<1> HIDE DEF a, b, c
<1>6. a \o b \in Seq(Verdicts) /\ \A r : Occurs(r, a \o b) <=> Occurs(r, a) \/ Occurs(r, b)
    BY <1>2, <1>3, ConcatHolds
<1>7. \A r : Occurs(r, (a \o b) \o c) <=> Occurs(r, a \o b) \/ Occurs(r, c)
    BY <1>4, <1>6, ConcatHolds
<1> QED
    BY <1>2, <1>3, <1>4, <1>5, <1>6, <1>7

\* Each group of rules rises with the sea.
LEMMA CyclonesRise ==
    ASSUME NEW v \in Views, NEW w \in Views, Worse(v, w), NEW r, OfCyclones(v.cyclones, r)
    PROVE  \E t : OfCyclones(w.cyclones, t) /\ NoLower(r, t)
<1>1. v.cyclones \in Seq(Cyclone) /\ w.cyclones \in Seq(Cyclone)
    BY ViewsAssumption DEF ViewsAssumption
<1>2. PICK i \in DOMAIN v.cyclones : /\ IsActive(v.cyclones[i])
                                     /\ r \in {CheckCycloneWind(v.cyclones[i]), CheckCycloneCone(v.cyclones[i])}
    BY DEF OfCyclones
<1> DEFINE c == v.cyclones[i]  d == w.cyclones[i]
<1>3. /\ i \in DOMAIN w.cyclones /\ d.name = c.name /\ d.age = c.age /\ d.cone = c.cone
      /\ c.ring = None \/ KnownLess(c.ring, d.ring)
    BY <1>2 DEF Worse
<1>4. c \in Cyclone /\ d \in Cyclone
    BY <1>1, <1>2, <1>3, ElementOfSeq
<1> HIDE DEF c, d
<1>5. NoLower(CheckCycloneCone(c), CheckCycloneCone(d))
    <2>1. CheckCycloneCone(c) = CheckCycloneCone(d)
        BY <1>3 DEF CheckCycloneCone
    <2>2. OutcomeRank[CheckCycloneCone(c).outcome] \in Int
        BY <1>4, CycloneVerdicts, Ranks DEF Verdicts, Outcome
    <2> QED
        BY <2>1, <2>2 DEF NoLower
<1>6. NoLower(CheckCycloneWind(c), CheckCycloneWind(d))
    <2> DEFINE Said(x) == CASE x.ring = None -> "clear"
                            [] x.ring # None /\ x.ring >= 50 -> "emergency"
                            [] OTHER -> IF x.ring >= 34 THEN "warning" ELSE "watch"
    <2>1. CheckCycloneWind(c) = Verdict("cyclone.wind_radius", c.name, Said(c), None)
        BY DEF CheckCycloneWind
    <2>2. CheckCycloneWind(d) = Verdict("cyclone.wind_radius", d.name, Said(d), None)
        BY DEF CheckCycloneWind
    <2>3. OutcomeRank[Said(c)] <= OutcomeRank[Said(d)]
        <3>1. CASE c.ring = None
            BY <3>1, Ranks
        <3>2. CASE c.ring # None
            <4>1. c.ring \in Nat /\ d.ring \in Nat /\ c.ring <= d.ring /\ d.ring # None
                BY <1>3, <1>4, <3>2 DEF KnownLess, Cyclone
            <4> QED
                BY <3>2, <4>1, Ranks
        <3> QED
            BY <3>1, <3>2
    <2> HIDE DEF Said
    <2> QED
        BY <1>3, <2>1, <2>2, <2>3 DEF NoLower, Verdict
<1>7. OfCyclones(w.cyclones, CheckCycloneWind(d)) /\ OfCyclones(w.cyclones, CheckCycloneCone(d))
    BY <1>2, <1>3 DEF OfCyclones, IsActive, c, d
<1> QED
    BY <1>2, <1>5, <1>6, <1>7 DEF c

LEMMA VesselRises ==
    ASSUME NEW v \in Views, NEW w \in Views, Worse(v, w), NEW r \in OfVessel(v.conditions, v.vessel)
    PROVE  \E t \in OfVessel(w.conditions, w.vessel) : NoLower(r, t)
<1> DEFINE c == v.conditions  d == w.conditions  a == v.vessel  b == w.vessel
<1>1. /\ c \in Conditions /\ d \in Conditions /\ a \in Vessel /\ b \in Vessel
      /\ c.age = d.age
      /\ \A x \in {"wave", "wind", "strikes", "squall"} : KnownLess(c[x], d[x])
      /\ \A x \in {"cautionWave", "avoidWave", "cautionWind", "avoidWind", "freeboard"} : b[x] <= a[x]
    BY ViewsAssumption DEF ViewsAssumption, Worse
<1>2. /\ KnownLess(c.wave, d.wave) /\ KnownLess(c.wind, d.wind)
      /\ KnownLess(c.strikes, d.strikes) /\ KnownLess(c.squall, d.squall)
    BY <1>1
<1>3. /\ c.wave \in Nat /\ d.wave \in Nat /\ c.wave <= d.wave /\ c.wave # None /\ d.wave # None
      /\ c.wind \in Nat /\ d.wind \in Nat /\ c.wind <= d.wind /\ c.wind # None /\ d.wind # None
      /\ c.strikes \in Nat /\ d.strikes \in Nat /\ c.strikes <= d.strikes /\ c.strikes # None /\ d.strikes # None
      /\ c.squall \in Nat /\ d.squall \in Nat /\ c.squall <= d.squall /\ c.squall # None /\ d.squall # None
    BY <1>1, <1>2 DEF Conditions, KnownLess
<1>4. /\ a.cautionWave \in Nat /\ a.avoidWave \in Nat /\ a.cautionWind \in Nat /\ a.avoidWind \in Nat /\ a.freeboard \in Nat
      /\ b.cautionWave \in Nat /\ b.avoidWave \in Nat /\ b.cautionWind \in Nat /\ b.avoidWind \in Nat /\ b.freeboard \in Nat
    BY <1>1 DEF Vessel
<1>5. /\ b.cautionWave <= a.cautionWave /\ b.avoidWave <= a.avoidWave
      /\ b.cautionWind <= a.cautionWind /\ b.avoidWind <= a.avoidWind /\ b.freeboard <= a.freeboard
    BY <1>1
<1> HIDE DEF a, b, c, d
<1>6. NoLower(CheckWaveHeight(c, a), CheckWaveHeight(d, b))
    <2> DEFINE g == Graded(c.wave, a.cautionWave, a.avoidWave)  h == Graded(d.wave, b.cautionWave, b.avoidWave)
    <2>1. /\ g = "watch" => h \in {"watch", "warning"}
          /\ g = "warning" => h = "warning"
          /\ g \in {"clear", "watch", "warning"} /\ h \in {"clear", "watch", "warning"}
        BY <1>3, <1>4, <1>5 DEF Graded
    <2>2. CheckWaveHeight(c, a) = Plain("vessel.wave_height", IF c.age > MaxConditionAge THEN "unevaluated" ELSE g)
        BY <1>3 DEF CheckWaveHeight
    <2>3. CheckWaveHeight(d, b) = Plain("vessel.wave_height", IF c.age > MaxConditionAge THEN "unevaluated" ELSE h)
        BY <1>1, <1>3 DEF CheckWaveHeight, c, d
    <2> HIDE DEF g, h
    <2> QED
        BY <2>1, <2>2, <2>3, Ranks DEF NoLower, Plain, Verdict
<1>7. NoLower(CheckWindSpeed(c, a), CheckWindSpeed(d, b))
    <2> DEFINE g == Graded(c.wind, a.cautionWind, a.avoidWind)  h == Graded(d.wind, b.cautionWind, b.avoidWind)
    <2>1. /\ g = "watch" => h \in {"watch", "warning"}
          /\ g = "warning" => h = "warning"
          /\ g \in {"clear", "watch", "warning"} /\ h \in {"clear", "watch", "warning"}
        BY <1>3, <1>4, <1>5 DEF Graded
    <2>2. CheckWindSpeed(c, a) = Plain("vessel.wind_speed", IF c.age > MaxConditionAge THEN "unevaluated" ELSE g)
        BY <1>3 DEF CheckWindSpeed
    <2>3. CheckWindSpeed(d, b) = Plain("vessel.wind_speed", IF c.age > MaxConditionAge THEN "unevaluated" ELSE h)
        BY <1>1, <1>3 DEF CheckWindSpeed, c, d
    <2> HIDE DEF g, h
    <2> QED
        BY <2>1, <2>2, <2>3, Ranks DEF NoLower, Plain, Verdict
<1>8. NoLower(CheckLightning(c, a), CheckLightning(d, b))
    <2> DEFINE g == Graded(c.strikes, LightningWatch, LightningWarning)
               h == Graded(d.strikes, LightningWatch, LightningWarning)
               Said(x, boat) == IF x = "warning" /\ ~IsDecked(boat) THEN "emergency" ELSE x
    <2>1. /\ g = "watch" => h \in {"watch", "warning"}
          /\ g = "warning" => h = "warning"
          /\ g \in {"clear", "watch", "warning"} /\ h \in {"clear", "watch", "warning"}
        BY <1>3 DEF Graded, LightningWatch, LightningWarning
    <2>2. IsDecked(b) => IsDecked(a)
        BY <1>4, <1>5 DEF IsDecked
    <2>3. CheckLightning(c, a) = Plain("vessel.lightning", Said(g, a))
        BY <1>3 DEF CheckLightning
    <2>4. CheckLightning(d, b) = Plain("vessel.lightning", Said(h, b))
        BY <1>3 DEF CheckLightning
    <2> HIDE DEF g, h
    <2>5. OutcomeRank[Said(g, a)] <= OutcomeRank[Said(h, b)]
        BY <2>1, <2>2, Ranks
    <2> HIDE DEF Said
    <2> QED
        BY <2>3, <2>4, <2>5 DEF NoLower, Plain, Verdict
<1>9. NoLower(CheckSquall(c), CheckSquall(d))
    <2> DEFINE g == Graded(c.squall, SquallWatch, SquallWarning)  h == Graded(d.squall, SquallWatch, SquallWarning)
    <2>1. /\ g = "watch" => h \in {"watch", "warning"}
          /\ g = "warning" => h = "warning"
          /\ g \in {"clear", "watch", "warning"} /\ h \in {"clear", "watch", "warning"}
        BY <1>3 DEF Graded, SquallWatch, SquallWarning
    <2>2. CheckSquall(c) = Plain("vessel.squall", g)
        BY <1>3 DEF CheckSquall
    <2>3. CheckSquall(d) = Plain("vessel.squall", h)
        BY <1>3 DEF CheckSquall
    <2> HIDE DEF g, h
    <2> QED
        BY <2>1, <2>2, <2>3, Ranks DEF NoLower, Plain, Verdict
<1> QED
    BY <1>6, <1>7, <1>8, <1>9 DEF OfVessel, a, b, c, d

LEMMA BoundaryRises ==
    ASSUME NEW v \in Views, NEW w \in Views, Worse(v, w), NEW r \in OfBoundary(v.geofence)
    PROVE  \E t \in OfBoundary(w.geofence) : NoLower(r, t)
<1> DEFINE g == v.geofence  h == w.geofence
<1>1. /\ g \in Geofence /\ h \in Geofence /\ g.band = h.band
      /\ KnownLess(h.crossing, g.crossing) \/ g.crossing = None
    BY ViewsAssumption DEF ViewsAssumption, Worse
<1> HIDE DEF g, h
<1>2. NoLower(CheckGeofenceProximity(g), CheckGeofenceProximity(h))
    <2>1. CheckGeofenceProximity(g) = CheckGeofenceProximity(h)
        BY <1>1 DEF CheckGeofenceProximity
    <2>2. OutcomeRank[CheckGeofenceProximity(g).outcome] \in Int
        BY <1>1, BoundaryVerdicts, Ranks DEF OfBoundary, Verdicts, Outcome
    <2> QED
        BY <2>1, <2>2 DEF NoLower
<1>3. NoLower(CheckPredictiveDrift(g), CheckPredictiveDrift(h))
    <2> DEFINE Said(x) == CASE x.crossing = None -> "clear"
                            [] x.crossing # None /\ x.crossing <= DriftImmediateHorizon -> "emergency"
                            [] OTHER -> IF x.crossing <= DriftWarningHorizon THEN "warning" ELSE "watch"
    <2>1. /\ CheckPredictiveDrift(g) = Verdict("geofence.predictive_drift", None, Said(g), g.crossing)
          /\ CheckPredictiveDrift(h) = Verdict("geofence.predictive_drift", None, Said(h), h.crossing)
        BY DEF CheckPredictiveDrift
    <2>2. OutcomeRank[Said(g)] <= OutcomeRank[Said(h)]
        <3>1. CASE g.crossing = None
            BY <3>1, Ranks
        <3>2. CASE g.crossing # None
            <4>1. g.crossing \in Nat /\ h.crossing \in Nat /\ h.crossing <= g.crossing /\ h.crossing # None
                BY <1>1, <3>2 DEF KnownLess, Geofence
            <4> QED
                BY <3>2, <4>1, Ranks DEF DriftImmediateHorizon, DriftWarningHorizon
        <3> QED
            BY <3>1, <3>2
    <2> HIDE DEF Said
    <2> QED
        BY <2>1, <2>2 DEF NoLower, Verdict
<1> QED
    BY <1>2, <1>3 DEF OfBoundary, g, h

LEMMA WorseSeasSayNoLess ==
    ASSUME NEW v \in Views, NEW w \in Views, Worse(v, w), NEW i \in DOMAIN EvaluateAll(v)
    PROVE  \E j \in DOMAIN EvaluateAll(w) : NoLower(EvaluateAll(v)[i], EvaluateAll(w)[j])
<1> DEFINE r == EvaluateAll(v)[i]
           Said(x, y) == \/ OfCyclones(x.cyclones, y)
                         \/ y \in OfVessel(x.conditions, x.vessel) \/ y \in OfBoundary(x.geofence)
<1>1. v.conditions # None /\ w.conditions # None /\ v.geofence # None /\ w.geofence # None
    BY DEF Worse
<1>2. Occurs(r, EvaluateAll(v))
    BY DEF Occurs
<1> HIDE DEF r
<1>3. Said(v, r)
    BY <1>1, <1>2, AllAreHeard
<1>4. PICK t : Said(w, t) /\ NoLower(r, t)
    BY <1>3, CyclonesRise, VesselRises, BoundaryRises
<1>5. Occurs(t, EvaluateAll(w))
    BY <1>1, <1>4, AllAreHeard
<1> QED
    BY <1>4, <1>5 DEF Occurs, r

\* What is on show is what the rules say of the drivers at hand.
WatchInv == view \in Views /\ results = EvaluateAll(view)

LEMMA EvaluateLowersNothing ==
    ASSUME WatchInv, Evaluate, Worse(view, view')
    PROVE  \A i \in DOMAIN results : \E j \in DOMAIN results' : NoLower(results[i], results'[j])
<1>1. view \in Views /\ results = EvaluateAll(view) /\ view' \in Views /\ results' = EvaluateAll(view')
    BY DEF WatchInv, Evaluate
<1> QED
    BY <1>1, WorseSeasSayNoLess

\* For any number of systems, any hull and any reading: a sea that is worse in
\* every driver lowers nothing that any rule concluded.
THEOREM ExposureTheorem == WatchSpec => MonotoneInExposure
<1>1. WatchInit => WatchInv
    BY DEF WatchInit, WatchInv
<1>2. WatchInv /\ [WatchNext]_watchVars => WatchInv'
    BY DEF WatchInv, WatchNext, Evaluate, watchVars
<1>3. WatchInv /\ WatchNext =>
        (Worse(view, view') =>
           \A i \in DOMAIN results : \E j \in DOMAIN results' : NoLower(results[i], results'[j]))
    BY EvaluateLowersNothing DEF WatchNext
<1> QED
    BY <1>1, <1>2, <1>3, PTL DEF WatchSpec, MonotoneInExposure

JudgementInv == (part = "rules" => WatchInv) /\ (part = "score" => KernelInv)

\* The alert rules and the score beside all the rest: of neither does a worse
\* sea bring the judgement down.
THEOREM JudgementTheorem == AssessmentSpec => MonotoneInExposure /\ ScoreIsMonotone
<1>1. AssessmentInit => JudgementInv
    BY DEF AssessmentInit, JudgementInv, WatchInit, WatchInv, KernelInit, KernelInv
<1>2. ASSUME JudgementInv, [AssessmentNext]_assessmentVars
      PROVE  /\ JudgementInv'
             /\ UNCHANGED watchVars \/ (WatchInv /\ Evaluate)
             /\ UNCHANGED kernelVars \/ (KernelInv /\ Ask)
    <2>1. /\ part' = part
          /\ part = "rules" => Evaluate \/ UNCHANGED watchVars
          /\ part # "rules" => UNCHANGED watchVars
          /\ part = "score" => Ask \/ UNCHANGED kernelVars
          /\ part # "score" => UNCHANGED kernelVars
        BY <1>2 DEF AssessmentNext, assessmentVars, WatchNext
    <2> QED
        BY <1>2, <2>1 DEF JudgementInv, WatchInv, KernelInv, Evaluate, Ask, watchVars, kernelVars
<1>3. AssessmentSpec => []JudgementInv
    BY <1>1, <1>2, PTL DEF AssessmentSpec
<1>4. JudgementInv /\ [AssessmentNext]_assessmentVars =>
        [Worse(view, view') =>
           \A i \in DOMAIN results : \E j \in DOMAIN results' : NoLower(results[i], results'[j])]_watchVars
    BY <1>2, EvaluateLowersNothing
<1>5. JudgementInv /\ [AssessmentNext]_assessmentVars => [StepIsMonotone]_kernelVars
    BY <1>2, AskIsMonotone
<1>6. AssessmentSpec => MonotoneInExposure
    BY <1>3, <1>4, PTL DEF AssessmentSpec, MonotoneInExposure
<1>7. AssessmentSpec => [][StepIsMonotone]_kernelVars
    BY <1>3, <1>5, PTL DEF AssessmentSpec
<1>8. [][StepIsMonotone]_kernelVars => ScoreIsMonotone
    <2>1. [][StepIsMonotone]_kernelVars => WorseSeaNeverScoresHigher
        BY PTL DEF StepIsMonotone, WorseSeaNeverScoresHigher
    <2>2. [][StepIsMonotone]_kernelVars => LessReliableIsLessSure
        BY PTL DEF StepIsMonotone, LessReliableIsLessSure
    <2>3. [][StepIsMonotone]_kernelVars => AvoidIsNeverMarginedAway
        BY PTL DEF StepIsMonotone, AvoidIsNeverMarginedAway
    <2> QED
        BY <2>1, <2>2, <2>3 DEF ScoreIsMonotone
<1> QED
    BY <1>6, <1>7, <1>8
=============================================================================
