---------------------------- MODULE AssessmentMC ----------------------------
(***************************************************************************)
(* What is computed from the evidence and what the shore does with it:     *)
(* alert rules over time, the safety score, the choice of zones, routes,   *)
(* drift towards the boundary, closed seasons and the authority's desk.    *)
(* The parts share no state; a behaviour is one of a single part, the      *)
(* others resting in one of their initial states.                          *)
(***************************************************************************)
EXTENDS TriggerWatch, SafetyKernel, ZoneChoice, RouteSearch, DriftWatch, Closures, ShoreDesk

CONSTANT Parts

VARIABLE part

assessmentVars == <<watchVars, kernelVars, zoneVars, routeVars, driftVars, closureVars, deskVars, part>>

Pick(S) == CHOOSE x \in S : TRUE

\* What the parts that are not looked at rest in.
RestingView == Pick(Views)
RestingQuestion == Pick(Questions)
RestingChart == Pick(Charts)
RestingPassage == Pick(Passages)

AssessmentInit ==
    /\ part \in Parts
    /\ IF part = "rules" THEN WatchInit ELSE view = RestingView /\ results = <<>>
    /\ IF part = "score" THEN KernelInit
       ELSE asked = RestingQuestion /\ verdict = Abstains("insufficient_evidence")
    /\ field \in (IF part = "zones" THEN Fields ELSE {<<>>})
    /\ days \in (IF part = "heat" THEN Series ELSE {<<>>})
    /\ ZoneInit
    /\ IF part = "route" THEN RouteInit
       ELSE /\ chart = RestingChart /\ open = {} /\ best = <<>> /\ cameFrom = <<>> /\ counter = 0
            /\ route = None
    /\ passage \in (IF part = "drift" THEN Passages ELSE {RestingPassage})
    /\ elapsed = 0 /\ track = <<>> /\ span = None /\ crossing = None /\ done = FALSE
    /\ IF part = "closures" THEN ClosureInit
       ELSE today = 1 /\ issued = {} /\ stored = {} /\ charted = {} /\ plan = None
    /\ IF part = "desk" THEN DeskInit
       ELSE /\ where = [u \in Users |-> None] /\ state = [u \in Users |-> None]
            /\ documents = {} /\ deskClock = 0

AssessmentNext ==
    /\ part' = part
    /\ \/ part = "rules" /\ WatchNext
          /\ UNCHANGED <<kernelVars, zoneVars, routeVars, driftVars, closureVars, deskVars>>
       \/ part = "score" /\ Ask
          /\ UNCHANGED <<watchVars, zoneVars, routeVars, driftVars, closureVars, deskVars>>
       \/ part = "zones" /\ RankAgain
          /\ UNCHANGED <<watchVars, kernelVars, routeVars, driftVars, closureVars, deskVars>>
       \/ part = "route" /\ RouteNext
          /\ UNCHANGED <<watchVars, kernelVars, zoneVars, driftVars, closureVars, deskVars>>
       \/ part = "drift" /\ DriftNext
          /\ UNCHANGED <<watchVars, kernelVars, zoneVars, routeVars, closureVars, deskVars>>
       \/ part = "closures" /\ ClosureNext
          /\ UNCHANGED <<watchVars, kernelVars, zoneVars, routeVars, driftVars, deskVars>>
       \/ part = "desk" /\ DeskNext
          /\ UNCHANGED <<watchVars, kernelVars, zoneVars, routeVars, driftVars, closureVars>>

AssessmentSpec == AssessmentInit /\ [][AssessmentNext]_assessmentVars

-----------------------------------------------------------------------------
\* Boats of two classes on both sides of the margin's bounds, in seas on both
\* sides of their thresholds, with the optional readings there or not.
Optional(v) == [value |-> v, stale |-> FALSE, required |-> FALSE]
Needed(v) == [value |-> v, stale |-> FALSE, required |-> TRUE]

Hull(class, overrides, freeboard, equipped) ==
    [class |-> class, overrides |-> overrides, freeboard |-> freeboard, length |-> 90,
     motorised |-> equipped, radio |-> equipped]

\* Thresholds set for one boat, more tolerant than any class at hand or crossing
\* those of its class: stricter on the waves, more tolerant of the wind.
Tolerant == [wave |-> <<30, 40>>, wind |-> <<130, 180>>, period |-> 40]
Mixed == [wave |-> <<8, 12>>, wind |-> <<110, 150>>, period |-> 60]

Hulls == {Hull(c, None, f, TRUE) : c \in {"catamaran", "frp_vallam"}, f \in {50, 200}}
         \cup {Hull("catamaran", None, 200, FALSE),
               Hull("catamaran", Tolerant, 50, TRUE), Hull("frp_vallam", Mixed, 200, TRUE)}

Waters == {[wave |-> Needed(wave), wind |-> Needed(wind), period |-> p, squall |-> s] :
              wave \in {9, 13, 18}, wind \in {60, 120},
              p \in {None, Optional(30), Optional(55)}, s \in {None, Optional(100)}}
          \cup {[wave |-> [value |-> v, stale |-> st, required |-> TRUE],
                 wind |-> Needed(60), period |-> None, squall |-> Optional(None)] :
                   v \in {None, 9}, st \in BOOLEAN}

ScoreQuestions == {[boat |-> b, sea |-> w, reliability |-> r] :
                      b \in Hulls, w \in Waters, r \in {20, 60, 95}}

\* Zones that trade catch, fuel and safety against each other.
Profile(proximity, front, fuel, safety, compliant) ==
    [proximity |-> proximity, issued |-> 0, front |-> front, distance |-> fuel,
     fuel |-> fuel, safety |-> safety, compliant |-> compliant]

Profiles == {Profile(None, 9, 5, 5, TRUE), Profile(10, 0, 9, 5, TRUE), Profile(40, 500, 7, 7, TRUE),
             Profile(None, 0, 9, 9, TRUE), Profile(None, 9, 3, 3, TRUE), Profile(10, 0, 1, 9, FALSE)}

Zoned(ps) == [i \in DOMAIN ps |-> [id |-> i] @@ ps[i]]

ZoneLists == {Zoned(ps) : ps \in UNION {[1..n -> Profiles] : n \in {0, 1, 4}}}

HotDays == UNION {[1..n -> BOOLEAN] : n \in {0, 4, 5, 6, 10}}

\* A three by three grid: start and goal, a cell with a foul current, one that
\* is shoal, and four cells that are calm, rough, swept by a current or fenced.
Cell(wave, east, north, depth, blocked) ==
    [wave |-> wave, wind |-> 50, east |-> east, north |-> north, depth |-> depth, blocked |-> blocked]
Calm == Cell(0, 0, 0, 20, FALSE)
CellKinds == {Calm, Cell(15, 0, 0, 20, FALSE), Cell(0, 10, 0, None, FALSE), Cell(0, 0, 0, 20, TRUE)}

Waters3x3(kinds) ==
    {ps @@ (<<3, 1>> :> Cell(0, 0, 10, 5, FALSE)) @@ (<<2, 3>> :> Cell(0, -10, 0, 20, FALSE))
        @@ [p \in (1..3) \X (1..3) |-> Calm] :
        ps \in [{<<1, 2>>, <<2, 1>>, <<2, 2>>, <<3, 2>>} -> kinds]}

Ends == {<< <<1, 1>>, <<3, 3>> >>, << <<2, 1>>, <<1, 3>> >>, << <<3, 3>>, <<1, 9>> >>}

\* What callers may price legs by: by the length, far below the water's floor;
\* by what is entered, with one leg free of the rest; and above the floor.
Legs == ((1..3) \X (1..3)) \X ((1..3) \X (1..3))
CostFunctions ==
    {[w \in Legs |-> 1 + Between(w[1], w[2])],
     [w \in Legs |-> IF w[2][2] = 3 THEN 1 ELSE 30],
     [w \in Legs |-> 25 * Between(w[1], w[2]) + 200 * w[2][1] + 1]}

SeaCharts ==
    {[cells |-> cs, minDepth |-> m, start |-> ends[1], goal |-> ends[2], costFn |-> None] :
        cs \in Waters3x3(CellKinds), m \in {None, 10}, ends \in Ends}
    \cup
    {[cells |-> cs, minDepth |-> None, start |-> ends[1], goal |-> ends[2], costFn |-> f] :
        cs \in Waters3x3({Calm, Cell(15, 0, 0, 20, FALSE), Cell(0, 0, 0, 20, TRUE)}), ends \in Ends,
        f \in CostFunctions}

\* Boats at rest and under way, with no, one or two crossings ahead.
Courses ==
    {[speed |-> speed, line |-> line, abreast |-> abreast, start |-> "india", home |-> home] :
        speed \in 0..3, line \in {l \in SUBSET {3, 13, 21, 40} : Cardinality(l) <= 2},
        abreast \in {1, 4, 9}, home \in Sides \cup {None}}

\* A year of ten days.
Notifications ==
    {[id |-> id, jurisdiction |-> id, severity |-> s, window |-> w] :
        id \in {"east", "west"}, s \in {"hard", "soft"},
        w \in {[first |-> 2, last |-> 5], [first |-> 9, last |-> 3]}}

Sanctuaries ==
    {[id |-> "no_take", severity |-> "hard", seasons |-> {}],
     [id |-> "nursery", severity |-> "hard",
      seasons |-> {[first |-> 10, last |-> 1], [first |-> 5, last |-> 6]}]}

-----------------------------------------------------------------------------
\* Drivers on both sides of every threshold, for an open catamaran and a
\* decked trawler.
Windows == [Extreme |-> 1, Severe |-> 3, Moderate |-> 6, Minor |-> 24, Unknown |-> 12]

Boats == {[cautionWave |-> 10, avoidWave |-> 15, cautionWind |-> 12,
           avoidWind |-> 17, freeboard |-> 3],
          [cautionWave |-> 25, avoidWave |-> 35, cautionWind |-> 22,
           avoidWind |-> 27, freeboard |-> 15]}

Sea(age, wave, wind, strikes, squall) ==
    [age |-> age, wave |-> wave, wind |-> wind, strikes |-> strikes, squall |-> squall]

Sees(ring, cond, boat, minutes) ==
    [cyclones   |-> <<[name |-> "amphan", age |-> MaxCycloneAge,
                       ring |-> ring, cone |-> "inside"]>>,
     conditions |-> cond, vessel |-> boat,
     geofence   |-> [band |-> "amber", crossing |-> minutes]]

ThresholdViews ==
    {Sees(ring, Sea(MaxConditionAge, wave, 17, strikes, squall), boat, minutes) :
        ring \in {None, 34, 64}, wave \in {9, 15, 35}, strikes \in {2, 3, 9, 10},
        squall \in {29, 50}, boat \in Boats, minutes \in {None, 20, 10}}

AgeingViews ==
    {Sees(None, Sea(age, None, wind, strikes, squall), boat, None) :
        age \in {0, MaxConditionAge, MaxConditionAge + 1}, wind \in {5, 17},
        strikes \in {None, 10}, squall \in {None, 29, 50}, boat \in Boats}

-----------------------------------------------------------------------------
\* Courses that are proposed are the cheapest, courses that are held are
\* followed to the line, each by its definition over every chart.
CoursesAreRight ==
    /\ RouteIsCheapest /\ StraightLineNeverWins
    /\ ReportedCrossingIsReal /\ SingleCrossingIsForeseen

\* Rules from the shore bind the plans they cover, and messages from the shore
\* reach the boats they concern, as rules, days and positions change.
ShoreIsObeyed ==
    /\ SeasonIsOneRun /\ PlansObeyTheLatestRules
    /\ ReportedBoatsAreRecalled /\ BroadcastsErrWide
=============================================================================
