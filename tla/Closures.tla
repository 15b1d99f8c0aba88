------------------------------ MODULE Closures ------------------------------
(***************************************************************************)
(* Seasonal closures (orca_geo/constraints.py) and their storage           *)
(* (storage.py).  Days pass; notifications are loaded into the database,   *)
(* a later one for the same ban replacing the earlier; plans are checked   *)
(* against the bans in force and the areas a position lies in.             *)
(*                                                                         *)
(* A date is its day of the year, so that <<month, day>> order is integer  *)
(* order.                                                                  *)
(***************************************************************************)
EXTENDS Integers, FiniteSets, Absent

CONSTANTS Days,      \* the days of a year, 1..n
          Bans,            \* the notifications that may be issued
          Areas,           \* protected areas with their closed seasons
          Jurisdictions

SeasonalWindow == [first : Days, last : Days]

ASSUME ClosureAssumption ==
    /\ IsFiniteSet(Days) /\ Days # {} /\ Days = 1..Cardinality(Days)
    /\ \A b \in Bans : b.window \in SeasonalWindow
    /\ \A a \in Areas : a.seasons \subseteq SeasonalWindow

VARIABLES today,
          issued,     \* the notifications as they were issued
          stored,     \* the rows of geo.seasonal_bans
          charted,    \* the rows of geo.protected_areas
          plan

closureVars == <<today, issued, stored, charted, plan>>

\* SeasonalWindow.contains
InSeason(window, day) ==
    IF window.first <= window.last
    THEN window.first <= day /\ day <= window.last
    ELSE day >= window.first \/ day <= window.last

\* ProtectedArea.is_closed_on: "an empty season list means always, never never".
IsClosedOn(area, day) ==
    area.seasons = {} \/ \E w \in area.seasons : InSeason(w, day)

\* SeasonalBan.evaluate, ProtectedArea.violation
Violation(id, severity) == [id |-> id, blocks |-> severity = "hard"]

EvaluateTemporal(bans, day, where) ==
    {Violation(b.id, b.severity) :
        b \in {b \in bans : b.jurisdiction \in where /\ InSeason(b.window, day)}}

EvaluateAreas(containing, day) ==
    {Violation(a.id, a.severity) :
        a \in {a \in Areas : a.id \in containing /\ IsClosedOn(a, day)}}

\* ConstraintSet.blocking
BlockingOnly(violations) == {v \in violations : v.blocks}

ClosureInit ==
    /\ today \in Days
    /\ issued = {} /\ stored = {} /\ charted = {} /\ plan = None

\* load_seasonal_ban: an upsert on ban_id of every column.
LoadSeasonalBan(ban) ==
    /\ issued' = {b \in issued : b.id # ban.id} \cup {ban}
    /\ stored' = {r \in stored : r.id # ban.id}
                    \cup {[id |-> ban.id, jurisdiction |-> ban.jurisdiction,
                           severity |-> ban.severity, window |-> ban.window]}
    /\ plan' = None
    /\ UNCHANGED <<today, charted>>

\* load_protected_area: an upsert on area_id.  The closed seasons have no
\* column: they stay with the areas the caller holds.
LoadProtectedArea(area) ==
    /\ charted' = {r \in charted : r.id # area.id} \cup {[id |-> area.id, severity |-> area.severity]}
    /\ plan' = None
    /\ UNCHANGED <<today, issued, stored>>

\* containing_areas: a position lies in some of the areas that are loaded.
ContainingAreas == SUBSET {r.id : r \in charted}

\* A plan for today: the areas the position lies in come from the database,
\* the bans are read back from it, the areas' seasons are the caller's.
CheckPlan(where, containing) ==
    /\ containing \in ContainingAreas
    /\ plan' = [where |-> where, containing |-> containing,
                blocked |-> BlockingOnly(EvaluateTemporal(stored, today, where)
                                            \cup EvaluateAreas(containing, today))]
    /\ UNCHANGED <<today, issued, stored, charted>>

NextDay ==
    /\ today' = IF today + 1 \in Days THEN today + 1 ELSE 1
    /\ plan' = None
    /\ UNCHANGED <<issued, stored, charted>>

ClosureNext ==
    \/ \E ban \in Bans : LoadSeasonalBan(ban)
    \/ \E area \in Areas : LoadProtectedArea(area)
    \/ \E where \in SUBSET Jurisdictions, containing \in SUBSET {a.id : a \in Areas} :
          CheckPlan(where, containing)
    \/ NextDay

ClosureSpec == ClosureInit /\ [][ClosureNext]_closureVars

-----------------------------------------------------------------------------
\* How many days a season that starts on `first` has run when `day` comes.
Into(first, day) == (day - first + Cardinality(Days)) % Cardinality(Days)

Seasons == {b.window : b \in issued} \cup UNION {a.seasons : a \in Areas}

\* Every closed season is one unbroken run of days from its first to its last,
\* also when it "wraps the new year" (constraints.py:47).
SeasonIsOneRun ==
    \A w \in Seasons : InSeason(w, today) <=> Into(w.first, today) <= Into(w.first, w.last)

Running(w) == Into(w.first, today) <= Into(w.first, w.last)

\* A plan is stopped by exactly the statutory rules that bind it today: the
\* latest notification of each ban in its jurisdictions, and every hard area
\* it enters that is closed, one without seasons being closed all year.
PlansObeyTheLatestRules ==
    plan # None =>
        {v.id : v \in plan.blocked} =
            {b.id : b \in {b \in issued : b.severity = "hard" /\ b.jurisdiction \in plan.where
                                            /\ Running(b.window)}}
            \cup {a.id : a \in {a \in Areas : a.severity = "hard" /\ a.id \in plan.containing
                                  /\ (a.seasons # {} => \E w \in a.seasons : Running(w))}}
=============================================================================
