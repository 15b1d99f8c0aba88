---------------------------- MODULE TriggerWatch ----------------------------
(***************************************************************************)
(* The rules over time: the drivers of one subscriber change between ticks *)
(* and every tick evaluates them again.  What two consecutive evaluations  *)
(* may say is related by how the drivers changed.                          *)
(***************************************************************************)
EXTENDS AlertTriggers

CONSTANT Views   \* the drivers a tick may see

ASSUME ViewsAssumption ==
    Views \subseteq [cyclones : Seq(Cyclone), conditions : Conditions \cup {None},
                    vessel : Vessel, geofence : Geofence \cup {None}]

VARIABLES view, results

watchVars == <<view, results>>

WatchInit ==
    /\ view \in Views
    /\ results = EvaluateAll(view)

Evaluate ==
    /\ view' \in Views
    /\ results' = EvaluateAll(view')

WatchNext == Evaluate

WatchSpec == WatchInit /\ [][WatchNext]_watchVars

-----------------------------------------------------------------------------
KnownLess(a, b) == a # None /\ b # None /\ a <= b

Worse(v, w) ==
    /\ \A i \in DOMAIN v.cyclones :
          /\ i \in DOMAIN w.cyclones
          /\ v.cyclones[i].name = w.cyclones[i].name
          /\ w.cyclones[i].age = v.cyclones[i].age
          /\ v.cyclones[i].ring = None \/ KnownLess(v.cyclones[i].ring, w.cyclones[i].ring)
          /\ v.cyclones[i].cone = w.cyclones[i].cone
    /\ v.conditions # None /\ w.conditions # None
    /\ v.conditions.age = w.conditions.age
    /\ \A d \in {"wave", "wind", "strikes", "squall"} :
          KnownLess(v.conditions[d], w.conditions[d])
    /\ \A d \in {"cautionWave", "avoidWave", "cautionWind", "avoidWind", "freeboard"} :
          w.vessel[d] <= v.vessel[d]
    /\ v.geofence # None /\ w.geofence # None
    /\ KnownLess(w.geofence.crossing, v.geofence.crossing) \/ v.geofence.crossing = None
    /\ v.geofence.band = w.geofence.band

\* Another result of the same rule about the same hazard concludes no less.
NoLower(r, t) ==
    /\ t.trigger = r.trigger /\ t.hazard = r.hazard
    /\ OutcomeRank[r.outcome] <= OutcomeRank[t.outcome]

\* A sea that is worse in every driver, met by a boat no better able to take
\* it, never lowers what any rule concluded: thresholds, hull classes and
\* horizons are graded in one direction.
MonotoneInExposure ==
    [][Worse(view, view') =>
         \A i \in DOMAIN results : \E j \in DOMAIN results' : NoLower(results[i], results'[j])]_watchVars

\* "Conditions older than this cannot support an alert" (triggers.py:67): no
\* vessel rule fires on conditions past MAX_CONDITION_AGE.
StaleConditionsNeverFire ==
    (view.conditions # None /\ view.conditions.age > MaxConditionAge) =>
        \A i \in DOMAIN results :
            results[i].trigger \in {"vessel.wave_height", "vessel.wind_speed",
                                    "vessel.lightning", "vessel.squall"}
            => ~Fired(results[i].outcome)
=============================================================================
