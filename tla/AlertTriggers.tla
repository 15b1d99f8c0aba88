---------------------------- MODULE AlertTriggers ----------------------------
(***************************************************************************)
(* The eight alert rules, as operators from the drivers a rule reads to    *)
(* the TriggerResult it returns.  Geometry is an input: the strongest ring *)
(* and the cone a position is in, the warning band, the minutes to the     *)
(* boundary.  Wave heights are decimetres, squall probability is percent,  *)
(* ages are in units of the clock.                                         *)
(***************************************************************************)
EXTENDS AlertTypes, SequencesExt

CONSTANTS
    MaxConditionAge,   \* MAX_CONDITION_AGE
    MaxCycloneAge      \* max_age of active_cyclones

\* The drivers of one subscriber on one tick.
Cyclone == [name : System, age : Nat, ring : Nat \cup {None},
            cone : {"unpublished", "inside", "outside"}]
Conditions == [age : Nat, wave : Nat \cup {None}, wind : Nat \cup {None},
               strikes : Nat \cup {None}, squall : Nat \cup {None}]
Vessel == [cautionWave : Nat, avoidWave : Nat, cautionWind : Nat,
           avoidWind : Nat, freeboard : Nat]
Geofence == [band : {"clear", "amber", "red", "crossed"},
             crossing : Nat \cup {None}]

LightningWatch == 3
LightningWarning == 10
SquallWatch == 30
SquallWarning == 50
DriftWarningHorizon == 20
DriftImmediateHorizon == 10

Verdict(trigger, hazard, outcome, minutes) ==
    [trigger |-> trigger, hazard |-> hazard, outcome |-> outcome,
     minutes |-> minutes]

Plain(trigger, outcome) == Verdict(trigger, None, outcome, None)

\* warning at the upper bound, watch at the lower one, clear below.
Graded(value, watch, warning) ==
    CASE value >= warning -> "warning"
      [] value >= watch /\ value < warning -> "watch"
      [] value < watch /\ value < warning -> "clear"

\* Every None is tested before any age: a missing driver is never clear.
CheckCycloneWind(c) ==
    Verdict("cyclone.wind_radius", c.name,
            CASE c.ring = None -> "clear"
              [] c.ring # None /\ c.ring >= 50 -> "emergency"
              [] OTHER -> IF c.ring >= 34 THEN "warning" ELSE "watch",
            None)

\* An unpublished cone leaves the result without observed values, so without
\* a hazard reference.
CheckCycloneCone(c) ==
    IF c.cone = "unpublished"
    THEN Plain("cyclone.cone_of_uncertainty", "unevaluated")
    ELSE Verdict("cyclone.cone_of_uncertainty", c.name,
                 IF c.cone = "inside" THEN "watch" ELSE "clear", None)

CheckWaveHeight(cond, vessel) ==
    Plain("vessel.wave_height",
          IF cond.wave = None \/ cond.age > MaxConditionAge THEN "unevaluated"
          ELSE Graded(cond.wave, vessel.cautionWave, vessel.avoidWave))

CheckWindSpeed(cond, vessel) ==
    Plain("vessel.wind_speed",
          IF cond.wind = None \/ cond.age > MaxConditionAge THEN "unevaluated"
          ELSE Graded(cond.wind, vessel.cautionWind, vessel.avoidWind))

IsDecked(vessel) == vessel.freeboard >= 12

MutCheckLightning(cond, vessel) ==
    Plain("vessel.lightning",
          IF cond.strikes = None THEN "unevaluated"
          ELSE LET graded == Graded(cond.strikes, LightningWatch, LightningWarning)
               IN  IF graded = "watch" /\ ~IsDecked(vessel)
                   THEN "emergency" ELSE graded)

\* The nowcast rules do not look at the age of the conditions.
CheckLightning(cond, vessel) ==
    Plain("vessel.lightning",
          IF cond.strikes = None THEN "unevaluated"
          ELSE LET graded == Graded(cond.strikes, LightningWatch, LightningWarning)
               IN  IF graded = "warning" /\ ~IsDecked(vessel)
                   THEN "emergency" ELSE graded)

CheckSquall(cond) ==
    Plain("vessel.squall",
          IF cond.squall = None THEN "unevaluated"
          ELSE Graded(cond.squall, SquallWatch, SquallWarning))

CheckGeofenceProximity(geo) ==
    Plain("geofence.proximity",
          [clear |-> "clear", amber |-> "watch", red |-> "warning",
           crossed |-> "emergency"][geo.band])

CheckPredictiveDrift(geo) ==
    Verdict("geofence.predictive_drift", None,
            CASE geo.crossing = None -> "clear"
              [] geo.crossing # None /\ geo.crossing <= DriftImmediateHorizon -> "emergency"
              [] OTHER -> IF geo.crossing <= DriftWarningHorizon
                          THEN "warning" ELSE "watch",
            geo.crossing)

\* A position past its age says where the storm was: active_cyclones leaves it out.
IsActive(c) == c.age <= MaxCycloneAge

EvaluateCyclones(cyclones) ==
    FlattenSeq([i \in DOMAIN cyclones |->
                  IF IsActive(cyclones[i])
                  THEN <<CheckCycloneWind(cyclones[i]), CheckCycloneCone(cyclones[i])>> ELSE <<>>])

EvaluateVesselConditions(cond, vessel) ==
    <<CheckWaveHeight(cond, vessel), CheckWindSpeed(cond, vessel),
      CheckLightning(cond, vessel), CheckSquall(cond)>>

\* AlertScheduler._evaluate: cyclones, then the vessel's conditions if any
\* were fetched, then the boundary if a geofence is configured.
EvaluateAll(view) ==
    EvaluateCyclones(view.cyclones)
    \o (IF view.conditions = None THEN <<>>
        ELSE EvaluateVesselConditions(view.conditions, view.vessel))
    \o (IF view.geofence = None THEN <<>>
        ELSE <<CheckGeofenceProximity(view.geofence),
               CheckPredictiveDrift(view.geofence)>>)
==============================================================================
