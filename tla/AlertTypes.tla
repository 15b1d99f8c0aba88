----------------------------- MODULE AlertTypes -----------------------------
(***************************************************************************)
(* The vocabulary of the alert service: what a rule concludes, how severe  *)
(* CAP calls it, what makes two alerts the same alert.                     *)
(*                                                                         *)
(* Numbers a rule compares (wave height, knots) stay in AlertTriggers; the *)
(* modules built on this one see outcomes only, and the minutes to the     *)
(* boundary that the drift rule carries.                                   *)
(***************************************************************************)
EXTENDS Integers, Absent   \* None is also the empty hazard_ref ""

CONSTANTS
    User,       \* subscribers
    System,     \* names of tropical systems, the non-empty hazard_ref values
    Rule,       \* the rules an instance exercises, a subset of TriggerId
    Window      \* SUPPRESSION_WINDOW, severity -> clock units

TriggerId ==
    {"cyclone.wind_radius", "cyclone.cone_of_uncertainty",
     "vessel.wave_height", "vessel.wind_speed", "vessel.lightning",
     "vessel.squall", "geofence.proximity", "geofence.predictive_drift"}

Outcome == {"clear", "watch", "warning", "emergency", "unevaluated"}

CapSeverity == {"Extreme", "Severe", "Moderate", "Minor", "Unknown"}

OutcomeRank ==
    [o \in Outcome |-> CASE o = "unevaluated" -> -1
                         [] o = "clear"       ->  0
                         [] o = "watch"       ->  1
                         [] o = "warning"     ->  2
                         [] o = "emergency"   ->  3]

SeverityByOutcome ==
    [o \in Outcome |-> CASE o = "emergency"   -> "Extreme"
                         [] o = "warning"     -> "Severe"
                         [] o = "watch"       -> "Moderate"
                         [] o = "clear"       -> "Minor"
                         [] o = "unevaluated" -> "Unknown"]

SeverityOrder ==
    [s \in CapSeverity |-> CASE s = "Extreme"  -> 0
                             [] s = "Severe"   -> 1
                             [] s = "Moderate" -> 2
                             [] s = "Minor"    -> 3
                             [] s = "Unknown"  -> 4]

\* At least as severe as the threshold t ("Severe" is order 1, "Extreme" 0).
AtLeast(s, t) == SeverityOrder[s] <= SeverityOrder[t]

Fired(o) == OutcomeRank[o] >= OutcomeRank["watch"]

Hazard == System \cup {None}

Minutes == Nat \cup {None}

\* TriggerResult: outcome of one rule; minutes only for a predicted crossing.
Result == [trigger : Rule, hazard : Hazard, outcome : Outcome,
           minutes : Minutes]

AlertKey == [user : User, trigger : Rule, hazard : Hazard]

KeyOf(u, r) == [user |-> u, trigger |-> r.trigger, hazard |-> r.hazard]

\* make_identifier digests user, rule and time of sending; the digest is
\* taken as injective, so the tuple stands for it.
Identifier == User \X Rule \X Nat

MakeIdentifier(u, trigger, sent) == <<u, trigger, sent>>

\* What the deduplicator keeps of the last alert sent for a key.
\* send_count is left out: no decision reads it.
AlertRecord == [identifier : Identifier, severity : CapSeverity,
                outcome : Outcome, sentAt : Nat, minutes : Minutes]

\* CapAlert, one info block standing for all languages, with the result it
\* was built from.
Message == [type : {"Alert", "Update", "Cancel"}, identifier : Identifier,
            references : Identifier \cup {None}, severity : CapSeverity,
            outcome : Outcome, sent : Nat, expires : Nat, minutes : Minutes]

ASSUME TypesAssumption ==
    /\ None \notin Nat
    /\ None \notin System
    /\ None \notin Identifier
    /\ None \notin AlertRecord
    /\ None \notin Message
    /\ Rule \subseteq TriggerId
    /\ Window \in [CapSeverity -> Nat]

\* The windows shorten as the severity rises (dedup.py:38).
ASSUME WindowAssumption ==
    \A s, t \in {"Extreme", "Severe", "Moderate"} :
        AtLeast(s, t) => Window[s] <= Window[t]
=============================================================================
