----------------------------- MODULE AlertDedup -----------------------------
(***************************************************************************)
(* AlertDeduplicator: the last-sent record of a key, and the decision      *)
(* whether a rule's result is worth sending.  Operators on one record; the *)
(* store itself is the variable records of AlertScheduler.                 *)
(***************************************************************************)
EXTENDS AlertTypes

DecisionKind ==
    {"send_new", "send_escalation", "send_update", "suppress_duplicate",
     "send_cancel", "nothing_to_do"}

ShouldSend(kind) ==
    kind \in {"send_new", "send_escalation", "send_update", "send_cancel"}

Age(record, now) == now - record.sentAt

Escalates(previous, result) ==
    OutcomeRank[result.outcome] > OutcomeRank[previous.outcome]

MutDriftResendsAtAQuarter(previous, result) ==
    /\ result.trigger = "geofence.predictive_drift"
    /\ result.minutes # None
    /\ previous.minutes # None
    /\ 4 * result.minutes <= previous.minutes

\* DRIFT_RESEND_FRACTION is a half: current <= previous * 0.5.
DriftHasMateriallyShortened(previous, result) ==
    /\ result.trigger = "geofence.predictive_drift"
    /\ result.minutes # None
    /\ previous.minutes # None
    /\ 2 * result.minutes <= previous.minutes

MutWindowOfTheQuietest(previous, result, now) ==
    Age(previous, now) < Window["Minor"]

InsideWindow(previous, result, now) ==
    Age(previous, now) < Window[SeverityByOutcome[result.outcome]]

MutCancelsAnything(previous) ==
    IF previous # None THEN "send_cancel" ELSE "nothing_to_do"

MutCancelsExtremeOnly(previous) ==
    IF previous # None /\ AtLeast(previous.severity, "Extreme")
    THEN "send_cancel"
    ELSE "nothing_to_do"

\* What a rule that is not firing leads to: severe standing alerts are
\* cancelled, the others are left to lapse.
DecideQuiet(previous) ==
    IF previous # None /\ AtLeast(previous.severity, "Severe")
    THEN "send_cancel"
    ELSE "nothing_to_do"

MutDecideNoEscalation(previous, result, now) ==
    IF ~Fired(result.outcome) THEN DecideQuiet(previous)
    ELSE IF previous = None THEN "send_new"
    ELSE IF InsideWindow(previous, result, now) THEN "suppress_duplicate"
    ELSE IF Escalates(previous, result) THEN "send_escalation"
    ELSE "send_update"

Decide(previous, result, now) ==
    IF ~Fired(result.outcome) THEN DecideQuiet(previous)
    ELSE IF previous = None THEN "send_new"
    ELSE IF Escalates(previous, result) THEN "send_escalation"
    ELSE IF DriftHasMateriallyShortened(previous, result)
            \/ ~InsideWindow(previous, result, now) THEN "send_update"
    ELSE "suppress_duplicate"

\* commit(): the record that replaces whatever the key held.
RecordOf(u, result, now) ==
    [identifier |-> MakeIdentifier(u, result.trigger, now),
     severity   |-> SeverityByOutcome[result.outcome],
     outcome    |-> result.outcome,
     sentAt     |-> now,
     minutes    |-> result.minutes]
=============================================================================
