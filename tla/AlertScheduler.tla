--------------------------- MODULE AlertScheduler ---------------------------
(***************************************************************************)
(* AlertScheduler.tick: every subscriber is classified, evaluated, and     *)
(* each rule's result decided, built, spoken, delivered and committed.     *)
(*                                                                         *)
(* One action handles one result, in the order of the code; a tick is a    *)
(* sequence of them at one value of the clock, because an exception in the *)
(* middle leaves what was committed before it.  The caller's inputs (the   *)
(* subscribers' positions, the hazard picture, the contexts) are chosen    *)
(* afresh at every tick.                                                   *)
(*                                                                         *)
(* Variables of the code: now, pending/current/todo/context (the locals of *)
(* a running tick) and records.  thread, shown and firedAt are history: no *)
(* action reads them.                                                      *)
(***************************************************************************)
EXTENDS AlertDedup, AlertDelivery, FiniteSets

CONSTANTS
    Position,        \* VesselState a subscriber may be passed with: None or
                     \* [age, atSea], the age of the fix being now - reported_at
    MaxPositionAge,  \* MAX_POSITION_AGE
    Batches,         \* the sequences of results _evaluate can return
    Contexts,        \* the AlertContexts passed in, as sets of the fields filled
    SpeechOutcomes,  \* how _payload_for's synthesis may end
    Lifetime,        \* TickConfig.alert_lifetime
    Cadence,         \* how far apart the deployment calls tick
    PruneAge,        \* prune's older_than
    MaxNow,          \* bound on the clock
    MaxRestarts      \* bound on process restarts

VARIABLES
    now, pending, current, todo, context, records, restarts,
    thread, shown, firedAt

tickVars == <<pending, current, todo, context>>
history  == <<thread, shown, firedAt>>
vars == <<now, tickVars, records, restarts, history>>

ContextField == {"distance_text", "location_name", "issued_time",
                 "valid_until", "harbour_name", "wave_height_text"}

PositionState == [age : Nat, atSea : BOOLEAN]

ASSUME SchedulerAssumption ==
    /\ Position \subseteq PositionState \cup {None}
    /\ Batches \subseteq Seq(Result)
    /\ Contexts \subseteq SUBSET ContextField
    /\ SpeechOutcomes \subseteq {"audio", "silent", "raised"}
    /\ {MaxPositionAge, Lifetime, Cadence, PruneAge, MaxNow, MaxRestarts} \subseteq Nat
    /\ None \notin User /\ None \notin PositionState

\* The lifetime is "the tick cadence times a small factor" (scheduler.py:79):
\* it covers the longest window a firing rule is suppressed for, and a tick.
ASSUME CadenceAssumption ==
    /\ Window["Moderate"] + Cadence <= Lifetime
    /\ Cadence < Lifetime

-----------------------------------------------------------------------------
(* Pure steps of _handle.                                                  *)

\* classify_skip: None when the subscriber can be evaluated.
ClassifySkip(u, position) ==
    CASE position = None -> "no_position"
      [] position # None /\ ~position.atSea -> "ashore"
      [] position # None /\ position.atSea /\ position.age > MaxPositionAge ->
            "stale_position"
      [] OTHER -> IF Endpoints[u] = <<>> THEN "unreachable" ELSE None

\* The context fields the template of a rule cannot do without.
RequiredContext(result) ==
    CASE result.trigger \in {"cyclone.wind_radius", "cyclone.cone_of_uncertainty"} ->
            {"distance_text", "location_name", "issued_time"}
      [] result.trigger = "vessel.wave_height" ->
            {"location_name", "valid_until"} \cup
            (IF result.outcome = "unevaluated" THEN {"wave_height_text"} ELSE {})
      [] result.trigger \in {"vessel.wind_speed", "vessel.lightning", "vessel.squall"} ->
            {"location_name", "harbour_name", "distance_text"}
      [] OTHER -> {}

Buildable(result, ctx) == RequiredContext(result) \subseteq ctx

MessageType(kind) ==
    [send_new |-> "Alert", send_escalation |-> "Update",
     send_update |-> "Update", send_cancel |-> "Cancel"][kind]

\* _build_alert, one info block standing for all languages.
BuildAlert(u, result, kind, previous) ==
    [type       |-> MessageType(kind),
     identifier |-> MakeIdentifier(u, result.trigger, now),
     references |-> IF kind = "send_new" THEN None ELSE previous.identifier,
     severity   |-> SeverityByOutcome[result.outcome],
     outcome    |-> result.outcome,
     sent       |-> now,
     expires    |-> now + Lifetime,
     minutes    |-> result.minutes]

-----------------------------------------------------------------------------
Init ==
    /\ now = 0 /\ restarts = 0
    /\ pending = {} /\ current = None /\ todo = <<>> /\ context = {}
    /\ records = [k \in AlertKey |-> None]
    /\ thread  = [k \in AlertKey |-> None]
    /\ shown   = [k \in AlertKey |-> None]
    /\ firedAt = [k \in AlertKey |-> None]

Idle == pending = {} /\ todo = <<>>

\* Time passes between ticks, and only there: a tick has one clock value.
Elapse ==
    /\ Idle /\ now < MaxNow
    /\ now' = now + 1
    /\ UNCHANGED <<tickVars, records, restarts, history>>

StartTick ==
    /\ Idle
    /\ pending' = User
    /\ UNCHANGED <<now, current, todo, context, records, restarts, history>>

Skip(u) ==
    /\ todo = <<>> /\ u \in pending
    /\ \E position \in Position : ClassifySkip(u, position) # None
    /\ pending' = pending \ {u}
    /\ UNCHANGED <<now, current, todo, context, records, restarts, history>>

Evaluate(u) ==
    /\ todo = <<>> /\ u \in pending
    /\ \E position \in Position : ClassifySkip(u, position) = None
    /\ pending' = pending \ {u}
    /\ todo' \in Batches
    /\ IF todo' = <<>> THEN UNCHANGED <<current, context>>
                      ELSE current' = u /\ context' \in Contexts
    /\ UNCHANGED <<now, records, restarts, history>>

(* The result at the head of todo, its key, and what is decided about it.  *)
result == Head(todo)
key == KeyOf(current, result)
previous == records[key]
decision == Decide(previous, result, now)

MutDoneAfterOneResult ==
    /\ todo' = Tail(todo)
    /\ current' = None /\ context' = {}
    /\ UNCHANGED <<now, pending, restarts>>

\* The loop of tick moves on; the subscriber's locals go with the last result.
Done ==
    /\ todo' = Tail(todo)
    /\ IF Len(todo) = 1 THEN current' = None /\ context' = {}
                        ELSE UNCHANGED <<current, context>>
    /\ UNCHANGED <<now, pending, restarts>>

\* Nothing to send: a suppressed repeat, or nothing to say.
HandleQuietly ==
    /\ todo # <<>>
    /\ ~ShouldSend(decision)
    /\ firedAt' = [firedAt EXCEPT ![key] = IF Fired(result.outcome) THEN now ELSE None]
    /\ Done
    /\ UNCHANGED <<records, thread, shown>>

\* MissingAlertContextError: recorded in the audit, nothing is committed.
HandleUnbuildable ==
    /\ todo # <<>>
    /\ ShouldSend(decision)
    /\ ~Buildable(result, context)
    /\ firedAt' = [firedAt EXCEPT ![key] = None]
    /\ Done
    /\ UNCHANGED <<records, thread, shown>>

MutCommitKeepsCancelled(u, res, kind) == RecordOf(u, res, now)

\* commit(), then retire() when the message was a cancellation.
Committed(u, res, kind) ==
    IF kind = "send_cancel" THEN None ELSE RecordOf(u, res, now)

Emit ==
    /\ todo # <<>>
    /\ ShouldSend(decision)
    /\ Buildable(result, context)
    /\ Channels # {} => SpeechOutcomes \cap {"audio", "silent"} # {}
    /\ LET alert == BuildAlert(current, result, decision, previous) IN
       /\ \E report \in Reports(current, alert.severity) :
             shown' = IF Delivered(report)
                      THEN [shown EXCEPT ![key] = alert.identifier]
                      ELSE shown
       /\ thread' = [thread EXCEPT ![key] = alert]
    /\ records' = [records EXCEPT ![key] = Committed(current, result, decision)]
    /\ firedAt' = [firedAt EXCEPT ![key] = IF Fired(result.outcome) THEN now ELSE None]
    /\ Done

\* An exception that is neither a missing context nor one of the speech
\* errors _payload_for catches leaves tick: the audio cache, or its write
\* after a successful synthesis, failed.
Abort ==
    /\ todo # <<>>
    /\ ShouldSend(decision)
    /\ Buildable(result, context)
    /\ Channels # {} /\ "raised" \in SpeechOutcomes
    /\ pending' = {} /\ current' = None /\ todo' = <<>> /\ context' = {}
    /\ UNCHANGED <<now, records, restarts, history>>

\* AlertDeduplicator.prune, called between ticks by whoever owns the store.
Prune ==
    /\ Idle
    /\ records' = [k \in AlertKey |->
                     IF records[k] # None /\ Age(records[k], now) > PruneAge
                     THEN None ELSE records[k]]
    /\ UNCHANGED <<now, tickVars, restarts, history>>

\* The records are in memory: a new process starts with none, mid-tick or not.
Restart ==
    /\ restarts < MaxRestarts
    /\ restarts' = restarts + 1
    /\ records' = [k \in AlertKey |-> None]
    /\ pending' = {} /\ current' = None /\ todo' = <<>> /\ context' = {}
    /\ UNCHANGED <<now, history>>

Handle == HandleQuietly \/ HandleUnbuildable \/ Emit \/ Abort

Next ==
    \/ Elapse \/ StartTick
    \/ \E u \in User : Skip(u) \/ Evaluate(u)
    \/ Handle
    \/ Prune \/ Restart

Spec == Init /\ [][Next]_vars

-----------------------------------------------------------------------------
\* The types of the variables: a result is only ever handled for a subscriber
\* under evaluation, and keys hold records and messages about themselves.
TypeOK ==
    /\ now \in Nat /\ restarts \in Nat
    /\ pending \subseteq User /\ current \in User \cup {None}
    /\ todo \in Seq(Result) /\ (todo # <<>> => current \in User)
    /\ context \subseteq ContextField
    /\ records \in [AlertKey -> AlertRecord \cup {None}]
    /\ thread  \in [AlertKey -> Message \cup {None}]
    /\ shown   \in [AlertKey -> Identifier \cup {None}]
    /\ firedAt \in [AlertKey -> Nat \cup {None}]

\* Suppression and supersession are judged against what was really emitted:
\* a record always describes the last message of its key's thread, however
\* ticks abort, records are pruned and the process restarts.
RecordMatchesThread ==
    \A k \in AlertKey : records[k] # None =>
        /\ thread[k] # None
        /\ thread[k].type # "Cancel"
        /\ Fired(thread[k].outcome)
        /\ records[k] = [identifier |-> thread[k].identifier,
                         severity   |-> thread[k].severity,
                         outcome    |-> thread[k].outcome,
                         sentAt     |-> thread[k].sent,
                         minutes    |-> thread[k].minutes]

\* Staying quiet while things get worse is what the policy must never do: a
\* firing rule is passed over in silence only when the last message of its
\* thread is a standing warning at least as grave, younger than the window of
\* the present severity, and not twice as optimistic about the time left.
SilenceIsInformed ==
    [][HandleQuietly /\ Fired(result.outcome) =>
          LET last == thread[key] IN
          /\ last # None /\ last.type # "Cancel"
          /\ OutcomeRank[result.outcome] <= OutcomeRank[last.outcome]
          /\ now - last.sent < Window[SeverityByOutcome[result.outcome]]
          /\ (/\ result.trigger = "geofence.predictive_drift"
              /\ result.minutes # None /\ last.minutes # None)
                => 2 * result.minutes > last.minutes]_vars

\* "An alert that expired before the next evaluation would leave a gap"
\* (scheduler.py:80): until the next tick is due, a rule that fired at its
\* last evaluation, and whose message could be worded, has a standing alert
\* that has not expired, whether this tick sent it or suppressed it.
NoCoverageGap ==
    \A k \in AlertKey : firedAt[k] # None /\ now - firedAt[k] <= Cadence =>
        /\ thread[k] # None /\ thread[k].type # "Cancel"
        /\ now < thread[k].expires

\* "The floor of the delivery guarantee": a subscriber with an in-app inbox
\* has been shown the last message of every thread, whatever other channels
\* rejected or failed on.
InAppIsAFloor ==
    "in_app" \in Channels =>
        \A k \in AlertKey :
            (/\ thread[k] # None
             /\ \E i \in DOMAIN Endpoints[k.user] : Endpoints[k.user][i] = "in_app")
            => shown[k] = thread[k].identifier

\* The scheduler keeps the promise of AlertThread to a CAP consumer.
Thread == INSTANCE AlertThread WITH known <- [k \in AlertKey |-> records[k] # None]

ImplementsThread == Thread!ThreadSpec

-----------------------------------------------------------------------------
\* What the comments and tests of the alert service say of it and the code
\* does not do.

\* "Not being able to look is not a reason to warn, or to reassure"
\* (tests/test_dedup_and_escalation.py:73): a rule whose driver is missing
\* sends nothing, whatever stood before.
UnevaluatedNeverSends ==
    [][Emit => result.outcome # "unevaluated"]_vars

\* "When a fired rule returns to clear, the suppression record is retired"
\* (dedup.py:20): once a clear has been handled its key holds no record, so
\* the next occurrence is judged afresh.
ClearRetiresTheRecord ==
    [][HandleQuietly /\ result.outcome = "clear" => records'[key] = None]_vars

\* "Recording a suppression for an alert that never went out would silence
\* the next tick as well" (scheduler.py:270): a record exists only for a
\* message the subscriber was reached with.
SuppressionOnlyAfterDelivery ==
    \A k \in AlertKey : records[k] # None => shown[k] = records[k].identifier

\* "A stable, unique CAP identifier" (cap.py:426): messages of different
\* threads never share one, or a reference to it would be ambiguous.
IdentifiersAreUnique ==
    \A j, k \in AlertKey :
        j # k /\ thread[j] # None /\ thread[k] # None
        => thread[j].identifier # thread[k].identifier

\* "Records too old to affect any decision" (dedup.py:256): pruning leaves
\* every decision the next tick can take as it was.
PruneAffectsNoDecision ==
    [][Prune =>
         \A u \in User : \A batch \in Batches : \A i \in DOMAIN batch :
            LET k == KeyOf(u, batch[i]) IN
            Decide(records'[k], batch[i], now) = Decide(records[k], batch[i], now)]_vars

\* "The warning still goes out" without its voice (scheduler.py:419): a
\* message that is due and can be worded extends its thread before the tick
\* moves on.
WarningStillGoesOut ==
    [][/\ todo # <<>> /\ ShouldSend(decision) /\ Buildable(result, context)
       /\ todo' # todo
       => /\ thread'[key] # None
          /\ thread'[key].sent = now
          /\ thread'[key].outcome = result.outcome]_vars
=============================================================================
