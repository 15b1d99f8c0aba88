------------------------ MODULE AlertScheduler_proofs ------------------------
(***************************************************************************)
(* Theorems about AlertScheduler for every value of its constants.         *)
(*                                                                         *)
(* One inductive invariant, IInv, carries all of them: what the records,   *)
(* the threads and the history say of each other between two steps.        *)
(***************************************************************************)
EXTENDS AlertScheduler, TLAPS

\* A thread never runs ahead of the clock, and its last message lives for
\* the configured lifetime.
ThreadsCarryTheirDates ==
    \A k \in AlertKey : thread[k] # None =>
        /\ thread[k].sent <= now
        /\ thread[k].expires = thread[k].sent + Lifetime

\* A rule that last fired at firedAt has a standing message that was younger
\* than the longest firing window at that moment.
FiringIsCovered ==
    \A k \in AlertKey : firedAt[k] # None =>
        /\ thread[k] # None
        /\ thread[k].type # "Cancel"
        /\ \/ firedAt[k] = thread[k].sent
           \/ firedAt[k] < thread[k].sent + Window["Moderate"]

\* The inductive invariant.
IInv ==
    /\ TypeOK
    /\ RecordMatchesThread
    /\ ThreadsCarryTheirDates
    /\ FiringIsCovered
    /\ InAppIsAFloor

-----------------------------------------------------------------------------
(* The tables and the decision.                                            *)

\* The tables map outcomes to severities and both to numbers.
LEMMA TableTypes ==
    /\ SeverityByOutcome \in [Outcome -> CapSeverity]
    /\ SeverityOrder \in [CapSeverity -> Nat]
    /\ OutcomeRank \in [Outcome -> Int]
BY DEF SeverityByOutcome, SeverityOrder, OutcomeRank, Outcome, CapSeverity

\* A firing rule is at least a watch, so its window is at most Moderate's.
LEMMA FiringWindows ==
    ASSUME NEW o \in Outcome, Fired(o)
    PROVE  Window[SeverityByOutcome[o]] <= Window["Moderate"]
<1>1. SeverityByOutcome[o] \in {"Extreme", "Severe", "Moderate"}
  BY DEF Fired, OutcomeRank, SeverityByOutcome, Outcome
<1>2. AtLeast(SeverityByOutcome[o], "Moderate")
  BY <1>1 DEF AtLeast, SeverityOrder, CapSeverity
<1> QED  BY <1>1, <1>2, WindowAssumption

\* What each decision presupposes of the record and of the result.
LEMMA DecideCases ==
    ASSUME NEW p \in AlertRecord \cup {None}, NEW r \in Result, NEW t \in Nat
    PROVE  LET d == Decide(p, r, t) IN
           /\ d \in DecisionKind
           /\ d = "send_new" => p = None /\ Fired(r.outcome)
           /\ d \in {"send_escalation", "send_update"} =>
                /\ p # None /\ Fired(r.outcome)
                /\ \/ Escalates(p, r) \/ DriftHasMateriallyShortened(p, r)
                   \/ ~InsideWindow(p, r, t)
           /\ d = "send_cancel" =>
                p # None /\ ~Fired(r.outcome) /\ AtLeast(p.severity, "Severe")
           /\ d = "suppress_duplicate" =>
                /\ p # None /\ Fired(r.outcome)
                /\ ~Escalates(p, r) /\ ~DriftHasMateriallyShortened(p, r)
                /\ InsideWindow(p, r, t)
           /\ d = "nothing_to_do" => ~Fired(r.outcome)
BY DEF Decide, DecideQuiet, DecisionKind

\* commit() stores a record, made of the result it was sent for.
LEMMA RecordOfType ==
    ASSUME NEW u \in User, NEW r \in Result, NEW t \in Nat
    PROVE  RecordOf(u, r, t) \in AlertRecord
BY TableTypes DEF RecordOf, AlertRecord, Result, MakeIdentifier, Identifier

\* The key of a subscriber's result is a key of the store.
LEMMA KeyOfType ==
    ASSUME NEW u \in User, NEW r \in Result
    PROVE  KeyOf(u, r) \in AlertKey
BY DEF KeyOf, AlertKey, Result

\* A registered inbox delivers, whatever the other endpoints report.
LEMMA InboxDelivers ==
    ASSUME NEW u \in User, NEW s \in CapSeverity,
           "in_app" \in Channels,
           \E i \in DOMAIN Endpoints[u] : Endpoints[u][i] = "in_app",
           NEW report \in Reports(u, s)
    PROVE  Delivered(report)
<1>1. PICK i \in DOMAIN Endpoints[u] : Endpoints[u][i] = "in_app"
  OBVIOUS
<1>2. /\ report \in [DOMAIN Endpoints[u] -> DeliveryOutcome]
      /\ report[i] \in AttemptOutcomes("in_app", s)
  BY <1>1 DEF Reports
<1>3. AttemptOutcomes("in_app", s) = {"delivered"}
  BY DEF AttemptOutcomes, SendOutcomes
<1> QED  BY <1>1, <1>2, <1>3 DEF Delivered

-----------------------------------------------------------------------------
(* The result being handled, and the message built for it.                 *)

\* A tick only handles results of a subscriber under evaluation, at a key of
\* the store.
LEMMA HandledResult ==
    ASSUME TypeOK, todo # <<>>
    PROVE  /\ current \in User /\ result \in Result /\ now \in Nat
           /\ key \in AlertKey
           /\ key.user = current /\ key.trigger = result.trigger
           /\ previous \in AlertRecord \cup {None}
           /\ result.outcome \in Outcome
           /\ SeverityByOutcome[result.outcome] \in CapSeverity
           /\ result.minutes \in Minutes
<1>1. current \in User /\ result \in Result /\ now \in Nat
  BY DEF TypeOK, result
<1>2. key \in AlertKey /\ key.user = current /\ key.trigger = result.trigger
  BY <1>1, KeyOfType DEF key, KeyOf
<1>3. previous \in AlertRecord \cup {None}
  BY <1>2 DEF TypeOK, previous
<1>4. result.outcome \in Outcome /\ result.minutes \in Minutes
  BY <1>1 DEF Result
<1> QED  BY <1>1, <1>2, <1>3, <1>4, TableTypes

\* What is sent is a CAP message of the type its decision calls for; an
\* Update and a Cancel have a record to refer to.
LEMMA BuiltAlert ==
    ASSUME TypeOK, todo # <<>>, ShouldSend(decision),
           NEW alert, alert = BuildAlert(current, result, decision, previous)
    PROVE  /\ alert \in Message
           /\ alert.identifier = MakeIdentifier(current, result.trigger, now)
           /\ alert.severity = SeverityByOutcome[result.outcome]
           /\ alert.outcome = result.outcome
           /\ alert.sent = now /\ alert.expires = now + Lifetime
           /\ alert.minutes = result.minutes
           /\ decision = "send_new" =>
                alert.type = "Alert" /\ alert.references = None
           /\ decision \in {"send_escalation", "send_update"} =>
                alert.type = "Update" /\ alert.references = previous.identifier
           /\ decision = "send_cancel" =>
                alert.type = "Cancel" /\ alert.references = previous.identifier
<1>1. /\ decision \in {"send_new", "send_escalation", "send_update", "send_cancel"}
      /\ decision # "send_new" => previous # None
  BY HandledResult, DecideCases DEF decision, ShouldSend
<1>2. MakeIdentifier(current, result.trigger, now) \in Identifier
  BY HandledResult DEF MakeIdentifier, Identifier, Result
<1>3. decision # "send_new" => previous.identifier \in Identifier
  BY <1>1, HandledResult DEF AlertRecord
<1>4. now + Lifetime \in Nat
  BY HandledResult, SchedulerAssumption
<1>5. MessageType(decision) \in {"Alert", "Update", "Cancel"}
  BY <1>1 DEF MessageType
<1>6. alert \in Message
  BY <1>1, <1>2, <1>3, <1>4, <1>5, HandledResult DEF BuildAlert, Message
<1> QED  BY <1>1, <1>6 DEF BuildAlert, MessageType

\* The fired marker the handling leaves is a date or None.
LEMMA DoneTypes ==
    ASSUME TypeOK, todo # <<>>, Done
    PROVE  /\ now' \in Nat /\ restarts' \in Nat
           /\ pending' \subseteq User /\ current' \in User \cup {None}
           /\ todo' \in Seq(Result) /\ (todo' # <<>> => current' \in User)
           /\ context' \subseteq ContextField
<1>1. todo \in Seq(Result) /\ todo' = Tail(todo)
  BY DEF TypeOK, Done
<1>2. todo' \in Seq(Result) /\ Len(todo') = Len(todo) - 1
  BY <1>1
<1>3. Len(todo) = 1 => todo' = <<>>
  BY <1>1, <1>2
<1> QED  BY <1>1, <1>2, <1>3, HandledResult DEF TypeOK, Done

-----------------------------------------------------------------------------
(* Type correctness.                                                       *)

LEMMA TypeInit ==
    ASSUME Init
    PROVE  TypeOK
BY DEF Init, TypeOK, ContextField

LEMMA TypeStep ==
    ASSUME TypeOK, [Next]_vars
    PROVE  TypeOK'
<1>1. CASE Elapse
  BY <1>1 DEF TypeOK, Elapse, tickVars, history
<1>2. CASE StartTick
  BY <1>2 DEF TypeOK, StartTick, history
<1>3. ASSUME NEW u \in User, Skip(u)
      PROVE  TypeOK'
  BY <1>3 DEF TypeOK, Skip, history
<1>4. ASSUME NEW u \in User, Evaluate(u)
      PROVE  TypeOK'
  <2>1. todo' \in Seq(Result)
    BY <1>4, SchedulerAssumption DEF Evaluate
  <2>2. context' \subseteq ContextField /\ current' \in User \cup {None}
    BY <1>4, SchedulerAssumption DEF Evaluate, TypeOK
  <2> QED  BY <1>4, <2>1, <2>2 DEF TypeOK, Evaluate, history
<1>5. CASE HandleQuietly
  <2>1. firedAt' \in [AlertKey -> Nat \cup {None}]
    BY <1>5, HandledResult DEF HandleQuietly, TypeOK
  <2> QED  BY <1>5, <2>1, DoneTypes DEF HandleQuietly, TypeOK
<1>6. CASE HandleUnbuildable
  <2>1. firedAt' \in [AlertKey -> Nat \cup {None}]
    BY <1>6, HandledResult DEF HandleUnbuildable, TypeOK
  <2> QED  BY <1>6, <2>1, DoneTypes DEF HandleUnbuildable, TypeOK
<1>7. CASE Emit
  <2> DEFINE alert == BuildAlert(current, result, decision, previous)
  <2>1. alert \in Message /\ alert.identifier \in Identifier
    BY <1>7, BuiltAlert DEF Emit, Message
  <2>2. /\ thread' = [thread EXCEPT ![key] = alert]
        /\ shown' = [shown EXCEPT ![key] = alert.identifier] \/ shown' = shown
    BY <1>7 DEF Emit
  <2>3. /\ thread' \in [AlertKey -> Message \cup {None}]
        /\ shown' \in [AlertKey -> Identifier \cup {None}]
    BY <1>7, <2>1, <2>2 DEF TypeOK
  <2>4. records' \in [AlertKey -> AlertRecord \cup {None}]
    BY <1>7, HandledResult, RecordOfType DEF Emit, Committed, TypeOK
  <2>5. firedAt' \in [AlertKey -> Nat \cup {None}]
    BY <1>7, HandledResult DEF Emit, TypeOK
  <2>6. Done /\ todo # <<>>
    BY <1>7 DEF Emit
  <2> QED  BY <2>3, <2>4, <2>5, <2>6, DoneTypes DEF TypeOK
<1>8. CASE Abort
  BY <1>8 DEF TypeOK, Abort, history
<1>9. CASE Prune
  BY <1>9 DEF TypeOK, Prune, tickVars, history
<1>10. CASE Restart
  BY <1>10 DEF TypeOK, Restart, history
<1>11. CASE UNCHANGED vars
  BY <1>11 DEF TypeOK, vars, tickVars, history
<1> QED
  BY <1>1, <1>2, <1>3, <1>4, <1>5, <1>6, <1>7, <1>8, <1>9, <1>10, <1>11
     DEF Next, Handle

\* The scheduler's variables keep their types, whatever is passed to tick.
THEOREM TypeCorrect == Spec => []TypeOK
BY TypeInit, TypeStep, PTL DEF Spec

-----------------------------------------------------------------------------
(* What the steps change.                                                  *)

\* Only Emit speaks: no other step moves a thread or an inbox, and the
\* records only ever lose entries in the steps that are not Emit.
LEMMA OnlyEmitSpeaks ==
    ASSUME TypeOK, [Next]_vars, ~Emit
    PROVE  /\ thread' = thread /\ shown' = shown
           /\ \A k \in AlertKey : records'[k] # None => records'[k] = records[k]
<1>1. CASE Elapse \/ StartTick \/ Abort
  BY <1>1 DEF Elapse, StartTick, Abort, history
<1>2. ASSUME NEW u \in User, Skip(u) \/ Evaluate(u)
      PROVE  thread' = thread /\ shown' = shown /\ records' = records
  BY <1>2 DEF Skip, Evaluate, history
<1>3. CASE HandleQuietly \/ HandleUnbuildable
  BY <1>3 DEF HandleQuietly, HandleUnbuildable
<1>4. CASE Prune
  BY <1>4 DEF Prune, history
<1>5. CASE Restart
  BY <1>5 DEF Restart, history
<1>6. CASE UNCHANGED vars
  BY <1>6 DEF vars, history
<1> QED
  BY <1>1, <1>2, <1>3, <1>4, <1>5, <1>6 DEF Next, Handle

\* What Emit does: one message, built for the key being handled, becomes
\* the thread's last and, unless it is a cancellation, the key's record.
LEMMA EmitEffect ==
    ASSUME TypeOK, Emit,
           NEW alert, alert = BuildAlert(current, result, decision, previous)
    PROVE  /\ thread' = [thread EXCEPT ![key] = alert]
           /\ records' = [records EXCEPT ![key] =
                             IF decision = "send_cancel" THEN None
                             ELSE RecordOf(current, result, now)]
           /\ firedAt' = [firedAt EXCEPT ![key] =
                             IF Fired(result.outcome) THEN now ELSE None]
           /\ \E report \in Reports(current, alert.severity) :
                 shown' = IF Delivered(report)
                          THEN [shown EXCEPT ![key] = alert.identifier]
                          ELSE shown
           /\ now' = now
BY DEF Emit, Committed, Done

\* Which decisions lead to a record, and which to none.
LEMMA SentDecisions ==
    ASSUME TypeOK, todo # <<>>, ShouldSend(decision)
    PROVE  /\ decision \in {"send_new", "send_escalation", "send_update", "send_cancel"}
           /\ decision # "send_cancel" <=> Fired(result.outcome)
           /\ decision # "send_new" => previous # None
           /\ decision = "send_new" => previous = None
BY HandledResult, DecideCases DEF decision, ShouldSend

-----------------------------------------------------------------------------
(* The parts of the invariant, one at a time.                              *)

LEMMA RecordStep ==
    ASSUME IInv, [Next]_vars
    PROVE  RecordMatchesThread'
<1>1. CASE ~Emit
  BY <1>1, OnlyEmitSpeaks DEF IInv, RecordMatchesThread
<1>2. CASE Emit
  <2> DEFINE alert == BuildAlert(current, result, decision, previous)
  <2>1. TypeOK /\ todo # <<>> /\ ShouldSend(decision)
    BY <1>2 DEF Emit, IInv
  <2>2. /\ alert \in Message
        /\ alert.identifier = MakeIdentifier(current, result.trigger, now)
        /\ alert.severity = SeverityByOutcome[result.outcome]
        /\ alert.outcome = result.outcome /\ alert.sent = now
        /\ alert.minutes = result.minutes
        /\ decision # "send_cancel" => alert.type # "Cancel"
    BY <2>1, BuiltAlert, SentDecisions
  <2>3. /\ thread' = [thread EXCEPT ![key] = alert]
        /\ records' = [records EXCEPT ![key] =
                          IF decision = "send_cancel" THEN None
                          ELSE RecordOf(current, result, now)]
    BY <2>1, <1>2, EmitEffect
  <2> SUFFICES ASSUME NEW k \in AlertKey, records'[k] # None
               PROVE  /\ thread'[k] # None
                      /\ thread'[k].type # "Cancel"
                      /\ Fired(thread'[k].outcome)
                      /\ records'[k] = [identifier |-> thread'[k].identifier,
                                        severity   |-> thread'[k].severity,
                                        outcome    |-> thread'[k].outcome,
                                        sentAt     |-> thread'[k].sent,
                                        minutes    |-> thread'[k].minutes]
    BY DEF RecordMatchesThread
  <2>4. CASE k # key
    <3>1. records'[k] = records[k] /\ thread'[k] = thread[k]
      BY <2>1, <2>3, <2>4 DEF TypeOK
    <3> QED  BY <3>1 DEF IInv, RecordMatchesThread
  <2>5. CASE k = key
    <3> HIDE DEF alert
    <3>1. thread'[k] = alert
      BY <2>1, <2>3, <2>5 DEF TypeOK
    <3>2. decision # "send_cancel" /\ records'[k] = RecordOf(current, result, now)
      BY <2>1, <2>3, <2>5 DEF TypeOK
    <3>3. Fired(result.outcome)
      BY <2>1, <3>2, SentDecisions
    <3> QED  BY <2>2, <3>1, <3>2, <3>3, TypesAssumption DEF RecordOf
  <2> QED  BY <2>4, <2>5
<1> QED  BY <1>1, <1>2

LEMMA DatesStep ==
    ASSUME IInv, [Next]_vars
    PROVE  ThreadsCarryTheirDates'
<1>1. now' \in Nat /\ now <= now'
  BY DEF IInv, TypeOK, Next, Handle, vars, Elapse, StartTick, Skip, Evaluate,
         HandleQuietly, HandleUnbuildable, Emit, Done, Abort, Prune, Restart
<1>2. \A k \in AlertKey : thread[k] # None => thread[k].sent \in Nat
  BY DEF IInv, TypeOK, Message
<1>3. CASE ~Emit
  BY <1>1, <1>2, <1>3, OnlyEmitSpeaks DEF IInv, ThreadsCarryTheirDates, TypeOK
<1>4. CASE Emit
  <2> DEFINE alert == BuildAlert(current, result, decision, previous)
  <2>1. TypeOK /\ todo # <<>> /\ ShouldSend(decision)
    BY <1>4 DEF Emit, IInv
  <2>2. alert.sent = now /\ alert.expires = now + Lifetime
    BY <2>1, BuiltAlert
  <2>3. thread' = [thread EXCEPT ![key] = alert] /\ now' = now
    BY <2>1, <1>4, EmitEffect
  <2> HIDE DEF alert
  <2>4. now \in Nat
    BY <2>1 DEF TypeOK
  <2> QED  BY <2>1, <2>2, <2>3, <2>4 DEF TypeOK, IInv, ThreadsCarryTheirDates
<1> QED  BY <1>3, <1>4

\* A suppressed repeat is younger than the window of what fires now.
LEMMA SuppressedIsYoung ==
    ASSUME IInv, HandleQuietly, Fired(result.outcome)
    PROVE  /\ thread[key] # None /\ thread[key].type # "Cancel"
           /\ thread[key].sent = previous.sentAt
           /\ thread[key].outcome = previous.outcome
           /\ thread[key].minutes = previous.minutes
           /\ previous \in AlertRecord
           /\ ~Escalates(previous, result)
           /\ ~DriftHasMateriallyShortened(previous, result)
           /\ InsideWindow(previous, result, now)
<1>1. TypeOK /\ todo # <<>> /\ ~ShouldSend(decision)
  BY DEF HandleQuietly, IInv
<1>2. decision = "suppress_duplicate"
  BY <1>1, HandledResult, DecideCases DEF decision, ShouldSend, DecisionKind
<1>3. /\ previous # None /\ ~Escalates(previous, result)
      /\ ~DriftHasMateriallyShortened(previous, result)
      /\ InsideWindow(previous, result, now)
  BY <1>1, <1>2, HandledResult, DecideCases DEF decision
<1>4. previous = records[key] /\ key \in AlertKey
  BY <1>1, HandledResult DEF previous
<1>5. /\ thread[key] # None /\ thread[key].type # "Cancel"
      /\ previous = [identifier |-> thread[key].identifier,
                     severity   |-> thread[key].severity,
                     outcome    |-> thread[key].outcome,
                     sentAt     |-> thread[key].sent,
                     minutes    |-> thread[key].minutes]
  BY <1>3, <1>4 DEF IInv, RecordMatchesThread
<1>6. /\ thread[key].sent = previous.sentAt
      /\ thread[key].outcome = previous.outcome
      /\ thread[key].minutes = previous.minutes
  BY <1>5
<1>7. previous \in AlertRecord
  BY <1>1, <1>3, HandledResult
<1> QED
  BY <1>3, <1>5, <1>6, <1>7

LEMMA CoverageStep ==
    ASSUME IInv, [Next]_vars
    PROVE  FiringIsCovered'
<1>1. CASE HandleQuietly
  <2>1. TypeOK /\ todo # <<>> /\ thread' = thread
    BY <1>1 DEF HandleQuietly, IInv
  <2>2. firedAt' = [firedAt EXCEPT ![key] = IF Fired(result.outcome) THEN now ELSE None]
    BY <1>1 DEF HandleQuietly
  <2> SUFFICES ASSUME NEW k \in AlertKey, firedAt'[k] # None
               PROVE  /\ thread[k] # None /\ thread[k].type # "Cancel"
                      /\ \/ firedAt'[k] = thread[k].sent
                         \/ firedAt'[k] < thread[k].sent + Window["Moderate"]
    BY <2>1 DEF FiringIsCovered
  <2>3. CASE k # key
    BY <2>1, <2>2, <2>3 DEF IInv, FiringIsCovered, TypeOK
  <2>4. CASE k = key
    <3>1. Fired(result.outcome) /\ firedAt'[k] = now
      BY <2>1, <2>2, <2>4 DEF TypeOK
    <3>2. /\ thread[key] # None /\ thread[key].type # "Cancel"
          /\ thread[key].sent \in Nat
          /\ now - thread[key].sent < Window[SeverityByOutcome[result.outcome]]
      BY <1>1, <3>1, SuppressedIsYoung DEF InsideWindow, Age, AlertRecord
    <3>3. Window[SeverityByOutcome[result.outcome]] <= Window["Moderate"]
      BY <2>1, <3>1, HandledResult, FiringWindows
    <3>4. /\ Window[SeverityByOutcome[result.outcome]] \in Nat
          /\ Window["Moderate"] \in Nat /\ now \in Nat
      BY <2>1, HandledResult, TypesAssumption DEF CapSeverity
    <3> QED  BY <2>4, <3>1, <3>2, <3>3, <3>4
  <2> QED  BY <2>3, <2>4
<1>2. CASE HandleUnbuildable
  BY <1>2 DEF HandleUnbuildable, IInv, TypeOK, FiringIsCovered
<1>3. CASE Emit
  <2> DEFINE alert == BuildAlert(current, result, decision, previous)
  <2>1. TypeOK /\ todo # <<>> /\ ShouldSend(decision)
    BY <1>3 DEF Emit, IInv
  <2>2. /\ alert \in Message /\ alert.sent = now
        /\ Fired(result.outcome) => alert.type # "Cancel"
    BY <2>1, BuiltAlert, SentDecisions
  <2>3. /\ thread' = [thread EXCEPT ![key] = alert]
        /\ firedAt' = [firedAt EXCEPT ![key] = IF Fired(result.outcome) THEN now ELSE None]
    BY <2>1, <1>3, EmitEffect
  <2> HIDE DEF alert
  <2> QED
    BY <2>1, <2>2, <2>3, TypesAssumption DEF TypeOK, IInv, FiringIsCovered
<1>4. CASE ~HandleQuietly /\ ~HandleUnbuildable /\ ~Emit
  <2>1. firedAt' = firedAt /\ thread' = thread
    BY <1>4 DEF Next, Handle, vars, Elapse, StartTick, Skip, Evaluate, Abort,
                Prune, Restart, history
  <2> QED  BY <2>1 DEF IInv, FiringIsCovered
<1> QED  BY <1>1, <1>2, <1>3, <1>4

LEMMA FloorStep ==
    ASSUME IInv, [Next]_vars
    PROVE  InAppIsAFloor'
<1>1. CASE ~Emit
  BY <1>1, OnlyEmitSpeaks DEF IInv, InAppIsAFloor
<1>2. CASE Emit
  <2> DEFINE alert == BuildAlert(current, result, decision, previous)
  <2>1. TypeOK /\ todo # <<>> /\ ShouldSend(decision)
    BY <1>2 DEF Emit, IInv
  <2>2. alert.severity \in CapSeverity
    BY <2>1, BuiltAlert, HandledResult
  <2>3. thread' = [thread EXCEPT ![key] = alert]
    BY <2>1, <1>2, EmitEffect
  <2>4. PICK report \in Reports(current, alert.severity) :
           shown' = IF Delivered(report)
                    THEN [shown EXCEPT ![key] = alert.identifier] ELSE shown
    BY <2>1, <1>2, EmitEffect
  <2> HIDE DEF alert
  <2> SUFFICES ASSUME "in_app" \in Channels, NEW k \in AlertKey, thread'[k] # None,
                      \E i \in DOMAIN Endpoints[k.user] : Endpoints[k.user][i] = "in_app"
               PROVE  shown'[k] = thread'[k].identifier
    BY DEF InAppIsAFloor
  <2>5. CASE k # key
    BY <2>1, <2>3, <2>4, <2>5 DEF TypeOK, IInv, InAppIsAFloor
  <2>6. CASE k = key
    <3>1. Delivered(report)
      BY <2>1, <2>2, <2>4, <2>6, HandledResult, InboxDelivers
    <3> QED  BY <2>1, <2>3, <2>4, <2>6, <3>1 DEF TypeOK
  <2> QED  BY <2>5, <2>6
<1> QED  BY <1>1, <1>2

LEMMA IInvInit ==
    ASSUME Init
    PROVE  IInv
BY TypeInit DEF Init, IInv, RecordMatchesThread, ThreadsCarryTheirDates,
                FiringIsCovered, InAppIsAFloor

LEMMA IInvStep ==
    ASSUME IInv, [Next]_vars
    PROVE  IInv'
<1>1. TypeOK'
  BY TypeStep DEF IInv
<1> QED  BY <1>1, RecordStep, DatesStep, CoverageStep, FloorStep DEF IInv

\* The invariant holds throughout.
THEOREM Invariance == Spec => []IInv
BY IInvInit, IInvStep, PTL DEF Spec

-----------------------------------------------------------------------------
(* What a reader should know.                                              *)

\* Suppression and supersession are always judged against the message that
\* was last emitted for the key, through aborts, pruning and restarts.
THEOREM RecordsDescribeThreads == Spec => []RecordMatchesThread
<1>1. IInv => RecordMatchesThread
  BY DEF IInv
<1> QED  BY <1>1, Invariance, PTL

\* An inbox is shown the last message of every thread, whatever the other
\* endpoints, and the speech synthesis, ended in.
THEOREM InboxIsAFloor == Spec => []InAppIsAFloor
<1>1. IInv => InAppIsAFloor
  BY DEF IInv
<1> QED  BY <1>1, Invariance, PTL

\* Between two evaluations that keep the cadence, no alert of a rule that
\* still fires runs out.
THEOREM CoverageHolds == Spec => []NoCoverageGap
<1>1. ASSUME IInv
      PROVE  NoCoverageGap
  <2> SUFFICES ASSUME NEW k \in AlertKey, firedAt[k] # None,
                      now - firedAt[k] <= Cadence
               PROVE  /\ thread[k] # None /\ thread[k].type # "Cancel"
                      /\ now < thread[k].expires
    BY DEF NoCoverageGap
  <2>1. /\ thread[k] # None /\ thread[k].type # "Cancel"
        /\ \/ firedAt[k] = thread[k].sent
           \/ firedAt[k] < thread[k].sent + Window["Moderate"]
        /\ thread[k].expires = thread[k].sent + Lifetime
    BY <1>1 DEF IInv, FiringIsCovered, ThreadsCarryTheirDates
  <2>2. thread[k].sent \in Nat /\ firedAt[k] \in Nat /\ now \in Nat
    BY <1>1, <2>1 DEF IInv, TypeOK, Message
  <2>3. Window["Moderate"] \in Nat /\ Cadence \in Nat /\ Lifetime \in Nat
    BY TypesAssumption, SchedulerAssumption DEF CapSeverity
  <2> QED  BY <2>1, <2>2, <2>3, CadenceAssumption
<1> QED  BY <1>1, Invariance, PTL

\* No rule that fires is passed over in silence unless its thread's last
\* message already said as much, recently enough.
THEOREM SilenceHolds == Spec => SilenceIsInformed
<1>1. ASSUME IInv, HandleQuietly, Fired(result.outcome)
      PROVE  LET last == thread[key] IN
             /\ last # None /\ last.type # "Cancel"
             /\ OutcomeRank[result.outcome] <= OutcomeRank[last.outcome]
             /\ now - last.sent < Window[SeverityByOutcome[result.outcome]]
             /\ (/\ result.trigger = "geofence.predictive_drift"
                 /\ result.minutes # None /\ last.minutes # None)
                   => 2 * result.minutes > last.minutes
  <2>1. TypeOK /\ todo # <<>>
    BY <1>1 DEF IInv, HandleQuietly
  <2>2. /\ OutcomeRank[result.outcome] \in Int
        /\ OutcomeRank[previous.outcome] \in Int
        /\ result.minutes \in Minutes /\ previous.minutes \in Minutes
    BY <1>1, <2>1, HandledResult, SuppressedIsYoung, TableTypes DEF AlertRecord
  <2>3. OutcomeRank[result.outcome] <= OutcomeRank[previous.outcome]
    BY <1>1, <2>2, SuppressedIsYoung DEF Escalates
  <2>4. (/\ result.trigger = "geofence.predictive_drift"
         /\ result.minutes # None /\ previous.minutes # None)
           => 2 * result.minutes > previous.minutes
    BY <1>1, <2>2, SuppressedIsYoung DEF DriftHasMateriallyShortened, Minutes
  <2>5. now - previous.sentAt < Window[SeverityByOutcome[result.outcome]]
    BY <1>1, SuppressedIsYoung DEF InsideWindow, Age
  <2> QED  BY <1>1, <2>3, <2>4, <2>5, SuppressedIsYoung
<1>2. IInv /\ [Next]_vars =>
        [HandleQuietly /\ Fired(result.outcome) =>
           LET last == thread[key] IN
           /\ last # None /\ last.type # "Cancel"
           /\ OutcomeRank[result.outcome] <= OutcomeRank[last.outcome]
           /\ now - last.sent < Window[SeverityByOutcome[result.outcome]]
           /\ (/\ result.trigger = "geofence.predictive_drift"
               /\ result.minutes # None /\ last.minutes # None)
                 => 2 * result.minutes > last.minutes]_vars
  BY <1>1
<1> QED  BY <1>2, Invariance, PTL DEF Spec, SilenceIsInformed

-----------------------------------------------------------------------------
(* The scheduler implements AlertThread.                                   *)

\* The abstract specification speaks of the same keys, messages and tables.
LEMMA SameVocabulary ==
    /\ Thread!AlertKey = AlertKey
    /\ Thread!Message = Message
    /\ Thread!OutcomeRank = OutcomeRank
    /\ \A u, r, t : Thread!MakeIdentifier(u, r, t) = MakeIdentifier(u, r, t)
<1>1. Thread!AlertKey = AlertKey
  BY DEF AlertKey, Thread!AlertKey, Hazard, Thread!Hazard
<1>2. Thread!Outcome = Outcome /\ Thread!CapSeverity = CapSeverity
      /\ Thread!Minutes = Minutes /\ Thread!Identifier = Identifier
  BY DEF Outcome, Thread!Outcome, CapSeverity, Thread!CapSeverity, Minutes,
         Thread!Minutes, Identifier, Thread!Identifier
<1>3. Thread!Message = Message
  BY <1>2 DEF Message, Thread!Message
<1>4. Thread!OutcomeRank = OutcomeRank
  BY <1>2 DEF OutcomeRank, Thread!OutcomeRank
<1>5. \A u, r, t : Thread!MakeIdentifier(u, r, t) = MakeIdentifier(u, r, t)
  BY DEF MakeIdentifier, Thread!MakeIdentifier
<1> QED  BY <1>1, <1>3, <1>4, <1>5

LEMMA SameTests ==
    /\ \A o : Thread!Fired(o) <=> Fired(o)
    /\ \A s, t : Thread!AtLeast(s, t) <=> AtLeast(s, t)
<1>1. Thread!CapSeverity = CapSeverity
  BY DEF CapSeverity, Thread!CapSeverity
<1>2. Thread!SeverityOrder = SeverityOrder
  BY <1>1 DEF SeverityOrder, Thread!SeverityOrder
<1> QED
  BY <1>2, SameVocabulary DEF Fired, Thread!Fired, AtLeast, Thread!AtLeast

LEMMA ThreadInitMaps ==
    ASSUME Init
    PROVE  Thread!ThreadInit
BY SameVocabulary DEF Init, Thread!ThreadInit

LEMMA ThreadStepMaps ==
    ASSUME IInv, [Next]_vars
    PROVE  [Thread!ThreadNext]_(Thread!threadVars)
<1> DEFINE known == [k \in AlertKey |-> records[k] # None]
<1>1. CASE ~Emit
  <2>1. thread' = thread
    BY <1>1, OnlyEmitSpeaks DEF IInv
  <2>2. \A k \in AlertKey : records'[k] # None => records[k] # None
    BY <1>1, OnlyEmitSpeaks DEF IInv
  <2>3. Thread!Forget
    BY <2>1, <2>2, SameVocabulary DEF Thread!Forget
  <2> QED  BY <2>3 DEF Thread!ThreadNext
<1>2. CASE Emit
  <2> DEFINE alert == BuildAlert(current, result, decision, previous)
  <2>1. TypeOK /\ todo # <<>> /\ ShouldSend(decision) /\ key \in AlertKey
    BY <1>2, HandledResult DEF Emit, IInv
  <2>0. PICK k \in AlertKey : k = key
    BY <2>1
  <2>2. /\ alert \in Message
        /\ alert.identifier = MakeIdentifier(key.user, key.trigger, alert.sent)
        /\ alert.sent = now /\ alert.outcome = result.outcome
        /\ alert.severity = SeverityByOutcome[result.outcome]
        /\ alert.minutes = result.minutes
    BY <2>1, BuiltAlert, HandledResult
  <2>3. /\ decision = "send_new" => alert.type = "Alert" /\ alert.references = None
        /\ decision \in {"send_escalation", "send_update"} =>
             alert.type = "Update" /\ alert.references = previous.identifier
        /\ decision = "send_cancel" =>
             alert.type = "Cancel" /\ alert.references = previous.identifier
    BY <2>1, BuiltAlert
  <2>4. /\ thread' = [thread EXCEPT ![key] = alert]
        /\ records' = [records EXCEPT ![key] =
                          IF decision = "send_cancel" THEN None
                          ELSE RecordOf(current, result, now)]
    BY <2>1, <1>2, EmitEffect
  <2> HIDE DEF alert
  <2>5. thread'[key] = alert /\ \A j \in AlertKey \ {key} : thread'[j] = thread[j]
    BY <2>1, <2>4 DEF TypeOK
  <2>6. thread[key] # None => thread[key].sent <= alert.sent
    BY <2>1, <2>2 DEF IInv, ThreadsCarryTheirDates
  <2>7. Thread!Extends(k, thread'[k])
    BY <2>0, <2>2, <2>5, <2>6, SameVocabulary DEF Thread!Extends
  <2>8. RecordOf(current, result, now) # None
    BY <2>1, HandledResult, RecordOfType, TypesAssumption
  <2>9. previous = records[key]
    BY DEF previous
  <2>10. previous # None =>
           /\ thread[key] # None
           /\ previous = [identifier |-> thread[key].identifier,
                          severity   |-> thread[key].severity,
                          outcome    |-> thread[key].outcome,
                          sentAt     |-> thread[key].sent,
                          minutes    |-> thread[key].minutes]
    BY <2>1, <2>9 DEF IInv, RecordMatchesThread
  <2> DEFINE extended == Thread!Open(k) \/ Thread!Supersede(k) \/ Thread!Cancel(k)
  <2>11. ASSUME decision = "send_new"
         PROVE  extended
    <3>1. records[key] = None /\ Fired(result.outcome)
      BY <2>1, <2>9, <2>11, SentDecisions
    <3>2. records' = [records EXCEPT ![key] = RecordOf(current, result, now)]
      BY <2>4, <2>11
    <3>3. Thread!KnownBecomes(k, TRUE)
      BY <2>0, <2>8, <2>1, <3>2 DEF TypeOK, Thread!KnownBecomes
    <3>4. Thread!Open(k)
      BY <2>0, <2>1, <2>2, <2>3, <2>5, <2>7, <2>11, <3>1, <3>3, SameTests
         DEF Thread!Open
    <3> QED  BY <3>4
  <2>12. ASSUME decision \in {"send_escalation", "send_update"}
         PROVE  extended
    <3>1. /\ previous # None /\ previous \in AlertRecord /\ Fired(result.outcome)
          /\ \/ Escalates(previous, result)
             \/ DriftHasMateriallyShortened(previous, result)
             \/ ~InsideWindow(previous, result, now)
      BY <2>1, <2>12, HandledResult, DecideCases DEF decision
    <3>2. records' = [records EXCEPT ![key] = RecordOf(current, result, now)]
      BY <2>4, <2>12
    <3>3. known' = known
      BY <2>1, <2>8, <2>9, <3>1, <3>2 DEF TypeOK
    <3>4. /\ thread[key].identifier = previous.identifier
          /\ thread[key].outcome = previous.outcome
          /\ thread[key].sent = previous.sentAt
          /\ thread[key].minutes = previous.minutes
      BY <2>10, <3>1
    <3>5. alert.sent - thread[key].sent >= Window[alert.severity]
          \/ InsideWindow(previous, result, now)
      <4>1. /\ now \in Nat /\ previous.sentAt \in Nat
            /\ Window[SeverityByOutcome[result.outcome]] \in Nat
        BY <2>1, <3>1, HandledResult, TypesAssumption DEF AlertRecord
      <4> QED  BY <2>2, <3>4, <4>1 DEF InsideWindow, Age
    <3>6. Thread!Newsworthy(thread[k], alert)
      BY <2>0, <2>2, <3>1, <3>4, <3>5, SameVocabulary
         DEF Thread!Newsworthy, Escalates, DriftHasMateriallyShortened
    <3>7. Thread!Supersede(k)
      BY <2>0, <2>1, <2>2, <2>3, <2>5, <2>7, <2>9, <2>12, <3>1, <3>3, <3>4, <3>6, SameTests
         DEF Thread!Supersede
    <3> QED  BY <3>7
  <2>13. ASSUME decision = "send_cancel"
         PROVE  extended
    <3>1. /\ previous # None /\ ~Fired(result.outcome)
          /\ AtLeast(previous.severity, "Severe")
      BY <2>1, <2>13, HandledResult, DecideCases DEF decision
    <3>2. records' = [records EXCEPT ![key] = None]
      BY <2>4, <2>13
    <3>3. Thread!KnownBecomes(k, FALSE)
      BY <2>0, <2>1, <3>2 DEF TypeOK, Thread!KnownBecomes
    <3>4. /\ thread[key].identifier = previous.identifier
          /\ thread[key].severity = previous.severity
      BY <2>10, <3>1
    <3>5. Thread!Cancel(k)
      BY <2>0, <2>1, <2>2, <2>3, <2>5, <2>7, <2>9, <2>13, <3>1, <3>3, <3>4, SameTests
         DEF Thread!Cancel
    <3> QED  BY <3>5
  <2>14. Thread!Open(k) \/ Thread!Supersede(k) \/ Thread!Cancel(k)
    BY <2>1, <2>11, <2>12, <2>13, SentDecisions
  <2>15. k \in Thread!AlertKey
    BY SameVocabulary
  <2>16. Thread!ThreadNext
    BY <2>14, <2>15 DEF Thread!ThreadNext
  <2> QED  BY <2>16
<1> QED  BY <1>1, <1>2

\* Every behaviour of the scheduler, seen through its threads and through
\* which keys hold a record, is a behaviour of the abstract specification.
THEOREM Refinement == Spec => ImplementsThread
BY ThreadInitMaps, ThreadStepMaps, Invariance, PTL
   DEF Spec, ImplementsThread, Thread!ThreadSpec
=============================================================================
