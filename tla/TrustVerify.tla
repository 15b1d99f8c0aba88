---------------------------- MODULE TrustVerify ----------------------------
(***************************************************************************)
(* Verifier.verify: the seven checks, the conflicts between sources, the   *)
(* verdict composed from them and the critique folded into it.  Ages and   *)
(* deadlines are hours, reliabilities percent, sources numbers in the      *)
(* order of their names.  An item's deadline 0 stands for none given: the  *)
(* code's `or` treats both alike.                                          *)
(***************************************************************************)
EXTENDS Integers, Sequences, FiniteSetsExt

CONSTANTS
    Requests,          \* the verification requests considered
    KnownSources,
    ApprovedFormulas,
    Threshold,         \* CONFLICT_THRESHOLDS, a number per variable
    Circular           \* the variables that are directions, in degrees

VARIABLES phase, request, verdict, raised

verifyVars == <<phase, request, verdict, raised>>

AbsoluteFreshness == 12
MinEvidence == 2
IrreconcilableMultiple == 4

\* __post_init__ of SourceReading refuses a reliability outside [0, 1].
ASSUME RequestsAssumption ==
    \A r \in Requests :
        /\ r.evidence \in Seq([source : Nat, variable : STRING, valued : BOOLEAN, age : Int,
                               deadline : Nat, place : {"unknown", "inside", "outside"}])
        /\ r.required \subseteq STRING
        /\ DOMAIN r.readings \subseteq DOMAIN Threshold
        /\ \A v \in DOMAIN r.readings :
              r.readings[v] \in Seq([source : Nat, value : Nat, reliability : 0..100]) \ {<<>>}

Values(readings) == {readings[i].value : i \in DOMAIN readings}

Spread(readings) == Max(Values(readings)) - Min(Values(readings))

MutRanksBeforeAsGiven(readings, i, j) ==
    \/ readings[i].reliability > readings[j].reliability
    \/ readings[i].reliability = readings[j].reliability /\ i < j

\* sorted is stable: of equal readings the first given stays first.
RanksBefore(readings, i, j) ==
    LET a == readings[i]  b == readings[j] IN
    \/ a.reliability > b.reliability
    \/ a.reliability = b.reliability /\ (a.source < b.source \/ (a.source = b.source /\ i < j))

Chosen(readings) ==
    CHOOSE i \in DOMAIN readings : \A j \in DOMAIN readings \ {i} : RanksBefore(readings, i, j)

Resolution(v, readings) ==
    [chosen |-> readings[Chosen(readings)],
     lower |-> Min(Values(readings)), upper |-> Max(Values(readings)),
     inConflict |-> Len(readings) > 1 /\ Spread(readings) > Threshold[v],
     irreconcilable |-> Len(readings) > 1 /\ Spread(readings) > Threshold[v] * IrreconcilableMultiple]

Resolutions(r) == [v \in DOMAIN r.readings |-> Resolution(v, r.readings[v])]

Items(r) == {r.evidence[i] : i \in DOMAIN r.evidence}

Limit(item) ==
    IF item.deadline = 0 \/ item.deadline > AbsoluteFreshness
    THEN AbsoluteFreshness ELSE item.deadline

\* The six rules that block, by the check that fails.
Broken(r) ==
    [source_validity |-> \E i \in Items(r) : i.source \notin KnownSources,
     freshness |-> Items(r) = {} \/ \E i \in Items(r) : i.age > Limit(i),
     missing_data |-> ~(r.required \subseteq {i.variable : i \in {j \in Items(r) : j.valued}}),
     source_disagreement |-> \E v \in DOMAIN r.readings : Resolutions(r)[v].irreconcilable,
     formula_validity |-> ~(r.formulas \subseteq ApprovedFormulas),
     evidence_sufficiency |-> Len(r.evidence) < MinEvidence]

Blocking(r) == {c \in DOMAIN Broken(r) : Broken(r)[c]}

Conflicts(r) == {v \in DOMAIN r.readings : Resolutions(r)[v].inConflict}

StraysOutside(r) == \E i \in Items(r) : i.place = "outside"

ComposedCaveats(r) ==
    {<<"source_disagreement", v>> : v \in Conflicts(r)}
        \cup (IF StraysOutside(r) THEN {<<"spatial_consistency", "">>} ELSE {})

\* _compose: an abstention carries its reasons and a remedy and no caveat.
Composed(r) ==
    IF Blocking(r) # {}
    THEN [status |-> "abstain", blocking |-> Blocking(r), caveats |-> {},
          reasons |-> Blocking(r), remedy |-> Blocking(r), critique |-> "none"]
    ELSE [status |-> IF ComposedCaveats(r) = {} THEN "answer" ELSE "answer_with_caveats",
          blocking |-> {}, caveats |-> ComposedCaveats(r), reasons |-> {}, remedy |-> {},
          critique |-> "none"]

\* TrustVerdict refuses a negative age of the oldest evidence.
AgesAllowed(r) == Items(r) = {} \/ \E i \in Items(r) : i.age >= 0

NoVerdict ==
    [status |-> "unjudged", blocking |-> {}, caveats |-> {}, reasons |-> {}, remedy |-> {},
     critique |-> "none"]

Compose ==
    /\ phase = "asked"
    /\ IF AgesAllowed(request)
       THEN phase' = "composed" /\ verdict' = Composed(request) /\ UNCHANGED raised
       ELSE phase' = "raised" /\ raised' = "compose" /\ UNCHANGED verdict
    /\ UNCHANGED request

\* What a critic answers.  NullCritic never speaks; LlmCritic swallows the
\* model's exceptions and drops an escalation that has no reason.
Silent == [caveats |-> {}, escalates |-> FALSE, commentary |-> "none"]

\* A reply's commentary is absent or null, text, or a list or number.
Commentary == {"none", "text", "other"}

Reply ==
    [escalates : BOOLEAN, reasoned : BOOLEAN, caveats : {"absent", "null", "some"},
     commentary : Commentary]

\* The commentary is passed on as it came: nothing looks at what it is.
Review(reply) ==
    [caveats |-> IF reply.caveats = "some" THEN {<<"critique", "">>} ELSE {},
     escalates |-> reply.escalates /\ reply.reasoned,
     commentary |-> reply.commentary]

\* The critic's reasons in place of the rules'.
MutWithCritiqueNewReasons(v, response) ==
    LET caveats == v.caveats \cup response.caveats IN
    [v EXCEPT !.caveats = caveats,
              !.status = IF response.escalates THEN "abstain"
                         ELSE IF caveats # {} /\ v.status = "answer"
                         THEN "answer_with_caveats" ELSE v.status,
              !.reasons = IF response.escalates THEN {"critique"} ELSE v.reasons,
              !.critique = response.commentary]

\* The critic's caveats in place of the rules'.
MutWithCritiqueOwnCaveats(v, response) ==
    LET escalated == response.escalates /\ v.status # "abstain" IN
    [v EXCEPT !.caveats = response.caveats,
              !.status = IF escalated THEN "abstain"
                         ELSE IF response.caveats # {} /\ v.status = "answer"
                         THEN "answer_with_caveats" ELSE v.status,
              !.reasons = IF escalated THEN v.reasons \cup {"critique"} ELSE v.reasons,
              !.critique = response.commentary]

\* apply_critique over model_copy, which validates nothing.
WithCritique(v, response) ==
    LET caveats == v.caveats \cup response.caveats
        escalated == response.escalates /\ v.status # "abstain" IN
    [v EXCEPT !.caveats = caveats,
              !.status = IF escalated THEN "abstain"
                         ELSE IF caveats # {} /\ v.status = "answer"
                         THEN "answer_with_caveats" ELSE v.status,
              !.reasons = IF escalated THEN v.reasons \cup {"critique"} ELSE v.reasons,
              !.critique = response.commentary]

Tell(response) ==
    /\ phase' = "told"
    /\ verdict' = WithCritique(verdict, response)
    /\ UNCHANGED raised

\* raw.get("caveats", ()) of a reply that holds null is iterated all the same.
Critique ==
    /\ phase = "composed"
    /\ \/ Tell(Silent)
       \/ \E reply \in Reply :
             IF reply.caveats = "null"
             THEN phase' = "raised" /\ raised' = "critique" /\ UNCHANGED verdict
             ELSE Tell(Review(reply))
    /\ UNCHANGED request

VerifyInit ==
    /\ phase = "asked" /\ request \in Requests
    /\ verdict = NoVerdict /\ raised = "no"

VerifyNext == Compose \/ Critique

VerifySpec == VerifyInit /\ [][VerifyNext]_verifyVars

-----------------------------------------------------------------------------
Status == {"unjudged", "answer", "answer_with_caveats", "abstain"}

\* The verifier's variables have their types, and the phase says which of
\* them are set.
VerifyTypeOK ==
    /\ phase \in {"asked", "composed", "told", "raised"}
    /\ verdict.status \in Status /\ verdict.critique \in Commentary
    /\ raised \in {"no", "compose", "critique"}
    /\ phase = "asked" => verdict = NoVerdict
    /\ phase = "raised" <=> raised # "no"
    /\ phase \in {"composed", "told"} => verdict.status # "unjudged"

\* No answer is told over a rule that blocks, whatever the critic says, and a
\* refusal names every rule that did ("The rules decide", rules.py:3).
BlockedNeverAnswers ==
    phase = "told" /\ Blocking(request) # {} =>
        verdict.status = "abstain" /\ Blocking(request) \subseteq verdict.reasons

\* A disagreement that counts as a conflict reaches the user whenever an
\* answer does ("Disclose the conflict", conflict.py:14).
ConflictsAreDisclosed ==
    phase = "told" /\ verdict.status # "abstain" =>
        \A v \in Conflicts(request) : <<"source_disagreement", v>> \in verdict.caveats

\* The rules TrustVerdict lays on a status and what must come with it.
HoldsTogether(v) ==
    /\ v.blocking # {} => v.status = "abstain"
    /\ v.status = "abstain" => v.reasons # {}
    /\ v.status = "answer_with_caveats" => v.caveats # {}

\* What the critique leaves, which model_copy validates nothing of, still keeps
\* those rules: an escalated answer has its reason, a doubted one its caveat.
VerdictsHoldTogether == phase = "told" => HoldsTogether(verdict)

\* What the rules found reaches the user and the record, whatever the critic
\* adds to it.
RulesAreHeard ==
    VerifyTypeOK /\ BlockedNeverAnswers /\ ConflictsAreDisclosed /\ VerdictsHoldTogether

\* "source id so ties never flip between runs" (conflict.py:140): the order in
\* which the readings of different sources arrive changes nothing.
Arrangements(readings) ==
    {[i \in DOMAIN readings |-> readings[p[i]]] :
        p \in {q \in [DOMAIN readings -> DOMAIN readings] :
                  \A i, j \in DOMAIN readings : q[i] = q[j] => i = j}}

OneReadingPerSource(readings) ==
    \A i, j \in DOMAIN readings : readings[i].source = readings[j].source => i = j

OrderChangesNothing ==
    \A v \in DOMAIN request.readings :
        OneReadingPerSource(request.readings[v]) =>
            \A other \in Arrangements(request.readings[v]) :
                Resolution(v, other) = Resolution(v, request.readings[v])

\* "one direction only": the verifier implements the promise that doubt is
\* only ever added.
Doubt == INSTANCE TrustDoubt WITH
    confidence <- verdict.status, objections <- verdict.blocking,
    disclosed <- verdict.caveats, refusals <- verdict.reasons

OnlyAddsDoubt == Doubt!DoubtSpec

-----------------------------------------------------------------------------
\* Statements of comments that the code does not keep.

\* The rules decide: the same evidence always produces a verdict (rules.py:3).
RulesAlwaysDecide == raised # "compose"

\* A model that returns nothing usable never blocks a verdict (critique.py:99).
CriticNeverBlocks == raised # "critique"

\* "explanatory critique text" (verdict.py:122), which load_verdict validates as
\* text: a verdict that was told can be read back from the store.
VerdictsCanBeReread ==
    phase = "told" => HoldsTogether(verdict) /\ verdict.critique \in {"none", "text"}

\* At least MinEvidence items corroborate an answer (rules.py:27): they are
\* from that many sources, or say that many things.
AnswersAreCorroborated ==
    phase = "told" /\ verdict.status # "abstain" =>
        \E i, j \in Items(request) : i.valued /\ j.valued /\ i.source # j.source

\* "resolution is deterministic": the readings of one source included.
TiesNeverFlip ==
    \A v \in DOMAIN request.readings :
        \A other \in Arrangements(request.readings[v]) :
            Resolution(v, other).chosen = Resolution(v, request.readings[v]).chosen

\* Spread beyond the threshold is "a real conflict rather than model noise"
\* (conflict.py:34): two bearings either side of north are not.
Apart(v, x, y) ==
    LET d == Max({x, y}) - Min({x, y}) IN
    IF v \in Circular /\ d > 180 THEN 360 - d ELSE d

\* A conflict is a disagreement of more than the variable's threshold
\* (conflict.py:34), measured the way the variable turns.
ConflictsAreReal ==
    \A v \in Conflicts(request) :
        \E x, y \in Values(request.readings[v]) : Apart(v, x, y) > Threshold[v]

\* "An abstention that only says no is a dead end for the user"
\* (verifier.py:172).
AbstentionsSayWhatToDo ==
    phase = "told" /\ verdict.status = "abstain" => verdict.remedy # {}
=============================================================================
