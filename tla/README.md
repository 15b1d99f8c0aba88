# ORCA: verification project

TLA+ specifications of ORCA, the marine-safety assistant in this repository, with
the TLC configurations that model-check them and the theorems TLAPS proves about
them. `PROJECT.json` lists the components, runs, mutants, source map, findings,
hazards and theorems in machine-readable form; this file explains them.

    tlc -workers 2 -config AlertCore.cfg AlertMC.tla     # one run
    tlapm AlertScheduler_proofs.tla                      # one module of proofs

Every run is a configuration and the `...MC` module that gives the constants their
values: `Alert*.cfg` with `AlertMC` (`AlertStandDown` with `AlertCalm`), `Run*.cfg` with
`RunMC`, `Conversation`, `Ingest`, `Evidence`, `Trust`, `Speech` and `Assessment` with the module of
that name, `DeskUnknown` with `AssessmentMC`.

## 1. The system and its parts

| part | state it keeps | operations | talks to |
|---|---|---|---|
| alert rules (`alerts/triggers.py`, `conditions.py`) | none | eight `check_*` rules, `evaluate_*` | called by the scheduler with the hazard picture |
| deduplicator (`alerts/dedup.py`) | last record sent per (user, rule, hazard) | `decide`, `commit`, `retire`, `prune` | called by the scheduler |
| scheduler (`alerts/scheduler.py`, `subscriber.py`, `messages.py`) | none of its own | `tick` | rules, deduplicator, CAP, speech, delivery |
| delivery (`alerts/delivery.py`) | inbox, sockets | `deliver` over every active endpoint | push services, SMS gateway |
| CAP (`alerts/cap.py`) | none | build, validate, render | consumers of CAP documents |
| audit, hand-off, workflows (`alerts/`) | audit trail, recalls | `dispatch_recall`, advisories, broadcasts, hand-off by distance | scheduler's records, CAP |
| orchestrator (`orchestrator/`: engine, plan, planner, budget, nodes) | run state, message log, budget use | `run`: plan, prune, execute layers, replan | planner, node handlers, trust layer |
| conversation state (`orchestrator/state.py`) | the resolved query of every turn | `resolve`, `with_default_window` | API; its result starts a run |
| speech synthesis (`speech/tts.py`, `cache.py`, `pregenerate.py`) | audio cache | provider chain with write-through, pre-generation | scheduler, API |
| speech recognition and text (`speech/`) | none (the page keeps the pin) | recognise, detect, resolve the language, normalise, fill templates | API |
| ingest (`ingest/`) | cadence cache, archive | `fetch` with fallback, retries | adapters of INCOIS, IMD, Open-Meteo |
| trust (`trust/`) | provenance, verdicts | verifier, critique, conflict, replay | orchestrator |
| evidence (`evidence/`, `ingest/storage/`) | observations, corpus, dataset registry | `write`, as-of queries, `ingest`, `retrieve`, `select` | orchestrator nodes |
| kernels (`kernels/`) | none | safety score, zones, heatwaves, routes | orchestrator nodes |
| geo (`geo/`) | closures, protected areas | drift, geofence, plan check | orchestrator nodes, alert rules |
| API, web client | conversation, recorder | endpoints; capture and playback of voice | browser, speech |
| schemas, database, agents, scripts | declarations | none of their own | everything |

What is hard in them:

* the **alert service** is a long-running protocol with every subscriber. Each tick
  is sequential, but the records outlive ticks, exceptions leave a tick in the
  middle, channels fail one by one, fixes go stale, and a restart forgets
  everything. What is correct is a property of histories: a chain of CAP messages
  without dangling references, no silence while things get worse, no gap while a
  rule fires, a cancellation when it stops;
* the **orchestrator** executes a graph under three budgets, with tools that fail,
  steps that abstain, and a replanner that may substitute or drop a step;
* **speech** and **ingest** are fallback chains with caches in front of them, where
  a stale or missing entry, a failing write and the order of providers interact;
* the **web client** is event-driven: a release before the microphone is granted, a
  timer that races a tap, a stale clip.

* the **trust layer** lets a language model speak after the rules have judged: it may
  add doubt and never take it back; and what is stored must be replayable;
* **evidence** is read as of a time, while observations arrive late and revised and
  documents are replaced;
* the **kernels** and **geo** are sequential and pure. What is hard in them is their
  boundaries: thresholds, clamps, ties, cut-offs, a sampled search, a wrapped year.

What makes each correct is stated with its module below.

## 2. The alert service

### Modules

| module | models | code |
|---|---|---|
| `AlertTypes` | outcomes, CAP severities, keys, identifiers, messages, records | `cap.py`, `triggers.py`, `dedup.py` |
| `AlertTriggers` | the eight rules and `_evaluate`, from thresholded drivers to results | `triggers.py`, `conditions.py`, `scheduler.py` |
| `TriggerWatch` | the rules evaluated again and again as the drivers change | `scheduler.py:_evaluate` |
| `AlertDedup` | `decide` and the record `commit` writes | `dedup.py` |
| `AlertDelivery` | what a delivery over a subscriber's endpoints can report | `delivery.py` |
| `AlertThread` | abstract specification: the message thread of one key | (what the service promises) |
| `AlertScheduler` | `tick`, composing the four above; the state machine | `scheduler.py`, `subscriber.py`, `messages.py` |
| `AlertScheduler_proofs` | the theorems | |
| `AlertMC` | values of the constants for TLC (`TriggerWatch` is run by `AssessmentMC` and proved in `Assessment_proofs`) | |
| `AlertCalm` | the scheduler, with those values, once the weather has cleared, with fairness | `scheduler.py` |

The scheduler asks nothing of the rules but their results, so `AlertScheduler` takes
those of a tick from the constant `Batches`. Its theorems hold for every set of them;
`AlertMC` fills it with what `EvaluateAll` of `AlertTriggers` returns (`EvaluateRules` keeps
the rules an instance exercises), so the runs use the real rules.

### State and actions

A tick is a sequence of actions at one value of the clock: `StartTick` lists the
subscribers, `Skip(u)` and `Evaluate(u)` are the two branches of `classify_skip`, and
one `Handle...` or `Emit` per result is one call of `_handle`: decided, built,
spoken, delivered, committed. It is split at the results, and not atomic, because
an exception (`Abort`) leaves behind what the results before it committed, and the
results after it unhandled. The subscribers are handled in any order, which covers
the order of the list that is passed in. `Elapse` is the clock, between ticks only:
`tick` takes one `now`. `Prune` is the deduplicator's and `Restart` a new process, at
any point; a crash between delivery and commit is `Emit` followed by `Restart`.

`records` is the deduplicator's dictionary. `thread` (the last message of every key),
`shown` (the last identifier that reached the subscriber) and `firedAt` (when the
rule last fired and could be worded) are history: no action reads them.

Data that no property tells apart is abstracted: a position is its age and whether
the boat is at sea, an alert context is the set of its filled fields, one info
block stands for all languages, the payload is gone. The identifier is the tuple
that is digested. Speech synthesis is its three endings: audio, a caught error,
an error `_payload_for` does not catch.

### Runs that pass

| run | question | bounds |
|---|---|---|
| `alert_core` | do records describe the threads, is silence informed, is coverage without gaps, does the scheduler implement `AlertThread`? | one boat, one system with rings 27/34/64 kt, clear or aged out; all skip reasons, contexts empty and full; the code's windows in units of five minutes, lifetime 12, a clock to 15 so that alerts expire, pruning at 13 (longer than every window and the lifetime, as the code's 12 h), one restart |
| `alert_boundary` | the same with two rules in one tick, a drift whose time halves, and three channels failing independently | shortened windows, a clock to 4; the push endpoint is first so that its failure precedes the inbox |
| `alert_stand_down` | is every severe alert that is remembered eventually stood down once the weather clears? | two boats; aborts and skips before the calm, one restart and any prunings before it and in it; a record may be pruned at once (`PruneAge = 0`, where the code keeps it twelve hours), which is why a clock to 1 is enough: age matters to the claim only through pruning |
| `assessment` | does a worse sea ever lower an outcome? | every pair of driver sets on both sides of every threshold, two hulls (section 8) |

Properties: `RecordMatchesThread`, `NoCoverageGap`, `InAppIsAFloor` (invariants),
`SilenceIsInformed`, `MonotoneInExposure` (action properties), `ImplementsThread`
(refinement), `SevereIsStoodDown` (liveness), and one type invariant, `TypeOK`, which
`alert_boundary` checks. Each has a mutant of the code, listed in `PROJECT.json`, that
breaks it.

**Fairness.** `AlertCalm` assumes weak fairness of `StartTick`, of the handling of
results and, per subscriber, of `EvaluateQuiet`: a deployment calls `tick` on a cadence
(the module's header says which schedulers it expects), `tick` is a loop over the
subscribers and the loop ends. Before the calm ticks may be aborted and subscribers
skipped; before it and in it the process may restart and records may be pruned. In the
calm, fixes are fresh, contexts complete and the audio cache does not raise; without any
one of these the cancellation may wait for ever, and that is the code's behaviour, not
the model's. The claim is about alerts the deduplicator remembers: its records live in
memory, and a severe alert whose record a restart or a pruning took away before it was
stood down stays the last word of its thread. `NobodyIsLeftInAlarm` is the claim without
that condition, and TLC refutes it (section 9).

### What is proved

`AlertScheduler_proofs` proves, for every fleet, rule set, batch, endpoint list and
bound: `TypeCorrect`, `RecordsDescribeThreads`, `InboxIsAFloor`, `CoverageHolds`,
`SilenceHolds` and `Refinement` (that `Spec` implies `AlertThread`'s specification).

Assumptions: `TypesAssumption` (None is none of the values it stands beside),
`WindowAssumption` (windows of firing severities do not grow with severity),
`CadenceAssumption` (the lifetime covers the longest firing window and a tick, as the
code's hour covers thirty minutes and five), `DeliveryAssumption` and
`SchedulerAssumption` (types of the inputs). TLC evaluates all of them in every run.

Argument. `IInv` is the inductive invariant: types; every record describes its
thread's last message (`RecordMatchesThread`); a thread's dates are consistent with the
clock (`ThreadsCarryTheirDates`); a rule that last fired at t has a standing message
that is of t or was younger than Moderate's window at t (`FiringIsCovered`); the inbox
holds the last message (`InAppIsAFloor`). `NoCoverageGap` is not inductive: that an
alert is valid now follows only from how young it was when the rule last fired,
which is what `FiringIsCovered` keeps. `SilenceIsInformed` needs `RecordMatchesThread`,
because the code compares with its record and the property speaks of the message.
`DecideCases` states once what each decision presupposes. `OnlyEmitSpeaks` and
`EmitEffect` reduce every step to "nothing was said" or "one message was said"; the
refinement maps the first to `Forget` or a stutter, the second to `Open`, `Supersede` or
`Cancel` by its decision.

The rules themselves are proved about in section 8 (`ExposureTheorem`). Only model-checked:
`SevereIsStoodDown` (liveness).

## 3. The orchestrator

### Modules

| module | models | code |
|---|---|---|
| `RunPlans` | plans, validation, layers, pruning order, the rule planner's six plans, the replanner, costs | `plan.py`, `planner.py`, `budget.py` |
| `RunEngine` | one run: pruning, execution node by node, failure, replanning; the state machine, its properties, its inductive invariant and the refinement mapping; sentences of the code's comments about a run (section 9) | `engine.py`, `nodes.py`, `plan.py:prune_to_budget` |
| `RunVerdict` | abstract specification: what the caller hears | (what a run promises) |
| `RunEngine_proofs`, `Conversation_proofs` | the theorems | |
| `Conversation` | slots over the turns of a conversation | `state.py` |
| `RunMC`, `ConversationMC` | values of the constants for TLC | |

### State and actions

`stage` says where `run` stands. `accepted` is the plan the planner handed over (the
proposal if it validates, the rule plan otherwise), `plan` the one in hand, `pruned`
what did not fit. `PruneStep` is one turn of the loop of `prune_to_budget`,
`StartPruned` its end and the validation of what is left. An execution walks through
`layer`, in the order of the nodes' names as the code sorts them, and `visited`
is what it is past. For the node that is next, `AlreadySatisfied`, `SkipExhausted`, `RunNode`
and `ToolFails` are the four ways through the loop body of `_execute`. A failure ends the
execution; `GiveUp` and `Replan` are what `run` does with it; `Replan` starts over with the
messages kept. `messages` holds the status of a node's last message: no decision reads
more of it. `spent` is the ledger.

The code's numbers are kept, scaled to integers: tokens in hundreds, wall-clock in
tenths of a second, calls as they are. A tool that fails may have used up any time
in `FailureSeconds`: next to none, or (in `run_rules`) so long that one failure passes the
tightest clock and two pass the widest. What the language model
writes is a member of `Proposals`; output that does not parse is a plan that does not
validate, because both lead to the rule plan. A step's tool list is left out: a step
either calls a tool or does not. Exceptions other than `ToolFailure` end the run in the
code and are not modelled.

`Conversation` keeps, per turn, what was stated (`asked`, history) and what it was resolved
to. `Resolve` is `ConversationState.resolve` on one request, `WithDefaultWindow` the caller's
default for an absent time. A slot's value, origin and turn are kept; confidence and
wording are not.

### Runs that pass

| run | question | bounds |
|---|---|---|
| `run_rules` | the planner's own six plans: does an answer stand on a whole plan, is a ceiling passed by one step at most, does every run return? | six budgets: the configured one and five that bind on calls, tokens or time early and late; any tool may fail at any execution; `MAX_REPLANS` of the code |
| `run_proposals` | any plan a model could propose: does pruning and replanning keep the gate, account for each step, keep the order and the results? | every graph over the two sources that substitute for each other, verifier and response, and over a chain of three prunable steps, with at most two dependencies a step, valid or not, optional or not; one budget that binds and one that does not |
| `conversation` | is every turn resolved to the user's latest word, and each slot to the turn it came from? | three turns (said, not said, not said is what carrying twice takes), each stating any of four slots; two intents that need different slots |

Properties: `AnswerIsWhole`, `OverrunIsOneStep`, `GuardsKept`, `AllAccounted`, `LatestWordWins`,
`SlotsAreTraceable` (invariants), `NothingRunsEarly`, `SuccessStands` (action properties),
`ImplementsVerdict` (refinement), `RunReturns` (liveness) and one type invariant.
`AnswerIsWhole` is a claim about the rule plans only: a proposed plan may leave the kernel
outside the gate (section 9).

**Fairness.** `LiveSpec` assumes weak fairness of `Next`: `run` is one call on one thread, it
waits for nothing but its tools. The engine has no time-out of its own, so the
model's tools answer or fail; one that hangs would hang the run, and `RunReturns` does
not claim otherwise. `Conversation` states no liveness.

### What is proved

`RunEngine_proofs` proves, for every set of proposals, every budget, every bound on
replans and on the time of a failure: `TypeCorrect`, `Invariance`, `OverrunBounded`,
`GuardsStay`, `Accounted`, `SuccessIsKept`, `Patience` (that is `NothingRunsEarly`) and `Refinement`
(that `Spec` implies `RunVerdict`'s specification). The only assumption is `RunAssumption`,
the types of the constants.

Argument. `RunInv` has four parts. `GateInv` says which statuses can be on record, and
that a skip means the ledger is spent, which never heals: hence nothing is answered
after a skip. `PathInv` is the place of an execution in its plan: what is behind it has
messages, what is ahead waits for that only, and when no layer is left there is no
node left. The last step is where acyclicity is needed: a set of unvisited nodes
of an acyclic plan has one that waits for none of them (`PastTheLastLayer`). `LinkInv`
ties the plan in hand to the accepted one, each lost step or dependency being settled;
without it `AllAccounted` and `NothingRunsEarly` would be about whatever plan the last replan
left. `OverrunIsOneStep` is inductive because the ledger is only added to below the
ceilings.

It also proves `WholeAnswer`: if nothing that is proposed validates
(`RulePlansOnly`), every answer is whole, under every budget and whatever the tools do. This
does not follow from the dependencies: the geofence of a safety query is no predecessor
of the verifier. It follows from the layers. `Depth` gives every step of the six rule plans
its layer and `Layered` says that the verifier stands after all others; pruning removes
optional steps only, and no step waits for one, so the layers stay. `StraightInv` holds
while no tool has failed (the execution has passed exactly the layers before the one it
is in); once one has, `FailedInv` keeps the verifier from ever succeeding.

`Conversation_proofs` proves, for any number of turns and any requests, `LatestWord`
(`LatestWordWins`) and `Traced` (`SlotsAreTraceable`), from `ConversationAssumption`, the types of the
constants. The invariant says of every turn so far that its words are the latest
(`WordsAreLast`) and its slots traceable (`Traceable`): a carried slot takes over the turn number
of the slot before, so each turn needs the one before it.

Only model-checked: `RunReturns` (liveness).

## 4. Ingest

`IngestChain` is `ResilientIngestor.fetch` with the HTTP retries, the discovery of datasets and
the archive; `CadenceCache` the cache; `IngestMC` puts them side by side, because nothing in
`src/` joins them. An action runs from one await of the code to the next: `task[t]` is a
fetch, `archive` the payloads kept, `client` whether the shared HTTP client is open. A reply is
any set of records the source publishes, fresh or old, values or gaps. `Restart` loses the
fetches and what the memory archive held. `heard` (what the sources said, kept or not) is
history.

The run `ingest`: three sources, one of each shape of adapter (grid, locked, point), four
requests, one fetch at a time, one retry, replies of age 0 and 2 against deadlines of 1
and 2, clock 2 to 3, one restart, both archives. That is enough for each way a source can
fail to be followed by each other one. The cache: two cadences, clock to 4, three gets.

* `AnswersAreTheBest`: types; each variable is answered by the most authoritative source that
  had something fresh; a fallback shows the sources tried before it.
* `AnswersCanBeReplayed`: nothing is answered that is not in the archive.
* `ServedWasCurrent`: what the cache serves is inside its source's cadence.
* `FetchReturns`: every fetch ends, under weak fairness of `FetchStep`: the event loop runs what
  can run, and a request ends by an answer or its time-out.

Proved in `IngestChain_proofs` for every set of sources, requests and overlapping fetches, from
`ChainAssumption`: `BestAnswer` and `Replayable`. The invariant `ChainInv` says where each fetch stands
(`PcOK`), that its trail names the sources passed in their order (`TrailOK`), that nothing fresh
was said on what is outstanding (`AnswerOK`), that nobody with a better rank was passed over
(`NonePassedOver`) and that what was heard is kept. For the cache, `NothingStaleIsServed`, from
`CacheAssumption`; it needs the counterpart of the property for the entries. Only model-checked:
`FetchReturns` (liveness).

## 5. Evidence

| module | models | code |
|---|---|---|
| `ObservationStore` | batches written over the natural key; as-of queries | `ingest/storage/timescale.py`, `evidence/structured.py`, migration 0004 |
| `EvidenceCorpus` | documents ingested and replaced; two filtered rankings, fused | `corpus.py`, `retrieval.py`, `structured.py` |
| `DatasetRegistry` | datasets registered one after another (`Register`), and the choice among them (`AskAgain`) | `registry.py`, `schemas/evidence.py` |

`EvidenceMC` runs them side by side; they share no state. Ranking is the database's, so any
order of the admissible chunks is allowed, and others write between the two queries. Texts
are named by the number of chunks they split into.

The run `evidence`: batches of two observations of two datasets, two writes, a clock of two;
two documents, a short and a longer text, two regions, two ingests around one search; the
datasets the code declares and some that are registered later (`LaterSources`), and every
question about two variables at a date inside and outside coverage, with a budget of
nothing, of little, and none. Two writes of two rows
are the least with a late revision inside a batch and across batches; replacing the longer
text by the shorter is what leaves chunks behind. Regions and datasets are symmetric.

* `EvidenceIsSound`: types; one row per key with a value that was written under it; no chunk of
  a replaced text; every passage is admissible; a chunk both rankings prefer does not
  come behind one that only one of them knows.
* `RevisionsLeaveThePast`: writing what was issued after t changes no answer as of t.
* `MoreIsAnsweredByMore`: a dataset that can answer a question can answer a smaller one, and
  registering another takes none away; a budget of nothing is smaller than any.

### What is proved

`Evidence_proofs` proves all three, for any sets of datasets, registrations, documents, texts,
filters and questions, batches and rankings of any length and every cut-off: `EvidenceTheorem`
(`EvidenceIsSound`), `RevisionsTheorem` (`RevisionsLeaveThePast`) and `SelectionTheorem`
(`MoreIsAnsweredByMore`). The assumptions are types: `StoreAssumption` (and that a gap is no value),
`CorpusAssumption` (and that `rrf_k` and the two limits are positive) and `RegistryAssumption` (a
cost is a number, and so is a limit, or none).

Argument. The two invariants are `ObservationsInv` and `CorpusInv`. A batch is a fold over its
rows; `AfterBatchPasses` says that it is one upsert after another and `BatchHolds` carries through
them that keys are unique and rows written. An as-of answer of a time t then depends on the
rows issued by t only, and an upsert of a later row neither adds nor replaces one of them: the
issue time is part of the key. For the corpus, a search spans two queries with ingests between
them, so what the first one brought is kept as a ranking of passages (`RankingOf`), not as chunks that still
exist. The fused list is the sort of the passages by score, then rank, then identifier:
`SortKeyIsStrict` shows that this is a strict order, `PlacesAreTaken` that a finite strict order gives
each place to one element, and `OrderedByPlace` that the list is therefore in that order
however the sort goes about it. `OutranksScores` compares the sums of the reciprocals 1/(k + rank)
as fractions: a better rank in one list and no worse in the other is a higher score.

## 6. Trust

| module | models | code |
|---|---|---|
| `TrustDoubt` | abstract specification: a verdict only gains doubt | (what the layer promises) |
| `TrustVerify` | the checks, conflicts and composition (`Compose`), the critique (`Critique`) | `rules.py`, `conflict.py`, `verifier.py`, `critique.py` |
| `TrustReplay` | provenance stored (`Record`, with `Reconnect` after an interrupted write), read and replayed over the connection that writes it, against archives that lose or change payloads (`Damage`) and formulas released since (`Release`) | `provenance.py`, `storage.py`, `replay.py` |

`TrustMC` runs the two side by side. Requests are evidence items around every limit (age at
and past its deadline and the absolute one, known and unknown sources, inside, outside and
of unknown place), zero to three of them, with readings of up to three sources that agree,
conflict and conflict irreconcilably. The critic's commentary may be of any type, for nothing
looks at it. There are two runs and up to two links, parallel ones included, and a graph may
hold a node that cannot be written.

A record that fails halfway leaves its transaction open. `work` is what the store's connection
then sees, `db` what is committed; reads, replays and `runs_using_payload` go over the same
connection and see `work`, the next record of any run commits what is open, and losing
the connection (`Reconnect`) rolls it back. `cut` is history: it says which run's rows are
from an interrupted record.

* `RulesAreHeard`: types; a blocked request is never answered; conflicts are disclosed; a told
  refusal has a reason and a doubted answer a caveat, though `model_copy` validates nothing.
  That a told verdict can be read back is not among them: the commentary is stored
  as it came, and one that is no string makes `load_verdict` raise (section 9).
* `OrderChangesNothing`: conflicts come out the same in every order of the readings.
* `OnlyAddsDoubt`: refinement of `TrustDoubt` (`Judge`, then `Doubt` or a stutter).
* `StoredIsTheLatest`: on disk and in what a read sees, a run has the rows of one graph: those of
  the one recorded last, or, after an interrupted record, some nodes of its graph and no link;
  and a run that no interruption touched is found by the payloads of its last graph only.
* `ReplaysAreHonest`: of a run that was recorded whole, "identical" means everything was reproduced, and
  the code is blamed only when neither payloads nor versions explain the difference, nor storage
  unless two nodes are linked twice.

### What is proved

`Trust_proofs` proves, for every request and every critic, from `RequestsAssumption` (the
types, and that reliabilities are in range): `RulesHeard` (`RulesAreHeard`), `Refinement` (`OnlyAddsDoubt`) and
`OrderTheorem` (`OrderChangesNothing`). The invariant ties the verdict to the request (`Tells`): that
the blocking checks are still among the reasons after the critique, and the conflicts among
the caveats. `OrderTheorem` rests on `ChosenIsBest`: the reading that is chosen ranks before every
other, and readings of different sources never tie; so two arrangements of them choose alike.

For the store and the replays, `StoreTheorem` (`StoredIsTheLatest`) and `ReplayTheorem`
(`ReplaysAreHonest`) hold for every set of runs, nodes, links and versions, without further
hypotheses; what the code does not promise is a condition inside the properties, where the
reader sees it. `StoreInv` says of each run, on disk and on the connection, that its rows are
those of its latest graph or some nodes of the one graph whose record was cut short
(`OneGraph`); it is inductive because a record deletes the rows of its run before it writes, and
because `cut` is committed and rolled back with the rows. `FingerprintShowsOutputs` says that a fingerprint tells the outputs apart;
`FingerprintOfLinkedOnce`, that storing a graph keeps its fingerprint if no two nodes are linked
twice. Otherwise the rows of a pair come back in an order of the database's own and a replay may blame the
code for what storage did (`FingerprintSurvivesStorage`, section 9).

## 7. Speech and the page

| module | models | code |
|---|---|---|
| `SpeechChain` | requests of the API, of alerts and of the pre-generation job over the providers and the shared cache, call by call | `tts.py`, `cache.py`, `pregenerate.py`, `alerts.py`, the router |
| `SpeechHearing` | recognisers, detection, the transcript that waits to be confirmed, the pin of the conversation and the preference | `asr.py`, `detect.py`, `languages.py`, the router, `voice-input.tsx`, `page.tsx` |
| `VoiceClient` | the press-and-hold button over one recorder per press; read-aloud cards over one playback | `voice-input.tsx`, `capture.ts`, `read-aloud.tsx`, `playback.ts` |

A clip is what can be heard in it. A provider may speak or fail in any of its ways. The
object store may be lost, which raises, or answer with errors, which `get` and `has` take for a
miss and `put` raises, and recover, between any two steps. A transcript that is not sure of its
words or its places waits in `pending` until the user confirms it (`Confirm`), refuses it
(`SayItAgain`) or speaks again (`Ask`); only what is handed to the conversation
(`HandleTranscript`) moves the pin. In the page, everything that
is awaited (the permission, the flush of the recorder, the transcript, a clip) is an action
of its own, and so are letting go, the cap of fifteen seconds, a tick, cancelling and
leaving the page, in every order.

`SpeechMC` runs the sides `synthesis`, `recognition`, `button` and `cards`, which meet only in requests.
The run `speech`: two calls and two texts in two languages, one with both voices; two turns; three
presses, so that an old recorder, its successor and a third overlap; two cards with two
texts each.

* `SynthesisIsTrue`: a clip says what it is keyed by; a text that was cached when a call began is
  spoken whatever providers do, if a read of the cache was carried out; no lower tier
  speaks unless the higher ones failed; the job reports as covered what is stored. A store that
  refuses every read leaves a cached text unspoken: `PopulatedCacheSpeaks`, section 9.
* `HearingIsHonest`: the pin moves on strong evidence only, and only by a transcript that was sure
  or that the user confirmed, however long it waited.
* `OneVoice`: nothing sounds but the clip the playback holds.
* `PressesEnd`: a live microphone is released in the end and "transcribing" ends, under weak fairness
  of `CapTimer`, `Flush` and `Heard`: browser timers fire, a stopped `MediaRecorder` reports, and
  a request ends. Nothing is assumed of the user, nor of the permission dialog.

Two limits of these models. `SpeechHearing` has one request on its way at a time, as the button is
disabled while a transcript is awaited; a permission granted late can open the button
again during that time (`NoMicAfterRelease`, section 9), and two requests that cross are not modelled there.
In `VoiceClient`, an exception of `new MediaRecorder` or of its `start` after the permission was given
(`capture.ts:153`) is left out; it would leave a live track that no recorder holds.

### What is proved

`Speech_proofs` proves the three safety properties, for any words, tongues, voices, speeds,
scripts of the job and utterances, and any number of calls, cards and presses.

* `SynthesisTheorem` (`SynthesisIsTrue`), from `SpeechAssumption`: each language has a voice, and the words of
  the job and the slots are words. The invariant `SynthesisInv` says that every clip kept
  speaks its key (`ClipsOK`), what step of the chain each caller is at, that the attempts before it are
  those of the tiers above it, in order (`CallerOK`, `Trail`), that a call whose text was in
  the cache went on only because the read was refused, and that the job's counts and its list
  of covered keys agree with what it has been through (`JobOK`). The clip is keyed before the first provider is
  asked and written after the last one answered, and others write in between: what is needed is that
  nobody can write under a key anything but what the key says (`ProvidersSpeakTheKey`).
* `HearingTheorem` (`HearingIsHonest`), from `HearingAssumption`: shares are percentages and an utterance has
  words. The invariant says of the request on its way that it carries the pin of now unless the user
  has chosen since (`RequestOK`), and of the transcript that waits that it would move the pin it
  was asked under only on its evidence (`TranscriptOK`): evidence is judged when it arrives, and
  moves the pin when it is confirmed.
* `OneClipAtATime` (`OneVoice`): it is inductive, since `play` and `stop` take the old clip out first.

Only model-checked: `PressesEnd` (liveness).

## 8. Kernels, geography and the authority's desk

| module | models | code |
|---|---|---|
| `TriggerWatch` | the alert rules evaluated again as the drivers change | `alerts/triggers.py`, `scheduler.py:_evaluate` |
| `SafetyKernel` | the score with its margins, bands and interval | `kernels/safety.py`, `vessel.py`, `contract.py` |
| `ZoneChoice` | Pareto front, selection of options; heatwaves | `kernels/zones.py`, `anomaly.py` |
| `RouteSearch` | A* turn by turn, the straight line it is compared with | `kernels/routing.py` |
| `DriftWatch` | sampling and bisecting for a crossing, bands | `geo/drift.py`, `geofence.py` |
| `Closures` | closed seasons and areas, their storage, plan checks | `geo/constraints.py`, `storage.py` |
| `ShoreDesk` | recalls, advisories and broadcasts to boats as they last reported | `alerts/workflows.py`, `cap.py` |

`AssessmentMC` runs one of them per behaviour (`Parts`): they share no state. Each is compared with
a reference definition, in integers (the unit is in the module's header).

The run `assessment`: pairs of 432 driver sets; pairs of seas on both sides of every threshold, met
by hulls on both sides of the margin's bounds, two of which have thresholds of their own
(`threshold_overrides`), more tolerant than any class here or crossing those of their class; lists of one and of four zones out of six kinds, at times up to where an
advisory loses its weight; every series of 4, 5, 6 and 10 days; charts of nine cells, four of
which are calm, rough, swept by a current or fenced, with a shoal, and goals in and outside
the chart, with the water's prices and with three cost functions of a caller, cheaper and
dearer than the water's floor; courses with up to two crossings; a year of ten days
with seasons that do and do not wrap; two boats, one recall at a time.

* `MonotoneInExposure`: a worse sea never lowers an outcome.
* `ScoreIsMonotone`: a worse sea never scores safer for a boat that is judged no more leniently
  (by a class no better, or by thresholds nowhere higher) and has no better margin; less reliable
  evidence never narrows the interval; and between boats that are judged by the same thresholds no
  hull turns "avoid" into "safe". `threshold_overrides` replace the whole row of the class,
  so the class alone says neither (`ClassDecidesAvoid`, section 9).
* `ChoicesAreRight`: nothing shown is dominated by something shown, each aim keeps its best
  option, and supplying the candidates in reverse does not show; heatwaves are those of the definition.
* `CoursesAreRight`: a route is whole and sailable, and a search that gives up had no way, whatever
  prices the legs; where no leg undercuts the floor of the heuristic (`KeepsTheFloor`), which is read off
  the water even when the caller brings a `cost_fn`, the route is the cheapest among all paths; the
  straight line, which is always priced by the water, never beats a route priced alike
  from a start that may be left; a reported crossing is one, and a single crossing is foreseen.
  `AnyCostIsMinimised` and `LineObeysTheFences` (section 9) are the claims without these conditions.
* `ShoreIsObeyed`: a closed season is one run of days, plans obey the notification loaded last,
  boats that reported are recalled, broadcasts err on the wide side.

A `cost_fn` is a function of the two cells and prices every leg at something; one that looks at
anything else, or at the clock, is not modelled. An area's closed seasons have no column
(`load_protected_area` stores none), so a plan check takes them from the areas its caller
holds, whatever is stored. A harbour advisory is published and addressed to nobody.

`desk_unknown` is the run of the finding (section 9).

### What is proved

`Assessment_proofs` proves all five, each for every value of its constants. It is the longest
module: what is to be shown of a kernel is that an algorithm finds what a definition names.

| theorem | property | assumptions beyond the types of the inputs |
|---|---|---|
| `ExposureTheorem`, `JudgementTheorem` | `MonotoneInExposure` | |
| `ScoreTheorem`, `JudgementTheorem` | `ScoreIsMonotone` | `KernelAssumption`: reliabilities are percentages, wave and wind are among the readings asked for, thresholds set for a boat are ordered as the validator of `ClassThresholds` has them |
| `ChoiceTheorem` | `ChoicesAreRight` | `ZonesAssumption`: an id names one candidate; `MaxOptions >= 3` |
| `RouteTheorem`, `CoursesTheorem` | route part of `CoursesAreRight` | `RoutesAssumption`: a chart is finite, a cost function positive |
| `DriftInvariance`, `CrossingTheorem`, `SingleCrossingTheorem`, `CoursesTheorem` | drift part of `CoursesAreRight` | `DriftAssumption`: steps and tolerance are positive, red is nearer than amber; `PassagesAssumption`: a course meets the line finitely often; for a crossing to be foreseen, `Horizon % StepSeconds = 0` |
| `ShoreTheorem` | `ShoreIsObeyed` | `ClosureAssumption`: the days of a year are 1..n; `DeskAssumption` |

Two of these are not enforced by the code. `max_options` is a parameter whose default is three
(`zones.py:150`), one for each aim; with fewer, an aim goes without, and only that part of the
property needs it. The horizon and the step default to an hour and a minute (`drift.py:40`); with a step
that does not divide the horizon the last sample falls short of it, and a crossing in the rest is not seen.

* *Rules.* `FlattenHolds` (joining lists loses and invents nothing) turns a list of results into
  the set of what the rules say; each rule is then compared with itself on the two seas.
* *Score.* Every quotient of the score is rounded, so monotonicity is that of rounding
  (`QuotientsInOrder`, `NearestInOrder`), carried through the ramps, the weighted sum over the readings that
  are present, the margin and the clamp. Thresholds enter only through their order, so a boat's own
  row and its class's are one case. That a better hull never turns "avoid" into "safe" is
  arithmetic on the bounds of the margin: one between 0.9 and 1.1 does not bring a risk of 0.6
  (avoid) below 0.3 (safe), however the quotients are rounded.
* *Zones.* The front is what nothing compliant dominates; that the pass over the candidates
  finds it is `FrontierHolds`. Places in a finite strict order (as in section 5) make the result
  independent of the order of supply. `SpreadKeepsTheExtremes` follows the selection of spread-out options to show
  that it keeps an option for each aim. The streak counter is shown to count the hot days
  that end at each day (`StreakEndsRun`), which makes the longest one what the definition asks for.
* *Routes.* The textbook argument for A*, on this grid, where legs keep the floor; without that, what is
  proved is that the way back is a way and that nothing reachable stays unqueued. The lengths of the model
  are rounded up, as the header of `RouteSearch` says, because what is rounded up keeps the
  triangle inequality (`TriangleInequality`). With it the heuristic is consistent
  (`HeuristicIsConsistent`): it charges the straight length at the least rate of any navigable cell,
  and no leg of the water is charged less (`NoLegIsCheaper`). The invariant `Search` says that each cell found is
  queued at its cost or has passed its cost on to its neighbours, that no entry of the heap promises
  less than the cost of its cell, and that a cell costs at least what its predecessor and the leg do. `Accounted`
  extends it to every way there is: its end was found for no more and has passed its cost on, or
  some entry of the heap stands for a way as cheap. The reference, `Reached`, is a sweep over all costs by number of moves, bounded
  by the number of cells; `WaysAreReached` and `ReachedIsAccounted` show that it names the costs
  of ways and of nothing else. The straight line is a way if it can be sailed (`LineIsAWay`), whence it never wins.
* *Drift.* `DriftInv` says that the samples are those of the course, that the boat is across at the end of
  the span that is halved and not at its beginning, and that no sample before the end was across.
  A line met once is across for good from there (`OnceAcrossForGood`), so the last sample shows it.
* *Shore.* The countdown over a season is a run of days because the year is (`YearOfDays`, `SeasonRuns`); a
  recall compares a fix with the area, and a fix is where the boat is (`FixIsTrue`).

`ScoreTheorem` and `ExposureTheorem` are about the component alone, `JudgementTheorem` about both in the
composition the run checks.

## 9. Where the code and its words disagree

**Finding.** `desk_unknown`: a recall first keeps the boats whose last report says they are at sea,
which a boat without any report is not, so the branch that was to include "vessels with no
position" is never reached, and a boat that never reported is never recalled.

Each row below is a sentence of a comment, docstring or test taken at its word as a
formula; the comment above the formula quotes it and names its line. TLC finds a behaviour
that contradicts it when the `INVARIANT` and `PROPERTY` lines of the configuration are replaced
by the formula and the constants changed as given. Formulas marked P go under `PROPERTY` (and
without `SYMMETRY`), the others under `INVARIANT`.

| configuration, changes | formula | what the code does |
|---|---|---|
| `AlertCore`; Rule = {"vessel.wind_speed"}, Batches <- WindBatches | `UnevaluatedNeverSends` P | a severe alert is cancelled when its driver goes missing |
| `AlertCore`; System = {amphan, yaas}, Batches <- PairBatches | `IdentifiersAreUnique` | two alerts of one tick share an identifier |
| `AlertCore` | `WarningStillGoesOut` P | an error of the audio cache ends the tick before delivery |
| `AlertCore` | `ClearRetiresTheRecord` P | a record below the cancel threshold survives the clear |
| `AlertCore`; Channels = {"fcm"}, Endpoints <- FcmEndpoints | `SuppressionOnlyAfterDelivery` | an alert no channel delivered suppresses its repeats |
| `AlertCore` | `PruneAffectsNoDecision` P | pruning a standing severe record loses its cancellation |
| `AlertStandDown`; QuietBatches <- GoneQuiet | `SevereIsStoodDown` P | a hazard that leaves the picture is never stood down |
| `AlertStandDown` | `NobodyIsLeftInAlarm` P | a restart or a pruning forgets a severe alert, and nothing stands it down |
| `Assessment`; Parts = {"rules"}, Views <- AgeingViews | `StaleConditionsNeverFire` | squall and lightning fire on conditions of any age |
| `RunRules` | `UnreplannableAbstains` | a run that cannot be replanned returns no response, and does not count as abstained |
| `RunRules` | `OnlyRequiredFailuresShutTheGate` | any failed tool on record, optional or substituted, shuts the gate |
| `RunRules` | `UnclearIntentAsks` | an unclear intent abstains instead of asking |
| `RunRules` | `StopsAtACeiling` P | a ledger that stands at its ceiling starts one more node |
| `RunProposals`; Proposals <- EagerGate | `NoAnswerOverAKernel` | a proposed plan that validates may run the verifier before the kernel |
| `RunProposals` | `ToolFailuresAreSurvived` | rewiring to a substitute that waits for what it feeds closes a cycle, and the error leaves `run` |
| `RunProposals` | `DependentsDropped` | the dependent of a pruned step's dependent is kept without its input |
| `Conversation` | `AsBeforeIsBefore` | a profile default of the first turn is reported as carried |
| `Conversation` | `PlaceNamesTheLocation` | a box and a place name of different turns meet in one query |
| `Ingest` | `GapsFallThrough` | a record that is a gap counts as an answer, and no other source is asked |
| `Ingest` | `FilesCanBeReplayed` | a file left half-written by a crash exists, so it is never rewritten |
| `Ingest` | `NoFetchLosesItsClient` | leaving an adapter closes the client another request is using, which raises what nothing catches |
| `Ingest` | `DegradedPathHasSomething` | a `get` that finds the entry stale deletes it, and `get_entry` has nothing to show |
| `Evidence` | `RowsAreTraceable` | a conflict replaces the value and keeps the dataset id of another |
| `Evidence` | `ReplaySeesWhatWasSeen` | an observation that arrives late, or again under the same issue time, changes an answer already given |
| `Evidence`; MaxBatch = 1, MaxWrites = 3, MaxAsked = 2, Region = {tn} | `ProvenanceIdsNameOneRecord` | the identifier leaves out the issue time |
| `Evidence` | `RetrievalReplays` | replacing a document takes the old one out of later replays |
| `Trust` | `RulesAlwaysDecide` | an item issued after the query has a negative age, which raises |
| `Trust` | `CriticNeverBlocks` | a reply whose caveats are null raises |
| `Trust` | `AnswersAreCorroborated` | two items of one source corroborate each other |
| `Trust` | `AbstentionsSayWhatToDo` | some refusals carry no remedy |
| `Trust`; Requests <- BearingRequests | `TiesNeverFlip` | two readings of one source tie, and the order of supply decides |
| `Trust`; Requests <- BearingRequests | `ConflictsAreReal` | directions are subtracted as numbers: 350 and 10 degrees conflict |
| `Trust` | `ReplayAlwaysReports` | comparing a recorded output with a missing one raises |
| `Trust`; EdgeChoices <- ParallelLinks, MaxEdges = 2 | `FingerprintSurvivesStorage` | two links between the same nodes come back as stored rows in either order |
| `Trust`; NodeChoices <- WithAgents, EdgeChoices <- PeerLinks, MaxEdges = 2 | `NothingInfluencesItself` | two agents may derive from each other |
| `Trust` | `VerdictsCanBeReread` | a commentary of any type is stored with the verdict, and one that is no string makes `load_verdict` raise |
| `Trust` | `ReadsShowDecisions` | after a failed record, reads over the same connection see some nodes of it and no link |
| `Trust` | `CommittedIsDecided` | what a failed record left uncommitted is committed with the next run's |
| `Speech` | `WarningGoesOut` | a cache that cannot be reached raises out of the chain |
| `Speech` | `PopulatedCacheSpeaks` | an object store that answers with errors reads as having no clip, and the call fails though it has one |
| `Speech`; Speed = {70, 100} | `ClipsAreAtTheirSpeed` | Bhashini is not told the speed, and the clip is cached under it |
| `Speech` | `MarathiIsHeard` | detection gets the requested language, never the stored preference |
| `Speech` | `ShortClipsUseThePreference` | a clip too short to judge falls to English |
| `Speech` | `UnpinnedStaysUnpinned` P | a transcript asked for before the choice pins the language again |
| `Speech` | `NoMicAfterRelease` | letting go before the permission is given leaves the recorder to start |
| `Speech` | `NoQuestionIsLost` | at fifteen seconds the recorder stops itself, and the tick then finds nothing to stop |
| `Speech` | `TicksCanBeStopped` | a second grant overwrites the interval's handle |
| `Speech`; Sides = {"page"}, MaxPress = 2 | `NobodyIsTalkedOver` | a card may start to speak while the microphone is open |
| `Speech` | `ClipsAreOfTheTextShown` | a clip that arrives after the text has changed is kept for the new text |
| `Assessment` | `AvoidAloneLeavesSafe` | only the wave height weighs enough to leave "safe" on its own |
| `Assessment` | `SilenceNeverReassures` P | without an adverse optional reading the score rises to the end of the scale, and the clipped interval is narrower |
| `Assessment`; Parts = {"score"} | `ClassDecidesAvoid` P | with thresholds of its own, a boat of the same class is safe where another must not go |
| `Assessment`; Parts = {"route"} | `AnyCostIsMinimised` | with a cheaper `cost_fn` the heuristic keeps the water's floor, and the route is not the cheapest |
| `Assessment`; Parts = {"route"} | `LineObeysTheFences` | the straight line is not asked about the cell it leaves from |
| `Assessment`; Parts = {"route"} | `CornersAreNotCut` | a diagonal leg passes between two fenced cells |
| `Assessment` | `EveryCrossingIsForeseen` | two crossings within one step leave the side unchanged |
| `Assessment`; Users = {ravi}, Members = {}, Validity = 3, MaxDocuments = 2 | `HarbourSaysOneThing` | a harbour's all-clear does not reference its closure |

## 10. Assumptions and limits

The bounds above are stated per run; each is a constant of the module that uses it and is
named in its declaration. Theorems are proved under the named `ASSUME`s of the modules, which
TLC evaluates in every run, and under the hypotheses that are written in their statements:
`RulePlansOnly` (section 3), `MaxOptions >= 3` and `Horizon % StepSeconds = 0` (section 8).

Every invariant, action property and refinement that a run checks is stated by a theorem. What
stays with TLC is liveness: `SevereIsStoodDown`, `RunReturns`, `FetchReturns` and `PressesEnd` rest on
fairness and on `ENABLED`, which the provers cannot reason about. So does the run of the finding.

Folds, sorts and the other recursive definitions of the model are written as recursive functions or
as choices of the library. The provers have no induction over an operator; where one is
needed it is done on a set, `InductionSet`: a set of numbers that holds 0 and with n also
n + 1 holds them all, itself a consequence of the well-foundedness of the naturals.

Next, in order: one model of a tick over `SpeechChain`, in which the three endings of synthesis
are those of the chain; an abstract specification of the fallback chain (a source is asked, answers or is
passed over), with `IngestChain` shown to implement it; the same for the observation table (a
set of facts that only grows, read as of a time).

## 11. Not modelled, and why

* Text: normalisation of numbers and dates, the gazetteer, the template catalogue, the CAP
  XML and its rendering, messages. What a template lacks is modelled where it decides
  something (an open slot refuses synthesis, an empty context skips an alert).
* Geometry: rings, cones, distances, containment and the shape of the boundary are floating
  point over coordinates. Their results are inputs of the rules and of `DriftWatch`.
* The alert audit, a log of what the scheduler did; the hand-off, a ranking by distance;
  bloom and slick detection, thresholds on one reading; the nearest shelter, a minimum.
* API routers other than speech, configuration, observability, storage adapters: I/O.
* In the page, a recorder that cannot be made or started after the permission was given, and two
  transcription requests that cross (section 7).
* Parsing of each adapter's format: the result per source is an input of `IngestChain`.
* `agents/`, a placeholder, and `scripts/`, one-off spikes.

`PROJECT.json` gives the status and the reason per component.
