----------------------------- MODULE RunEngine -----------------------------
(***************************************************************************)
(* One run of the orchestrator's DagEngine: the plan is pruned to the      *)
(* budget and executed layer by layer; a tool that fails stops the         *)
(* execution, the planner revises the plan and the engine starts over,     *)
(* keeping what has succeeded.                                             *)
(***************************************************************************)
EXTENDS RunPlans

CONSTANTS
    Proposals,        \* what a planner may propose, well formed or not
    Budgets,          \* the ceilings a query may run under
    FailureSeconds,   \* how long a tool may take to fail, in tenths
    SlowestFailure,   \* the longest of these
    MaxReplans,       \* MAX_REPLANS
    Absent            \* no message, no node

ASSUME RunAssumption ==
    /\ Proposals \subseteq Plan
    /\ Budgets \subseteq [Dimension -> Nat \ {0}]
    /\ SlowestFailure \in Nat
    /\ FailureSeconds \subseteq 0 .. SlowestFailure
    /\ MaxReplans \in Nat
    /\ Absent \notin Status \cup AgentNode

VARIABLES
    intent,    \* what the turn asks for
    missing,   \* a slot the intent requires could not be resolved
    budget,
    stage,     \* where the run stands
    accepted,  \* the plan the planner handed over
    plan,      \* the plan being pruned or executed
    pruned,    \* the nodes dropped to fit the budget
    visited,   \* the nodes this execution is past
    layer,     \* the rest of the layer being executed
    messages,  \* the status of each node's message
    spent,     \* the ledger
    failed,    \* the node that stopped the execution
    replans    \* how often the planner was asked again

vars == <<intent, missing, budget, stage, accepted, plan, pruned, visited,
          layer, messages, spent, failed, replans>>

query == <<intent, missing, budget, accepted>>

Ended == {"completed", "limit_reached", "no_substitute", "crashed"}
Stage == {"pruning", "running", "replanning"} \cup Ended

\* Only tokens are counted.
MutExhaustedTokensOnly == "tokens" \in ExceededBy(budget, spent)

Exhausted == ExceededBy(budget, spent) # {}

\* The query as the caller resolved and planned it.  An unknown intent
\* requires no slot.
Init ==
    /\ intent \in Intent
    /\ missing \in BOOLEAN
    /\ intent = "unknown" => ~missing
    /\ budget \in Budgets
    /\ accepted \in {PlanFor(intent, p) : p \in Proposals}
    /\ plan = accepted
    /\ stage = "pruning"
    /\ pruned = {}
    /\ visited = {}
    /\ layer = {}
    /\ messages = [n \in AgentNode |-> Absent]
    /\ spent = Spend(0, 0, 0)
    /\ failed = Absent
    /\ replans = 0

-----------------------------------------------------------------------------
(* Pruning. *)

OverBudget == ExceededBy(budget, EstimatedCost(plan.nodes)) # {}

MutCandidatesAnyOptional == plan.nodes \cap plan.optional

Candidates == (plan.nodes \cap plan.optional) \ Unprunable

Pruning == stage = "pruning" /\ OverBudget /\ Candidates # {}

\* The orphans of a dropped step leave without a record.
MutPruneStepHidesOrphans ==
    /\ Pruning
    /\ LET dropped == pruned \cup Dearest(Candidates)
           gone == dropped \cup Orphans(plan, dropped)
       IN  /\ pruned' = dropped
           /\ plan' = [plan EXCEPT !.nodes = @ \ gone]
    /\ UNCHANGED <<query, stage, visited, layer, messages, spent, failed, replans>>

PruneStep ==
    /\ Pruning
    /\ LET dropped == pruned \cup Dearest(Candidates)
           gone == dropped \cup Orphans(plan, dropped)
       IN  /\ pruned' = gone
           /\ plan' = [plan EXCEPT !.nodes = @ \ gone]
    /\ UNCHANGED <<query, stage, visited, layer, messages, spent, failed, replans>>

\* Start executing a plan from its first layer.
Begin(p) ==
    /\ plan' = p
    /\ visited' = {}
    /\ layer' = Ready(p, {})
    /\ stage' = "running"

\* The revised plan did not validate: the error leaves run().
Crash ==
    /\ stage' = "crashed"
    /\ UNCHANGED <<plan, visited, layer>>

StartPruned ==
    /\ stage = "pruning"
    /\ ~Pruning
    /\ IF DagIsWellFormed(Cleaned(plan)) THEN Begin(Cleaned(plan)) ELSE Crash
    /\ UNCHANGED <<query, pruned, messages, spent, failed, replans>>

-----------------------------------------------------------------------------
(* Executing one node. *)

Kernels == {"risk", "route"}

\* Every node but these three calls a tool, which may fail.
CallsTool == AgentNode \ {"planner", "verifier", "response"}

Saw(status) == \E n \in AgentNode : messages[n] = status

\* The verifier looks at one kind of bad news only.
MutVerifierIgnoresFailures == IF Saw("abstained") THEN "abstained" ELSE "succeeded"
\* The verifier counts every abstention and failure on record, its own and
\* the response's of an earlier execution included.
VerifierStatus == IF Saw("abstained") \/ Saw("failed") THEN "abstained" ELSE "succeeded"

Sufficient == messages["verifier"] = "succeeded"

\* The response answers whatever the verifier said, unless it is missing.
MutResponseNeverAbstains ==
    IF missing \/ messages["verifier"] # Absent THEN "succeeded" ELSE "abstained"

ResponseStatus == IF missing \/ Sufficient THEN "succeeded" ELSE "abstained"

NodeStatuses(n) ==
    IF n \in Kernels THEN {"succeeded", "abstained"}
    ELSE IF n = "verifier" THEN {VerifierStatus}
    ELSE IF n = "response" THEN {ResponseStatus}
    ELSE {"succeeded"}

ActualCost ==
    [planner     |-> Spend(12, 5, 0), marine_data |-> Spend(0, 10, 1),
     weather     |-> Spend(0, 10, 1), geospatial  |-> Spend(0, 4, 1),
     ecosystem   |-> Spend(8, 15, 1), risk        |-> Spend(0, 2, 0),
     route       |-> Spend(0, 8, 1),  reliability |-> Spend(0, 3, 1),
     verifier    |-> Spend(9, 5, 0),  response    |-> Spend(25, 15, 0)]

\* A question and an abstention are shorter than an answer.
CostOf(n) ==
    IF n = "response" /\ (missing \/ ~Sufficient) THEN Spend(6, 4, 0) ELSE ActualCost[n]

\* The engine moves past node n, into the next layer after the last of one.
Advance(n) ==
    LET rest == layer \ {n} IN
    /\ visited' = visited \cup {n}
    /\ layer' = IF rest # {} THEN rest ELSE Ready(plan, visited \cup {n})

\* A layer runs in the order of the nodes' names.
Arrives(n) ==
    /\ stage = "running"
    /\ n \in layer
    /\ \A m \in layer : NameOrder[n] <= NameOrder[m]

AlreadySatisfied(n) ==
    /\ Arrives(n)
    /\ messages[n] = "succeeded"
    /\ Advance(n)
    /\ UNCHANGED <<query, stage, plan, pruned, messages, spent, failed, replans>>

\* The budget is looked at before what is already there.
MutSkipBeforeSatisfied(n) ==
    /\ Arrives(n)
    /\ Exhausted
    /\ messages' = [messages EXCEPT ![n] = "skipped"]
    /\ Advance(n)
    /\ UNCHANGED <<query, stage, plan, pruned, spent, failed, replans>>

SkipExhausted(n) ==
    /\ Arrives(n)
    /\ messages[n] # "succeeded"
    /\ Exhausted
    /\ messages' = [messages EXCEPT ![n] = "skipped"]
    /\ Advance(n)
    /\ UNCHANGED <<query, stage, plan, pruned, spent, failed, replans>>

Starts(n) == Arrives(n) /\ messages[n] # "succeeded" /\ ~Exhausted

RunNode(n) ==
    /\ Starts(n)
    /\ \E status \in NodeStatuses(n) : messages' = [messages EXCEPT ![n] = status]
    /\ spent' = Plus(spent, CostOf(n))
    /\ Advance(n)
    /\ UNCHANGED <<query, stage, plan, pruned, failed, replans>>

ToolFails(n) ==
    /\ Starts(n)
    /\ n \in CallsTool
    /\ \E seconds \in FailureSeconds : spent' = Plus(spent, Spend(0, seconds, 1))
    /\ messages' = [messages EXCEPT ![n] = "failed"]
    /\ failed' = n
    /\ stage' = "replanning"
    /\ UNCHANGED <<query, plan, pruned, visited, layer, replans>>

Complete ==
    /\ stage = "running"
    /\ layer = {}
    /\ stage' = "completed"
    /\ UNCHANGED <<query, plan, pruned, visited, layer, messages, spent, failed, replans>>

-----------------------------------------------------------------------------
(* Replanning. *)

GiveUp ==
    /\ stage = "replanning"
    /\ replans >= MaxReplans
    /\ stage' = "limit_reached"
    /\ UNCHANGED <<query, plan, pruned, visited, layer, messages, spent, failed, replans>>

\* Nobody counts the replans.
MutReplanUnbounded ==
    /\ stage = "replanning"
    /\ replans' = replans + 1
    /\ LET revised == Replanned(plan, failed) IN
       \/ /\ CannotReplan(plan, failed)
          /\ stage' = "no_substitute"
          /\ UNCHANGED <<plan, visited, layer>>
       \/ /\ ~CannotReplan(plan, failed)
          /\ IF DagIsWellFormed(revised) THEN Begin(revised) ELSE Crash
    /\ UNCHANGED <<query, pruned, messages, spent, failed>>

Replan ==
    /\ stage = "replanning"
    /\ replans < MaxReplans
    /\ replans' = replans + 1
    /\ LET revised == Replanned(plan, failed) IN
       \/ /\ CannotReplan(plan, failed)
          /\ stage' = "no_substitute"
          /\ UNCHANGED <<plan, visited, layer>>
       \/ /\ ~CannotReplan(plan, failed)
          /\ IF DagIsWellFormed(revised) THEN Begin(revised) ELSE Crash
    /\ UNCHANGED <<query, pruned, messages, spent, failed>>

ExecuteNode(n) == AlreadySatisfied(n) \/ SkipExhausted(n) \/ RunNode(n) \/ ToolFails(n)

Next ==
    \/ PruneStep
    \/ StartPruned
    \/ \E n \in AgentNode : ExecuteNode(n)
    \/ Complete
    \/ GiveUp
    \/ Replan

Spec == Init /\ [][Next]_vars

\* run() is one call on one thread: the interpreter executes its next step.
LiveSpec == Spec /\ WF_vars(Next)

-----------------------------------------------------------------------------
(* What the engine must keep over a whole run: pruning, several            *)
(* executions, replans and a ledger that may run out between any two nodes.*)

\* What the response node said, read off its message.
ResponseKind ==
    IF messages["response"] = Absent THEN "none"
    ELSE IF messages["response"] = "skipped" THEN "silence"
    ELSE IF messages["response"] = "abstained" THEN "abstention"
    ELSE IF missing THEN "question" ELSE "answer"

TypeOK ==
    /\ intent \in Intent
    /\ missing \in BOOLEAN
    /\ budget \in [Dimension -> Nat \ {0}]
    /\ stage \in Stage
    /\ accepted \in Plan
    /\ plan \in Plan
    /\ pruned \subseteq AgentNode
    /\ visited \subseteq AgentNode
    /\ layer \subseteq AgentNode
    /\ messages \in [AgentNode -> Status \cup {Absent}]
    /\ spent \in [Dimension -> Nat]
    /\ failed \in AgentNode \cup {Absent}
    /\ replans \in 0 .. MaxReplans

\* An answer stands on a whole plan: whenever the run of a rule plan has
\* answered, every step of the plan it ended with has succeeded, and nothing
\* that failed, abstained or was skipped along the way is missing behind it.
\* The budget may run out and the plan be revised between any two steps.
AnswerIsWhole ==
    ResponseKind = "answer" =>
        /\ \A n \in plan.nodes : messages[n] = "succeeded"
        /\ ~Saw("failed") /\ ~Saw("abstained") /\ ~Saw("skipped")

\* The ledger is read before each node and written after it, and a failed
\* tool's time is only known when it has failed: a run passes each ceiling
\* by less than its one dearest step, however often it replans.
LargestStep(d) ==
    IF d = "tokens" THEN 25
    ELSE IF d = "api_calls" THEN 1
    ELSE IF SlowestFailure > 15 THEN SlowestFailure ELSE 15

OverrunIsOneStep == \A d \in Dimension : spent[d] <= budget[d] + LargestStep(d)

\* Pruning and replanning never cost the plan its gate: each unprunable step
\* of the accepted plan is in every plan that is executed.
GuardsKept == accepted.nodes \cap Unprunable \subseteq plan.nodes

\* A step that has a message, or is on record as pruned.
Settled(n) == messages[n] # Absent \/ n \in pruned

\* A pruned step is recorded, not hidden: when an execution completes, each
\* step of the accepted plan has a message or is listed as pruned.
AllAccounted ==
    stage = "completed" => \A n \in accepted.nodes : Settled(n)

\* A node runs only after each step the accepted plan made it wait for has
\* been settled: it has a message or was pruned, whatever the replans did to
\* the layers since.
NothingRunsEarly ==
    [][\A n \in AgentNode :
         messages'[n] # messages[n] =>
            \A d \in accepted.deps[n] : Settled(d)]_vars

\* What has succeeded is never run again nor overwritten by a later
\* execution: neither a failure nor an empty budget takes a result back.
SuccessStands ==
    [][\A n \in AgentNode : messages[n] = "succeeded" => messages'[n] = "succeeded"]_vars

\* A run returns: a failing tool sends the planner around a bounded number
\* of times, and each execution passes each node once.
RunReturns == <>(stage \in Ended)

-----------------------------------------------------------------------------
Verdict == INSTANCE RunVerdict WITH
    asks    <- missing,
    gate    <- IF messages["verifier"] = Absent THEN "untried"
               ELSE IF messages["verifier"] = "succeeded" THEN "passed" ELSE "shut",
    verdict <- ResponseKind,
    over    <- stage \in Ended

\* The gate judges once and the verdict stands: the engine implements
\* RunVerdict, for any plan that validates.
ImplementsVerdict == Verdict!VerdictSpec

-----------------------------------------------------------------------------
(* What the proofs rest on. *)

\* Only tools fail; a response that abstained did so before any question and
\* over a gate that had not passed; a skip means that the ledger is spent.
GateInv ==
    /\ \A n \in AgentNode \ CallsTool : messages[n] # "failed"
    /\ messages["response"] = "abstained" => ~missing /\ ~Sufficient
    /\ Saw("skipped") => Exhausted

\* Where an execution stands in its plan.
PathInv ==
    /\ stage \in {"running", "replanning"} => DagIsWellFormed(plan)
    /\ stage = "running" =>
          /\ \A n \in visited : messages[n] # Absent
          /\ \A n \in layer : n \in plan.nodes \ visited /\ plan.deps[n] \subseteq visited
          /\ layer = {} => Ready(plan, visited) = {}
    /\ stage = "replanning" => failed \in plan.nodes /\ messages[failed] = "failed"
    /\ stage = "completed" => \A n \in plan.nodes : messages[n] # Absent

\* How the plan in hand relates to the one that was accepted.
LinkInv ==
    /\ \A n \in accepted.nodes : accepted.deps[n] \subseteq accepted.nodes
    /\ \A n \in accepted.nodes : n \in plan.nodes \/ Settled(n)
    /\ plan.nodes \subseteq accepted.nodes
    /\ pruned \cap Unprunable = {}
    /\ GuardsKept
    /\ IF stage = "pruning" THEN plan.deps = accepted.deps
       ELSE \A n \in plan.nodes : \A d \in accepted.deps[n] :
               d \in plan.deps[n] \/ Settled(d)

RunInv == GateInv /\ PathInv /\ LinkInv /\ OverrunIsOneStep

-----------------------------------------------------------------------------
\* What the orchestrator's comments say of a run, taken at their word: the
\* code keeps none of these.

\* Validation is the authority that makes a proposed plan safe, and the gate
\* stops a thin answer: no answer is given where a kernel has abstained.
NoAnswerOverAKernel ==
    ResponseKind = "answer" => \A n \in Kernels : messages[n] # "abstained"

\* A tool that is down deserves a fallback, not a crash.
ToolFailuresAreSurvived == stage = "crashed" => failed = Absent

\* Dependents of a pruned step are dropped too, unless they are unprunable.
DependentsDropped ==
    stage = "running" =>
        \A n \in plan.nodes \ Unprunable : accepted.deps[n] \cap pruned = {}

\* When nothing may stand in for the failed step the run ends in an
\* abstention.
UnreplannableAbstains == stage = "no_substitute" => ResponseKind = "abstention"

\* An intent that is unclear is answered with a question.
UnclearIntentAsks ==
    intent = "unknown" /\ stage = "completed" => ResponseKind \in {"question", "silence"}

\* The verifier abstains over a kernel's abstention or a required step's
\* failure, not over the failure of an optional one.
OnlyRequiredFailuresShutTheGate ==
    messages["verifier"] = "abstained" =>
        \E n \in AgentNode :
            \/ messages[n] = "abstained" /\ n # "verifier"
            \/ messages[n] = "failed" /\ n \notin accepted.optional

\* No new work starts once a ceiling is hit.
StopsAtACeiling ==
    [][spent' # spent => \A d \in Dimension : spent[d] < budget[d]]_vars
=============================================================================
