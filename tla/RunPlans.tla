------------------------------ MODULE RunPlans ------------------------------
(***************************************************************************)
(* The plans of the orchestrator: a DAG over the fixed roster of agents,   *)
(* its validation, the plans of the rule planner, what a plan costs, and   *)
(* what is left of it when a step is pruned or has failed.                 *)
(*                                                                         *)
(* A plan is a record: the nodes it holds, what each depends on and which  *)
(* may be pruned.  The tools a step names are left out: they are checked   *)
(* when the plan is parsed and no node reads them.                         *)
(***************************************************************************)
EXTENDS Integers, FiniteSets, FiniteSetsExt

Status == {"succeeded", "failed", "skipped", "abstained"}

AgentNode == {"planner", "marine_data", "weather", "geospatial", "ecosystem",
              "risk", "route", "reliability", "verifier", "response"}

\* The order of the nodes' names, in which a layer runs.
NameOrder == [ecosystem |-> 1, geospatial |-> 2, marine_data |-> 3, planner |-> 4,
              reliability |-> 5, response |-> 6, risk |-> 7, route |-> 8,
              verifier |-> 9, weather |-> 10]

Unprunable == {"planner", "risk", "verifier", "response"}

Plan == [nodes    : SUBSET AgentNode,
         deps     : [AgentNode -> SUBSET AgentNode],
         optional : SUBSET AgentNode]

\* A plan written as the record of what each of its nodes depends on.
PlanOf(dependsOn, optional) ==
    [nodes    |-> DOMAIN dependsOn,
     deps     |-> [n \in AgentNode |-> IF n \in DOMAIN dependsOn THEN dependsOn[n] ELSE {}],
     optional |-> optional]

\* No set of nodes waits only on itself.
Acyclic(plan) ==
    \A S \in SUBSET plan.nodes : S # {} => \E n \in S : plan.deps[n] \cap S = {}

DagIsWellFormed(plan) ==
    /\ plan.nodes # {}
    /\ \A n \in plan.nodes : plan.deps[n] \subseteq plan.nodes \ {n}
    /\ Acyclic(plan)

\* The next layer with nodes that are resolved in it again.
MutReadyAgain(plan, resolved) ==
    {n \in plan.nodes : plan.deps[n] \subseteq resolved}

\* The next layer, once the nodes of the earlier ones are resolved.
Ready(plan, resolved) ==
    {n \in plan.nodes \ resolved : plan.deps[n] \subseteq resolved}

-----------------------------------------------------------------------------
(* Costs: tokens in hundreds, seconds in tenths, calls one by one.         *)

Dimension == {"tokens", "seconds", "api_calls"}

Spend(tokens, seconds, calls) ==
    [tokens |-> tokens, seconds |-> seconds, api_calls |-> calls]

Plus(a, b) == [d \in Dimension |-> a[d] + b[d]]

ExceededBy(budget, spend) == {d \in Dimension : spend[d] > budget[d]}

NodeCostEstimate ==
    [planner     |-> Spend(20, 20, 0), marine_data |-> Spend(0, 30, 2),
     weather     |-> Spend(0, 30, 2),  geospatial  |-> Spend(0, 10, 1),
     ecosystem   |-> Spend(15, 40, 2), risk        |-> Spend(0, 5, 0),
     route       |-> Spend(0, 20, 1),  reliability |-> Spend(0, 10, 1),
     verifier    |-> Spend(60, 50, 1), response    |-> Spend(40, 40, 0)]

EstimatedCost(nodes) ==
    [d \in Dimension |-> MapThenSumSet(LAMBDA n : NodeCostEstimate[n][d], nodes)]

\* What the pruner compares two steps by, then their names.
PruneKey(n) == NodeCostEstimate[n].tokens + 10 * NodeCostEstimate[n].api_calls

DearerThan(m, n) ==
    \/ PruneKey(m) > PruneKey(n)
    \/ PruneKey(m) = PruneKey(n) /\ NameOrder[m] > NameOrder[n]

Dearest(nodes) == {n \in nodes : \A m \in nodes \ {n} : DearerThan(n, m)}

\* Steps that lose an input when the nodes of dropped are pruned.
Orphans(plan, dropped) ==
    {n \in plan.nodes \ dropped : plan.deps[n] \cap dropped # {} /\ n \notin Unprunable}

\* What survives pruning waits for no node that was pruned.
Cleaned(plan) ==
    [plan EXCEPT !.deps = [n \in AgentNode |->
        IF n \in plan.nodes THEN plan.deps[n] \cap plan.nodes ELSE {}]]

-----------------------------------------------------------------------------
(* The rule planner. *)

Intent == {"safety", "fishing_zone", "route", "geofence", "causal", "unknown"}

RulePlan == [
    safety |-> PlanOf(
        [planner |-> {}, marine_data |-> {"planner"}, weather |-> {"planner"},
         reliability |-> {"marine_data", "weather"}, geospatial |-> {"planner"},
         risk |-> {"reliability"}, verifier |-> {"risk"}, response |-> {"verifier"}],
        {"geospatial"}),
    fishing_zone |-> PlanOf(
        [planner |-> {}, marine_data |-> {"planner"}, weather |-> {"planner"},
         geospatial |-> {"planner"}, ecosystem |-> {"marine_data"},
         risk |-> {"weather", "geospatial"}, verifier |-> {"risk"},
         response |-> {"verifier"}],
        {"ecosystem"}),
    route |-> PlanOf(
        [planner |-> {}, marine_data |-> {"planner"}, weather |-> {"planner"},
         geospatial |-> {"planner"}, route |-> {"marine_data", "weather", "geospatial"},
         risk |-> {"route"}, verifier |-> {"risk"}, response |-> {"verifier"}], {}),
    geofence |-> PlanOf(
        [planner |-> {}, geospatial |-> {"planner"}, risk |-> {"geospatial"},
         verifier |-> {"risk"}, response |-> {"verifier"}], {}),
    causal |-> PlanOf(
        [planner |-> {}, marine_data |-> {"planner"}, ecosystem |-> {"marine_data"},
         verifier |-> {"ecosystem"}, response |-> {"verifier"}], {}),
    unknown |-> PlanOf([planner |-> {}, response |-> {"planner"}], {})]

\* A language model's proposal is used when it validates, else the rule plan.
\* Output that does not parse is a proposal that does not validate.
PlanFor(intent, proposal) ==
    IF DagIsWellFormed(proposal) THEN proposal ELSE RulePlan[intent]

-----------------------------------------------------------------------------
(* Replanning. *)

ApprovedSubstitutions(n) ==
    IF n = "marine_data" THEN {"weather"}
    ELSE IF n = "weather" THEN {"marine_data"} ELSE {}

\* A step that loses its input to a substitute waits for nothing else.
MutReplannedForgetsOthers(plan, failed) ==
    LET kept == plan.nodes \ {failed}
        stand == ApprovedSubstitutions(failed) \cap plan.nodes
        Rewired(n) == IF failed \in plan.deps[n] THEN stand \ {n} ELSE plan.deps[n]
    IN [plan EXCEPT !.nodes = kept,
                    !.deps = [n \in AgentNode |-> IF n \in kept THEN Rewired(n) ELSE {}]]

\* The failed node leaves the plan; an approved substitute takes its place
\* in what others depend on, though never in its own dependencies.
Replanned(plan, failed) ==
    LET kept == plan.nodes \ {failed}
        stand == ApprovedSubstitutions(failed) \cap plan.nodes
        Rewired(n) == IF failed \in plan.deps[n]
                      THEN ((plan.deps[n] \ {failed}) \cup stand) \ {n}
                      ELSE plan.deps[n]
    IN [plan EXCEPT !.nodes = kept,
                    !.deps = [n \in AgentNode |-> IF n \in kept THEN Rewired(n) ELSE {}]]

CannotReplan(plan, failed) == failed \in Unprunable \/ plan.nodes = {failed}
=============================================================================
