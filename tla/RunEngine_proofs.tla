--------------------------- MODULE RunEngine_proofs ---------------------------
(***************************************************************************)
(* Proofs about the engine for every set of proposals that may be handed   *)
(* to it, every budget, and every bound on replans and on failing tools.   *)
(***************************************************************************)
EXTENDS RunEngine, TLAPS

-----------------------------------------------------------------------------
(* The plans. *)

\* A plan that only depends on its own nodes.
Closed(p) ==
    /\ p \in Plan
    /\ \A n \in p.nodes : p.deps[n] \subseteq p.nodes

\* Writing a plan as a record of dependencies gives a plan.
LEMMA PlanOfIsClosed ==
    ASSUME NEW f, DOMAIN f \subseteq AgentNode,
           \A n \in DOMAIN f : f[n] \subseteq DOMAIN f,
           NEW optional \in SUBSET AgentNode
    PROVE  Closed(PlanOf(f, optional))
  <1> DEFINE p == PlanOf(f, optional)
  <1>1. p.deps \in [AgentNode -> SUBSET AgentNode]
    BY DEF PlanOf
  <1>2. p \in Plan
    BY <1>1 DEF PlanOf, Plan
  <1>3. ASSUME NEW n \in p.nodes PROVE p.deps[n] \subseteq p.nodes
    BY <1>3 DEF PlanOf
  <1> QED BY <1>2, <1>3 DEF Closed

\* The six plans of the rule planner are closed.
LEMMA RulePlansAreClosed == \A i \in Intent : Closed(RulePlan[i])
  <1>1. Closed(RulePlan["safety"])
    BY PlanOfIsClosed DEF RulePlan, AgentNode
  <1>2. Closed(RulePlan["fishing_zone"])
    BY PlanOfIsClosed DEF RulePlan, AgentNode
  <1>3. Closed(RulePlan["route"])
    BY PlanOfIsClosed DEF RulePlan, AgentNode
  <1>4. Closed(RulePlan["geofence"])
    BY PlanOfIsClosed DEF RulePlan, AgentNode
  <1>5. Closed(RulePlan["causal"])
    BY PlanOfIsClosed DEF RulePlan, AgentNode
  <1>6. Closed(RulePlan["unknown"])
    BY PlanOfIsClosed DEF RulePlan, AgentNode
  <1> QED BY <1>1, <1>2, <1>3, <1>4, <1>5, <1>6 DEF Intent

\* Whatever is proposed, the plan that is accepted is closed.
LEMMA AcceptedIsClosed ==
    ASSUME NEW i \in Intent, NEW q \in Proposals
    PROVE  Closed(PlanFor(i, q))
  <1>1. CASE DagIsWellFormed(q)
    BY <1>1, RunAssumption DEF PlanFor, DagIsWellFormed, Closed
  <1>2. CASE ~DagIsWellFormed(q)
    BY <1>2, RulePlansAreClosed DEF PlanFor
  <1> QED BY <1>1, <1>2

\* Pruning and replanning turn plans into plans.
LEMMA CleanedIsAPlan == ASSUME NEW p \in Plan PROVE Cleaned(p) \in Plan
  BY DEF Cleaned, Plan

LEMMA ReplannedIsAPlan ==
    ASSUME NEW p \in Plan, NEW n \in AgentNode PROVE Replanned(p, n) \in Plan
  <1> DEFINE deps == [m \in AgentNode |->
                        IF m \in p.nodes \ {n}
                        THEN IF n \in p.deps[m]
                             THEN ((p.deps[m] \ {n})
                                   \cup (ApprovedSubstitutions(n) \cap p.nodes)) \ {m}
                             ELSE p.deps[m]
                        ELSE {}]
  <1>1. deps \in [AgentNode -> SUBSET AgentNode]
    BY DEF Plan
  <1>2. Replanned(p, n) = [p EXCEPT !.nodes = p.nodes \ {n}, !.deps = deps]
    BY DEF Replanned
  <1> QED BY <1>1, <1>2 DEF Plan

-----------------------------------------------------------------------------
(* Types. *)

LEMMA CostsAreSpends ==
    ASSUME NEW n \in AgentNode
    PROVE  /\ CostOf(n) \in [Dimension -> Nat]
           /\ \A d \in Dimension : CostOf(n)[d] <= LargestStep(d)
  BY RunAssumption DEF CostOf, ActualCost, Spend, Dimension, AgentNode, LargestStep

LEMMA FailuresAreSpends ==
    ASSUME NEW seconds \in FailureSeconds
    PROVE  /\ Spend(0, seconds, 1) \in [Dimension -> Nat]
           /\ \A d \in Dimension : Spend(0, seconds, 1)[d] <= LargestStep(d)
  BY RunAssumption DEF Spend, Dimension, LargestStep

LEMMA ResponseIsANode == {"response", "verifier"} \subseteq AgentNode
  BY DEF AgentNode

LEMMA StatusesAreStatuses == \A n \in AgentNode : NodeStatuses(n) \subseteq Status
  BY DEF NodeStatuses, VerifierStatus, ResponseStatus, Status

LEMMA ReadyIsInPlan ==
    ASSUME NEW p \in Plan, NEW S
    PROVE  Ready(p, S) \subseteq AgentNode /\ Ready(p, S) \subseteq p.nodes
  BY DEF Ready, Plan

\* A failed node is known while the planner is asked.
TypeInv == TypeOK /\ (stage = "replanning" => failed \in AgentNode)

LEMMA TypeInit == Init => TypeInv
  <1> SUFFICES ASSUME Init PROVE TypeInv
    OBVIOUS
  <1>1. accepted \in Plan
    BY AcceptedIsClosed DEF Init, Closed
  <1>2. spent \in [Dimension -> Nat]
    BY DEF Init, Spend, Dimension
  <1>3. budget \in [Dimension -> Nat \ {0}]
    BY RunAssumption DEF Init
  <1> QED BY <1>1, <1>2, <1>3, RunAssumption DEF Init, TypeInv, TypeOK, Stage, Ended

LEMMA TypeStep == TypeInv /\ [Next]_vars => TypeInv'
  <1> SUFFICES ASSUME TypeInv, [Next]_vars PROVE TypeInv'
    OBVIOUS
  <1> USE DEF TypeInv, TypeOK
  <1>1. CASE PruneStep
    <2>1. plan' \in Plan
      BY <1>1 DEF PruneStep, Plan
    <2>2. pruned' \subseteq AgentNode
      BY <1>1 DEF PruneStep, Orphans, Dearest, Candidates, Plan
    <2> QED BY <1>1, <2>1, <2>2 DEF PruneStep, query
  <1>2. CASE StartPruned
    BY <1>2, CleanedIsAPlan, ReadyIsInPlan DEF StartPruned, Begin, Crash, query, Stage, Ended
  <1>3. ASSUME NEW n \in AgentNode, AlreadySatisfied(n) PROVE TypeInv'
    BY <1>3, ReadyIsInPlan DEF AlreadySatisfied, Arrives, Advance, query
  <1>4. ASSUME NEW n \in AgentNode, SkipExhausted(n) PROVE TypeInv'
    BY <1>4, ReadyIsInPlan DEF SkipExhausted, Arrives, Advance, query, Status
  <1>5. ASSUME NEW n \in AgentNode, RunNode(n) PROVE TypeInv'
    <2>1. spent' \in [Dimension -> Nat]
      BY <1>5, CostsAreSpends DEF RunNode, Plus
    <2>2. messages' \in [AgentNode -> Status \cup {Absent}]
      BY <1>5, StatusesAreStatuses DEF RunNode
    <2> QED BY <1>5, <2>1, <2>2, ReadyIsInPlan DEF RunNode, Starts, Arrives, Advance, query
  <1>6. ASSUME NEW n \in AgentNode, ToolFails(n) PROVE TypeInv'
    <2>1. spent' \in [Dimension -> Nat]
      BY <1>6, FailuresAreSpends DEF ToolFails, Plus
    <2> QED BY <1>6, <2>1 DEF ToolFails, query, Status, Stage
  <1>7. CASE Complete
    BY <1>7 DEF Complete, query, Stage, Ended
  <1>8. CASE GiveUp
    BY <1>8 DEF GiveUp, query, Stage, Ended
  <1>9. CASE Replan
    <2>1. Replanned(plan, failed) \in Plan
      BY <1>9, ReplannedIsAPlan DEF Replan
    <2>2. replans' \in 0 .. MaxReplans
      BY <1>9, RunAssumption DEF Replan
    <2> QED BY <1>9, <2>1, <2>2, ReadyIsInPlan DEF Replan, Begin, Crash, query, Stage, Ended
  <1>10. CASE UNCHANGED vars
    BY <1>10 DEF vars
  <1> QED BY <1>1, <1>2, <1>3, <1>4, <1>5, <1>6, <1>7, <1>8, <1>9, <1>10
          DEF Next, ExecuteNode

\* The engine's variables keep their types, for every proposal and budget.
THEOREM TypeCorrect == Spec => []TypeOK
  <1>1. TypeInv => TypeOK
    BY DEF TypeInv
  <1> QED BY <1>1, TypeInit, TypeStep, PTL DEF Spec

-----------------------------------------------------------------------------
(* The gate. *)

LEMMA GateStep == TypeInv /\ GateInv /\ [Next]_vars => GateInv'
  <1> SUFFICES ASSUME TypeInv, GateInv, [Next]_vars PROVE GateInv'
    OBVIOUS
  <1> USE DEF TypeInv, TypeOK, GateInv, Saw, Sufficient, Exhausted, query
  <1>1. CASE PruneStep
    BY <1>1 DEF PruneStep
  <1>2. CASE StartPruned
    BY <1>2 DEF StartPruned
  <1>3. ASSUME NEW n \in AgentNode, AlreadySatisfied(n) PROVE GateInv'
    BY <1>3 DEF AlreadySatisfied
  <1>4. ASSUME NEW n \in AgentNode, SkipExhausted(n) PROVE GateInv'
    BY <1>4 DEF SkipExhausted
  <1>5. ASSUME NEW n \in AgentNode, RunNode(n) PROVE GateInv'
    <2>1. PICK status \in NodeStatuses(n) : messages' = [messages EXCEPT ![n] = status]
      BY <1>5 DEF RunNode
    <2>2. status \in {"succeeded", "abstained"}
      BY <2>1 DEF NodeStatuses, VerifierStatus, ResponseStatus
    <2>3. ~Saw("skipped") /\ ~Saw("skipped")'
      BY <1>5, <2>1, <2>2 DEF RunNode, Starts
    <2>4. (\A m \in AgentNode \ CallsTool : messages[m] # "failed")'
      BY <2>1, <2>2
    <2>5. ASSUME (messages["response"] = "abstained")'
          PROVE  (~missing /\ ~Sufficient)'
      <3>1. CASE n = "response"
        BY <1>5, <2>1, <2>5, <3>1, ResponseIsANode DEF RunNode, NodeStatuses, ResponseStatus, Kernels
      <3>2. CASE n = "verifier"
        BY <1>5, <2>1, <2>5, <3>2, ResponseIsANode DEF RunNode, NodeStatuses, VerifierStatus, Kernels
      <3>3. CASE n \notin {"response", "verifier"}
        BY <1>5, <2>1, <2>5, <3>3 DEF RunNode
      <3> QED BY <3>1, <3>2, <3>3
    <2> QED BY <2>3, <2>4, <2>5
  <1>6. ASSUME NEW n \in AgentNode, ToolFails(n) PROVE GateInv'
    <2>1. n \notin {"planner", "verifier", "response"} /\ ~Saw("skipped")
      BY <1>6 DEF ToolFails, Starts, CallsTool
    <2> QED BY <1>6, <2>1 DEF ToolFails
  <1>7. CASE Complete
    BY <1>7 DEF Complete
  <1>8. CASE GiveUp
    BY <1>8 DEF GiveUp
  <1>9. CASE Replan
    BY <1>9 DEF Replan
  <1>10. CASE UNCHANGED vars
    BY <1>10 DEF vars
  <1> QED BY <1>1, <1>2, <1>3, <1>4, <1>5, <1>6, <1>7, <1>8, <1>9, <1>10
          DEF Next, ExecuteNode

-----------------------------------------------------------------------------
(* The ledger. *)

LEMMA LedgerStep == TypeInv /\ OverrunIsOneStep /\ [Next]_vars => OverrunIsOneStep'
  <1> SUFFICES ASSUME TypeInv, OverrunIsOneStep, [Next]_vars,
                      NEW d \in Dimension
               PROVE  spent'[d] <= budget'[d] + LargestStep(d)
    BY DEF OverrunIsOneStep
  <1> USE DEF TypeInv, TypeOK, query
  <1>1. budget' = budget
    BY DEF Next, ExecuteNode, vars, PruneStep, StartPruned, AlreadySatisfied, SkipExhausted,
           RunNode, ToolFails, Complete, GiveUp, Replan
  <1>2. CASE spent' = spent
    BY <1>1, <1>2 DEF OverrunIsOneStep
  <1>3. ASSUME NEW n \in AgentNode, RunNode(n) \/ ToolFails(n)
        PROVE  spent'[d] <= budget'[d] + LargestStep(d)
    <2>1. spent[d] <= budget[d]
      BY <1>3 DEF RunNode, ToolFails, Starts, Exhausted, ExceededBy
    <2>2. CASE RunNode(n)
      <3>1. spent'[d] = spent[d] + CostOf(n)[d]
        BY <2>2 DEF RunNode, Plus
      <3>2. CostOf(n)[d] \in Nat /\ CostOf(n)[d] <= LargestStep(d)
        BY CostsAreSpends
      <3>3. LargestStep(d) \in Nat
        BY RunAssumption DEF LargestStep
      <3> QED BY <1>1, <2>1, <3>1, <3>2, <3>3
    <2>3. CASE ToolFails(n)
      <3>1. PICK seconds \in FailureSeconds : spent' = Plus(spent, Spend(0, seconds, 1))
        BY <2>3 DEF ToolFails
      <3>2. spent'[d] = spent[d] + Spend(0, seconds, 1)[d]
        BY <3>1 DEF Plus
      <3>3. /\ Spend(0, seconds, 1)[d] \in Nat
            /\ Spend(0, seconds, 1)[d] <= LargestStep(d)
        BY FailuresAreSpends
      <3>4. LargestStep(d) \in Nat
        BY RunAssumption DEF LargestStep
      <3> QED BY <1>1, <2>1, <3>2, <3>3, <3>4
    <2> QED BY <1>3, <2>2, <2>3
  <1>4. \/ spent' = spent
        \/ \E n \in AgentNode : RunNode(n) \/ ToolFails(n)
    BY DEF Next, ExecuteNode, vars, PruneStep, StartPruned, AlreadySatisfied, SkipExhausted,
           Complete, GiveUp, Replan
  <1> QED BY <1>2, <1>3, <1>4

-----------------------------------------------------------------------------
(* The way through a plan. *)

\* Where an execution begins.
LEMMA BeginPath ==
    ASSUME TypeInv, NEW p \in Plan, DagIsWellFormed(p), Begin(p)
    PROVE  PathInv'
  BY DEF Begin, PathInv, Ready, DagIsWellFormed

\* A step past node n, whose message is there.
LEMMA AdvancePath ==
    ASSUME TypeInv, PathInv, NEW n \in AgentNode, stage = "running", n \in layer,
           Advance(n), plan' = plan, stage' = stage, messages'[n] # Absent,
           \A m \in AgentNode \ {n} : messages'[m] = messages[m]
    PROVE  PathInv'
  <1> USE DEF TypeInv, TypeOK, PathInv
  <1>1. (\A m \in visited : messages[m] # Absent)'
    BY DEF Advance
  <1>2. (\A m \in layer : m \in plan.nodes \ visited /\ plan.deps[m] \subseteq visited)'
    BY DEF Advance, Ready
  <1>3. (layer = {} => Ready(plan, visited) = {})'
    BY DEF Advance, Ready
  <1> QED BY <1>1, <1>2, <1>3 DEF DagIsWellFormed, Acyclic

\* An execution that ends without a failure has passed every node.
LEMMA PastTheLastLayer ==
    ASSUME PathInv, plan \in Plan, stage = "running", layer = {}
    PROVE  plan.nodes \subseteq visited
  <1> SUFFICES ASSUME plan.nodes \ visited # {} PROVE FALSE
    OBVIOUS
  <1>1. DagIsWellFormed(plan) /\ Ready(plan, visited) = {}
    BY DEF PathInv
  <1>2. plan.nodes \ visited \in SUBSET plan.nodes
    OBVIOUS
  <1>3. PICK n \in plan.nodes \ visited : plan.deps[n] \cap (plan.nodes \ visited) = {}
    BY <1>1, <1>2 DEF DagIsWellFormed, Acyclic
  <1>4. plan.deps[n] \subseteq plan.nodes
    BY <1>1 DEF DagIsWellFormed
  <1>5. n \in Ready(plan, visited)
    BY <1>3, <1>4 DEF Ready
  <1> QED BY <1>1, <1>5

LEMMA PathStep == TypeInv /\ PathInv /\ [Next]_vars => PathInv'
  <1> SUFFICES ASSUME TypeInv, PathInv, [Next]_vars PROVE PathInv'
    OBVIOUS
  <1> USE DEF TypeInv, TypeOK
  <1>1. CASE PruneStep
    BY <1>1 DEF PruneStep, Pruning, PathInv
  <1>2. CASE StartPruned
    <2>1. CASE DagIsWellFormed(Cleaned(plan))
      BY <1>2, <2>1, CleanedIsAPlan, BeginPath DEF StartPruned
    <2>2. CASE ~DagIsWellFormed(Cleaned(plan))
      BY <1>2, <2>2 DEF StartPruned, Crash, PathInv
    <2> QED BY <2>1, <2>2
  <1>3. ASSUME NEW n \in AgentNode, AlreadySatisfied(n) PROVE PathInv'
    BY <1>3, AdvancePath, RunAssumption DEF AlreadySatisfied, Arrives, Status
  <1>4. ASSUME NEW n \in AgentNode, SkipExhausted(n) PROVE PathInv'
    BY <1>4, AdvancePath, RunAssumption DEF SkipExhausted, Arrives, Status
  <1>5. ASSUME NEW n \in AgentNode, RunNode(n) PROVE PathInv'
    <2>1. PICK status \in Status : messages' = [messages EXCEPT ![n] = status]
      BY <1>5, StatusesAreStatuses DEF RunNode
    <2>2. /\ messages'[n] # Absent
          /\ \A m \in AgentNode \ {n} : messages'[m] = messages[m]
      BY <2>1, RunAssumption
    <2> QED BY <1>5, <2>2, AdvancePath DEF RunNode, Starts, Arrives
  <1>6. ASSUME NEW n \in AgentNode, ToolFails(n) PROVE PathInv'
    BY <1>6 DEF ToolFails, Starts, Arrives, PathInv, DagIsWellFormed, Acyclic
  <1>7. CASE Complete
    <2>1. plan.nodes \subseteq visited
      BY <1>7, PastTheLastLayer DEF Complete
    <2> QED BY <1>7, <2>1 DEF Complete, PathInv
  <1>8. CASE GiveUp
    BY <1>8 DEF GiveUp, PathInv
  <1>9. CASE Replan
    <2>1. CASE ~CannotReplan(plan, failed) /\ DagIsWellFormed(Replanned(plan, failed))
               /\ Begin(Replanned(plan, failed))
      BY <1>9, <2>1, ReplannedIsAPlan, BeginPath DEF Replan
    <2>2. CASE stage' = "no_substitute" \/ stage' = "crashed"
      BY <2>2 DEF PathInv
    <2> QED BY <1>9, <2>1, <2>2 DEF Replan, Crash
  <1>10. CASE UNCHANGED vars
    BY <1>10 DEF vars, PathInv, DagIsWellFormed, Acyclic, Ready
  <1> QED BY <1>1, <1>2, <1>3, <1>4, <1>5, <1>6, <1>7, <1>8, <1>9, <1>10
          DEF Next, ExecuteNode

-----------------------------------------------------------------------------
(* The plan in hand and the plan that was accepted. *)

\* Steps that only add messages keep the link.
LEMMA LinkKept ==
    ASSUME TypeInv, LinkInv, plan' = plan, accepted' = accepted, pruned' = pruned,
           stage # "pruning", stage' # "pruning",
           \A n \in AgentNode : messages[n] # Absent => messages'[n] # Absent
    PROVE  LinkInv'
  BY DEF LinkInv, Settled, GuardsKept, TypeInv, TypeOK, Plan

LEMMA LinkStep == TypeInv /\ PathInv /\ LinkInv /\ [Next]_vars => LinkInv'
  <1> SUFFICES ASSUME TypeInv, PathInv, LinkInv, [Next]_vars PROVE LinkInv'
    OBVIOUS
  <1> USE DEF TypeInv, TypeOK, query
  <1>1. CASE PruneStep
    <2>1. PICK gone : /\ gone \cap Unprunable = {}
                      /\ pruned' = gone
                      /\ pruned \subseteq gone
                      /\ plan' = [plan EXCEPT !.nodes = @ \ gone]
      BY <1>1 DEF PruneStep, Dearest, Candidates, Orphans, LinkInv
    <2>2. plan'.nodes = plan.nodes \ gone /\ plan'.deps = plan.deps
      BY <2>1 DEF Plan
    <2> QED BY <1>1, <2>1, <2>2 DEF PruneStep, Pruning, LinkInv, Settled, GuardsKept
  <1>2. CASE StartPruned
    <2> DEFINE c == Cleaned(plan)
    <2>1. /\ c.nodes = plan.nodes
          /\ \A n \in plan.nodes : c.deps[n] = plan.deps[n] \cap plan.nodes
      BY DEF Cleaned, Plan
    <2>2. \A n \in plan.nodes : \A d \in accepted.deps[n] :
            d \in plan.nodes \/ Settled(d)
      BY <1>2 DEF StartPruned, LinkInv
    <2>3. CASE plan' = c /\ stage' = "running"
      BY <1>2, <2>1, <2>2, <2>3 DEF StartPruned, LinkInv, Settled, GuardsKept
    <2>4. CASE plan' = plan /\ stage' = "crashed"
      BY <1>2, <2>2, <2>4 DEF StartPruned, LinkInv, Settled, GuardsKept
    <2> QED BY <1>2, <2>3, <2>4 DEF StartPruned, Begin, Crash
  <1>3. ASSUME NEW n \in AgentNode, AlreadySatisfied(n) PROVE LinkInv'
    BY <1>3, LinkKept DEF AlreadySatisfied, Arrives
  <1>4. ASSUME NEW n \in AgentNode, SkipExhausted(n) PROVE LinkInv'
    BY <1>4, LinkKept, RunAssumption DEF SkipExhausted, Arrives, Status
  <1>5. ASSUME NEW n \in AgentNode, RunNode(n) PROVE LinkInv'
    <2>1. PICK status \in Status : messages' = [messages EXCEPT ![n] = status]
      BY <1>5, StatusesAreStatuses DEF RunNode
    <2>2. \A m \in AgentNode : messages[m] # Absent => messages'[m] # Absent
      BY <2>1, RunAssumption
    <2> QED BY <1>5, <2>2, LinkKept DEF RunNode, Starts, Arrives
  <1>6. ASSUME NEW n \in AgentNode, ToolFails(n) PROVE LinkInv'
    BY <1>6, LinkKept, RunAssumption DEF ToolFails, Starts, Arrives, Status
  <1>7. CASE Complete
    BY <1>7, LinkKept DEF Complete
  <1>8. CASE GiveUp
    BY <1>8, LinkKept DEF GiveUp
  <1>9. CASE Replan
    <2> DEFINE r == Replanned(plan, failed)
    <2>1. CASE plan' = plan /\ stage' \in {"no_substitute", "crashed"}
      BY <1>9, <2>1, LinkKept DEF Replan
    <2>2. CASE plan' = r /\ stage' = "running" /\ ~CannotReplan(plan, failed)
      <3>1. /\ failed \in plan.nodes \ Unprunable /\ messages[failed] # Absent
            /\ \A n \in plan.nodes : plan.deps[n] \subseteq plan.nodes \ {n}
        BY <1>9, <2>2, RunAssumption
           DEF Replan, PathInv, DagIsWellFormed, CannotReplan, Status
      <3>2. r.nodes = plan.nodes \ {failed}
        BY DEF Replanned, Plan
      <3>3. \A n \in r.nodes : plan.deps[n] \ {failed} \subseteq r.deps[n]
        BY <3>1, <3>2 DEF Replanned, Plan
      <3>4. \A n \in plan.nodes : \A d \in accepted.deps[n] :
              d \in plan.deps[n] \/ Settled(d)
        BY <1>9 DEF Replan, LinkInv
      <3>5. Settled(failed)
        BY <3>1 DEF Settled
      <3>6. \A n \in r.nodes : \A d \in accepted.deps[n] : d \in r.deps[n] \/ Settled(d)
        BY <3>2, <3>3, <3>4, <3>5
      <3>7. \A n : Settled(n)' <=> Settled(n)
        BY <1>9 DEF Replan, Settled
      <3> QED BY <1>9, <2>2, <3>1, <3>2, <3>5, <3>6, <3>7 DEF Replan, LinkInv, GuardsKept
    <2> QED BY <1>9, <2>1, <2>2 DEF Replan, Begin, Crash
  <1>10. CASE UNCHANGED vars
    BY <1>10 DEF vars, LinkInv, Settled, GuardsKept
  <1> QED BY <1>1, <1>2, <1>3, <1>4, <1>5, <1>6, <1>7, <1>8, <1>9, <1>10
          DEF Next, ExecuteNode

-----------------------------------------------------------------------------
(* The invariants together. *)

LEMMA RunInit == Init => RunInv
  <1> SUFFICES ASSUME Init PROVE RunInv
    OBVIOUS
  <1>1. Closed(accepted)
    BY AcceptedIsClosed DEF Init
  <1>2. OverrunIsOneStep
    BY RunAssumption DEF Init, OverrunIsOneStep, LargestStep, Spend, Dimension
  <1>3. GateInv
    BY RunAssumption, ResponseIsANode DEF Init, GateInv, Saw, Status
  <1>4. PathInv
    BY DEF Init, PathInv
  <1>5. LinkInv
    BY <1>1 DEF Init, LinkInv, GuardsKept, Closed, Settled
  <1> QED BY <1>2, <1>3, <1>4, <1>5 DEF RunInv

\* The inductive invariant: the gate, the way through the plan in hand, its
\* link to the accepted plan, and the ledger.
THEOREM Invariance == Spec => [](TypeInv /\ RunInv)
  <1>1. TypeInv /\ RunInv /\ [Next]_vars => (TypeInv /\ RunInv)'
    BY TypeStep, GateStep, PathStep, LinkStep, LedgerStep DEF RunInv
  <1> QED BY <1>1, TypeInit, RunInit, PTL DEF Spec

\* A run passes each ceiling by less than its one dearest step.
THEOREM OverrunBounded == Spec => []OverrunIsOneStep
  <1>1. RunInv => OverrunIsOneStep
    BY DEF RunInv
  <1> QED BY <1>1, Invariance, PTL

\* Neither pruning nor replanning drops an unprunable step.
THEOREM GuardsStay == Spec => []GuardsKept
  <1>1. RunInv => GuardsKept
    BY DEF RunInv, LinkInv
  <1> QED BY <1>1, Invariance, PTL

\* After a completed execution each accepted step has a message or is on
\* record as pruned.
THEOREM Accounted == Spec => []AllAccounted
  <1>1. RunInv => AllAccounted
    BY DEF RunInv, LinkInv, PathInv, AllAccounted, Settled
  <1> QED BY <1>1, Invariance, PTL

\* What a step does to the messages.
LEMMA OneMessage ==
    ASSUME TypeInv, [Next]_vars
    PROVE  \/ messages' = messages
           \/ \E n \in AgentNode : \E status \in Status :
                 /\ Arrives(n)
                 /\ messages[n] # "succeeded"
                 /\ messages' = [messages EXCEPT ![n] = status]
  <1> USE DEF query
  <1>1. ASSUME NEW n \in AgentNode, RunNode(n)
        PROVE  \E status \in Status : /\ Arrives(n)
                                      /\ messages[n] # "succeeded"
                                      /\ messages' = [messages EXCEPT ![n] = status]
    BY <1>1, StatusesAreStatuses DEF RunNode, Starts
  <1>2. ASSUME NEW n \in AgentNode, SkipExhausted(n) \/ ToolFails(n)
        PROVE  \E status \in Status : /\ Arrives(n)
                                      /\ messages[n] # "succeeded"
                                      /\ messages' = [messages EXCEPT ![n] = status]
    BY <1>2 DEF SkipExhausted, ToolFails, Starts, Status
  <1>3. CASE \/ PruneStep \/ StartPruned \/ Complete \/ GiveUp \/ Replan \/ UNCHANGED vars
             \/ \E n \in AgentNode : AlreadySatisfied(n)
    BY <1>3 DEF PruneStep, StartPruned, Complete, GiveUp, Replan, AlreadySatisfied, vars
  <1> QED BY <1>1, <1>2, <1>3 DEF Next, ExecuteNode

\* What has succeeded stands, through every failure, skip and replan.
THEOREM SuccessIsKept == Spec => SuccessStands
  <1>1. TypeInv /\ [Next]_vars
          => [\A n \in AgentNode : messages[n] = "succeeded" => messages'[n] = "succeeded"]_vars
    BY OneMessage DEF TypeInv, TypeOK
  <1>2. Spec => []TypeInv
    BY TypeInit, TypeStep, PTL DEF Spec
  <1> QED BY <1>1, <1>2, PTL DEF Spec, SuccessStands

\* No node runs before what the accepted plan made it wait for is settled.
THEOREM Patience == Spec => NothingRunsEarly
  <1>1. TypeInv /\ RunInv /\ [Next]_vars
          => [\A n \in AgentNode : messages'[n] # messages[n] =>
                \A d \in accepted.deps[n] : Settled(d)]_vars
    <2> SUFFICES ASSUME TypeInv, RunInv, [Next]_vars,
                        NEW n \in AgentNode, messages'[n] # messages[n],
                        NEW d \in accepted.deps[n]
                 PROVE  Settled(d)
      OBVIOUS
    <2>1. Arrives(n)
      BY OneMessage DEF TypeInv, TypeOK
    <2>2. n \in plan.nodes /\ plan.deps[n] \subseteq visited /\ stage = "running"
      BY <2>1 DEF Arrives, RunInv, PathInv
    <2>3. d \in plan.deps[n] \/ Settled(d)
      BY <2>2 DEF RunInv, LinkInv
    <2>4. d \in visited => Settled(d)
      BY <2>2 DEF RunInv, PathInv, Settled
    <2> QED BY <2>2, <2>3, <2>4
  <1> QED BY <1>1, Invariance, PTL DEF Spec, NothingRunsEarly

-----------------------------------------------------------------------------
(* The engine implements RunVerdict. *)

LEMMA VerdictInitially == Init => Verdict!VerdictInit
  BY ResponseIsANode DEF Init, Verdict!VerdictInit, ResponseKind, Ended

\* A step of the engine is a step of the verdict or none.
LEMMA VerdictStep ==
    TypeInv /\ RunInv /\ [Next]_vars => [Verdict!VerdictNext]_(Verdict!verdictVars)
  <1> SUFFICES ASSUME TypeInv, RunInv, [Next]_vars
               PROVE  [Verdict!VerdictNext]_(Verdict!verdictVars)
    OBVIOUS
  <1> USE DEF TypeInv, TypeOK, query, Ended, ResponseKind, Verdict!verdictVars,
              Verdict!VerdictNext
  <1> USE ResponseIsANode
  <1>1. ASSUME messages' = messages, missing' = missing, stage' = stage
        PROVE  UNCHANGED Verdict!verdictVars
    BY <1>1
  <1>2. ASSUME messages' = messages, missing' = missing, stage \notin Ended
        PROVE  [Verdict!VerdictNext]_(Verdict!verdictVars)
    BY <1>2 DEF Verdict!Return
  <1>3. CASE PruneStep
    BY <1>3, <1>1 DEF PruneStep
  <1>4. CASE StartPruned
    BY <1>4, <1>2 DEF StartPruned
  <1>5. ASSUME NEW n \in AgentNode, AlreadySatisfied(n)
        PROVE  [Verdict!VerdictNext]_(Verdict!verdictVars)
    BY <1>5, <1>1 DEF AlreadySatisfied
  <1>6. ASSUME NEW n \in AgentNode, SkipExhausted(n)
        PROVE  [Verdict!VerdictNext]_(Verdict!verdictVars)
    <2>1. /\ messages[n] # "succeeded" /\ messages' = [messages EXCEPT ![n] = "skipped"]
          /\ missing' = missing /\ stage' = stage /\ stage = "running"
      BY <1>6 DEF SkipExhausted, Arrives
    <2>2. CASE n = "verifier"
      BY <2>1, <2>2, RunAssumption DEF Verdict!Judge, Status
    <2>3. CASE n = "response"
      <3>1. messages["response"] \in {Absent, "skipped", "abstained"}
        BY <2>1, <2>3 DEF RunInv, GateInv, CallsTool, Status
      <3> QED BY <2>1, <2>3, <3>1, RunAssumption DEF Verdict!FallSilent, Status
    <2>4. CASE n \notin {"verifier", "response"}
      BY <2>1, <2>4
    <2> QED BY <2>2, <2>3, <2>4
  <1>7. ASSUME NEW n \in AgentNode, RunNode(n)
        PROVE  [Verdict!VerdictNext]_(Verdict!verdictVars)
    <2>1. /\ messages[n] \notin {"succeeded", "skipped"}
          /\ missing' = missing /\ stage' = stage /\ stage = "running"
      BY <1>7 DEF RunNode, Starts, Arrives, RunInv, GateInv, Saw
    <2>2. PICK status \in NodeStatuses(n) : messages' = [messages EXCEPT ![n] = status]
      BY <1>7 DEF RunNode
    <2>3. CASE n = "verifier"
      <3>1. status \in {"succeeded", "abstained"}
        BY <2>2, <2>3 DEF NodeStatuses, Kernels, VerifierStatus
      <3>2. messages["verifier"] \in {Absent, "abstained"}
        BY <2>1, <2>3 DEF RunInv, GateInv, CallsTool, Status
      <3>3. messages["verifier"] = "abstained" => status = "abstained"
        BY <2>2, <2>3 DEF NodeStatuses, Kernels, VerifierStatus, Saw
      <3> QED BY <2>1, <2>2, <2>3, <3>1, <3>2, <3>3, RunAssumption DEF Verdict!Judge, Status
    <2>4. CASE n = "response"
      <3>1. status = ResponseStatus
        BY <2>2, <2>4 DEF NodeStatuses, Kernels
      <3>2. messages["response"] \in {Absent, "abstained"}
        BY <2>1, <2>4 DEF RunInv, GateInv, CallsTool, Status
      <3>3. messages["response"] = "abstained" => status = "abstained"
        BY <3>1 DEF RunInv, GateInv, ResponseStatus
      <3> QED BY <2>1, <2>2, <2>4, <3>1, <3>2, <3>3, RunAssumption
              DEF Verdict!Speak, ResponseStatus, Sufficient, Status
    <2>5. CASE n \notin {"verifier", "response"}
      BY <2>1, <2>2, <2>5
    <2> QED BY <2>3, <2>4, <2>5
  <1>8. ASSUME NEW n \in AgentNode, ToolFails(n)
        PROVE  [Verdict!VerdictNext]_(Verdict!verdictVars)
    <2>1. /\ messages' = [messages EXCEPT ![n] = "failed"] /\ missing' = missing
          /\ n \notin {"verifier", "response"}
          /\ stage = "running" /\ stage' = "replanning"
      BY <1>8 DEF ToolFails, Starts, Arrives, CallsTool
    <2> QED BY <2>1
  <1>9. CASE Complete
    BY <1>9, <1>2 DEF Complete
  <1>10. CASE GiveUp
    BY <1>10, <1>2 DEF GiveUp
  <1>11. CASE Replan
    BY <1>11, <1>2 DEF Replan
  <1>12. CASE UNCHANGED vars
    BY <1>12, <1>1 DEF vars
  <1> QED BY <1>3, <1>4, <1>5, <1>6, <1>7, <1>8, <1>9, <1>10, <1>11, <1>12
          DEF Next, ExecuteNode

\* The gate judges once, an answer is given only past it, and what was said
\* stands: for every plan that validates and every way its tools fail.
THEOREM Refinement == Spec => ImplementsVerdict
  BY VerdictInitially, VerdictStep, Invariance, PTL
     DEF Spec, ImplementsVerdict, Verdict!VerdictSpec

-----------------------------------------------------------------------------
(* An answer of the rule planner's plans stands on all of the plan, under  *)
(* every budget and whatever the tools do.  This does not follow from the  *)
(* dependencies, for steps like the geofence of a safety query are no      *)
(* predecessors of the verifier: it follows from the layers, in which they *)
(* come before it.                                                         *)

\* What is proposed never validates, so that every run is of a rule plan.
RulePlansOnly == \A p \in Proposals : ~DagIsWellFormed(p)

\* The layer each step of a rule plan is executed in.
Depth == [
    safety |-> [planner |-> 0, marine_data |-> 1, weather |-> 1, geospatial |-> 1,
                reliability |-> 2, risk |-> 3, verifier |-> 4, response |-> 5],
    fishing_zone |-> [planner |-> 0, marine_data |-> 1, weather |-> 1, geospatial |-> 1,
                      ecosystem |-> 2, risk |-> 2, verifier |-> 3, response |-> 4],
    route |-> [planner |-> 0, marine_data |-> 1, weather |-> 1, geospatial |-> 1,
               route |-> 2, risk |-> 3, verifier |-> 4, response |-> 5],
    geofence |-> [planner |-> 0, geospatial |-> 1, risk |-> 2, verifier |-> 3, response |-> 4],
    causal |-> [planner |-> 0, marine_data |-> 1, ecosystem |-> 2, verifier |-> 3, response |-> 4],
    unknown |-> [planner |-> 0, response |-> 1]]

\* A plan whose layers are those of depth, the verifier and then the response
\* alone in the last two.
Layered(p, depth) ==
    /\ \A n \in p.nodes :
          /\ depth[n] \in Nat
          /\ \A d \in p.deps[n] : d \in p.nodes /\ depth[d] < depth[n]
          /\ depth[n] # 0 => \E d \in p.deps[n] : depth[d] = depth[n] - 1
    /\ "verifier" \in p.nodes =>
          \A n \in p.nodes \ {"verifier", "response"} : depth[n] < depth["verifier"]

\* An execution has passed the layers before the k-th and is in that one.
InLayer(k, depth) ==
    /\ visited \subseteq plan.nodes /\ layer \subseteq plan.nodes
    /\ \A n \in plan.nodes :
          /\ n \in visited => depth[n] <= k
          /\ depth[n] < k => n \in visited
          /\ n \in layer <=> depth[n] = k /\ n \notin visited

\* As long as no tool has failed the plan is a rule plan without some of its
\* optional steps, and what has not been passed has no message.
StraightInv ==
    /\ stage \in {"pruning", "running", "completed", "crashed"}
    /\ stage = "pruning" =>
          /\ plan.deps = accepted.deps /\ plan.optional = accepted.optional
          /\ pruned \subseteq accepted.optional
          /\ plan.nodes = accepted.nodes \ pruned
          /\ visited = {}
    /\ stage = "running" =>
          /\ Layered(plan, Depth[intent])
          /\ \E k \in Nat : InLayer(k, Depth[intent])
    /\ \A n \in AgentNode \ visited : messages[n] = Absent
    /\ messages["verifier"] = "succeeded" =>
          /\ \A n \in plan.nodes \ {"response"} : messages[n] = "succeeded"
          /\ \A n \in AgentNode \ plan.nodes : messages[n] = Absent

\* A failure stays on record: its node has left the plan in hand, or is about to.
FailedInv ==
    /\ messages["verifier"] # "succeeded"
    /\ \A n \in plan.nodes : messages[n] = "failed" =>
          n = failed /\ stage \notin {"pruning", "running"}

AnswerInv ==
    /\ accepted = RulePlan[intent]
    /\ IF Saw("failed") THEN FailedInv ELSE StraightInv
    /\ messages["response"] = "succeeded" /\ ~missing => Sufficient

-----------------------------------------------------------------------------
(* The shape of the rule plans. *)

\* Each rule plan is layered as Depth says, and no step waits for an optional one.
RuleShaped(p, depth) ==
    /\ Layered(p, depth)
    /\ \A n \in p.nodes : p.deps[n] \cap p.optional = {}

\* The same of a plan that is written as a record of dependencies.
LEMMA PlanOfIsShaped ==
    ASSUME NEW f, DOMAIN f \subseteq AgentNode, NEW optional, NEW depth,
           \A n \in DOMAIN f :
              /\ depth[n] \in Nat
              /\ \A d \in f[n] : d \in DOMAIN f /\ depth[d] < depth[n] /\ d \notin optional
              /\ depth[n] # 0 => \E d \in f[n] : depth[d] = depth[n] - 1
              /\ n \in {"verifier", "response"} \/ "verifier" \notin DOMAIN f
                 \/ depth[n] < depth["verifier"]
    PROVE  RuleShaped(PlanOf(f, optional), depth)
  <1> DEFINE p == PlanOf(f, optional)
  <1>1. p.nodes = DOMAIN f /\ p.optional = optional /\ \A n \in p.nodes : p.deps[n] = f[n]
    BY DEF PlanOf
  <1> HIDE DEF p
  <1>2. RuleShaped(p, depth)
    BY <1>1 DEF RuleShaped, Layered
  <1> QED BY <1>2 DEF p

LEMMA RulePlansAreLayered == \A i \in Intent : RuleShaped(RulePlan[i], Depth[i])
  <1>1. RuleShaped(RulePlan["safety"], Depth["safety"])
    BY PlanOfIsShaped DEF RulePlan, Depth, AgentNode
  <1>2. RuleShaped(RulePlan["fishing_zone"], Depth["fishing_zone"])
    BY PlanOfIsShaped DEF RulePlan, Depth, AgentNode
  <1>3. RuleShaped(RulePlan["route"], Depth["route"])
    BY PlanOfIsShaped DEF RulePlan, Depth, AgentNode
  <1>4. RuleShaped(RulePlan["geofence"], Depth["geofence"])
    BY PlanOfIsShaped DEF RulePlan, Depth, AgentNode
  <1>5. RuleShaped(RulePlan["causal"], Depth["causal"])
    BY PlanOfIsShaped DEF RulePlan, Depth, AgentNode
  <1>6. RuleShaped(RulePlan["unknown"], Depth["unknown"])
    BY PlanOfIsShaped DEF RulePlan, Depth, AgentNode
  <1> QED BY <1>1, <1>2, <1>3, <1>4, <1>5, <1>6 DEF Intent

\* A plan without some of its optional steps keeps its layers.
LEMMA PrunedIsLayered ==
    ASSUME NEW p \in Plan, NEW q \in Plan, NEW depth, NEW gone,
           RuleShaped(p, depth), gone \subseteq p.optional,
           q.nodes = p.nodes \ gone, q.deps = p.deps
    PROVE  Layered(Cleaned(q), depth)
  <1>1. Cleaned(q).nodes = q.nodes
    BY DEF Cleaned, Plan
  <1>2. ASSUME NEW n \in q.nodes PROVE Cleaned(q).deps[n] = p.deps[n]
    <2>1. p.deps[n] \subseteq q.nodes
      BY DEF RuleShaped, Layered
    <2> QED BY <2>1 DEF Cleaned, Plan
  <1>3. \A n \in q.nodes : n \in p.nodes /\ p.deps[n] \subseteq q.nodes
    BY DEF RuleShaped, Layered
  <1> QED BY <1>1, <1>2, <1>3 DEF RuleShaped, Layered

-----------------------------------------------------------------------------
(* The way through the layers. *)

\* An execution begins in layer 0.
LEMMA FirstLayer ==
    ASSUME NEW p \in Plan, NEW depth, Layered(p, depth), Begin(p)
    PROVE  InLayer(0, depth)'
  <1>1. plan' = p /\ visited' = {} /\ layer' = {n \in p.nodes : p.deps[n] = {}}
    BY DEF Begin, Ready
  <1>2. ASSUME NEW n \in p.nodes
        PROVE  depth[n] \in Nat /\ (p.deps[n] = {} <=> depth[n] = 0)
    BY DEF Layered
  <1> QED BY <1>1, <1>2 DEF InLayer

\* From one node to the next, and from the last of a layer to the next layer.
LEMMA NextLayer ==
    ASSUME NEW depth, Layered(plan, depth), NEW k \in Nat, InLayer(k, depth),
           NEW n \in layer, Advance(n), plan' = plan
    PROVE  \E j \in Nat : InLayer(j, depth)'
  <1>1. /\ visited' = visited \cup {n} /\ n \in plan.nodes /\ depth[n] = k
        /\ visited' \subseteq plan.nodes
    BY DEF Advance, InLayer
  <1>2. CASE layer \ {n} # {}
    <2>1. layer' = layer \ {n}
      BY <1>2 DEF Advance
    <2>2. InLayer(k, depth)'
      BY <1>1, <2>1 DEF InLayer
    <2> QED BY <2>2
  <1>3. CASE layer \ {n} = {}
    <2>1. layer' = Ready(plan, visited')
      BY <1>1, <1>3 DEF Advance
    <2>2. \A m \in plan.nodes : depth[m] \in Nat /\ (m \in visited' <=> depth[m] <= k)
      BY <1>1, <1>3 DEF InLayer, Layered
    <2>3. ASSUME NEW m \in plan.nodes
          PROVE  m \in layer' <=> depth[m] = k + 1
      <3>1. ASSUME depth[m] = k + 1 PROVE m \in layer'
        <4>1. \A d \in plan.deps[m] : d \in plan.nodes /\ depth[d] < k + 1
          BY <3>1 DEF Layered
        <4>2. plan.deps[m] \subseteq visited'
          BY <2>2, <4>1
        <4>3. m \notin visited'
          BY <2>2, <3>1
        <4> QED BY <2>1, <3>1, <4>2, <4>3 DEF Ready
      <3>2. ASSUME m \in layer' PROVE depth[m] = k + 1
        <4>1. m \notin visited' /\ plan.deps[m] \subseteq visited'
          BY <2>1, <3>2 DEF Ready
        <4>2. depth[m] > k /\ depth[m] \in Nat
          BY <2>2, <4>1
        <4>3. PICK d \in plan.deps[m] : depth[d] = depth[m] - 1
          BY <4>2 DEF Layered
        <4>4. d \in plan.nodes /\ depth[d] <= k
          BY <2>2, <4>1, <4>3, <1>1
        <4> QED BY <4>2, <4>3, <4>4
      <3> QED BY <3>1, <3>2
    <2>4. layer' \subseteq plan.nodes
      BY <2>1 DEF Ready
    <2>5. \A m \in plan.nodes : /\ m \in visited' => depth[m] <= k + 1
                                /\ depth[m] < k + 1 => m \in visited'
                                /\ m \in layer' <=> depth[m] = k + 1 /\ m \notin visited'
      BY <2>2, <2>3
    <2>6. InLayer(k + 1, depth)'
      BY <1>1, <2>4, <2>5 DEF InLayer
    <2> QED BY <2>6
  <1> QED BY <1>2, <1>3

\* When the verifier's turn has come all of the plan but the response is passed.
LEMMA VerifierIsLate ==
    ASSUME NEW depth, Layered(plan, depth), NEW k \in Nat, InLayer(k, depth),
           "verifier" \in layer
    PROVE  \A n \in plan.nodes \ {"verifier", "response"} : n \in visited
  <1>1. "verifier" \in plan.nodes /\ depth["verifier"] = k
    BY DEF InLayer
  <1> QED BY <1>1 DEF InLayer, Layered

-----------------------------------------------------------------------------
(* The answer. *)

LEMMA AnswerInit == RulePlansOnly /\ Init => AnswerInv
  <1> SUFFICES ASSUME RulePlansOnly, Init PROVE AnswerInv
    OBVIOUS
  <1>1. accepted = RulePlan[intent]
    BY DEF Init, RulePlansOnly, PlanFor
  <1>2. Absent \notin Status
    BY RunAssumption
  <1> QED BY <1>1, <1>2, ResponseIsANode DEF Init, AnswerInv, Saw, StraightInv, Status

\* A node arrives that nothing was said on, or the last execution failed.
LEMMA NotPassedYet ==
    ASSUME TypeInv, PathInv, NEW n \in AgentNode, Arrives(n)
    PROVE  stage = "running" /\ n \in layer /\ n \in plan.nodes \ visited
  BY DEF Arrives, PathInv

\* What a message adds after a failure.
LEMMA AfterAFailure ==
    ASSUME TypeInv, PathInv, Saw("failed"), FailedInv, NEW n \in AgentNode,
           NEW status \in Status, Arrives(n),
           messages' = [messages EXCEPT ![n] = status], plan' = plan,
           n = "verifier" => status # "succeeded",
           status = "failed" => failed' = n /\ stage' \notin {"pruning", "running"}
    PROVE  Saw("failed")' /\ FailedInv'
  <1> USE DEF TypeInv, TypeOK, Saw
  <1>1. n \in plan.nodes /\ stage = "running"
    BY NotPassedYet
  <1>2. PICK m \in AgentNode : messages[m] = "failed"
    OBVIOUS
  <1>3. m # n /\ \A o \in plan.nodes : messages[o] # "failed"
    BY <1>1, <1>2 DEF FailedInv
  <1>4. Saw("failed")'
    BY <1>2, <1>3
  <1>5. messages'["verifier"] # "succeeded"
    BY ResponseIsANode DEF FailedInv
  <1>6. \A o \in plan'.nodes : messages'[o] = "failed" =>
           o = failed' /\ stage' \notin {"pruning", "running"}
    BY <1>3 DEF Plan
  <1> QED BY <1>4, <1>5, <1>6 DEF FailedInv

\* What a message adds while no tool has failed.
LEMMA BeforeAFailure ==
    ASSUME TypeInv, PathInv, GateInv, ~Saw("failed"), StraightInv, NEW n \in AgentNode,
           NEW status \in Status \ {"failed"}, Arrives(n), Advance(n),
           messages' = [messages EXCEPT ![n] = status],
           UNCHANGED <<intent, accepted, stage, plan, pruned>>,
           messages[n] # "succeeded",
           n = "verifier" /\ status = "succeeded" => ~Saw("abstained") /\ ~Saw("skipped")
    PROVE  ~Saw("failed")' /\ StraightInv'
  <1> USE DEF TypeInv, TypeOK, Saw
  <1>0. PICK depth : depth = Depth[intent]
    OBVIOUS
  <1>1. n \in plan.nodes \ visited /\ n \in layer /\ stage = "running" /\ layer \subseteq plan.nodes
    BY NotPassedYet DEF PathInv
  <1>2. ~Saw("failed")'
    OBVIOUS
  <1>3. PICK k \in Nat : InLayer(k, depth)
    BY <1>0, <1>1 DEF StraightInv
  <1>4. Layered(plan, depth)
    BY <1>0, <1>1 DEF StraightInv
  <1>5. \E j \in Nat : InLayer(j, depth)'
    BY <1>1, <1>3, <1>4, NextLayer
  <1>6. Layered(plan', depth) /\ depth = Depth[intent']
    BY <1>0, <1>4
  <1>7. visited' = visited \cup {n}
    BY DEF Advance
  <1>8. \A m \in AgentNode \ visited' : messages'[m] = Absent
    BY <1>7 DEF StraightInv
  <1>9. ASSUME messages'["verifier"] = "succeeded"
        PROVE  /\ \A m \in plan.nodes \ {"response"} : messages'[m] = "succeeded"
               /\ \A m \in AgentNode \ plan.nodes : messages'[m] = Absent
    <2>1. CASE n = "verifier"
      <3>1. status = "succeeded" /\ ~Saw("abstained") /\ ~Saw("skipped")
        BY <1>9, <2>1, ResponseIsANode
      <3>2. \A m \in plan.nodes \ {"verifier", "response"} : m \in visited
        BY <1>1, <1>3, <1>4, <2>1, VerifierIsLate
      <3>3. \A m \in visited : m \in AgentNode /\ messages[m] # Absent
        BY <1>1 DEF PathInv
      <3>4. \A m \in visited : messages[m] = "succeeded"
        BY <3>1, <3>3 DEF Status
      <3>5. visited \subseteq plan.nodes /\ plan.nodes \subseteq AgentNode
        BY <1>3 DEF InLayer, Plan
      <3>6. \A m \in AgentNode \ plan.nodes : messages[m] = Absent
        BY <3>5 DEF StraightInv
      <3> QED BY <1>1, <2>1, <3>1, <3>2, <3>4, <3>5, <3>6
    <2>2. CASE n # "verifier"
      <3>1. messages["verifier"] = "succeeded"
        BY <1>9, <2>2, ResponseIsANode
      <3>2. /\ \A m \in plan.nodes \ {"response"} : messages[m] = "succeeded"
            /\ \A m \in AgentNode \ plan.nodes : messages[m] = Absent
        BY <3>1 DEF StraightInv
      <3>3. n = "response"
        BY <1>1, <3>2
      <3>4. plan.nodes \subseteq AgentNode
        BY DEF Plan
      <3> QED BY <1>1, <3>2, <3>3, <3>4
    <2> QED BY <2>1, <2>2
  <1>10. (\E j \in Nat : InLayer(j, Depth[intent]))'
    BY <1>5, <1>6
  <1> QED BY <1>1, <1>2, <1>6, <1>8, <1>9, <1>10 DEF StraightInv

\* The first failure comes before the verifier has passed anything.
LEMMA FirstFailure ==
    ASSUME TypeInv, PathInv, ~Saw("failed"), StraightInv, NEW n \in AgentNode, ToolFails(n)
    PROVE  Saw("failed")' /\ FailedInv'
  <1> USE DEF TypeInv, TypeOK, Saw
  <1>1. /\ Arrives(n) /\ n \notin {"verifier", "response"} /\ messages[n] # "succeeded"
        /\ messages' = [messages EXCEPT ![n] = "failed"] /\ failed' = n
        /\ stage' = "replanning" /\ plan' = plan
    BY DEF ToolFails, Starts, CallsTool
  <1>2. n \in plan.nodes
    BY <1>1, NotPassedYet
  <1>3. messages["verifier"] # "succeeded"
    BY <1>1, <1>2 DEF StraightInv
  <1>4. messages'["verifier"] # "succeeded"
    BY <1>1, <1>3, ResponseIsANode
  <1>5. plan.nodes \subseteq AgentNode
    BY DEF Plan
  <1> QED BY <1>1, <1>4, <1>5 DEF FailedInv

LEMMA AnswerStep == TypeInv /\ RunInv /\ AnswerInv /\ [Next]_vars => AnswerInv'
  <1> SUFFICES ASSUME TypeInv, RunInv, AnswerInv, [Next]_vars PROVE AnswerInv'
    OBVIOUS
  <1> USE DEF query
  <1>1. PathInv /\ GateInv /\ accepted = RulePlan[intent]
    BY DEF RunInv, AnswerInv
  <1>2. CASE PruneStep
    <2>1. messages' = messages /\ UNCHANGED <<query, stage, visited, failed>> /\ stage = "pruning"
      BY <1>2 DEF PruneStep, Pruning
    <2>2. CASE Saw("failed")
      BY <1>2, <2>1, <2>2 DEF PruneStep, AnswerInv, FailedInv, Saw, Sufficient
    <2>3. CASE ~Saw("failed")
      <3> DEFINE dropped == pruned \cup Dearest(Candidates)
      <3>1. /\ plan.deps = accepted.deps /\ plan.optional = accepted.optional
            /\ pruned \subseteq accepted.optional /\ plan.nodes = accepted.nodes \ pruned
        BY <2>1, <2>3 DEF AnswerInv, StraightInv
      <3>2. \A n \in accepted.nodes : accepted.deps[n] \cap accepted.optional = {}
        BY <1>1, RulePlansAreLayered DEF RuleShaped, TypeInv, TypeOK
      <3>3. dropped \subseteq accepted.optional
        BY <3>1 DEF Dearest, Candidates
      <3>4. Orphans(plan, dropped) = {}
        BY <3>1, <3>2, <3>3 DEF Orphans
      <3>5. pruned' = dropped /\ plan' = [plan EXCEPT !.nodes = @ \ dropped]
        BY <1>2, <3>4 DEF PruneStep
      <3>6. plan \in Plan /\ pruned \subseteq dropped
        BY DEF TypeInv, TypeOK
      <3> HIDE DEF dropped
      <3>7. /\ plan'.deps = accepted.deps /\ plan'.optional = accepted.optional
            /\ pruned' \subseteq accepted.optional /\ plan'.nodes = accepted.nodes \ pruned'
            /\ plan'.nodes \subseteq plan.nodes
        BY <3>1, <3>3, <3>5, <3>6 DEF Plan
      <3>8. messages["verifier"] # "succeeded"
        <4>1. messages["verifier"] = "succeeded" => FALSE
          BY <2>1, <2>3, ResponseIsANode, RunAssumption DEF AnswerInv, StraightInv, Status
        <4> QED BY <4>1
      <3>9. StraightInv'
        BY <2>1, <2>3, <3>7, <3>8 DEF AnswerInv, StraightInv
      <3> QED BY <2>1, <2>3, <3>9 DEF AnswerInv, Saw, Sufficient
    <2> QED BY <2>2, <2>3
  <1>3. CASE StartPruned
    <2>1. /\ messages' = messages /\ UNCHANGED <<intent, missing, accepted, failed>>
          /\ stage = "pruning" /\ Cleaned(plan) \in Plan
          /\ plan' \in {plan, Cleaned(plan)} /\ plan'.nodes = plan.nodes
      BY <1>3, CleanedIsAPlan DEF StartPruned, Begin, Crash, Cleaned, TypeInv, TypeOK, Plan
    <2>2. CASE Saw("failed")
      <3>1. \A n \in plan.nodes : messages[n] # "failed"
        BY <2>1, <2>2 DEF AnswerInv, FailedInv
      <3> QED BY <2>1, <2>2, <3>1 DEF AnswerInv, FailedInv, Saw, Sufficient
    <2>3. CASE ~Saw("failed")
      <3>1. /\ plan.deps = accepted.deps /\ pruned \subseteq accepted.optional
            /\ plan.nodes = accepted.nodes \ pruned /\ visited = {}
            /\ \A n \in AgentNode : messages[n] = Absent
        BY <2>1, <2>3 DEF AnswerInv, StraightInv
      <3>2. messages["verifier"] # "succeeded"
        BY <3>1, ResponseIsANode, RunAssumption DEF Status
      <3>3. PICK depth : depth = Depth[intent]
        OBVIOUS
      <3>4. Layered(Cleaned(plan), depth)
        BY <1>1, <3>1, <3>3, RulePlansAreLayered, PrunedIsLayered DEF TypeInv, TypeOK
      <3>5. ASSUME Begin(Cleaned(plan))
            PROVE  /\ stage' = "running" /\ visited' = {} /\ Layered(plan', depth)
                   /\ \E k \in Nat : InLayer(k, depth)'
        <4>1. InLayer(0, depth)'
          BY <2>1, <3>4, <3>5, FirstLayer
        <4> QED BY <3>4, <3>5, <4>1 DEF Begin
      <3>6. ASSUME Crash PROVE stage' = "crashed" /\ visited' = visited
        BY <3>6 DEF Crash
      <3>7. StraightInv'
        <4>1. CASE Begin(Cleaned(plan))
          <5>1. (Layered(plan, Depth[intent]) /\ \E k \in Nat : InLayer(k, Depth[intent]))'
            BY <2>1, <3>3, <3>5, <4>1
          <5> QED BY <2>1, <3>1, <3>2, <3>5, <4>1, <5>1 DEF StraightInv
        <4>2. CASE Crash
          BY <2>1, <3>1, <3>2, <3>6, <4>2 DEF StraightInv
        <4> QED BY <1>3, <4>1, <4>2 DEF StartPruned
      <3> QED BY <2>1, <2>3, <3>7 DEF AnswerInv, Saw, Sufficient
    <2> QED BY <2>2, <2>3
  <1>4. ASSUME NEW n \in AgentNode, NEW status \in Status \ {"failed"},
               Arrives(n), Advance(n), messages' = [messages EXCEPT ![n] = status],
               UNCHANGED <<intent, missing, accepted, stage, plan, pruned>>,
               messages[n] # "succeeded",
               n = "verifier" /\ status = "succeeded" =>
                  ~Saw("failed") /\ ~Saw("abstained") /\ ~Saw("skipped"),
               n = "response" /\ status = "succeeded" => missing \/ Sufficient
        PROVE  AnswerInv'
    <2>1. IF Saw("failed")' THEN FailedInv' ELSE StraightInv'
      <3>1. CASE Saw("failed")
        BY <1>1, <1>4, <3>1, AfterAFailure DEF AnswerInv
      <3>2. CASE ~Saw("failed")
        BY <1>1, <1>4, <3>2, BeforeAFailure DEF AnswerInv
      <3> QED BY <3>1, <3>2
    <2>2. (messages["response"] = "succeeded" /\ ~missing => Sufficient)'
      <3>1. messages \in [AgentNode -> Status \cup {Absent}]
        BY DEF TypeInv, TypeOK
      <3>2. Sufficient => messages'["verifier"] = "succeeded"
        BY <1>4, <3>1, ResponseIsANode DEF Sufficient
      <3>3. CASE n = "response"
        BY <1>4, <3>1, <3>2, <3>3, ResponseIsANode DEF Sufficient
      <3>4. CASE n # "response"
        BY <1>4, <3>1, <3>2, <3>4, ResponseIsANode DEF Sufficient, AnswerInv
      <3> QED BY <3>3, <3>4
    <2> QED BY <1>1, <1>4, <2>1, <2>2 DEF AnswerInv
  <1>5. ASSUME NEW n \in AgentNode, AlreadySatisfied(n) PROVE AnswerInv'
    <2>1. /\ Arrives(n) /\ Advance(n) /\ messages[n] = "succeeded"
          /\ UNCHANGED <<intent, missing, accepted, stage, plan, pruned, messages, failed>>
      BY <1>5 DEF AlreadySatisfied
    <2>2. n \in AgentNode \ visited /\ messages[n] # Absent
      BY <1>1, <2>1, NotPassedYet, RunAssumption DEF Status
    <2>3. Saw("failed")
      BY <2>2 DEF AnswerInv, StraightInv
    <2> QED BY <2>1, <2>3 DEF AnswerInv, FailedInv, Saw, Sufficient
  <1>6. ASSUME NEW n \in AgentNode, SkipExhausted(n) PROVE AnswerInv'
    BY <1>4, <1>6 DEF SkipExhausted, Status
  <1>7. ASSUME NEW n \in AgentNode, RunNode(n) PROVE AnswerInv'
    <2>1. PICK status \in NodeStatuses(n) : messages' = [messages EXCEPT ![n] = status]
      BY <1>7 DEF RunNode
    <2>2. status \in Status \ {"failed"}
      BY <2>1 DEF NodeStatuses, VerifierStatus, ResponseStatus, Status
    <2>3. /\ Arrives(n) /\ Advance(n) /\ messages[n] # "succeeded" /\ ~Exhausted
          /\ UNCHANGED <<intent, missing, accepted, stage, plan, pruned>>
      BY <1>7 DEF RunNode, Starts
    <2>4. n = "verifier" /\ status = "succeeded" =>
             ~Saw("failed") /\ ~Saw("abstained") /\ ~Saw("skipped")
      BY <1>1, <2>1, <2>3 DEF NodeStatuses, VerifierStatus, Kernels, GateInv
    <2>5. n = "response" /\ status = "succeeded" => missing \/ Sufficient
      BY <2>1 DEF NodeStatuses, ResponseStatus, Kernels
    <2> QED BY <1>4, <2>1, <2>2, <2>3, <2>4, <2>5
  <1>8. ASSUME NEW n \in AgentNode, ToolFails(n) PROVE AnswerInv'
    <2>1. /\ Arrives(n) /\ n \notin {"verifier", "response"} /\ failed' = n
          /\ stage' = "replanning" /\ messages' = [messages EXCEPT ![n] = "failed"]
          /\ UNCHANGED <<intent, missing, accepted, plan>>
      BY <1>8 DEF ToolFails, Starts, CallsTool
    <2>2. Saw("failed")' /\ FailedInv'
      <3>1. CASE Saw("failed")
        BY <1>1, <2>1, <3>1, AfterAFailure DEF AnswerInv, Status
      <3>2. CASE ~Saw("failed")
        BY <1>1, <1>8, <3>2, FirstFailure DEF AnswerInv
      <3> QED BY <3>1, <3>2
    <2>3. \A m \in {"verifier", "response"} : messages'[m] = messages[m]
      BY <2>1, ResponseIsANode DEF TypeInv, TypeOK
    <2> QED BY <1>1, <2>1, <2>2, <2>3 DEF AnswerInv, Sufficient
  <1>9. CASE Complete
    <2>1. /\ stage = "running" /\ stage' = "completed"
          /\ UNCHANGED <<intent, missing, accepted, plan, pruned, visited, messages, failed>>
      BY <1>9 DEF Complete
    <2>2. CASE Saw("failed")
      BY <2>1, <2>2 DEF AnswerInv, FailedInv, Saw, Sufficient
    <2>3. CASE ~Saw("failed")
      BY <2>1, <2>3 DEF AnswerInv, StraightInv, Saw, Sufficient
    <2> QED BY <2>2, <2>3
  <1>10. CASE GiveUp \/ Replan
    <2>1. /\ stage = "replanning"
          /\ UNCHANGED <<intent, missing, accepted, messages, failed>>
      BY <1>10 DEF GiveUp, Replan
    <2>2. Saw("failed") /\ FailedInv
      BY <2>1 DEF AnswerInv, StraightInv
    <2>3. \/ plan' = plan /\ stage' \notin {"pruning", "running"}
          \/ plan' = Replanned(plan, failed)
      BY <1>10 DEF GiveUp, Replan, Begin, Crash
    <2>4. FailedInv'
      <3>1. CASE plan' = plan /\ stage' \notin {"pruning", "running"}
        BY <2>1, <2>2, <3>1 DEF FailedInv
      <3>2. CASE plan' = Replanned(plan, failed)
        <4>1. plan'.nodes = plan.nodes \ {failed}
          BY <3>2 DEF Replanned, TypeInv, TypeOK, Plan
        <4> QED BY <2>1, <2>2, <4>1 DEF FailedInv
      <3> QED BY <2>3, <3>1, <3>2
    <2> QED BY <2>1, <2>2, <2>4 DEF AnswerInv, Saw, Sufficient
  <1>11. CASE UNCHANGED vars
    BY <1>11 DEF vars, AnswerInv, FailedInv, StraightInv, InLayer, Saw, Sufficient
  <1> QED BY <1>2, <1>3, <1>5, <1>6, <1>7, <1>8, <1>9, <1>10, <1>11 DEF Next, ExecuteNode

\* An answer stands on every step of the plan, none of which failed, abstained
\* or was skipped: with the rule planner's plans, for every budget and bound.
THEOREM WholeAnswer == RulePlansOnly => (Spec => []AnswerIsWhole)
  <1> SUFFICES ASSUME RulePlansOnly PROVE Spec => []AnswerIsWhole
    OBVIOUS
  <1>1. Init => AnswerInv
    BY AnswerInit
  <1>2. TypeInv /\ RunInv /\ AnswerInv => AnswerIsWhole
    <2> SUFFICES ASSUME TypeInv, RunInv, AnswerInv, ResponseKind = "answer"
                 PROVE  /\ \A n \in plan.nodes : messages[n] = "succeeded"
                        /\ ~Saw("failed") /\ ~Saw("abstained") /\ ~Saw("skipped")
      BY DEF AnswerIsWhole
    <2> USE DEF TypeInv, TypeOK
    <2>1. messages["response"] = "succeeded" /\ ~missing
      <3>1. messages["response"] # "failed"
        BY ResponseIsANode DEF RunInv, GateInv, CallsTool
      <3> QED BY <3>1, ResponseIsANode DEF ResponseKind, Status
    <2>2. messages["verifier"] = "succeeded"
      BY <2>1 DEF AnswerInv, Sufficient
    <2>3. ~Saw("failed") /\ StraightInv
      BY <2>2 DEF AnswerInv, FailedInv
    <2>4. /\ \A n \in plan.nodes : messages[n] = "succeeded"
          /\ \A n \in AgentNode : messages[n] \in {"succeeded", Absent}
      BY <2>1, <2>2, <2>3 DEF StraightInv
    <2> QED BY <2>3, <2>4, RunAssumption DEF Saw, Status
  <1>3. AnswerInv /\ TypeInv /\ RunInv /\ [Next]_vars => AnswerInv'
    BY AnswerStep
  <1> QED BY <1>1, <1>2, <1>3, Invariance, PTL DEF Spec
=============================================================================
