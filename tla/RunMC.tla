-------------------------------- MODULE RunMC --------------------------------
(***************************************************************************)
(* Instances of the engine: the rule planner's six plans, and the plans a  *)
(* language model could propose over four nodes, with budgets that bind at *)
(* different points of a run.                                              *)
(***************************************************************************)
EXTENDS RunEngine

\* Output that is not a plan: the rule planner plans.
Malformed == {PlanOf(<<>>, {})}

\* config/models.yaml, then ceilings met by the calls, the tokens or the clock.
Ceilings ==
    {Spend(1200, 450, 24), Spend(1200, 450, 3), Spend(1200, 450, 9),
     Spend(1200, 14, 24), Spend(15, 450, 24), Spend(21, 450, 5)}

TwoCeilings == {Spend(1200, 450, 24), Spend(1200, 450, 1)}

\* Each way the steps over these nodes may wait for one another, the ways
\* that do not validate too, and what is marked optional.
GraphsOver(nodes) ==
    {[nodes    |-> nodes,
      deps     |-> [n \in AgentNode |-> IF n \in nodes THEN d[n] ELSE {}],
      optional |-> o] :
        d \in {e \in [nodes -> SUBSET nodes] :
                 \A n \in nodes : Cardinality(e[n]) <= 2},
        o \in {{}, nodes}}

\* Proposals over the two sources that stand in for each other.
SourceGraphs == GraphsOver({"marine_data", "weather", "verifier", "response"})

\* A chain of steps that may be pruned, and the answer they lead to.
ChainGraphs == GraphsOver({"geospatial", "ecosystem", "route"})

AnyProposal == SourceGraphs \cup ChainGraphs

\* The verifier is not made to wait for the kernel.
EagerGate ==
    {PlanOf([planner |-> {}, weather |-> {"planner"}, risk |-> {"weather"},
             verifier |-> {"planner"}, response |-> {"verifier", "risk"}], {})}
=============================================================================
