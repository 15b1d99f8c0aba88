\* Whatever a language model proposes over four nodes.
SPECIFICATION Spec
CONSTANTS
    Proposals <- AnyProposal
    Budgets <- TwoCeilings
    FailureSeconds = {1}
    SlowestFailure = 1
    MaxReplans = 2
    Absent = Absent
INVARIANTS GuardsKept AllAccounted
PROPERTIES NothingRunsEarly SuccessStands
CHECK_DEADLOCK FALSE
