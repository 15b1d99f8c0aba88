\* The rule planner's plans under every ceiling.
SPECIFICATION LiveSpec
CONSTANTS
    Proposals <- Malformed
    Budgets <- Ceilings
    FailureSeconds = {1, 300}
    SlowestFailure = 300
    MaxReplans = 2
    Absent = Absent
INVARIANTS TypeOK AnswerIsWhole OverrunIsOneStep
PROPERTIES ImplementsVerdict RunReturns
CHECK_DEADLOCK FALSE
