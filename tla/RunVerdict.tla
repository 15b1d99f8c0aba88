----------------------------- MODULE RunVerdict -----------------------------
(***************************************************************************)
(* What a run of the orchestrator promises the caller, whatever happens to *)
(* its tools, its budget and its plan: the sufficiency gate judges once    *)
(* and is never reopened, the user hears an answer only past an open gate, *)
(* and what was said is not taken back, except that a budget that runs out *)
(* may silence an abstention.                                              *)
(***************************************************************************)
VARIABLES
    asks,      \* the request lacks a slot it requires
    gate,      \* the verifier's judgement
    verdict,   \* what the response node said
    over       \* the run has returned

verdictVars == <<asks, gate, verdict, over>>

VerdictInit == asks \in BOOLEAN /\ gate = "untried" /\ verdict = "none" /\ over = FALSE

Judge ==
    /\ gate = "untried"
    /\ gate' \in {"passed", "shut"}
    /\ UNCHANGED <<asks, verdict, over>>

Speak ==
    /\ verdict = "none"
    /\ verdict' = IF asks THEN "question"
                  ELSE IF gate = "passed" THEN "answer" ELSE "abstention"
    /\ UNCHANGED <<asks, gate, over>>

FallSilent ==
    /\ verdict \in {"none", "abstention"}
    /\ verdict' = "silence"
    /\ UNCHANGED <<asks, gate, over>>

Return ==
    /\ over' = TRUE
    /\ UNCHANGED <<asks, gate, verdict>>

VerdictNext == ~over /\ (Judge \/ Speak \/ FallSilent \/ Return)

VerdictSpec == VerdictInit /\ [][VerdictNext]_verdictVars
=============================================================================
