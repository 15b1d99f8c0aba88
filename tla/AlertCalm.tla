------------------------------ MODULE AlertCalm ------------------------------
(***************************************************************************)
(* The scheduler once a storm has passed.  From some moment on every       *)
(* subscriber has a fresh fix, every template can be filled, no cache      *)
(* raises, and a tick evaluates one of the quiet batches.  What the        *)
(* scheduler must then do, given that ticks keep being called and run to   *)
(* their end, is stand down the severe threads it still remembers: before  *)
(* the calm and in it the process may restart and records may be pruned,   *)
(* and what is forgotten is never stood down.                              *)
(***************************************************************************)
EXTENDS AlertMC

CONSTANT QuietBatches   \* the batches a calm tick can evaluate

VARIABLE calm

calmVars == <<vars, calm>>

ASSUME CalmAssumption ==
    /\ QuietBatches \subseteq Batches
    /\ \A batch \in QuietBatches : \A i \in DOMAIN batch : ~Fired(batch[i].outcome)

CalmInit == Init /\ calm = FALSE

\* The weather clears between two ticks, and stays clear.
Clears ==
    /\ Idle /\ ~calm
    /\ calm' = TRUE
    /\ UNCHANGED vars

EvaluateQuiet(u) ==
    /\ Evaluate(u)
    /\ todo' \in QuietBatches
    /\ todo' # <<>> => context' = ContextField

CalmStep ==
    \/ Elapse \/ StartTick \/ Prune \/ Restart
    \/ \E u \in User : EvaluateQuiet(u)
    \/ HandleQuietly \/ Emit

CalmNext ==
    \/ Clears
    \/ ~calm /\ Next /\ UNCHANGED calm
    \/ calm /\ CalmStep /\ UNCHANGED calm

\* A deployment calls tick on a cadence ("a scheduler framework calls
\* tick(now=...)", scheduler.py:16) and a call runs to its end, subscriber by
\* subscriber.
CalmFairness ==
    /\ WF_calmVars(calm /\ StartTick /\ UNCHANGED calm)
    /\ WF_calmVars(calm /\ (HandleQuietly \/ Emit) /\ UNCHANGED calm)
    /\ \A u \in User : WF_calmVars(calm /\ EvaluateQuiet(u) /\ UNCHANGED calm)

CalmSpec == CalmInit /\ [][CalmNext]_calmVars /\ CalmFairness

-----------------------------------------------------------------------------
Standing(k) == thread[k] # None /\ AtLeast(thread[k].severity, "Severe")
Remembered(k) == records[k] # None

\* "'No more alerts' is distinguishable from 'the app died'" (dedup.py:21):
\* after the weather clears, a severe alert the deduplicator remembers does
\* not stay the last word, unless a restart or a pruning makes it forget;
\* ticks before may have been cut short, subscribers skipped, and records
\* forgotten and made again.
SevereIsStoodDown ==
    \A k \in AlertKey :
        (calm /\ Standing(k) /\ Remembered(k)) ~> (~Standing(k) \/ ~Remembered(k))

\* The same sentence without the condition: no subscriber is left with a
\* severe alert as the last word, however it was forgotten.
NobodyIsLeftInAlarm ==
    \A k \in AlertKey : (calm /\ Standing(k)) ~> ~Standing(k)
==============================================================================
