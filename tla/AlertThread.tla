----------------------------- MODULE AlertThread -----------------------------
(***************************************************************************)
(* What the alert service promises a CAP consumer, key by key: a thread of *)
(* messages in which an Alert opens an episode, every Update supersedes    *)
(* the message before it, and a Cancel closes an episode whose last        *)
(* message was severe.  The service may forget an episode (its records     *)
(* live in memory), after which the next message opens a new one; it never *)
(* supersedes or cancels what it has forgotten.                            *)
(***************************************************************************)
EXTENDS AlertTypes

VARIABLES
    thread,     \* key -> the last message of its thread, None before any
    known       \* key -> whether the service still knows of an open episode

threadVars == <<thread, known>>

ThreadInit ==
    /\ thread = [k \in AlertKey |-> None]
    /\ known  = [k \in AlertKey |-> FALSE]

\* Only k's thread moves, to a message about k no older than the last one.
Extends(k, m) ==
    /\ m \in Message
    /\ m.identifier = MakeIdentifier(k.user, k.trigger, m.sent)
    /\ thread[k] # None => thread[k].sent <= m.sent
    /\ \A j \in AlertKey \ {k} : thread'[j] = thread[j]

KnownBecomes(k, b) == known' = [known EXCEPT ![k] = b]

Open(k) == LET m == thread'[k] IN
    /\ ~known[k]
    /\ Extends(k, m) /\ m.type = "Alert" /\ m.references = None
    /\ Fired(m.outcome)
    /\ KnownBecomes(k, TRUE)

\* Unless it brings worse news or a halved time to the boundary, a message
\* is repeated only after the window of its severity.
Newsworthy(old, m) ==
    \/ OutcomeRank[m.outcome] > OutcomeRank[old.outcome]
    \/ /\ m.minutes # None /\ old.minutes # None
       /\ 2 * m.minutes <= old.minutes
    \/ m.sent - old.sent >= Window[m.severity]

Supersede(k) == LET m == thread'[k] IN
    /\ known[k]
    /\ Extends(k, m) /\ m.type = "Update"
    /\ m.references = thread[k].identifier
    /\ Fired(m.outcome) /\ Newsworthy(thread[k], m)
    /\ UNCHANGED known

Cancel(k) == LET m == thread'[k] IN
    /\ known[k]
    /\ AtLeast(thread[k].severity, "Severe")
    /\ Extends(k, m) /\ m.type = "Cancel"
    /\ m.references = thread[k].identifier
    /\ ~Fired(m.outcome)
    /\ KnownBecomes(k, FALSE)

Forget ==
    /\ known' \in [AlertKey -> BOOLEAN]
    /\ \A k \in AlertKey : known'[k] => known[k]
    /\ UNCHANGED thread

ThreadNext ==
    \/ \E k \in AlertKey : Open(k) \/ Supersede(k) \/ Cancel(k)
    \/ Forget

ThreadSpec == ThreadInit /\ [][ThreadNext]_threadVars
==============================================================================
