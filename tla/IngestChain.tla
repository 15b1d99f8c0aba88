----------------------------- MODULE IngestChain -----------------------------
(***************************************************************************)
(* ResilientIngestor.fetch: the sources that can serve a request are asked *)
(* in order of authority until each variable is served, through the HTTP   *)
(* client the adapters share and the archive of raw payloads.              *)
(*                                                                         *)
(* A step runs from one await of the code to the next.  heard is history:  *)
(* what the sources said, whether or not the chain kept it.                *)
(***************************************************************************)
EXTENDS Naturals, Sequences, SequencesExt, FiniteSets

CONSTANTS
    Source,
    Order,           \* the registered adapters by (authority_rank, source_id)
    Kind,            \* "grid" (IncoisErddapAdapter), "point" (OpenMeteoMarineAdapter)
                     \* or "locked" (every CredentialedAdapter)
    Publishes,       \* the variables of each source, in its own order
    Deadline,        \* cadence.period + cadence.grace
    Requests,        \* [variables, covering: the sources whose box overlaps,
                     \*  ended: the archives whose coverage ends before it]
    Task,            \* fetches that may overlap on the event loop
    Retries,         \* DEFAULT_RETRIES
    SharedFetcher,   \* the adapters were built with one HttpFetcher
    Lags,            \* how old what a source returns may be
    StartClock, MaxClock, MaxRestarts, \* bounds
    None

VARIABLES
    clock,
    metadata,   \* the grids whose discover() has succeeded
    looking,    \* the grids being discovered
    client,     \* the shared AsyncClient is open
    backend,    \* the archive is a FilesystemArchive or an S3Archive
    archive,    \* what is stored under each source's content address
    task, restarts

chainVars == <<clock, metadata, looking, client, backend, archive, task, restarts>>

ASSUME ChainAssumption ==
    /\ Order \in Seq(Source)
    /\ \A i, j \in DOMAIN Order : Order[i] = Order[j] => i = j
    /\ Kind \in [Source -> {"grid", "point", "locked"}]
    /\ Deadline \in [Source -> Nat]
    /\ Lags \subseteq 0..StartClock
    /\ SharedFetcher \in BOOLEAN
    /\ {Retries, StartClock, MaxClock, MaxRestarts} \subseteq Nat
    /\ StartClock <= MaxClock

NoTask == [pc |-> "idle"]

\* CredentialedAdapter: without a credential every fetch is unavailable.
Locked(s) == Kind[s] = "locked"

-----------------------------------------------------------------------------
(* The adapters.                                                           *)

Members(seq) == {seq[i] : i \in DOMAIN seq}

\* A grid serves what its metadata lists, and nothing before it is known.
Serves(s, v) == v \in Members(Publishes[s]) /\ (Kind[s] = "grid" => s \in metadata)

Servable(s, variables) == {v \in variables : Serves(s, v)}

Candidates(request) ==
    {s \in Members(Order) : s \in request.covering /\ Servable(s, request.variables) # {}}

\* A grid query returns one variable, the first of the dataset that is asked for.
SelectVariable(s, variables) ==
    {v \in variables : \E i \in DOMAIN Publishes[s] :
        /\ Publishes[s][i] = v
        /\ \A j \in 1..(i - 1) : Publishes[s][j] \notin variables}

Scope(s, variables) == IF Kind[s] = "grid" THEN SelectVariable(s, variables) ELSE variables

\* An archive's issue time is its valid time; a forecast's is its retrieval.
IssueTimes(s) == IF Kind[s] = "grid" THEN {clock - l : l \in Lags} ELSE {clock}

\* A gap in the upstream answer is a record too: value None, quality MISSING.
Replies(s, scope) ==
    SUBSET [source : {s}, variable : scope, issued : IssueTimes(s), gap : BOOLEAN]

IsFresh(r, now) == now <= r.issued + Deadline[r.source]

-----------------------------------------------------------------------------
(* One pass of the loop of ResilientIngestor.fetch ends by recording an    *)
(* attempt and going on to the next adapter in Order.                      *)

At(f) == Order[f.next]

Attempt(f, outcome) ==
    [f EXCEPT !.pc = "chain", !.next = @ + 1,
              !.attempts = Append(@, [source |-> At(f), outcome |-> outcome])]

Fresh(f, reply) == {r \in reply : IsFresh(r, f.now)}

\* What was asked for counts as served, not what was accepted.
MutAnsweredAsAsked(f, reply) ==
    IF reply = {} THEN Attempt(f, "empty")
    ELSE IF Fresh(f, reply) = {} THEN Attempt(f, "stale")
    ELSE [Attempt(f, "success") EXCEPT
             !.records = @ \cup Fresh(f, reply), !.outstanding = @ \ f.scope]

Answered(f, reply) ==
    IF reply = {} THEN Attempt(f, "empty")
    ELSE IF Fresh(f, reply) = {} THEN Attempt(f, "stale")
    ELSE [Attempt(f, "success") EXCEPT
             !.records = @ \cup Fresh(f, reply),
             !.outstanding = @ \ {r.variable : r \in Fresh(f, reply)}]

Heard(f, reply) == [f EXCEPT !.heard = @ \cup reply]

-----------------------------------------------------------------------------
Begin(t) ==
    /\ task[t].pc = "idle"
    /\ \E request \in Requests :
          task' = [task EXCEPT ![t] =
            [pc |-> "chain", now |-> clock, request |-> request,
             outstanding |-> request.variables,
             chain |-> Candidates(request), next |-> 1,
             scope |-> {}, tries |-> 0, records |-> {}, attempts |-> <<>>,
             refs |-> {}, heard |-> {}]]
    /\ UNCHANGED <<backend, clock, metadata, looking, client, archive, restarts>>

Finish(t) ==
    /\ task[t].pc = "chain"
    /\ task[t].next > Len(Order) \/ task[t].outstanding = {}
    /\ task' = [task EXCEPT ![t].pc = "done"]
    /\ UNCHANGED <<backend, clock, metadata, looking, client, archive, restarts>>

\* HttpFetcher.__aenter__ and __aexit__.
Enter == client' = SharedFetcher
Leave == client' = FALSE

Ask(t) ==
    LET f == task[t]
        s == At(f)
        asked == s \in f.chain /\ Servable(s, f.outstanding) # {} IN
    /\ f.pc = "chain" /\ f.next <= Len(Order) /\ f.outstanding # {}
    /\ \/ /\ ~asked
          /\ task' = [task EXCEPT ![t] = [f EXCEPT !.next = @ + 1]]
          /\ UNCHANGED client
       \/ /\ asked /\ Locked(s)
          /\ task' = [task EXCEPT ![t] = Attempt(f, "unavailable")]
          /\ UNCHANGED client
       \/ /\ asked /\ s \in f.request.ended
          /\ task' = [task EXCEPT ![t] = Attempt(f, "empty")]
          /\ UNCHANGED client
       \/ /\ asked /\ ~Locked(s) /\ s \notin f.request.ended
          /\ task' = [task EXCEPT ![t] = [f EXCEPT !.pc = "get", !.tries = 0,
                             !.scope = Scope(s, Servable(s, f.outstanding))]]
          /\ Enter
    /\ UNCHANGED <<backend, clock, metadata, looking, archive, restarts>>

\* A client closed by another fetch is no httpx.HTTPError: nothing catches it.
ClientLost == SharedFetcher /\ ~client

Lost(t) ==
    /\ task[t].pc = "get" /\ ClientLost
    /\ task' = [task EXCEPT ![t].pc = "raised"]
    /\ UNCHANGED <<backend, clock, metadata, looking, client, archive, restarts>>

\* A transport error, or a status worth another try.
Retry(t) ==
    /\ task[t].pc = "get" /\ ~ClientLost
    /\ task[t].tries < Retries
    /\ task' = [task EXCEPT ![t].tries = @ + 1]
    /\ UNCHANGED <<backend, clock, metadata, looking, client, archive, restarts>>

\* A refusal starts the retries over and never gives the source up.
MutRefusedStartsOver(t) ==
    /\ task[t].pc = "get" /\ ~ClientLost
    /\ task' = [task EXCEPT ![t].tries = 0]
    /\ UNCHANGED <<backend, clock, metadata, looking, client, archive, restarts>>

\* HttpError, a status that is not 2xx, or a 404 that a grid reads as no data.
Refused(t) ==
    LET f == task[t] IN
    /\ f.pc = "get" /\ ~ClientLost
    /\ Leave
    /\ \E outcome \in {"unavailable"} \cup (IF Kind[At(f)] = "grid" THEN {"empty"} ELSE {}) :
          task' = [task EXCEPT ![t] = Attempt(f, outcome)]
    /\ UNCHANGED <<backend, clock, metadata, looking, archive, restarts>>

\* store(): the filesystem keeps whatever stands under the content address.
Store(s) == [archive EXCEPT ![s] = IF backend = "s3" \/ @ = "absent" THEN "whole" ELSE @]

\* Only what came at the first try is archived.
MutReceiveArchivesFirstTries(t) ==
    LET f == task[t]
        s == At(f)
        stored == [f EXCEPT !.refs = @ \cup {s}] IN
    /\ f.pc = "get" /\ ~ClientLost
    /\ Leave
    /\ archive' = IF f.tries = 0 THEN Store(s) ELSE archive
    /\ \E reply \in Replies(s, f.scope) :
          task' = [task EXCEPT ![t] = Answered(Heard(stored, reply), reply)]
    /\ UNCHANGED <<backend, clock, metadata, looking, restarts>>

Receive(t) ==
    LET f == task[t]
        s == At(f)
        stored == [f EXCEPT !.refs = @ \cup {s}] IN
    /\ f.pc = "get" /\ ~ClientLost
    /\ Leave
    /\ archive' = Store(s)
    /\ \E reply \in Replies(s, f.scope) :
          task' = [task EXCEPT ![t] = Answered(Heard(stored, reply), reply)]
    /\ UNCHANGED <<backend, clock, metadata, looking, restarts>>

\* A payload that is archived and then does not parse raises out of the chain.
Unparseable(t) ==
    /\ task[t].pc = "get" /\ ~ClientLost
    /\ Leave
    /\ archive' = Store(At(task[t]))
    /\ task' = [task EXCEPT ![t].pc = "raised"]
    /\ UNCHANGED <<backend, clock, metadata, looking, restarts>>

DiscoverBegins(s) ==
    /\ Kind[s] = "grid" /\ s \notin metadata \cup looking
    /\ looking' = looking \cup {s}
    /\ Enter
    /\ UNCHANGED <<backend, clock, metadata, archive, task, restarts>>

DiscoverEnds(s) ==
    /\ s \in looking
    /\ looking' = looking \ {s}
    /\ metadata' \in {metadata} \cup (IF ClientLost THEN {} ELSE {metadata \cup {s}})
    /\ Leave
    /\ UNCHANGED <<backend, clock, archive, task, restarts>>

\* The process dies, perhaps in the middle of writing a payload.
Crash ==
    /\ restarts < MaxRestarts
    /\ restarts' = restarts + 1
    /\ \/ UNCHANGED archive
       \/ \E t \in Task :
            /\ task[t].pc = "get" /\ backend = "filesystem"
            /\ archive[At(task[t])] = "absent"
            /\ archive' = [archive EXCEPT ![At(task[t])] = "torn"]
    /\ metadata' = {} /\ looking' = {} /\ client' = FALSE
    /\ task' = [t \in Task |-> NoTask]
    /\ UNCHANGED <<clock, backend>>

ChainTick ==
    /\ clock < MaxClock
    /\ clock' = clock + 1
    /\ UNCHANGED <<backend, metadata, looking, client, archive, task, restarts>>

ChainInit ==
    /\ clock = StartClock /\ restarts = 0
    /\ metadata = {} /\ looking = {} /\ client = FALSE
    /\ backend \in {"filesystem", "s3"}
    /\ archive = [s \in Source |-> "absent"]
    /\ task = [t \in Task |-> NoTask]

FetchStep(t) ==
    Finish(t) \/ Ask(t) \/ Lost(t) \/ Retry(t) \/ Refused(t) \/ Receive(t) \/ Unparseable(t)

ChainNext ==
    \/ \E t \in Task : Begin(t) \/ FetchStep(t)
    \/ \E s \in Source : DiscoverBegins(s) \/ DiscoverEnds(s)
    \/ Crash \/ ChainTick

ChainSpec == ChainInit /\ [][ChainNext]_chainVars

-----------------------------------------------------------------------------
\* What a caller of ResilientIngestor.fetch is promised.
FetchRecord == [source : Source, variable : UNION {Members(Publishes[s]) : s \in Source},
                issued : 0..MaxClock, gap : BOOLEAN]

\* The variables of the chain have their types.
ChainTypeOK ==
    /\ clock \in StartClock..MaxClock
    /\ metadata \subseteq Source /\ looking \subseteq Source
    /\ client \in BOOLEAN
    /\ backend \in {"filesystem", "s3"}
    /\ archive \in [Source -> {"absent", "torn", "whole"}]
    /\ \A t \in Task :
          /\ task[t].pc \in {"idle", "chain", "get", "done", "raised"}
          /\ task[t].pc # "idle" =>
                /\ task[t].records \subseteq FetchRecord
                /\ task[t].outstanding \subseteq task[t].request.variables
                /\ task[t].tries \in 0..Retries

Done(t) == task[t].pc = "done"

Position(s) == CHOOSE i \in DOMAIN Order : Order[i] = s

\* Those of the chain's sources that said something fresh about v.
Givers(f, v) == {r.source : r \in {h \in f.heard : h.variable = v /\ IsFresh(h, f.now)}}

Attempted(f) == {f.attempts[i].source : i \in DOMAIN f.attempts}

FirstGiver(f, v) ==
    CHOOSE s \in Givers(f, v) : \A o \in Givers(f, v) : Position(s) <= Position(o)

\* The policy of degradation.py:1-18 without the loop: a variable is answered
\* by the most authoritative source that said anything fresh about it, with
\* all the fresh things it said and nothing from any other source; it is
\* missing exactly when no source did.
AnswersByAuthority ==
    \A t \in Task : Done(t) =>
        LET f == task[t] IN
        \A v \in f.request.variables :
            LET kept == {r \in f.records : r.variable = v} IN
            IF Givers(f, v) = {} THEN kept = {} /\ v \in f.outstanding
            ELSE /\ v \notin f.outstanding
                 /\ kept = {h \in f.heard : /\ h.variable = v /\ IsFresh(h, f.now)
                                            /\ h.source = FirstGiver(f, v)}

\* "Every attempt is recorded, not just the winner" (degradation.py:7): each
\* candidate that serves a variable and comes before the source that answered
\* it, or all of them when none did, is in the trail, once and in order.
FallbackIsExplained ==
    \A t \in Task : Done(t) =>
        LET f == task[t] IN
        /\ \A i, j \in DOMAIN f.attempts :
              i < j => Position(f.attempts[i].source) < Position(f.attempts[j].source)
        /\ \A v \in f.request.variables, s \in f.chain :
              /\ v \in Members(Publishes[s])
              /\ v \in f.outstanding \/ Position(s) <= Position(FirstGiver(f, v))
              => s \in Attempted(f)

\* What a fetch returns is the best that was to be had, and it shows why.
AnswersAreTheBest == ChainTypeOK /\ AnswersByAuthority /\ FallbackIsExplained

AnswersAreKept ==
    \A t \in Task : Done(t) =>
        \A r \in task[t].records : r.source \in task[t].refs /\ archive[r.source] = "whole"

\* "A decision is re-run from the archived bytes" (archive.py:6): whatever the
\* process died of since, the payload behind each record a fetch returns is in
\* the object store, whole.
AnswersCanBeReplayed == backend = "s3" => AnswersAreKept

\* The same of the directory that "tests and offline development" use
\* (archive.py:70): "identical bytes need no rewrite" trusts a file that exists.
FilesCanBeReplayed == backend = "filesystem" => AnswersAreKept

\* A client another fetch is using is not closed under it (http.py:80 "shared
\* by adapters").
NoFetchLosesItsClient ==
    \A t \in Task : task[t].pc = "get" => ~ClientLost

\* "Partial success is expressed through missing_variables" (adapter.py:107):
\* a variable about which the chosen source had only gaps is not served, so
\* every other candidate that publishes it was asked.
GapsFallThrough ==
    \A t \in Task : Done(t) =>
        LET f == task[t] IN
        \A v \in f.request.variables :
            (\A r \in f.records : r.variable = v => r.gap) =>
                \A s \in f.chain :
                    v \in Members(Publishes[s]) => s \in Attempted(f)

\* The event loop runs the steps of a fetch it has started, and a request ends
\* by answer or timeout (DEFAULT_TIMEOUT_SECONDS).
ChainLiveSpec == ChainSpec /\ \A t \in Task : WF_chainVars(FetchStep(t))

\* Whatever the sources do, a fetch ends.
FetchReturns ==
    \A t \in Task : task[t].pc \in {"chain", "get"} ~> task[t].pc \in {"done", "raised", "idle"}
=============================================================================
