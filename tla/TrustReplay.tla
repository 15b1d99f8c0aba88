---------------------------- MODULE TrustReplay ----------------------------
(***************************************************************************)
(* The provenance graph of a run, its store and the replay of a run from   *)
(* the archived payloads.  A node's content stands for its label and       *)
(* attributes: the digest of a payload, the version of a formula, the      *)
(* value of an output.  Node ids are numbers in the order of their names.  *)
(***************************************************************************)
EXTENDS Naturals, Sequences, FiniteSets, SequencesExt

CONSTANTS
    RunId,
    NodeChoices,    \* nodes a run may add: [id, kind, content, writable]
    EdgeChoices,    \* links a run may add: <<source, target, relation>>
    MaxEdges,       \* bound on the links of one graph
    Recomputed,     \* the graphs a caller's recompute may come to
    NoRun,
    NoOutput,       \* attributes.get("value") of an output without one
    Digests,
    Versions,
    MaxRecords      \* bound on the records

VARIABLES
    db,        \* what is committed
    work,      \* what the store's own connection sees
    archive,   \* "intact", "changed" or "missing", per digest
    current,   \* the version of the formula in use
    report,    \* the last replay, until something it read changes
    records,   \* counter
    recorded,  \* history: the graph each run last recorded and committed
    cut        \* history: for db and for work, what the interrupted record a
               \* run's rows are from could at most have written

replayVars == <<db, work, archive, current, report, records, recorded, cut>>

\* The stages in the order they may be linked, edges only forward (_ORDER).
StageOf == [dataset |-> 0, raw_payload |-> 1, agent |-> 2, formula |-> 3, output |-> 4]

ASSUME ReplayAssumption ==
    /\ NodeChoices \subseteq
          [id : Nat, kind : DOMAIN StageOf, content : Digests \cup Versions \cup STRING \cup {NoOutput},
           writable : BOOLEAN]
    /\ {MaxEdges, MaxRecords} \subseteq Nat
    /\ NoRun \notin [nodes : SUBSET NodeChoices, edges : SUBSET EdgeChoices]
    /\ NoRun \notin [nodes : SUBSET NodeChoices, edges : Seq(EdgeChoices)]

NodeOf(nodes, id) == CHOOSE n \in nodes : n.id = id

Ids(nodes) == {n.id : n \in nodes}

\* ProvenanceGraph refuses a node twice, an unknown end and a step back.
WellFormed(g) ==
    /\ \A m, n \in g.nodes : m.id = n.id => m = n
    /\ \A i \in DOMAIN g.edges :
          LET e == g.edges[i] IN
          /\ {e[1], e[2]} \subseteq Ids(g.nodes)
          /\ StageOf[NodeOf(g.nodes, e[1]).kind] <= StageOf[NodeOf(g.nodes, e[2]).kind]

\* What ProvenanceBuilder can have added and linked when build succeeds.
Graphs ==
    {g \in [nodes : SUBSET NodeChoices, edges : BoundedSeq(EdgeChoices, MaxEdges)] : WellFormed(g)}

OfKind(g, kind) == {n \in g.nodes : n.kind = kind}

PayloadHashes(g) == {n.content : n \in OfKind(g, "raw_payload")}

Pair(e) == <<e[1], e[2]>>

\* The stable sort by source and target keeps the edges of a pair in the order
\* they are in, as the first, the second, ... of their pair; nothing else of
\* the order of nodes and edges is hashed.
Fingerprint(g) ==
    [nodes |-> {[id |-> n.id, kind |-> n.kind, content |-> n.content] : n \in g.nodes},
     edges |-> {<<Cardinality({j \in 1..i : Pair(g.edges[j]) = Pair(g.edges[i])}), g.edges[i]>> :
                   i \in DOMAIN g.edges}]

Row(g) == [nodes |-> g.nodes, edges |-> ToSet(g.edges)]

\* The run's row and the deletes come first; the first node that json cannot
\* write raises with the transaction left open and the edges still to come.
Interrupted(nodes) ==
    {[nodes |-> done, edges |-> {}] : done \in SUBSET {n \in nodes : n.writable}}

NoReport == [outcome |-> "none"]

Completed(run) ==
    LET rest == [cut.work EXCEPT ![run] = NoRun] IN [work |-> rest, db |-> rest]

\* Recording without deleting the rows of the run first.
MutRecordAdds(run, g) ==
    /\ records < MaxRecords
    /\ records' = records + 1
    /\ \A n \in g.nodes : n.writable
    /\ work' = [work EXCEPT ![run] =
                  IF @ = NoRun THEN Row(g)
                  ELSE [nodes |-> @.nodes \cup g.nodes, edges |-> @.edges \cup ToSet(g.edges)]]
    /\ db' = work'
    /\ recorded' = [recorded EXCEPT ![run] = g]
    /\ cut' = Completed(run)
    /\ report' = NoReport
    /\ UNCHANGED <<archive, current>>

\* The commit is of all that is open on the connection, whichever run's it is.
Record(run, g) ==
    /\ records < MaxRecords
    /\ records' = records + 1
    /\ IF \A n \in g.nodes : n.writable
       THEN /\ work' = [work EXCEPT ![run] = Row(g)]
            /\ db' = work'
            /\ recorded' = [recorded EXCEPT ![run] = g]
            /\ cut' = Completed(run)
       ELSE /\ \E row \in Interrupted(g.nodes) : work' = [work EXCEPT ![run] = row]
            /\ cut' = [cut EXCEPT !.work[run] = [nodes |-> g.nodes, edges |-> {}]]
            /\ UNCHANGED <<db, recorded>>
    /\ report' = NoReport
    /\ UNCHANGED <<archive, current>>

\* The rows come back in the order of source and target alone.
Loaded(row) ==
    {[nodes |-> row.nodes, edges |-> s] :
        s \in {t \in [1..Cardinality(row.edges) -> row.edges] :
                  \A i, j \in DOMAIN t : i < j =>
                      /\ t[i] # t[j]
                      /\ \/ t[i][1] < t[j][1]
                         \/ t[i][1] = t[j][1] /\ t[i][2] <= t[j][2]}}

MutBadPayloadsMissing(g) == {n \in OfKind(g, "raw_payload") : archive[n.content] = "missing"}

\* verify_payloads stops at the first payload that is missing or changed.
BadPayloads(g) == {n \in OfKind(g, "raw_payload") : archive[n.content] # "intact"}

FirstBad(g) == CHOOSE n \in BadPayloads(g) : \A m \in BadPayloads(g) : n.id <= m.id

FormulasChanged(g) == \E n \in OfKind(g, "formula") : n.content # current

OutputValue(g, id) ==
    IF \E n \in OfKind(g, "output") : n.id = id THEN NodeOf(g.nodes, id).content ELSE NoOutput

\* _diff_outputs reads both sides of every output that differs.
DiffRaises(g, replayed) ==
    LET before == Ids(OfKind(g, "output"))  after == Ids(OfKind(replayed, "output")) IN
    \E id \in before \cup after :
        OutputValue(g, id) # OutputValue(replayed, id) /\ ~(id \in before /\ id \in after)

Outcome(g, replayed, pinned) ==
    IF BadPayloads(g) # {}
    THEN IF archive[FirstBad(g).content] = "missing"
         THEN "evidence_unavailable" ELSE "evidence_tampered"
    ELSE IF pinned /\ FormulasChanged(g) THEN "formula_changed"
    ELSE IF Fingerprint(replayed) = Fingerprint(g) THEN "identical"
    ELSE IF DiffRaises(g, replayed) THEN "raised" ELSE "output_differs"

\* replay_run on a loaded graph, which is what the connection sees, committed or
\* not; recompute is the caller's, and its graph depends on code that is not
\* part of this.
Replay(run) ==
    /\ work[run] # NoRun
    /\ \E g \in Loaded(work[run]), replayed \in Recomputed, pinned \in BOOLEAN :
          report' = [outcome |-> Outcome(g, replayed, pinned), run |-> run,
                     replayed |-> replayed, pinned |-> pinned]
    /\ UNCHANGED <<db, work, archive, current, records, recorded, cut>>

Damage(d) ==
    /\ archive[d] = "intact"
    /\ \E how \in {"changed", "missing"} : archive' = [archive EXCEPT ![d] = how]
    /\ report' = NoReport
    /\ UNCHANGED <<db, work, current, records, recorded, cut>>

Release(v) ==
    /\ v # current
    /\ current' = v
    /\ report' = NoReport
    /\ UNCHANGED <<db, work, archive, records, recorded, cut>>

\* The connection is lost, and with it what it had not committed.
Reconnect ==
    /\ work # db
    /\ work' = db
    /\ cut' = [cut EXCEPT !.work = cut.db]
    /\ report' = NoReport
    /\ UNCHANGED <<db, archive, current, records, recorded>>

\* The query runs on the same connection.
RunsUsingPayload(d) ==
    {run \in RunId : work[run] # NoRun /\ d \in PayloadHashes(work[run])}

ReplayInit ==
    /\ db = [r \in RunId |-> NoRun] /\ work = db /\ recorded = db
    /\ archive = [d \in Digests |-> "intact"]
    /\ current \in Versions
    /\ report = NoReport /\ records = 0
    /\ cut = [work |-> recorded, db |-> recorded]

ReplayNext ==
    \/ \E run \in RunId, g \in Graphs : Record(run, g)
    \/ \E run \in RunId : Replay(run)
    \/ \E d \in Digests : Damage(d)
    \/ \E v \in Versions : Release(v)
    \/ Reconnect

ReplaySpec == ReplayInit /\ [][ReplayNext]_replayVars

-----------------------------------------------------------------------------
Replayed == report # NoReport

Outputs(g) == {<<n.id, n.content>> : n \in OfKind(g, "output")}

RowOf(g) == IF g = NoRun THEN NoRun ELSE Row(g)

\* Rows are those of one graph: of the one recorded last, or, after an
\* interrupted record, some of the nodes of its graph and no link.
OneGraph(rows, interrupted, latest) ==
    IF interrupted = NoRun THEN rows = RowOf(latest)
    ELSE /\ rows # NoRun
         /\ rows.nodes \subseteq interrupted.nodes /\ rows.edges = interrupted.edges

\* "a re-recorded run that kept stale nodes would produce a graph describing a
\* decision that never happened" (storage.py:79): no record, whole or cut
\* short, of this run or another, leaves a run with the rows of two graphs, on
\* disk or in what the connection shows; and a run that no interrupted record
\* touched since is found by the payloads of its last graph and no others.
StoredIsTheLatest ==
    \A run \in RunId :
        /\ OneGraph(db[run], cut.db[run], recorded[run])
        /\ OneGraph(work[run], cut.work[run], recorded[run])
        /\ cut.work[run] = NoRun =>
              \A d \in Digests :
                 run \in RunsUsingPayload(d) <=>
                    recorded[run] # NoRun /\ d \in PayloadHashes(recorded[run])

\* A replay that reports identical read the very bytes the decision read and
\* came to the outputs that were recorded (replay.py:9), unless what it loaded
\* is an interrupted record.
Decided == recorded[report.run]

RecordedWhole == cut.work[report.run] = NoRun

IdenticalMeansReproduced ==
    Replayed /\ RecordedWhole /\ report.outcome = "identical" =>
        /\ \A d \in PayloadHashes(Decided) : archive[d] = "intact"
        /\ report.pinned => \A n \in OfKind(Decided, "formula") : n.content = current
        /\ Outputs(report.replayed) = Outputs(Decided)

\* The ends of every two links of a graph differ: no pair is linked twice.
LinkedOnce(g) ==
    \A i, j \in DOMAIN g.edges : Pair(g.edges[i]) = Pair(g.edges[j]) => i = j

\* "Any difference in output is therefore a difference in code" (replay.py:9):
\* the code is blamed for nothing the evidence or a release explains, nor the
\* storage when no pair of nodes is linked twice.
CodeIsBlamedLast ==
    Replayed /\ RecordedWhole /\ report.outcome = "output_differs" =>
        /\ \A d \in PayloadHashes(Decided) : archive[d] = "intact"
        /\ report.pinned => \A n \in OfKind(Decided, "formula") : n.content = current
        /\ LinkedOnce(Decided) => Fingerprint(report.replayed) # Fingerprint(Decided)

\* A replay's verdict is what the archive, the release and the outputs warrant.
ReplaysAreHonest == IdenticalMeansReproduced /\ CodeIsBlamedLast

-----------------------------------------------------------------------------
\* Statements of comments and tests that the code does not keep.

\* "a failure says which one broke" (replay.py:14): every replay reports.
ReplayAlwaysReports == Replayed => report.outcome # "raised"

\* "a graph describing a decision that never happened" (storage.py:79): what a
\* run is read back as is what it decided.
ReadsShowDecisions == \A run \in RunId : work[run] = RowOf(recorded[run])

\* The same of what is committed.
CommittedIsDecided == \A run \in RunId : db[run] = RowOf(recorded[run])

\* "If storage changed the fingerprint, every stored decision would be
\* unreplayable" (test_provenance_store.py:84): a loaded graph has the
\* fingerprint it was recorded with.
FingerprintSurvivesStorage ==
    \A run \in RunId : recorded[run] # NoRun /\ cut.work[run] = NoRun =>
        \A g \in Loaded(work[run]) : Fingerprint(g) = Fingerprint(recorded[run])

\* "A cycle in a provenance graph would mean an output influencing its own
\* inputs" (provenance.py:19).
NothingInfluencesItself ==
    \A run \in RunId : recorded[run] # NoRun =>
        \A e, f \in ToSet(recorded[run].edges) : ~(e[1] = f[2] /\ e[2] = f[1])
=============================================================================
