--------------------------- MODULE ObservationStore ---------------------------
(***************************************************************************)
(* evidence.observations: TimescaleObservationStore.write, and the as_of   *)
(* reading of it by StructuredEvidenceStore.  One place and one variable,  *)
(* which are part of every key.  written and asked are history: what was   *)
(* committed, and what each reader was told.                               *)
(***************************************************************************)
EXTENDS Naturals, Sequences, FiniteSets

CONSTANTS
    Publisher,      \* sources
    Dataset,        \* dataset ids: several of one source may publish a variable
    ValidTime, Value,
    Gap,            \* value None, quality MISSING
    MaxBatch, StoreClockBound, MaxWrites, MaxAsked   \* bounds

VARIABLES storeClock, rows, written, asked, writes

storeVars == <<storeClock, rows, written, asked, writes>>

ASSUME StoreAssumption ==
    /\ Gap \notin Value
    /\ {MaxBatch, StoreClockBound, MaxWrites, MaxAsked} \subseteq Nat

Observation ==
    [source : Publisher, dataset : Dataset, valid : ValidTime,
     issued : 0..StoreClockBound, value : Value \cup {Gap}]

\* observations_natural_key of migration 0004.
NaturalKey(r) == <<r.source, r.valid, r.issued>>

MutUpsertOnePerTime(rs, r) ==
    {q \in rs : <<q.source, q.valid>> # <<r.source, r.valid>>} \cup {r}

\* UPSERT_SQL: a conflict replaces the value; the row keeps its dataset_id.
Upsert(rs, r) ==
    LET there == {q \in rs : NaturalKey(q) = NaturalKey(r)} IN
    (rs \ there) \cup (IF there = {} THEN {r} ELSE {[q EXCEPT !.value = r.value] : q \in there})

\* One executemany, one commit: the table after the first i records.
AfterBatch(rs, batch) ==
    LET after[i \in 0..Len(batch)] == IF i = 0 THEN rs ELSE Upsert(after[i - 1], batch[i]) IN
    after[Len(batch)]

WriteBatch(batch) ==
    /\ writes < MaxWrites
    /\ \A i \in DOMAIN batch : batch[i].issued <= storeClock
    /\ rows' = AfterBatch(rows, batch)
    /\ written' = written \cup {batch[i] : i \in DOMAIN batch}
    /\ writes' = writes + 1
    /\ UNCHANGED <<storeClock, asked>>

\* AS_OF_SQL: per key without the issue, the latest issue at or before t.
AsOf(t) ==
    {r \in rows : /\ r.issued <= t
                  /\ \A q \in rows : (q.source = r.source /\ q.valid = r.valid /\ q.issued <= t)
                                        => q.issued <= r.issued}

\* _to_evidence names the row by source, variable, valid time and position.
ProvenanceId(r) == <<r.source, r.valid>>

Query ==
    /\ Cardinality(asked) < MaxAsked
    /\ \E t \in 0..storeClock :
          asked' = asked \cup {[asOf |-> t, at |-> storeClock, answer |-> AsOf(t)]}
    /\ UNCHANGED <<storeClock, rows, written, writes>>

StoreTick ==
    /\ storeClock < StoreClockBound
    /\ storeClock' = storeClock + 1
    /\ UNCHANGED <<rows, written, asked, writes>>

StoreInit == storeClock = 0 /\ rows = {} /\ written = {} /\ asked = {} /\ writes = 0

StoreNext ==
    \/ \E n \in 1..MaxBatch : \E batch \in [1..n -> Observation] : WriteBatch(batch)
    \/ Query \/ StoreTick

StoreSpec == StoreInit /\ [][StoreNext]_storeVars

-----------------------------------------------------------------------------
StoreTypeOK ==
    /\ rows \subseteq Observation /\ written \subseteq Observation
    /\ storeClock \in 0..StoreClockBound /\ writes \in 0..MaxWrites
    /\ \A a \in asked : a.asOf <= a.at /\ a.answer \subseteq Observation

\* "the superseded issue must survive" (migration 0004): writing records that
\* were all issued after t changes nothing that is known as of t.
RevisionsLeaveThePast ==
    [][\A t \in 0..StoreClockBound :
          (\A r \in written' \ written : r.issued > t) /\ (\A r \in rows' \ rows : r.issued > t)
          => AsOf(t) = AsOf(t)']_storeVars

\* Re-fetching a window does not double-count it, and what is read was said:
\* one row per key, and each row's value was written under that key.
RowsWereWritten ==
    /\ \A r, q \in rows : NaturalKey(r) = NaturalKey(q) => r = q
    /\ \A r \in rows : \E w \in written : NaturalKey(w) = NaturalKey(r) /\ w.value = r.value
    /\ \A w \in written : \E r \in rows : NaturalKey(r) = NaturalKey(w)

\* "A number in this table can always answer where did you come from"
\* (timescale.py:8): the dataset on a row is the one that published its value.
RowsAreTraceable ==
    \A r \in rows : r \in written

\* "What did we know at 14:00 yesterday, when we told that fisherman it was
\* safe?" (structured.py:8): asking again as of t answers what a reader that
\* asked at t was told.
ReplaySeesWhatWasSeen ==
    \A a \in asked : a.at = a.asOf => AsOf(a.asOf) = a.answer

\* "Stable identifier for replay" (schemas/evidence.py:141): two pieces of
\* evidence with one provenance_id are one record.
ProvenanceIdsNameOneRecord ==
    \A a, b \in asked : \A r \in a.answer, q \in b.answer :
        ProvenanceId(r) = ProvenanceId(q) => NaturalKey(r) = NaturalKey(q)
=============================================================================
