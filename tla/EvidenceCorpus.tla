---------------------------- MODULE EvidenceCorpus ----------------------------
(***************************************************************************)
(* The knowledge corpus: CorpusIngestor.ingest, and HybridRetriever, whose *)
(* two queries run one after the other on a connection that others write   *)
(* beside.  A text is a model value with the number of chunks it splits    *)
(* into; how well a chunk matches is the database's, so a retriever may    *)
(* rank the admissible chunks in any order.                                *)
(***************************************************************************)
EXTENDS Naturals, Sequences, FiniteSetsExt

CONSTANTS
    Document,        \* document ids, in their order
    Text,
    ChunksOf,        \* how many chunks chunk_document makes of a text
    Region,
    NoDocument,
    RrfK,            \* DEFAULT_RRF_K
    CandidateLimit,  \* DEFAULT_CANDIDATES
    PassageLimit,    \* DEFAULT_LIMIT
    MaxAge,          \* RetrievalFilters.max_age
    CorpusClockBound, MaxIngests, MaxHistory   \* bounds

VARIABLES
    corpusClock, documents, chunks, ingests,
    search,    \* the query in progress: its filters and the lexical hits
    passages,  \* what the last retrieve() returned, in order
    history    \* the retrievals made: their filters and the admissible documents

corpusVars == <<corpusClock, documents, chunks, ingests, search, passages, history>>

CorpusDocument ==
    [text : Text, issued : 0..CorpusClockBound, validUntil : 1..CorpusClockBound + 1,
     regions : SUBSET Region]

ASSUME CorpusAssumption ==
    /\ Document \subseteq Nat
    /\ ChunksOf \in [Text -> Nat \ {0}]
    /\ NoDocument \notin CorpusDocument
    /\ {RrfK, CandidateLimit, PassageLimit} \subseteq Nat \ {0}
    /\ {MaxAge, CorpusClockBound, MaxIngests, MaxHistory} \subseteq Nat

Chunk == [document : Document, ordinal : Nat, text : Text]

\* chunk_id is the document's id and the ordinal.
ChunkId(c) == <<c.document, c.ordinal>>

ChunkDocument(d, text) == {[document |-> d, ordinal |-> i, text |-> text] : i \in 1..ChunksOf[text]}

\* A chunk that is inserted replaces the one of its id.
InsertChunks(cs, new) == {k \in cs : \A c \in new : ChunkId(k) # ChunkId(c)} \cup new

MutReplaceChunksInPlace(cs, d, text) == InsertChunks(cs, ChunkDocument(d, text))

\* One transaction: upsert the document, delete its chunks, insert the new ones.
ReplaceChunks(cs, d, text) ==
    InsertChunks({c \in cs : c.document # d}, ChunkDocument(d, text))

Ingest(d) ==
    /\ ingests < MaxIngests
    /\ \E doc \in CorpusDocument :
          /\ doc.issued <= corpusClock /\ doc.issued < doc.validUntil
          /\ documents' = [documents EXCEPT ![d] = doc]
          /\ chunks' = ReplaceChunks(chunks, d, doc.text)
    /\ ingests' = ingests + 1
    /\ UNCHANGED <<corpusClock, search, passages, history>>

-----------------------------------------------------------------------------
(* _GATE_SQL: conditions inside both queries.                              *)

Temporal(doc, f) ==
    /\ doc.issued <= f.asOf
    /\ doc.validUntil > f.asOf
    /\ f.asOf <= doc.issued + MaxAge

Regional(doc, f) ==
    f.regions = {} \/ doc.regions = {} \/ doc.regions \cap f.regions # {}

Admissible(f) ==
    {d \in Document : documents[d] # NoDocument /\ Temporal(documents[d], f) /\ Regional(documents[d], f)}

\* A row of either query: the chunk joined with its document.
Hits(f) == {[chunk |-> c, document |-> documents[c.document]] :
                c \in {k \in chunks : k.document \in Admissible(f)}}

\* The vector query ranks every admissible chunk, the lexical one those that
\* match; both stop at CANDIDATES.
RankingsOf(hits, n) == {f \in [1..n -> hits] : \A i, j \in 1..n : f[i] = f[j] => i = j}
Fits(f) == Min({CandidateLimit, Cardinality(Hits(f))})
LexicalRankings(f) == UNION {RankingsOf(Hits(f), n) : n \in 0..Fits(f)}
VectorRankings(f) == RankingsOf(Hits(f), Fits(f))

RankIn(ranking, id) ==
    LET at == {i \in DOMAIN ranking : ChunkId(ranking[i].chunk) = id} IN
    IF at = {} THEN 0 ELSE Min(at)

\* 1/(k + rank) summed over the rankings that hold the chunk, as a fraction.
Fused(lexical, vector, id) ==
    LET a == RankIn(lexical, id)  b == RankIn(vector, id) IN
    IF a = 0 THEN <<1, RrfK + b>>
    ELSE IF b = 0 THEN <<1, RrfK + a>>
    ELSE <<(RrfK + a) + (RrfK + b), (RrfK + a) * (RrfK + b)>>

IsLess(x, y) == x[1] * y[2] < y[1] * x[2]

IdIsLess(x, y) == x[1] < y[1] \/ (x[1] = y[1] /\ x[2] < y[2])

IdsIn(ranking) == {ChunkId(ranking[i].chunk) : i \in DOMAIN ranking}

\* Sorted by falling score and then by id: as many come before an id as its
\* place says.
Before(lexical, vector, x, y) ==
    LET sx == Fused(lexical, vector, x)  sy == Fused(lexical, vector, y) IN
    IsLess(sy, sx) \/ (~IsLess(sx, sy) /\ IdIsLess(x, y))

Ordered(lexical, vector) ==
    LET ids == IdsIn(lexical) \cup IdsIn(vector) IN
    [i \in 1..Cardinality(ids) |->
        CHOOSE x \in ids : Cardinality({y \in ids : Before(lexical, vector, y, x)}) = i - 1]

\* rows = {... for hit in (*vector, *lexical)}: the lexical row of both.
RowOf(lexical, vector, id) ==
    IF id \in IdsIn(lexical) THEN lexical[RankIn(lexical, id)] ELSE vector[RankIn(vector, id)]

Retrieved(lexical, vector) ==
    LET ids == Ordered(lexical, vector) IN
    [i \in 1..Min({Len(ids), PassageLimit}) |->
        RowOf(lexical, vector, ids[i])]

\* No retrieval has ended since the last began.
Nothing == [filters |-> [asOf |-> 0, regions |-> {}], lexical |-> <<>>, vector |-> <<>>, result |-> <<>>]

\* No await separates the two queries, but each sees what is committed when
\* it runs.
LexicalQuery ==
    /\ search = {} /\ Cardinality(history) < MaxHistory
    /\ \E t \in 0..corpusClock, regions \in SUBSET Region :
          LET f == [asOf |-> t, regions |-> regions] IN
          \E lexical \in LexicalRankings(f) :
             search' = {[filters |-> f, lexical |-> lexical, admissible |-> Admissible(f)]}
    /\ passages' = Nothing
    /\ UNCHANGED <<corpusClock, documents, chunks, ingests, history>>

VectorQuery ==
    \E s \in search :
        \E vector \in VectorRankings(s.filters) :
            /\ passages' = [filters |-> s.filters, lexical |-> s.lexical, vector |-> vector,
                            result |-> Retrieved(s.lexical, vector)]
            /\ history' = history \cup {[filters |-> s.filters, at |-> corpusClock,
                                          admissible |-> s.admissible]}
            /\ search' = {}
            /\ UNCHANGED <<corpusClock, documents, chunks, ingests>>

CorpusTick ==
    /\ corpusClock < CorpusClockBound
    /\ corpusClock' = corpusClock + 1
    /\ UNCHANGED <<documents, chunks, ingests, search, passages, history>>

CorpusInit ==
    /\ corpusClock = 0 /\ ingests = 0
    /\ documents = [d \in Document |-> NoDocument]
    /\ chunks = {} /\ search = {} /\ passages = Nothing /\ history = {}

CorpusNext == (\E d \in Document : Ingest(d)) \/ LexicalQuery \/ VectorQuery \/ CorpusTick

CorpusSpec == CorpusInit /\ [][CorpusNext]_corpusVars

-----------------------------------------------------------------------------
\* "a revised advisory cannot leave stale passages behind" (corpus.py:195):
\* the chunks on file are those of each document's current text, all of them.
NoStaleChunks ==
    chunks = UNION {ChunkDocument(d, documents[d].text) :
                        d \in {e \in Document : documents[e] # NoDocument}}

\* The gates are inside both queries (retrieval.py:13): every passage returned
\* was admissible in the version it quotes, whatever was ingested between the
\* two queries.
EveryPassageIsAdmissible ==
    LET r == passages.result IN
    \A i \in DOMAIN r : Temporal(r[i].document, passages.filters)
                         /\ Regional(r[i].document, passages.filters)

\* Fusion never overrules both retrievers: a passage that each of them put
\* before another, or that the other is missing from, comes before it.
Outranks(ranking, x, y) ==
    /\ RankIn(ranking, x) # 0
    /\ RankIn(ranking, y) = 0 \/ RankIn(ranking, x) < RankIn(ranking, y)

FusionKeepsAgreement ==
    LET r == passages.result IN
    \A i, j \in DOMAIN r :
        LET x == ChunkId(r[i].chunk)  y == ChunkId(r[j].chunk) IN
        Outranks(passages.lexical, x, y) /\ Outranks(passages.vector, x, y) => i < j

\* "never leak future knowledge into a replay" (retrieval.py:20): the same
\* filters admit later what they admitted when the decision was made.
RetrievalReplays ==
    \A h \in history : h.at = h.filters.asOf => Admissible(h.filters) = h.admissible
=============================================================================
