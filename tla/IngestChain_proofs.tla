------------------------- MODULE IngestChain_proofs -------------------------
(***************************************************************************)
(* Whatever the sources say, lose or withhold, and however many fetches    *)
(* overlap: a fetch answers each variable from the most authoritative      *)
(* source that had something fresh, shows every source it tried before,    *)
(* and has archived what it answers with.  And whatever is put in the      *)
(* cache, evicted and asked for, nothing stale is served from it.          *)
(***************************************************************************)
EXTENDS IngestChain, CadenceCache, TLAPS

\* A fetch that has begun is a record with these fields and no other.
IsFetch(f) ==
    f \in [pc : {"chain", "get", "done", "raised"}, now : {f.now}, request : {f.request},
           outstanding : {f.outstanding}, chain : {f.chain}, next : {f.next},
           scope : {f.scope}, tries : {f.tries}, records : {f.records},
           attempts : {f.attempts}, refs : {f.refs}, heard : {f.heard}]

AttemptRecord ==
    [source : Source, outcome : {"unavailable", "empty", "stale", "success"}]

FreshOn(f, v) == {h \in f.heard : h.variable = v /\ IsFresh(h, f.now)}

KeptOn(f, v) == {r \in f.records : r.variable = v}

FetchTypeOK(f, known, kept) ==
    /\ IsFetch(f)
    /\ f.outstanding \subseteq f.request.variables
    /\ f.chain \subseteq Members(Order)
    /\ \A s \in f.chain : Kind[s] = "grid" => s \in known
    /\ f.next \in 1..(Len(Order) + 1) /\ f.tries \in 0..Retries
    /\ f.heard \subseteq FetchRecord /\ f.records \subseteq f.heard
    /\ \A h \in f.heard : h.source \in f.refs
    /\ f.refs \subseteq kept
    /\ f.attempts \in Seq(AttemptRecord)

\* Where a fetch stands decides what may still happen to it.
PcOK(f) ==
    /\ f.pc = "get" => /\ f.next <= Len(Order)
                       /\ f.scope \subseteq f.outstanding
                       /\ f.scope \subseteq Members(Publishes[At(f)])
    /\ f.pc = "done" => f.next > Len(Order) \/ f.outstanding = {}

\* The trail names sources that were passed, in their order.
TrailOK(f) ==
    /\ \A i \in DOMAIN f.attempts :
          /\ f.attempts[i].source \in Members(Order)
          /\ Position(f.attempts[i].source) < f.next
    /\ \A i, j \in DOMAIN f.attempts :
          i < j => Position(f.attempts[i].source) < Position(f.attempts[j].source)

\* Nothing fresh was said on what is outstanding; what is not has been
\* answered by one source, which is in the trail.
AnswerOK(f) ==
    \A v \in f.request.variables :
        IF v \in f.outstanding
        THEN FreshOn(f, v) = {} /\ KeptOn(f, v) = {}
        ELSE /\ FreshOn(f, v) # {} /\ KeptOn(f, v) = FreshOn(f, v)
             /\ \E s \in Attempted(f) : \A h \in FreshOn(f, v) : h.source = s

\* Nobody was passed over who might have answered first.
NonePassedOver(f) ==
    \A v \in f.request.variables, s \in f.chain :
        /\ v \in Members(Publishes[s]) /\ Position(s) < f.next
        /\ v \in f.outstanding \/ \E h \in FreshOn(f, v) : Position(s) <= Position(h.source)
        => s \in Attempted(f)

FetchOK(f, known, kept) ==
    /\ FetchTypeOK(f, known, kept) /\ PcOK(f) /\ TrailOK(f)
    /\ AnswerOK(f) /\ NonePassedOver(f)

\* The sources whose payload is where a replay looks for it.
Kept == {s \in Source : backend = "s3" => archive[s] = "whole"}

ChainInv ==
    /\ clock \in StartClock..MaxClock
    /\ metadata \subseteq Source /\ looking \subseteq Source
    /\ client \in BOOLEAN /\ backend \in {"filesystem", "s3"}
    /\ archive \in [Source -> {"absent", "torn", "whole"}]
    /\ task \in [Task -> {task[t] : t \in Task}]
    /\ \A t \in Task : task[t] = NoTask \/ FetchOK(task[t], metadata, Kept)

-----------------------------------------------------------------------------
\* A source's position is where it stands in Order.
LEMMA PositionIsThePlace ==
    /\ \A n \in 1..Len(Order) : Order[n] \in Source /\ Order[n] \in Members(Order)
                                /\ Position(Order[n]) = n
    /\ \A s \in Members(Order) :
          Position(s) \in 1..Len(Order) /\ Order[Position(s)] = s /\ s \in Source
<1>1. DOMAIN Order = 1..Len(Order) /\ \A n \in 1..Len(Order) : Order[n] \in Source
  BY ChainAssumption
<1>2. \A n \in 1..Len(Order) : Position(Order[n]) = n
  <2> TAKE n \in 1..Len(Order)
  <2>1. \A i \in DOMAIN Order : Order[i] = Order[n] => i = n
    BY <1>1, ChainAssumption
  <2> QED BY <1>1, <2>1 DEF Position
<1>3. \A s \in Members(Order) : \E n \in 1..Len(Order) : s = Order[n]
  BY <1>1 DEF Members
<1> QED BY <1>1, <1>2, <1>3 DEF Members

\* What is known and kept may grow under a fetch.
LEMMA MoreIsKnown ==
    ASSUME NEW f, NEW known, NEW kept, NEW more, NEW safe,
           FetchOK(f, known, kept), known \subseteq more, kept \subseteq safe
    PROVE  FetchOK(f, more, safe)
BY DEF FetchOK, FetchTypeOK

\* The trail with one attempt more.
LEMMA OneAttemptMore ==
    ASSUME NEW f, NEW g, NEW outcome \in {"unavailable", "empty", "stale", "success"},
           f.attempts \in Seq(AttemptRecord), TrailOK(f), f.next \in 1..Len(Order),
           g.attempts = Append(f.attempts, [source |-> At(f), outcome |-> outcome]),
           g.next = f.next + 1
    PROVE  /\ g.attempts \in Seq(AttemptRecord) /\ TrailOK(g)
           /\ At(f) \in Attempted(g) /\ Attempted(f) \subseteq Attempted(g)
<1> DEFINE new == [source |-> At(f), outcome |-> outcome]  n == Len(f.attempts)
<1>1. At(f) \in Source /\ At(f) \in Members(Order) /\ Position(At(f)) = f.next
  BY PositionIsThePlace DEF At
<1>2. new \in AttemptRecord /\ new.source = At(f)
  BY <1>1 DEF AttemptRecord
<1> HIDE DEF new
<1>3. /\ g.attempts \in Seq(AttemptRecord) /\ n \in Nat
      /\ DOMAIN g.attempts = 1..(n + 1) /\ DOMAIN f.attempts = 1..n
      /\ \A i \in 1..n : g.attempts[i] = f.attempts[i]
      /\ g.attempts[n + 1] = new
  BY <1>2 DEF new
<1>4. \A i \in 1..(n + 1) : i \in 1..n \/ i = n + 1
  BY <1>3
<1>5. \A i \in 1..n : /\ f.attempts[i].source \in Members(Order)
                      /\ Position(f.attempts[i].source) \in Nat
                      /\ Position(f.attempts[i].source) < f.next
  BY <1>3, PositionIsThePlace DEF TrailOK
<1>6. \A i \in DOMAIN g.attempts : /\ g.attempts[i].source \in Members(Order)
                                   /\ Position(g.attempts[i].source) < g.next
  BY <1>1, <1>2, <1>3, <1>4, <1>5
<1>7. ASSUME NEW i \in DOMAIN g.attempts, NEW j \in DOMAIN g.attempts, i < j
      PROVE  Position(g.attempts[i].source) < Position(g.attempts[j].source)
  <2>1. i \in 1..n
    BY <1>3, <1>4, <1>7
  <2>2. CASE j \in 1..n
    BY <1>3, <1>7, <2>1, <2>2 DEF TrailOK
  <2>3. CASE j = n + 1
    BY <1>1, <1>2, <1>3, <1>5, <2>1, <2>3
  <2> QED BY <1>3, <1>4, <2>2, <2>3
<1>8. TrailOK(g)
  BY <1>6, <1>7 DEF TrailOK
<1>9. At(f) \in Attempted(g)
  <2>1. n + 1 \in DOMAIN g.attempts
    BY <1>3
  <2> QED BY <1>2, <1>3, <2>1 DEF Attempted
<1>10. Attempted(f) \subseteq Attempted(g)
  BY <1>3 DEF Attempted
<1> QED BY <1>3, <1>8, <1>9, <1>10

\* A source that was asked and gave nothing fresh.
LEMMA NothingFresh ==
    ASSUME NEW f, NEW h, NEW known, NEW kept, NEW reply,
           NEW outcome \in {"unavailable", "empty", "stale", "success"},
           FetchOK(f, known, kept), f.next <= Len(Order),
           IsFetch(h), h.pc = "chain", h.now = f.now, h.request = f.request,
           h.outstanding = f.outstanding, h.chain = f.chain, h.next = f.next + 1,
           h.tries = f.tries, h.records = f.records,
           h.attempts = Append(f.attempts, [source |-> At(f), outcome |-> outcome]),
           h.heard = f.heard \cup reply, f.refs \subseteq h.refs, h.refs \subseteq kept,
           reply \subseteq FetchRecord,
           \A r \in reply : r.source \in h.refs /\ ~IsFresh(r, f.now)
    PROVE  FetchOK(h, known, kept)
<1>1. f.next \in 1..Len(Order) /\ TrailOK(f) /\ f.attempts \in Seq(AttemptRecord)
  BY PositionIsThePlace, ChainAssumption DEF FetchOK, FetchTypeOK
<1>2. /\ h.attempts \in Seq(AttemptRecord) /\ TrailOK(h)
      /\ At(f) \in Attempted(h) /\ Attempted(f) \subseteq Attempted(h)
  BY <1>1, OneAttemptMore
<1>3. \A v : FreshOn(h, v) = FreshOn(f, v) /\ KeptOn(h, v) = KeptOn(f, v)
  BY DEF FreshOn, KeptOn
<1>4. FetchTypeOK(h, known, kept)
  BY <1>1, <1>2 DEF FetchOK, FetchTypeOK
<1>5. AnswerOK(h)
  BY <1>2, <1>3 DEF FetchOK, AnswerOK
<1>6. NonePassedOver(h)
  <2> SUFFICES ASSUME NEW v \in h.request.variables, NEW s \in h.chain,
                      v \in Members(Publishes[s]), Position(s) < h.next,
                      v \in h.outstanding \/ \E r \in FreshOn(h, v) : Position(s) <= Position(r.source)
               PROVE  s \in Attempted(h)
    BY DEF NonePassedOver
  <2>1. s \in Members(Order)
    BY DEF FetchOK, FetchTypeOK
  <2>2. Position(s) \in Nat /\ (Position(s) < f.next \/ Position(s) = f.next)
    BY <1>1, <2>1, PositionIsThePlace
  <2>3. CASE Position(s) = f.next
    BY <1>2, <2>1, <2>3, PositionIsThePlace DEF At
  <2>4. CASE Position(s) < f.next
    BY <1>2, <1>3, <2>4 DEF FetchOK, NonePassedOver
  <2> QED BY <2>2, <2>3, <2>4
<1>7. PcOK(h)
  BY DEF PcOK
<1> QED BY <1>2, <1>4, <1>5, <1>6, <1>7 DEF FetchOK

\* A source that has nothing to say on what is outstanding is not asked.
LEMMA NotAsked ==
    ASSUME NEW f, NEW h, NEW known, NEW kept,
           FetchOK(f, known, kept), f.next <= Len(Order),
           IsFetch(h), h.pc = "chain", h.now = f.now, h.request = f.request,
           h.outstanding = f.outstanding, h.chain = f.chain, h.next = f.next + 1,
           h.tries = f.tries, h.records = f.records, h.attempts = f.attempts,
           h.heard = f.heard, h.refs = f.refs,
           At(f) \in f.chain => \A v \in f.outstanding : v \notin Members(Publishes[At(f)])
    PROVE  FetchOK(h, known, kept)
<1>1. f.next \in 1..Len(Order) /\ TrailOK(f) /\ f.attempts \in Seq(AttemptRecord)
  BY PositionIsThePlace, ChainAssumption DEF FetchOK, FetchTypeOK
<1>2. Attempted(h) = Attempted(f)
  BY DEF Attempted
<1>3. \A v : FreshOn(h, v) = FreshOn(f, v) /\ KeptOn(h, v) = KeptOn(f, v)
  BY DEF FreshOn, KeptOn
<1>4. \A s \in Attempted(f) : s \in Members(Order) /\ Position(s) \in Nat /\ Position(s) < f.next
  BY <1>1, PositionIsThePlace DEF Attempted, TrailOK
<1>5. TrailOK(h)
  <2>1. \A i \in DOMAIN f.attempts : f.attempts[i].source \in Attempted(f)
    BY DEF Attempted
  <2> QED BY <1>1, <1>4, <2>1 DEF TrailOK
<1>6. FetchTypeOK(h, known, kept)
  BY <1>1 DEF FetchOK, FetchTypeOK
<1>7. AnswerOK(h)
  BY <1>2, <1>3 DEF FetchOK, AnswerOK
<1>8. NonePassedOver(h)
  <2> SUFFICES ASSUME NEW v \in h.request.variables, NEW s \in h.chain,
                      v \in Members(Publishes[s]), Position(s) < h.next,
                      v \in h.outstanding \/ \E r \in FreshOn(h, v) : Position(s) <= Position(r.source)
               PROVE  s \in Attempted(h)
    BY DEF NonePassedOver
  <2>1. s \in Members(Order)
    BY DEF FetchOK, FetchTypeOK
  <2>2. Position(s) \in Nat /\ (Position(s) < f.next \/ Position(s) = f.next)
    BY <1>1, <2>1, PositionIsThePlace
  <2>3. CASE Position(s) = f.next
    <3>1. s = At(f)
      BY <2>1, <2>3, PositionIsThePlace DEF At
    <3>2. v \notin f.outstanding
      BY <3>1
    <3>3. PICK r \in FreshOn(f, v) : Position(s) <= Position(r.source)
      BY <1>3, <3>2
    <3>4. r.source \in Attempted(f)
      BY <3>2 DEF FetchOK, AnswerOK
    <3> QED BY <1>1, <1>4, <2>3, <3>3, <3>4
  <2>4. CASE Position(s) < f.next
    BY <1>2, <1>3, <2>4 DEF FetchOK, NonePassedOver
  <2> QED BY <2>2, <2>3, <2>4
<1>9. PcOK(h)
  BY DEF PcOK
<1> QED BY <1>5, <1>6, <1>7, <1>8, <1>9 DEF FetchOK

\* A source that said something fresh answers what it said that on.
LEMMA SomethingFresh ==
    ASSUME NEW f, NEW h, NEW known, NEW kept, NEW reply, NEW fresh,
           FetchOK(f, known, kept), f.next <= Len(Order), f.pc = "get",
           IsFetch(h), h.pc = "chain", h.now = f.now, h.request = f.request,
           h.outstanding = f.outstanding \ {r.variable : r \in fresh},
           h.chain = f.chain, h.next = f.next + 1,
           h.tries = f.tries, h.records = f.records \cup fresh,
           h.attempts = Append(f.attempts, [source |-> At(f), outcome |-> "success"]),
           h.heard = f.heard \cup reply, f.refs \subseteq h.refs, h.refs \subseteq kept,
           At(f) \in h.refs, reply \subseteq FetchRecord,
           \A r \in reply : r.source = At(f) /\ r.variable \in f.scope,
           fresh = {r \in reply : IsFresh(r, f.now)}
    PROVE  FetchOK(h, known, kept)
<1>1. f.next \in 1..Len(Order) /\ TrailOK(f) /\ f.attempts \in Seq(AttemptRecord)
  BY PositionIsThePlace, ChainAssumption DEF FetchOK, FetchTypeOK
<1>2. /\ h.attempts \in Seq(AttemptRecord) /\ TrailOK(h)
      /\ At(f) \in Attempted(h) /\ Attempted(f) \subseteq Attempted(h)
  BY <1>1, OneAttemptMore
<1>3. \A r \in reply : r.variable \in f.outstanding
  BY DEF FetchOK, PcOK
<1>4. \A v : /\ FreshOn(h, v) = FreshOn(f, v) \cup {r \in fresh : r.variable = v}
             /\ KeptOn(h, v) = KeptOn(f, v) \cup {r \in fresh : r.variable = v}
  BY DEF FreshOn, KeptOn
<1>5. \A v : v \notin f.outstanding \/ v \in h.outstanding => {r \in fresh : r.variable = v} = {}
  BY <1>3
<1>6. FetchTypeOK(h, known, kept)
  <2>1. fresh \subseteq reply
    OBVIOUS
  <2> QED BY <1>1, <1>2, <2>1 DEF FetchOK, FetchTypeOK
<1>7. AnswerOK(h)
  <2> SUFFICES ASSUME NEW v \in h.request.variables
               PROVE  IF v \in h.outstanding
                      THEN FreshOn(h, v) = {} /\ KeptOn(h, v) = {}
                      ELSE /\ FreshOn(h, v) # {} /\ KeptOn(h, v) = FreshOn(h, v)
                           /\ \E s \in Attempted(h) : \A r \in FreshOn(h, v) : r.source = s
    BY DEF AnswerOK
  <2>1. IF v \in f.outstanding
        THEN FreshOn(f, v) = {} /\ KeptOn(f, v) = {}
        ELSE /\ FreshOn(f, v) # {} /\ KeptOn(f, v) = FreshOn(f, v)
             /\ \E s \in Attempted(f) : \A r \in FreshOn(f, v) : r.source = s
    BY DEF FetchOK, AnswerOK
  <2>2. CASE v \in h.outstanding
    BY <1>4, <1>5, <2>1, <2>2
  <2>3. CASE v \notin f.outstanding
    <3> DEFINE new == {r \in fresh : r.variable = v}
    <3>0. new = {} /\ FreshOn(h, v) = FreshOn(f, v) \cup new /\ KeptOn(h, v) = KeptOn(f, v) \cup new
      BY <1>4, <1>5, <2>3
    <3> HIDE DEF new
    <3>1. FreshOn(h, v) = FreshOn(f, v) /\ KeptOn(h, v) = KeptOn(f, v)
      BY <3>0
    <3>2. v \notin h.outstanding
      BY <2>3
    <3>3. PICK s \in Attempted(f) : \A r \in FreshOn(f, v) : r.source = s
      BY <2>1, <2>3
    <3> QED BY <1>2, <2>1, <2>3, <3>1, <3>2, <3>3
  <2>4. CASE v \in f.outstanding /\ v \notin h.outstanding
    <3>1. PICK r \in fresh : r.variable = v
      BY <2>4
    <3>2. /\ FreshOn(h, v) = {q \in fresh : q.variable = v}
          /\ KeptOn(h, v) = {q \in fresh : q.variable = v}
      BY <1>4, <2>1, <2>4
    <3> QED BY <1>2, <2>4, <3>1, <3>2
  <2> QED BY <2>2, <2>3, <2>4
<1>8. NonePassedOver(h)
  <2> SUFFICES ASSUME NEW v \in h.request.variables, NEW s \in h.chain,
                      v \in Members(Publishes[s]), Position(s) < h.next,
                      v \in h.outstanding \/ \E r \in FreshOn(h, v) : Position(s) <= Position(r.source)
               PROVE  s \in Attempted(h)
    BY DEF NonePassedOver
  <2>1. s \in Members(Order)
    BY DEF FetchOK, FetchTypeOK
  <2>2. Position(s) \in Nat /\ (Position(s) < f.next \/ Position(s) = f.next)
    BY <1>1, <2>1, PositionIsThePlace
  <2>3. CASE Position(s) = f.next
    BY <1>2, <2>1, <2>3, PositionIsThePlace DEF At
  <2>4. CASE Position(s) < f.next
    <3>1. v \in f.outstanding \/ \E r \in FreshOn(f, v) : Position(s) <= Position(r.source)
      BY <1>4, <1>5
    <3> QED BY <1>2, <2>4, <3>1 DEF FetchOK, NonePassedOver
  <2> QED BY <2>2, <2>3, <2>4
<1>9. PcOK(h)
  BY DEF PcOK
<1> QED BY <1>2, <1>6, <1>7, <1>8, <1>9 DEF FetchOK

\* The same fetch at another of its awaits.
LEMMA SameStanding ==
    ASSUME NEW f, NEW h, NEW known, NEW kept,
           FetchOK(f, known, kept), IsFetch(h), PcOK(h), h.tries \in 0..Retries,
           h.now = f.now, h.request = f.request, h.outstanding = f.outstanding,
           h.chain = f.chain, h.next = f.next, h.records = f.records,
           h.attempts = f.attempts, h.heard = f.heard, h.refs = f.refs
    PROVE  FetchOK(h, known, kept)
<1>1. Attempted(h) = Attempted(f)
  BY DEF Attempted
<1>2. \A v : FreshOn(h, v) = FreshOn(f, v) /\ KeptOn(h, v) = KeptOn(f, v)
  BY DEF FreshOn, KeptOn
<1>3. FetchTypeOK(h, known, kept) /\ TrailOK(h)
  BY DEF FetchOK, FetchTypeOK, TrailOK
<1>4. AnswerOK(h) /\ NonePassedOver(h)
  BY <1>1, <1>2 DEF FetchOK, AnswerOK, NonePassedOver
<1> QED BY <1>3, <1>4 DEF FetchOK

\* A step of one fetch leaves the others as they are.
LEMMA OneFetchMoves ==
    ASSUME ChainInv, NEW t \in Task, NEW h, task' = [task EXCEPT ![t] = h],
           FetchOK(h, metadata, Kept'), Kept \subseteq Kept', metadata' = metadata
    PROVE  /\ task' \in [Task -> {task'[u] : u \in Task}]
           /\ \A u \in Task : task'[u] = NoTask \/ FetchOK(task'[u], metadata', Kept')
<1>1. task' \in [Task -> {task'[u] : u \in Task}]
  BY DEF ChainInv
<1>2. ASSUME NEW u \in Task PROVE task'[u] = NoTask \/ FetchOK(task'[u], metadata', Kept')
  <2>1. CASE u = t
    BY <2>1 DEF ChainInv
  <2>2. CASE u # t
    <3>1. task'[u] = task[u]
      BY <2>2 DEF ChainInv
    <3>2. task[u] = NoTask \/ FetchOK(task[u], metadata, Kept)
      BY DEF ChainInv
    <3> QED BY <3>1, <3>2, MoreIsKnown
  <2> QED BY <2>1, <2>2
<1> QED BY <1>1, <1>2

\* A fetch that is under way is in order.
LEMMA UnderWay ==
    ASSUME ChainInv, NEW t \in Task, task[t].pc # "idle"
    PROVE  FetchOK(task[t], metadata, Kept)
BY DEF ChainInv, NoTask

LEMMA BeginKeeps ==
    ASSUME ChainInv, NEW t \in Task, Begin(t)
    PROVE  ChainInv'
<1>1. PICK request \in Requests :
        task' = [task EXCEPT ![t] =
            [pc |-> "chain", now |-> clock, request |-> request,
             outstanding |-> request.variables,
             chain |-> Candidates(request), next |-> 1,
             scope |-> {}, tries |-> 0, records |-> {}, attempts |-> <<>>,
             refs |-> {}, heard |-> {}]]
  BY DEF Begin
<1> DEFINE h == [pc |-> "chain", now |-> clock, request |-> request,
                 outstanding |-> request.variables,
                 chain |-> Candidates(request), next |-> 1,
                 scope |-> {}, tries |-> 0, records |-> {}, attempts |-> <<>>,
                 refs |-> {}, heard |-> {}]
<1>2. FetchTypeOK(h, metadata, Kept)
  <2>1. IsFetch(h)
    BY DEF IsFetch
  <2>2. \A s \in Candidates(request) : s \in Members(Order) /\ (Kind[s] = "grid" => s \in metadata)
    BY DEF Candidates, Servable, Serves
  <2>3. 1 \in 1..(Len(Order) + 1) /\ 0 \in 0..Retries
    BY ChainAssumption
  <2> QED BY <2>1, <2>2, <2>3 DEF FetchTypeOK
<1>3. PcOK(h) /\ TrailOK(h)
  BY DEF PcOK, TrailOK
<1>4. AnswerOK(h)
  BY DEF AnswerOK, FreshOn, KeptOn
<1>5. NonePassedOver(h)
  <2>1. \A s \in h.chain : ~(Position(s) < 1)
    BY <1>2, PositionIsThePlace DEF FetchTypeOK
  <2> QED BY <2>1 DEF NonePassedOver
<1>6. FetchOK(h, metadata, Kept)
  BY <1>2, <1>3, <1>4, <1>5 DEF FetchOK
<1>7. UNCHANGED <<backend, clock, metadata, looking, client, archive>> /\ Kept' = Kept
  BY DEF Begin, Kept
<1> HIDE DEF h
<1> QED BY <1>1, <1>6, <1>7, OneFetchMoves DEF h, ChainInv

LEMMA FinishKeeps ==
    ASSUME ChainInv, NEW t \in Task, Finish(t)
    PROVE  ChainInv'
<1> DEFINE f == task[t]  h == [f EXCEPT !.pc = "done"]
<1>1. FetchOK(f, metadata, Kept)
  BY UnderWay DEF Finish
<1>2. task' = [task EXCEPT ![t] = h]
  BY DEF Finish
<1>3. f.next > Len(Order) \/ f.outstanding = {}
  BY DEF Finish
<1> HIDE DEF f
<1>4. /\ IsFetch(h) /\ h.pc = "done" /\ h.tries = f.tries
      /\ h.now = f.now /\ h.request = f.request /\ h.outstanding = f.outstanding
      /\ h.chain = f.chain /\ h.next = f.next /\ h.records = f.records
      /\ h.attempts = f.attempts /\ h.heard = f.heard /\ h.refs = f.refs
  BY <1>1 DEF FetchOK, FetchTypeOK, IsFetch
<1> HIDE DEF h
<1>5. PcOK(h) /\ f.tries \in 0..Retries
  BY <1>1, <1>3, <1>4 DEF PcOK, FetchOK, FetchTypeOK
<1>6. FetchOK(h, metadata, Kept)
  BY <1>1, <1>4, <1>5, SameStanding
<1>7. UNCHANGED <<backend, clock, metadata, looking, client, archive>> /\ Kept' = Kept
  BY DEF Finish, Kept
<1> QED BY <1>2, <1>6, <1>7, OneFetchMoves DEF ChainInv

\* A fetch that gives up, or tries again, keeps what it has.
LEMMA TryKeeps ==
    ASSUME ChainInv, NEW t \in Task, Lost(t) \/ Retry(t)
    PROVE  ChainInv'
<1> DEFINE f == task[t]
           h == IF Lost(t) THEN [f EXCEPT !.pc = "raised"] ELSE [f EXCEPT !.tries = @ + 1]
<1>1. FetchOK(f, metadata, Kept) /\ f.pc = "get"
  BY UnderWay DEF Lost, Retry
<1>2. task' = [task EXCEPT ![t] = h]
  BY DEF Lost, Retry
<1>3. ~Lost(t) => f.tries < Retries
  BY DEF Retry
<1> HIDE DEF f
<1>4. /\ IsFetch(h) /\ h.pc \in {"raised", "get"} /\ h.tries \in {f.tries, f.tries + 1}
      /\ Lost(t) => h.tries = f.tries
      /\ h.now = f.now /\ h.request = f.request /\ h.outstanding = f.outstanding
      /\ h.chain = f.chain /\ h.next = f.next /\ h.records = f.records /\ h.scope = f.scope
      /\ h.attempts = f.attempts /\ h.heard = f.heard /\ h.refs = f.refs
  BY <1>1 DEF FetchOK, FetchTypeOK, IsFetch
<1> HIDE DEF h
<1>5. PcOK(h)
  BY <1>1, <1>4 DEF PcOK, FetchOK, At
<1>6. h.tries \in 0..Retries
  BY <1>1, <1>3, <1>4, ChainAssumption DEF FetchOK, FetchTypeOK
<1>7. FetchOK(h, metadata, Kept)
  BY <1>1, <1>4, <1>5, <1>6, SameStanding
<1>8. UNCHANGED <<backend, clock, metadata, looking, client, archive>> /\ Kept' = Kept
  BY DEF Lost, Retry, Kept
<1> QED BY <1>2, <1>7, <1>8, OneFetchMoves DEF ChainInv

\* What an attempt changes of a fetch.
LEMMA AttemptFields ==
    ASSUME NEW f, NEW outcome, IsFetch(f)
    PROVE  LET h == Attempt(f, outcome) IN
           /\ IsFetch(h) /\ h.pc = "chain" /\ h.now = f.now /\ h.request = f.request
           /\ h.outstanding = f.outstanding /\ h.chain = f.chain /\ h.next = f.next + 1
           /\ h.tries = f.tries /\ h.records = f.records /\ h.scope = f.scope
           /\ h.attempts = Append(f.attempts, [source |-> At(f), outcome |-> outcome])
           /\ h.heard = f.heard /\ h.refs = f.refs
BY DEF Attempt, IsFetch

\* An attempt without a reply.
LEMMA Fruitless ==
    ASSUME NEW f, NEW known, NEW kept, NEW outcome \in {"unavailable", "empty"},
           FetchOK(f, known, kept), f.next <= Len(Order)
    PROVE  FetchOK(Attempt(f, outcome), known, kept)
<1> DEFINE h == Attempt(f, outcome)
<1>1. IsFetch(f) /\ f.refs \subseteq kept
  BY DEF FetchOK, FetchTypeOK
<1>2. /\ IsFetch(h) /\ h.pc = "chain" /\ h.now = f.now /\ h.request = f.request
      /\ h.outstanding = f.outstanding /\ h.chain = f.chain /\ h.next = f.next + 1
      /\ h.tries = f.tries /\ h.records = f.records
      /\ h.attempts = Append(f.attempts, [source |-> At(f), outcome |-> outcome])
      /\ h.heard = f.heard /\ h.refs = f.refs
  BY <1>1, AttemptFields
<1> HIDE DEF h
<1> DEFINE reply == {}
<1>3. /\ h.heard = f.heard \cup reply /\ reply \subseteq FetchRecord
      /\ \A r \in reply : r.source \in h.refs /\ ~IsFresh(r, f.now)
  BY <1>2
<1>4. f.refs \subseteq h.refs /\ h.refs \subseteq kept
  BY <1>1, <1>2
<1>5. outcome \in {"unavailable", "empty", "stale", "success"}
  OBVIOUS
<1> HIDE DEF reply
<1>6. FetchOK(h, known, kept)
  BY <1>2, <1>3, <1>4, <1>5, NothingFresh
<1> QED BY <1>6 DEF h

LEMMA AskKeeps ==
    ASSUME ChainInv, NEW t \in Task, Ask(t)
    PROVE  ChainInv'
<1> DEFINE f == task[t]
           asked == At(f) \in f.chain /\ Servable(At(f), f.outstanding) # {}
<1>1. FetchOK(f, metadata, Kept) /\ f.pc = "chain" /\ f.next <= Len(Order)
  BY UnderWay DEF Ask
<1>2. UNCHANGED <<backend, clock, metadata, looking, archive>> /\ Kept' = Kept
  BY DEF Ask, Kept
<1>3. client' \in BOOLEAN
  BY ChainAssumption DEF Ask, Enter, ChainInv
<1>4. IsFetch(f) /\ f.tries \in 0..Retries
  BY <1>1 DEF FetchOK, FetchTypeOK
<1>5. ASSUME NEW h, FetchOK(h, metadata, Kept), task' = [task EXCEPT ![t] = h]
      PROVE  ChainInv'
  BY <1>2, <1>3, <1>5, OneFetchMoves DEF ChainInv
<1>6. CASE ~asked /\ task' = [task EXCEPT ![t] = [f EXCEPT !.next = @ + 1]]
  <2> DEFINE h == [f EXCEPT !.next = @ + 1]
  <2>1. /\ IsFetch(h) /\ h.pc = f.pc /\ h.now = f.now /\ h.request = f.request
        /\ h.outstanding = f.outstanding /\ h.chain = f.chain /\ h.next = f.next + 1
        /\ h.tries = f.tries /\ h.records = f.records /\ h.attempts = f.attempts
        /\ h.heard = f.heard /\ h.refs = f.refs
    BY <1>4 DEF IsFetch
  <2>2. At(f) \in f.chain => \A v \in f.outstanding : v \notin Members(Publishes[At(f)])
    BY <1>1, <1>6 DEF Servable, Serves, FetchOK, FetchTypeOK
  <2> HIDE DEF h, f
  <2>3. FetchOK(h, metadata, Kept)
    BY <1>1, <2>1, <2>2, NotAsked
  <2> QED BY <1>5, <1>6, <2>3 DEF h
<1>7. CASE \E outcome \in {"unavailable", "empty"} : task' = [task EXCEPT ![t] = Attempt(f, outcome)]
  BY <1>1, <1>5, <1>7, Fruitless
<1>8. CASE asked /\ task' = [task EXCEPT ![t] = [f EXCEPT !.pc = "get", !.tries = 0,
                                 !.scope = Scope(At(f), Servable(At(f), f.outstanding))]]
  <2> DEFINE h == [f EXCEPT !.pc = "get", !.tries = 0,
                            !.scope = Scope(At(f), Servable(At(f), f.outstanding))]
  <2>1. /\ IsFetch(h) /\ h.pc = "get" /\ h.tries = 0
        /\ h.scope = Scope(At(f), Servable(At(f), f.outstanding))
        /\ h.now = f.now /\ h.request = f.request /\ h.outstanding = f.outstanding
        /\ h.chain = f.chain /\ h.next = f.next /\ h.records = f.records
        /\ h.attempts = f.attempts /\ h.heard = f.heard /\ h.refs = f.refs
    BY <1>4 DEF IsFetch
  <2>2. /\ h.scope \subseteq f.outstanding
        /\ h.scope \subseteq Members(Publishes[At(f)])
    BY <2>1 DEF Scope, SelectVariable, Servable, Serves
  <2> HIDE DEF h, f
  <2>3. PcOK(h)
    BY <1>1, <2>1, <2>2 DEF PcOK, At
  <2>4. h.tries \in 0..Retries
    BY <2>1, ChainAssumption
  <2>5. FetchOK(h, metadata, Kept)
    BY <1>1, <2>1, <2>3, <2>4, SameStanding
  <2> QED BY <1>5, <1>8, <2>5 DEF h
<1> QED BY <1>6, <1>7, <1>8 DEF Ask

LEMMA RefusedKeeps ==
    ASSUME ChainInv, NEW t \in Task, Refused(t)
    PROVE  ChainInv'
<1>1. FetchOK(task[t], metadata, Kept) /\ task[t].next <= Len(Order)
  BY UnderWay DEF Refused, FetchOK, PcOK
<1>2. PICK outcome \in {"unavailable", "empty"} :
        task' = [task EXCEPT ![t] = Attempt(task[t], outcome)]
  BY DEF Refused
<1>3. FetchOK(Attempt(task[t], outcome), metadata, Kept)
  BY <1>1, Fruitless
<1>4. /\ UNCHANGED <<backend, clock, metadata, looking, archive>> /\ Kept' = Kept
      /\ client' \in BOOLEAN
  BY DEF Refused, Leave, Kept
<1> QED BY <1>2, <1>3, <1>4, OneFetchMoves DEF ChainInv

\* What is archived stays archived, and what was just stored is there.
LEMMA StoringKeeps ==
    ASSUME ChainInv, NEW s \in Source, archive' = Store(s), backend' = backend
    PROVE  /\ archive' \in [Source -> {"absent", "torn", "whole"}]
           /\ Kept \subseteq Kept' /\ s \in Kept'
<1>1. archive \in [Source -> {"absent", "torn", "whole"}] /\ backend \in {"filesystem", "s3"}
  BY DEF ChainInv
<1>2. archive' = [archive EXCEPT ![s] = IF backend = "s3" \/ archive[s] = "absent"
                                        THEN "whole" ELSE archive[s]]
  BY DEF Store
<1> QED BY <1>1, <1>2 DEF Kept

\* A reply, whether it answers anything or not.
LEMMA Answering ==
    ASSUME NEW f, NEW known, NEW kept, NEW reply,
           FetchOK(f, known, kept), f.pc = "get", At(f) \in kept, reply \subseteq FetchRecord,
           \A r \in reply : r.source = At(f) /\ r.variable \in f.scope
    PROVE  FetchOK(Answered(Heard([f EXCEPT !.refs = @ \cup {At(f)}], reply), reply), known, kept)
<1>1. IsFetch(f) /\ f.next <= Len(Order) /\ f.refs \subseteq kept
  BY DEF FetchOK, FetchTypeOK, PcOK
<1>2. PICK g : g = Heard([f EXCEPT !.refs = @ \cup {At(f)}], reply)
  OBVIOUS
<1>3. /\ IsFetch(g) /\ g.pc = f.pc /\ g.now = f.now /\ g.request = f.request
      /\ g.outstanding = f.outstanding /\ g.chain = f.chain /\ g.next = f.next
      /\ g.tries = f.tries /\ g.records = f.records /\ g.attempts = f.attempts
      /\ g.heard = f.heard \cup reply /\ g.refs = f.refs \cup {At(f)}
  BY <1>1, <1>2 DEF Heard, IsFetch
<1>4. PICK fresh : fresh = {r \in reply : IsFresh(r, f.now)}
  OBVIOUS
<1>5. Fresh(g, reply) = fresh /\ At(g) = At(f)
  BY <1>3, <1>4 DEF Fresh, At
<1>6. CASE fresh = {}
  <2>1. PICK outcome \in {"unavailable", "empty", "stale", "success"} :
          Answered(g, reply) = Attempt(g, outcome)
    BY <1>5, <1>6 DEF Answered
  <2>2. PICK h : h = Attempt(g, outcome)
    OBVIOUS
  <2>3. /\ IsFetch(h) /\ h.pc = "chain" /\ h.now = f.now /\ h.request = f.request
        /\ h.outstanding = f.outstanding /\ h.chain = f.chain /\ h.next = f.next + 1
        /\ h.tries = f.tries /\ h.records = f.records
        /\ h.attempts = Append(f.attempts, [source |-> At(f), outcome |-> outcome])
        /\ h.heard = f.heard \cup reply /\ h.refs = f.refs \cup {At(f)}
    BY <1>3, <1>5, <2>2, AttemptFields
  <2>4. /\ \A r \in reply : r.source \in h.refs /\ ~IsFresh(r, f.now)
        /\ f.refs \subseteq h.refs /\ h.refs \subseteq kept
    BY <1>1, <1>4, <1>6, <2>3
  <2>5. FetchOK(h, known, kept)
    BY <1>1, <2>3, <2>4, NothingFresh
  <2> QED BY <1>2, <2>1, <2>2, <2>5
<1>7. CASE fresh # {}
  <2>1. PICK a : a = Attempt(g, "success")
    OBVIOUS
  <2>2. /\ IsFetch(a) /\ a.pc = "chain" /\ a.now = f.now /\ a.request = f.request
        /\ a.outstanding = f.outstanding /\ a.chain = f.chain /\ a.next = f.next + 1
        /\ a.tries = f.tries /\ a.records = f.records
        /\ a.attempts = Append(f.attempts, [source |-> At(f), outcome |-> "success"])
        /\ a.heard = f.heard \cup reply /\ a.refs = f.refs \cup {At(f)}
    BY <1>3, <1>5, <2>1, AttemptFields
  <2>3. PICK h : h = [a EXCEPT !.records = @ \cup fresh,
                               !.outstanding = @ \ {r.variable : r \in fresh}]
    OBVIOUS
  <2>4. Answered(g, reply) = h
    BY <1>4, <1>5, <1>7, <2>1, <2>3 DEF Answered
  <2>5. /\ IsFetch(h) /\ h.pc = "chain" /\ h.now = f.now /\ h.request = f.request
        /\ h.outstanding = f.outstanding \ {r.variable : r \in fresh}
        /\ h.chain = f.chain /\ h.next = f.next + 1
        /\ h.tries = f.tries /\ h.records = f.records \cup fresh
        /\ h.attempts = Append(f.attempts, [source |-> At(f), outcome |-> "success"])
        /\ h.heard = f.heard \cup reply /\ h.refs = f.refs \cup {At(f)}
    BY <2>2, <2>3 DEF IsFetch
  <2>6. f.refs \subseteq h.refs /\ h.refs \subseteq kept /\ At(f) \in h.refs
    BY <1>1, <2>5
  <2>7. FetchOK(h, known, kept)
    BY <1>1, <1>4, <2>5, <2>6, SomethingFresh
  <2> QED BY <1>2, <2>4, <2>7
<1> QED BY <1>6, <1>7

LEMMA ReceiveKeeps ==
    ASSUME ChainInv, NEW t \in Task, Receive(t)
    PROVE  ChainInv'
<1>1. PICK f : f = task[t]
  OBVIOUS
<1>2. FetchOK(f, metadata, Kept) /\ f.pc = "get"
  BY <1>1, UnderWay DEF Receive
<1>3. PICK reply \in Replies(At(f), f.scope) :
        task' = [task EXCEPT ![t] =
                    Answered(Heard([f EXCEPT !.refs = @ \cup {At(f)}], reply), reply)]
  BY <1>1 DEF Receive
<1>4. archive' = Store(At(f)) /\ client' \in BOOLEAN
      /\ UNCHANGED <<backend, clock, metadata, looking>>
  BY <1>1 DEF Receive, Leave
<1>5. At(f) \in Source /\ f.scope \subseteq Members(Publishes[At(f)])
  BY <1>2, ChainAssumption DEF FetchOK, FetchTypeOK, PcOK, At
<1>6. /\ archive' \in [Source -> {"absent", "torn", "whole"}]
      /\ Kept \subseteq Kept' /\ At(f) \in Kept'
  BY <1>4, <1>5, StoringKeeps
<1>7. /\ \A r \in reply : r.source = At(f) /\ r.variable \in f.scope
      /\ reply \subseteq FetchRecord
  <2>1. IssueTimes(At(f)) \subseteq 0..MaxClock
    BY ChainAssumption DEF IssueTimes, ChainInv
  <2>2. f.scope \subseteq UNION {Members(Publishes[o]) : o \in Source}
    BY <1>5
  <2> QED BY <1>5, <2>1, <2>2 DEF Replies, FetchRecord
<1>8. PICK kept : kept = Kept'
  OBVIOUS
<1>9. FetchOK(f, metadata, kept)
  BY <1>2, <1>6, <1>8, MoreIsKnown
<1>10. FetchOK(Answered(Heard([f EXCEPT !.refs = @ \cup {At(f)}], reply), reply), metadata, kept)
  BY <1>2, <1>6, <1>7, <1>8, <1>9, Answering
<1> QED BY <1>3, <1>4, <1>6, <1>8, <1>10, OneFetchMoves DEF ChainInv

LEMMA UnparseableKeeps ==
    ASSUME ChainInv, NEW t \in Task, Unparseable(t)
    PROVE  ChainInv'
<1> DEFINE f == task[t]
           h == [f EXCEPT !.pc = "raised"]
<1>1. FetchOK(f, metadata, Kept) /\ f.pc = "get"
  BY UnderWay DEF Unparseable
<1>2. task' = [task EXCEPT ![t] = h] /\ archive' = Store(At(f)) /\ client' \in BOOLEAN
      /\ UNCHANGED <<backend, clock, metadata, looking>>
  BY DEF Unparseable, Leave
<1>3. At(f) \in Source
  BY <1>1, ChainAssumption DEF FetchOK, FetchTypeOK, PcOK, At
<1>4. archive' \in [Source -> {"absent", "torn", "whole"}] /\ Kept \subseteq Kept'
  BY <1>2, <1>3, StoringKeeps
<1>5. FetchOK(f, metadata, Kept')
  BY <1>1, <1>4, MoreIsKnown
<1> HIDE DEF f
<1>6. /\ IsFetch(h) /\ h.pc = "raised" /\ h.tries = f.tries
      /\ h.now = f.now /\ h.request = f.request /\ h.outstanding = f.outstanding
      /\ h.chain = f.chain /\ h.next = f.next /\ h.records = f.records
      /\ h.attempts = f.attempts /\ h.heard = f.heard /\ h.refs = f.refs
  BY <1>1 DEF FetchOK, FetchTypeOK, IsFetch
<1> HIDE DEF h
<1>7. PcOK(h) /\ h.tries \in 0..Retries
  BY <1>1, <1>6 DEF PcOK, FetchOK, FetchTypeOK
<1>8. FetchOK(h, metadata, Kept')
  BY <1>5, <1>6, <1>7, SameStanding
<1> QED BY <1>2, <1>4, <1>8, OneFetchMoves DEF ChainInv

\* No fetch moves: discovery, the clock, a crash.
LEMMA DiscoveryKeeps ==
    ASSUME ChainInv, NEW s \in Source, DiscoverBegins(s) \/ DiscoverEnds(s)
    PROVE  ChainInv'
<1>1. /\ UNCHANGED <<backend, clock, archive, task>> /\ Kept' = Kept
      /\ client' \in BOOLEAN /\ looking' \subseteq Source
      /\ metadata \subseteq metadata' /\ metadata' \subseteq Source
  BY ChainAssumption DEF DiscoverBegins, DiscoverEnds, Enter, Leave, Kept, ChainInv
<1>2. \A t \in Task : task[t] = NoTask \/ FetchOK(task[t], metadata', Kept)
  BY <1>1, MoreIsKnown DEF ChainInv
<1> QED BY <1>1, <1>2 DEF ChainInv

LEMMA TickKeeps ==
    ASSUME ChainInv, ChainTick
    PROVE  ChainInv'
<1>1. /\ UNCHANGED <<backend, metadata, looking, client, archive, task>> /\ Kept' = Kept
      /\ clock' \in StartClock..MaxClock
  BY ChainAssumption DEF ChainTick, Kept, ChainInv
<1> QED BY <1>1 DEF ChainInv

LEMMA CrashKeeps ==
    ASSUME ChainInv, Crash
    PROVE  ChainInv'
<1>1. /\ UNCHANGED <<clock, backend>> /\ client' = FALSE /\ metadata' = {} /\ looking' = {}
      /\ task' = [t \in Task |-> NoTask]
      /\ archive' \in [Source -> {"absent", "torn", "whole"}]
  BY DEF Crash, ChainInv
<1> QED BY <1>1 DEF ChainInv

LEMMA ChainStarts == ChainInit => ChainInv
<1> SUFFICES ASSUME ChainInit PROVE ChainInv
  OBVIOUS
<1>1. StartClock \in StartClock..MaxClock
  BY ChainAssumption
<1> QED BY <1>1 DEF ChainInit, ChainInv

\* Every step of the chain keeps its invariant.
THEOREM Invariance == ChainSpec => []ChainInv
<1>1. ASSUME ChainInv, [ChainNext]_chainVars
      PROVE  ChainInv'
  <2>1. CASE UNCHANGED chainVars
    <3>1. /\ UNCHANGED <<clock, metadata, looking, client, backend, archive, task>>
          /\ Kept' = Kept
      BY <2>1 DEF chainVars, Kept
    <3> QED BY <1>1, <3>1 DEF ChainInv
  <2>2. ASSUME NEW t \in Task, Begin(t) \/ FetchStep(t)
        PROVE  ChainInv'
    <3>1. CASE Begin(t)
      BY <1>1, <3>1, BeginKeeps
    <3>2. CASE Finish(t)
      BY <1>1, <3>2, FinishKeeps
    <3>3. CASE Ask(t)
      BY <1>1, <3>3, AskKeeps
    <3>4. CASE Lost(t) \/ Retry(t)
      BY <1>1, <3>4, TryKeeps
    <3>5. CASE Refused(t)
      BY <1>1, <3>5, RefusedKeeps
    <3>6. CASE Receive(t)
      BY <1>1, <3>6, ReceiveKeeps
    <3>7. CASE Unparseable(t)
      BY <1>1, <3>7, UnparseableKeeps
    <3> QED BY <2>2, <3>1, <3>2, <3>3, <3>4, <3>5, <3>6, <3>7 DEF FetchStep
  <2>3. ASSUME NEW s \in Source, DiscoverBegins(s) \/ DiscoverEnds(s)
        PROVE  ChainInv'
    BY <1>1, <2>3, DiscoveryKeeps
  <2>4. CASE Crash
    BY <1>1, <2>4, CrashKeeps
  <2>5. CASE ChainTick
    BY <1>1, <2>5, TickKeeps
  <2> QED BY <1>1, <2>1, <2>2, <2>3, <2>4, <2>5 DEF ChainNext
<1> QED BY <1>1, ChainStarts, PTL DEF ChainSpec

\* In an answered variable the sources that gave anything fresh are one.
LEMMA OneGives ==
    ASSUME NEW f, NEW v \in f.request.variables, AnswerOK(f), TrailOK(f), v \notin f.outstanding
    PROVE  /\ Givers(f, v) = {FirstGiver(f, v)}
           /\ \A h \in FreshOn(f, v) : h.source = FirstGiver(f, v)
<1>1. PICK s \in Attempted(f) : \A h \in FreshOn(f, v) : h.source = s
  BY DEF AnswerOK
<1>2. FreshOn(f, v) # {}
  BY DEF AnswerOK
<1>3. Givers(f, v) = {s}
  BY <1>1, <1>2 DEF Givers, FreshOn
<1>4. Position(s) <= Position(s)
  BY <1>1, PositionIsThePlace DEF Attempted, TrailOK
<1>5. FirstGiver(f, v) = s
  BY <1>3, <1>4 DEF FirstGiver
<1> QED BY <1>1, <1>3, <1>5

\* A fetch answers each variable from the most authoritative source that had
\* something fresh, and its trail shows who was tried before.
THEOREM BestAnswer == ChainSpec => []AnswersAreTheBest
<1>1. ChainInv => ChainTypeOK
  <2> SUFFICES ASSUME ChainInv, NEW t \in Task, task[t].pc # "idle" \/ task[t] = NoTask
               PROVE  /\ task[t].pc \in {"idle", "chain", "get", "done", "raised"}
                      /\ task[t].pc # "idle" =>
                            /\ task[t].records \subseteq FetchRecord
                            /\ task[t].outstanding \subseteq task[t].request.variables
                            /\ task[t].tries \in 0..Retries
    BY UnderWay DEF ChainInv, ChainTypeOK, FetchOK, FetchTypeOK, IsFetch, NoTask
  <2>1. CASE task[t] = NoTask
    BY <2>1 DEF NoTask
  <2>2. CASE task[t] # NoTask
    BY <2>2 DEF ChainInv, FetchOK, FetchTypeOK, IsFetch
  <2> QED BY <2>1, <2>2
<1>2. ASSUME ChainInv, NEW t \in Task, Done(t)
      PROVE  FetchOK(task[t], metadata, Kept) /\ task[t].pc = "done"
  BY <1>2, UnderWay DEF Done
<1>3. ChainInv => AnswersByAuthority
  <2> SUFFICES ASSUME ChainInv, NEW t \in Task, Done(t), NEW v \in task[t].request.variables
               PROVE  IF Givers(task[t], v) = {} THEN KeptOn(task[t], v) = {} /\ v \in task[t].outstanding
                      ELSE /\ v \notin task[t].outstanding
                           /\ KeptOn(task[t], v) =
                                {h \in task[t].heard : /\ h.variable = v /\ IsFresh(h, task[t].now)
                                                       /\ h.source = FirstGiver(task[t], v)}
    BY DEF AnswersByAuthority, KeptOn
  <2> DEFINE f == task[t]
  <2>1. AnswerOK(f) /\ TrailOK(f)
    BY <1>2 DEF FetchOK
  <2> HIDE DEF f
  <2>2. Givers(f, v) = {} <=> FreshOn(f, v) = {}
    BY DEF Givers, FreshOn
  <2>3. v \in f.request.variables
    BY DEF f
  <2>4. CASE v \in f.outstanding
    BY <2>1, <2>2, <2>3, <2>4 DEF AnswerOK, f
  <2>5. CASE v \notin f.outstanding
    <3>1. FreshOn(f, v) # {} /\ KeptOn(f, v) = FreshOn(f, v)
      BY <2>1, <2>3, <2>5 DEF AnswerOK
    <3>2. \A h \in FreshOn(f, v) : h.source = FirstGiver(f, v)
      BY <2>1, <2>3, <2>5, OneGives
    <3>3. FreshOn(f, v) = {h \in f.heard : /\ h.variable = v /\ IsFresh(h, f.now)
                                           /\ h.source = FirstGiver(f, v)}
      BY <3>2 DEF FreshOn
    <3> QED BY <2>2, <2>5, <3>1, <3>3 DEF f
  <2> QED BY <2>4, <2>5
<1>4. ChainInv => FallbackIsExplained
  <2> SUFFICES ASSUME ChainInv, NEW t \in Task, Done(t)
               PROVE  /\ \A i, j \in DOMAIN task[t].attempts :
                            i < j => Position(task[t].attempts[i].source) < Position(task[t].attempts[j].source)
                      /\ \A v \in task[t].request.variables, s \in task[t].chain :
                            /\ v \in Members(Publishes[s])
                            /\ v \in task[t].outstanding \/ Position(s) <= Position(FirstGiver(task[t], v))
                            => s \in Attempted(task[t])
    BY DEF FallbackIsExplained
  <2> DEFINE f == task[t]
  <2>1. /\ AnswerOK(f) /\ TrailOK(f) /\ NonePassedOver(f) /\ f.chain \subseteq Members(Order)
        /\ f.next > Len(Order) \/ f.outstanding = {}
        /\ f.next \in 1..(Len(Order) + 1)
    BY <1>2 DEF FetchOK, FetchTypeOK, PcOK
  <2> HIDE DEF f
  <2>2. \A i, j \in DOMAIN f.attempts :
          i < j => Position(f.attempts[i].source) < Position(f.attempts[j].source)
    BY <2>1 DEF TrailOK
  <2>3. ASSUME NEW v \in f.request.variables, NEW s \in f.chain, v \in Members(Publishes[s]),
               v \in f.outstanding \/ Position(s) <= Position(FirstGiver(f, v))
        PROVE  s \in Attempted(f)
    <3>1. Position(s) \in 1..Len(Order) /\ Len(Order) \in Nat
      BY <2>1, PositionIsThePlace, ChainAssumption
    <3>2. CASE v \in f.outstanding
      <4>1. Position(s) < f.next
        BY <2>1, <3>1, <3>2
      <4> QED BY <2>1, <2>3, <3>2, <4>1 DEF NonePassedOver
    <3>3. CASE v \notin f.outstanding
      <4>1. /\ Givers(f, v) = {FirstGiver(f, v)}
            /\ \A h \in FreshOn(f, v) : h.source = FirstGiver(f, v)
        BY <2>1, <2>3, <3>3, OneGives
      <4>2. PICK h \in FreshOn(f, v) : h.source = FirstGiver(f, v)
        BY <2>1, <3>3, <4>1 DEF AnswerOK
      <4>3. Position(s) <= Position(h.source)
        BY <2>3, <3>3, <4>2
      <4>4. h.source \in Attempted(f)
        BY <2>1, <3>3, <4>2 DEF AnswerOK
      <4>5. Position(h.source) < f.next /\ Position(h.source) \in Nat
        BY <2>1, <4>4, PositionIsThePlace DEF Attempted, TrailOK
      <4>6. Position(s) < f.next
        BY <2>1, <3>1, <4>3, <4>5
      <4> QED BY <2>1, <2>3, <4>2, <4>3, <4>6 DEF NonePassedOver
    <3> QED BY <3>2, <3>3
  <2> QED BY <2>2, <2>3 DEF f
<1> QED BY <1>1, <1>3, <1>4, Invariance, PTL DEF AnswersAreTheBest

\* What a fetch answers with is in the object store, whole.
THEOREM Replayable == ChainSpec => []AnswersCanBeReplayed
<1>1. ChainInv => AnswersCanBeReplayed
  <2> SUFFICES ASSUME ChainInv, backend = "s3", NEW t \in Task, Done(t), NEW r \in task[t].records
               PROVE  r.source \in task[t].refs /\ archive[r.source] = "whole"
    BY DEF AnswersCanBeReplayed, AnswersAreKept
  <2>1. FetchTypeOK(task[t], metadata, Kept)
    BY UnderWay DEF Done, FetchOK
  <2>2. r.source \in task[t].refs /\ r.source \in Kept
    BY <2>1 DEF FetchTypeOK
  <2> QED BY <2>2 DEF Kept
<1> QED BY <1>1, Invariance, PTL

-----------------------------------------------------------------------------
(* The cache in front of the connectors.                                   *)

\* What is served is judged when it is served and the entry is a copy: neither
\* a later put nor the clock reaches it.
CacheInv ==
    /\ cacheClock \in Nat
    /\ \A k \in Keys : entries[k] # NoEntry => entries[k] \in Entry
    /\ entries \in [Keys -> {entries[k] : k \in Keys}]
    /\ ServedWasCurrent

\* For every set of keys and cadences, whatever is put, evicted and asked for
\* in whatever order: a get returns nothing that is past its deadline.
THEOREM NothingStaleIsServed == CacheSpec => []ServedWasCurrent
<1>1. CacheInit => CacheInv
  BY DEF CacheInit, CacheInv, ServedWasCurrent
<1>2. ASSUME CacheInv, [CacheNext]_cacheVars
      PROVE  CacheInv'
  <2>1. ASSUME NEW k \in Keys, CacheGet(k)
        PROVE  CacheInv'
    <3>1. CASE entries[k] # NoEntry /\ ~EntryIsStale(entries[k], cacheClock)
      <4>1. /\ entries[k] \in Entry /\ served' = [entry |-> entries[k], at |-> cacheClock]
            /\ UNCHANGED <<cacheClock, entries>>
        BY <1>2, <2>1, <3>1 DEF CacheGet, CacheInv
      <4>2. cacheClock <= entries[k].issued + entries[k].deadline
        BY <1>2, <3>1, <4>1 DEF EntryIsStale, Entry, CacheInv
      <4> QED BY <1>2, <4>1, <4>2 DEF CacheInv, ServedWasCurrent
    <3>2. CASE entries[k] = NoEntry \/ EntryIsStale(entries[k], cacheClock)
      <4>1. /\ served' = NoEntry /\ cacheClock' = cacheClock
            /\ entries' \in {entries, [entries EXCEPT ![k] = NoEntry]}
        BY <2>1, <3>2 DEF CacheGet
      <4> QED BY <1>2, <4>1 DEF CacheInv, ServedWasCurrent
    <3> QED BY <3>1, <3>2
  <2>2. ASSUME NEW k \in Keys, CachePut(k)
        PROVE  CacheInv'
    <3>1. PICK issued \in 0..cacheClock, deadline \in Cadences :
            entries' = [entries EXCEPT ![k] =
                          [issued |-> issued, stored |-> cacheClock, deadline |-> deadline]]
      BY <2>2 DEF CachePut
    <3>2. [issued |-> issued, stored |-> cacheClock, deadline |-> deadline] \in Entry
      BY <1>2, CacheAssumption DEF Entry, CacheInv
    <3>3. UNCHANGED <<cacheClock, served>>
      BY <2>2 DEF CachePut
    <3> QED BY <1>2, <3>1, <3>2, <3>3 DEF CacheInv, ServedWasCurrent
  <2>3. ASSUME NEW k \in Keys, CacheEvict(k)
        PROVE  CacheInv'
    BY <1>2, <2>3 DEF CacheEvict, CacheInv, ServedWasCurrent
  <2>4. CASE CacheTick
    BY <1>2, <2>4 DEF CacheTick, CacheInv, ServedWasCurrent
  <2>5. CASE UNCHANGED cacheVars
    BY <1>2, <2>5 DEF cacheVars, CacheInv, ServedWasCurrent
  <2> QED BY <1>2, <2>1, <2>2, <2>3, <2>4, <2>5 DEF CacheNext
<1>3. CacheInv => ServedWasCurrent
  BY DEF CacheInv
<1> QED BY <1>1, <1>2, <1>3, PTL DEF CacheSpec
=============================================================================
