---------------------------- MODULE Trust_proofs ----------------------------
(***************************************************************************)
(* Whatever the evidence and whatever the critic answers: a verdict only   *)
(* gains doubt, keeps the rules' reasons and the order of the readings     *)
(* does not decide it.  What is stored of a run is of one graph, the one   *)
(* recorded last unless that failed, and a replay says of it what is so.   *)
(***************************************************************************)
EXTENDS TrustVerify, TrustReplay, FiniteSetTheorems, SequenceTheorems, WellFoundedInduction, TLAPS

\* A verdict is a record with these six fields and no other.
IsVerdict(v) ==
    v \in [status : Status, blocking : {v.blocking}, caveats : {v.caveats},
           reasons : {v.reasons}, remedy : {v.remedy}, critique : Commentary]

\* What TrustVerdict validates, and that a bare answer discloses nothing.
Sound(v) ==
    /\ v.status # "unjudged"
    /\ v.blocking # {} => v.status = "abstain"
    /\ v.status = "abstain" => v.reasons # {}
    /\ v.status = "answer_with_caveats" => v.caveats # {}
    /\ v.status = "answer" => v.caveats = {}

\* What is told of a request whatever was said of it after the rules.
Tells(r, v) ==
    /\ Blocking(r) # {} => v.status = "abstain" /\ Blocking(r) \subseteq v.reasons
    /\ v.status # "abstain" =>
          \A x \in Conflicts(r) : <<"source_disagreement", x>> \in v.caveats

VerifyInv ==
    /\ phase \in {"asked", "composed", "told", "raised"}
    /\ request \in Requests
    /\ raised \in {"no", "compose", "critique"}
    /\ phase = "raised" <=> raised # "no"
    /\ IsVerdict(verdict)
    /\ phase = "asked" => verdict = NoVerdict
    /\ phase \in {"composed", "told"} => Sound(verdict) /\ Tells(request, verdict)

\* The rules' own verdict is sound, and names all that blocks or conflicts.
LEMMA ComposedIsSound ==
    ASSUME NEW r
    PROVE  IsVerdict(Composed(r)) /\ Sound(Composed(r)) /\ Tells(r, Composed(r))
<1>1. CASE Blocking(r) # {}
  <2>1. Composed(r) = [status |-> "abstain", blocking |-> Blocking(r), caveats |-> {},
                       reasons |-> Blocking(r), remedy |-> Blocking(r), critique |-> "none"]
    BY <1>1 DEF Composed
  <2> QED BY <1>1, <2>1 DEF IsVerdict, Sound, Tells, Status, Commentary
<1>2. CASE Blocking(r) = {}
  <2>1. \A x \in Conflicts(r) : <<"source_disagreement", x>> \in ComposedCaveats(r)
    BY DEF ComposedCaveats
  <2>2. CASE ComposedCaveats(r) = {}
    <3>1. Composed(r) = [status |-> "answer", blocking |-> {}, caveats |-> {},
                         reasons |-> {}, remedy |-> {}, critique |-> "none"]
      BY <1>2, <2>2 DEF Composed
    <3> QED BY <1>2, <2>1, <2>2, <3>1 DEF IsVerdict, Sound, Tells, Status, Commentary
  <2>3. CASE ComposedCaveats(r) # {}
    <3>1. Composed(r) = [status |-> "answer_with_caveats", blocking |-> {},
                         caveats |-> ComposedCaveats(r), reasons |-> {}, remedy |-> {},
                         critique |-> "none"]
      BY <1>2, <2>3 DEF Composed
    <3> QED BY <1>2, <2>1, <2>3, <3>1 DEF IsVerdict, Sound, Tells, Status, Commentary
  <2> QED BY <2>2, <2>3
<1> QED BY <1>1, <1>2

\* The critique keeps a verdict sound, and leaves standing all that was said:
\* its status gets no milder, its caveats and reasons no fewer.
LEMMA CritiqueOnlyAdds ==
    ASSUME NEW r, NEW v, NEW response,
           IsVerdict(v), Sound(v), Tells(r, v), response.escalates \in BOOLEAN,
           response.commentary \in Commentary
    PROVE  LET w == WithCritique(v, response) IN
           /\ IsVerdict(w) /\ Sound(w) /\ Tells(r, w)
           /\ w.blocking = v.blocking
           /\ v.caveats \subseteq w.caveats /\ v.reasons \subseteq w.reasons
           /\ v.status = "abstain" => w.status = "abstain"
           /\ v.status = "answer_with_caveats" => w.status \in {"answer_with_caveats", "abstain"}
<1> DEFINE w == WithCritique(v, response)
           escalated == response.escalates /\ v.status # "abstain"
<1>1. /\ w.status = IF escalated THEN "abstain"
                    ELSE IF v.caveats \cup response.caveats # {} /\ v.status = "answer"
                    THEN "answer_with_caveats" ELSE v.status
      /\ w.blocking = v.blocking /\ w.caveats = v.caveats \cup response.caveats
      /\ w.reasons = IF escalated THEN v.reasons \cup {"critique"} ELSE v.reasons
      /\ w.remedy = v.remedy /\ w.critique = response.commentary
  BY DEF WithCritique, IsVerdict
<1>2. IsVerdict(w)
  BY <1>1 DEF WithCritique, IsVerdict, Status
<1>3. Sound(w)
  BY <1>1 DEF Sound, IsVerdict, Status
<1>4. Tells(r, w)
  BY <1>1 DEF Tells, IsVerdict, Status
<1> QED BY <1>1, <1>2, <1>3, <1>4 DEF IsVerdict, Status

\* The invariant holds in every reachable state, for every set of requests.
THEOREM Invariance == VerifySpec => []VerifyInv
<1>1. VerifyInit => VerifyInv
  BY DEF VerifyInit, VerifyInv, IsVerdict, NoVerdict, Status, Commentary
<1>2. VerifyInv /\ [VerifyNext]_verifyVars => VerifyInv'
  <2> SUFFICES ASSUME VerifyInv, [VerifyNext]_verifyVars PROVE VerifyInv'
    OBVIOUS
  <2>1. CASE Compose
    <3>1. IsVerdict(Composed(request)) /\ Sound(Composed(request))
            /\ Tells(request, Composed(request))
      BY ComposedIsSound
    <3>2. CASE AgesAllowed(request)
      <4>1. phase' = "composed" /\ verdict' = Composed(request) /\ raised' = raised
              /\ request' = request /\ raised = "no"
        BY <2>1, <3>2 DEF Compose, VerifyInv
      <4> QED BY <3>1, <4>1 DEF VerifyInv
    <3>3. CASE ~AgesAllowed(request)
      BY <2>1, <3>3 DEF Compose, VerifyInv
    <3> QED BY <3>2, <3>3
  <2>2. CASE Critique
    <3>1. Sound(verdict) /\ Tells(request, verdict) /\ IsVerdict(verdict) /\ request' = request
          /\ raised = "no"
      BY <2>2 DEF Critique, VerifyInv
    <3>2. ASSUME NEW response, Tell(response), response.escalates \in BOOLEAN,
                 response.commentary \in Commentary
          PROVE  VerifyInv'
      <4>1. verdict' = WithCritique(verdict, response) /\ phase' = "told" /\ raised' = raised
        BY <3>2 DEF Tell
      <4>2. IsVerdict(verdict') /\ Sound(verdict') /\ Tells(request, verdict')
        BY <3>1, <3>2, <4>1, CritiqueOnlyAdds
      <4> QED BY <3>1, <4>1, <4>2 DEF VerifyInv
    <3>3. CASE Tell(Silent)
      BY <3>2, <3>3 DEF Silent, Commentary
    <3>4. CASE \E reply \in Reply : reply.caveats # "null" /\ Tell(Review(reply))
      <4>1. PICK reply \in Reply : Tell(Review(reply))
        BY <3>4
      <4>2. Review(reply).escalates \in BOOLEAN /\ Review(reply).commentary \in Commentary
        BY DEF Review, Reply
      <4> QED BY <3>2, <4>1, <4>2
    <3>5. CASE phase' = "raised" /\ raised' = "critique" /\ UNCHANGED verdict
      BY <3>1, <3>5 DEF VerifyInv
    <3> QED BY <2>2, <3>3, <3>4, <3>5 DEF Critique
  <2>3. CASE UNCHANGED verifyVars
    BY <2>3 DEF verifyVars, VerifyInv
  <2> QED BY <2>1, <2>2, <2>3 DEF VerifyNext
<1> QED BY <1>1, <1>2, PTL DEF VerifySpec

\* The verifier's variables keep their types, whatever is asked.
THEOREM TypeCorrect == VerifySpec => []VerifyTypeOK
<1>1. VerifyInv => VerifyTypeOK
  BY DEF VerifyInv, VerifyTypeOK, IsVerdict, Sound
<1> QED BY <1>1, Invariance, PTL

\* What blocks is never answered over, and every refusal names all of it.
THEOREM TheRulesDecide == VerifySpec => []BlockedNeverAnswers
<1>1. VerifyInv => BlockedNeverAnswers
  BY DEF VerifyInv, BlockedNeverAnswers, Tells
<1> QED BY <1>1, Invariance, PTL

\* Every conflict is disclosed with every answer.
THEOREM Disclosure == VerifySpec => []ConflictsAreDisclosed
<1>1. VerifyInv => ConflictsAreDisclosed
  BY DEF VerifyInv, ConflictsAreDisclosed, Tells
<1> QED BY <1>1, Invariance, PTL

\* What the critique leaves keeps the rules of a verdict.
THEOREM HoldingTogether == VerifySpec => []VerdictsHoldTogether
<1>1. VerifyInv => VerdictsHoldTogether
  BY DEF VerifyInv, VerdictsHoldTogether, HoldsTogether, Sound
<1> QED BY <1>1, Invariance, PTL

\* All that the rules found is heard, whatever the critic answers.
THEOREM RulesHeard == VerifySpec => []RulesAreHeard
<1> QED BY TypeCorrect, TheRulesDecide, Disclosure, HoldingTogether, PTL DEF RulesAreHeard

\* The verifier implements the promise of TrustDoubt: it judges once and then
\* only adds doubt.
THEOREM Refinement == VerifySpec => OnlyAddsDoubt
<1>1. VerifyInit => Doubt!DoubtInit
  BY DEF VerifyInit, NoVerdict, Doubt!DoubtInit
<1>2. VerifyInv /\ VerifyInv' /\ [VerifyNext]_verifyVars => [Doubt!DoubtNext]_(Doubt!doubtVars)
  <2> SUFFICES ASSUME VerifyInv, VerifyInv', [VerifyNext]_verifyVars
               PROVE  [Doubt!DoubtNext]_(Doubt!doubtVars)
    OBVIOUS
  <2>1. CASE verdict' = verdict
    BY <2>1 DEF Doubt!doubtVars
  <2>2. CASE Compose /\ verdict' # verdict
    <3>1. phase = "asked" /\ phase' = "composed"
      BY <2>2 DEF Compose
    <3>2. verdict.status = "unjudged"
      BY <3>1 DEF VerifyInv, NoVerdict
    <3>3. Sound(verdict') /\ verdict'.status \in Status
      BY <3>1 DEF VerifyInv, IsVerdict
    <3> QED BY <3>2, <3>3 DEF Doubt!DoubtNext, Doubt!Judge, Doubt!Coherent, Doubt!DoubtRank,
                              Sound, Status
  <2>3. CASE Critique /\ verdict' # verdict
    <3>1. PICK response : /\ Tell(response) /\ response.escalates \in BOOLEAN
                          /\ response.commentary \in Commentary
      <4>1. /\ Silent.escalates \in BOOLEAN /\ Silent.commentary \in Commentary
            /\ \A reply \in Reply : /\ Review(reply).escalates \in BOOLEAN
                                     /\ Review(reply).commentary \in Commentary
        BY DEF Silent, Review, Reply, Commentary
      <4> QED BY <2>3, <4>1 DEF Critique
    <3>2. Sound(verdict) /\ Tells(request, verdict) /\ IsVerdict(verdict)
      BY <2>3 DEF Critique, VerifyInv
    <3>3. verdict' = WithCritique(verdict, response)
      BY <3>1 DEF Tell
    <3>4. /\ IsVerdict(verdict') /\ Sound(verdict')
          /\ verdict'.blocking = verdict.blocking
          /\ verdict.caveats \subseteq verdict'.caveats /\ verdict.reasons \subseteq verdict'.reasons
          /\ verdict.status = "abstain" => verdict'.status = "abstain"
          /\ verdict.status = "answer_with_caveats" =>
                verdict'.status \in {"answer_with_caveats", "abstain"}
      BY <3>1, <3>2, <3>3, CritiqueOnlyAdds
    <3>5. Doubt!DoubtRank[verdict'.status] >= Doubt!DoubtRank[verdict.status]
      BY <3>2, <3>4 DEF IsVerdict, Sound, Status, Doubt!DoubtRank
    <3> QED BY <3>2, <3>4, <3>5 DEF Doubt!DoubtNext, Doubt!AddDoubt, Doubt!Coherent,
                                   Doubt!DoubtRank, Sound, IsVerdict, Status
  <2> QED BY <2>1, <2>2, <2>3 DEF VerifyNext, verifyVars
<1> QED BY <1>1, <1>2, Invariance, PTL DEF VerifySpec, OnlyAddsDoubt, Doubt!DoubtSpec

-----------------------------------------------------------------------------
(* The order in which readings arrive.                                     *)

Reading == [source : Nat, value : Nat, reliability : 0..100]

LEMMA LeastElement ==
    ASSUME NEW T \in SUBSET Nat, T # {}
    PROVE  \E n \in T : \A m \in T : n <= m
<1>1. PICK n \in T : \A m \in T : <<m, n>> \notin OpToRel(<, Nat)
    BY NatLessThanWellFounded, WFMin
<1>2. \A m \in T : ~(m < n)
    BY <1>1 DEF OpToRel
<1> QED
    BY <1>2

\* An arrangement of finitely many places fills every one of them.
LEMMA ArrangementsAreOnto ==
    ASSUME NEW n \in Nat, NEW p \in [1..n -> 1..n], \A i, j \in 1..n : p[i] = p[j] => i = j
    PROVE  \A k \in 1..n : \E i \in 1..n : p[i] = k
<1>1. IsFiniteSet(1..n)
    BY FS_Interval
<1>2. p \in Injection(1..n, 1..n)
    BY DEF Injection, IsInjective
<1>3. p \in Surjection(1..n, 1..n)
    BY <1>1, <1>2, FS_Injection, Zenon
<1> QED
    BY <1>3 DEF Surjection

\* Of the readings of different sources one outranks all the others: the most
\* reliable ones among themselves are told apart by their sources.
LEMMA SomeReadingIsBest ==
    ASSUME NEW s \in Seq(Reading), s # <<>>, OneReadingPerSource(s)
    PROVE  \E i \in DOMAIN s : \A j \in DOMAIN s \ {i} : RanksBefore(s, i, j)
<1>1. /\ DOMAIN s # {}
      /\ \A i \in DOMAIN s : s[i].reliability \in 0..100 /\ s[i].source \in Nat
    <2>1. Len(s) \in Nat \ {0} /\ DOMAIN s = 1..Len(s)
        BY EmptySeq
    <2>2. \A i \in DOMAIN s : s[i] \in Reading
        OBVIOUS
    <2> QED
        BY <2>1, <2>2 DEF Reading
<1> DEFINE Doubts == {100 - s[i].reliability : i \in DOMAIN s}
<1>2. Doubts \in SUBSET Nat /\ Doubts # {}
    <2>1. \A r \in 0..100 : 100 - r \in Nat
        OBVIOUS
    <2> QED
        BY <1>1, <2>1
<1>3. PICK d \in Doubts : \A e \in Doubts : d <= e
    BY <1>2, LeastElement
<1> DEFINE Surest == {i \in DOMAIN s : 100 - s[i].reliability = d}
           Names == {s[i].source : i \in Surest}
<1>4. Names \in SUBSET Nat /\ Names # {}
    BY <1>1, <1>3
<1>5. PICK x \in Names : \A y \in Names : x <= y
    BY <1>4, LeastElement
<1>6. PICK i \in Surest : s[i].source = x
    BY <1>5
<1>7. ASSUME NEW j \in DOMAIN s \ {i}
      PROVE  RanksBefore(s, i, j)
    <2>1. d <= 100 - s[j].reliability /\ d = 100 - s[i].reliability /\ s[i].source # s[j].source
        BY <1>3, <1>6 DEF OneReadingPerSource
    <2>2. s[i].reliability = s[j].reliability => s[j].source \in Names
        BY <2>1
    <2>4. s[i].reliability \in 0..100 /\ s[j].reliability \in 0..100 /\ x = s[i].source
          /\ s[i].source \in Nat /\ s[j].source \in Nat
        BY <1>1, <1>6
    <2> HIDE DEF Names, Doubts, Surest
    <2>3. s[i].reliability = s[j].reliability => x <= s[j].source
        BY <1>5, <2>2
    <2>7. s[i].reliability \in Int /\ s[j].reliability \in Int
        <3>1. \A r \in 0..100 : r \in Int
            OBVIOUS
        <3> QED
            BY <2>4, <3>1
    <2>5. s[i].reliability >= s[j].reliability
        <3>1. 100 - s[i].reliability <= 100 - s[j].reliability
            BY <2>1
        <3> QED
            BY <2>7, <3>1
    <2>6. s[i].reliability = s[j].reliability => s[i].source < s[j].source
        BY <2>1, <2>3, <2>4
    <2> QED
        BY <2>4, <2>5, <2>6, <2>7 DEF RanksBefore
<1> QED
    BY <1>6, <1>7

LEMMA ChosenIsBest ==
    ASSUME NEW s \in Seq(Reading), s # <<>>, OneReadingPerSource(s)
    PROVE  /\ Chosen(s) \in DOMAIN s
           /\ \A j \in DOMAIN s \ {Chosen(s)} : RanksBefore(s, Chosen(s), j)
BY SomeReadingIsBest DEF Chosen

\* Whatever the threshold and whichever order the readings of different
\* sources come in: the same one is chosen, and conflicts are found alike.
LEMMA OrderDoesNotMatter ==
    ASSUME NEW s \in Seq(Reading), s # <<>>, OneReadingPerSource(s),
           NEW other \in Arrangements(s), NEW v
    PROVE  Resolution(v, other) = Resolution(v, s)
<1> DEFINE n == Len(s)
<1>1. n \in Nat /\ DOMAIN s = 1..n
    OBVIOUS
<1>2. PICK p \in [1..n -> 1..n] :
          (\A i, j \in 1..n : p[i] = p[j] => i = j) /\ other = [i \in 1..n |-> s[p[i]]]
    BY <1>1 DEF Arrangements
<1>3. \A k \in 1..n : \E i \in 1..n : p[i] = k
    BY <1>1, <1>2, ArrangementsAreOnto
<1>4. /\ other \in Seq(Reading) /\ Len(other) = n /\ DOMAIN other = 1..n
      /\ \A i \in 1..n : other[i] = s[p[i]] /\ p[i] \in 1..n
    BY <1>1, <1>2
<1>5. Values(other) = Values(s)
    <2>1. ASSUME NEW x \in Values(s)
          PROVE  x \in Values(other)
        <3>1. PICK k \in 1..n : x = s[k].value
            BY <1>1, <2>1 DEF Values
        <3>2. PICK m \in 1..n : p[m] = k
            BY <1>3
        <3> QED
            BY <1>4, <3>1, <3>2 DEF Values
    <2>2. ASSUME NEW x \in Values(other)
          PROVE  x \in Values(s)
        BY <1>1, <1>4, <2>2 DEF Values
    <2> QED
        BY <2>1, <2>2
<1>6. OneReadingPerSource(other) /\ other # <<>>
    BY <1>1, <1>2, <1>4 DEF OneReadingPerSource
<1>7. other[Chosen(other)] = s[Chosen(s)]
    <2> DEFINE c == Chosen(s)
               o == Chosen(other)
    <2>1. c \in 1..n /\ \A j \in 1..n \ {c} : RanksBefore(s, c, j)
        BY <1>1, ChosenIsBest
    <2>2. o \in 1..n /\ \A j \in 1..n \ {o} : RanksBefore(other, o, j)
        BY <1>4, <1>6, ChosenIsBest
    <2> HIDE DEF c, o
    <2>3. PICK m \in 1..n : p[m] = c
        BY <1>3, <2>1
    <2>4. ASSUME p[o] # c
          PROVE  FALSE
        <3>1. RanksBefore(s, c, p[o]) /\ RanksBefore(other, o, m)
            BY <1>4, <2>1, <2>2, <2>3, <2>4
        <3>2. /\ s[c] \in Reading /\ s[p[o]] \in Reading
              /\ other[o] = s[p[o]] /\ other[m] = s[c]
            BY <1>1, <1>4, <2>1, <2>2, <2>3
        <3>3. s[c].source # s[p[o]].source
            BY <1>1, <1>4, <2>1, <2>2, <2>4 DEF OneReadingPerSource
        <3>4. RanksBefore(s, c, p[o]) =>
                  \/ s[c].reliability > s[p[o]].reliability
                  \/ s[c].reliability = s[p[o]].reliability /\ s[c].source < s[p[o]].source
            BY <3>3 DEF RanksBefore
        <3>5. RanksBefore(other, o, m) =>
                  \/ s[p[o]].reliability > s[c].reliability
                  \/ s[c].reliability = s[p[o]].reliability /\ s[p[o]].source < s[c].source
            BY <3>2, <3>3 DEF RanksBefore
        <3>6. /\ s[c].reliability \in 0..100 /\ s[p[o]].reliability \in 0..100
              /\ s[c].source \in Nat /\ s[p[o]].source \in Nat
            BY <3>2 DEF Reading
        <3>7. \A a, b \in 0..100, x, y \in Nat :
                  /\ (a > b \/ (a = b /\ x < y))
                  /\ (b > a \/ (a = b /\ y < x))
                  => FALSE
            OBVIOUS
        <3> QED
            BY <3>1, <3>4, <3>5, <3>6, <3>7
    <2> QED
        BY <1>4, <2>2, <2>4 DEF c, o
<1> QED
    BY <1>4, <1>5, <1>7 DEF Resolution, Spread

\* For every set of requests: the order in which the readings of different
\* sources arrive changes nothing of what is resolved.
THEOREM OrderTheorem == VerifySpec => []OrderChangesNothing
<1>1. VerifyInv => OrderChangesNothing
    <2> SUFFICES ASSUME VerifyInv, NEW v \in DOMAIN request.readings,
                        OneReadingPerSource(request.readings[v]),
                        NEW other \in Arrangements(request.readings[v])
                 PROVE  Resolution(v, other) = Resolution(v, request.readings[v])
        BY DEF OrderChangesNothing
    <2>1. request.readings[v] \in Seq(Reading) \ {<<>>}
        BY RequestsAssumption DEF VerifyInv, RequestsAssumption, Reading
    <2> QED
        BY <2>1, OrderDoesNotMatter
<1> QED
    BY <1>1, Invariance, PTL

-----------------------------------------------------------------------------
(* The provenance store and the replay.                                    *)

RunMap(f) == f = [r \in RunId |-> f[r]]

\* The rows of every run are those of one graph, committed or not.
StoreInv ==
    /\ RunMap(db) /\ RunMap(work) /\ RunMap(recorded)
    /\ cut = [work |-> cut.work, db |-> cut.db] /\ RunMap(cut.work) /\ RunMap(cut.db)
    /\ \A r \in RunId :
          /\ recorded[r] \in Graphs \cup {NoRun}
          /\ OneGraph(db[r], cut.db[r], recorded[r])
          /\ OneGraph(work[r], cut.work[r], recorded[r])

\* A graph is no absent run, and neither is its row.
LEMMA GraphsAreRuns ==
    ASSUME NEW g \in Graphs
    PROVE  /\ g # NoRun /\ Row(g) # NoRun
           /\ Row(g).nodes = g.nodes /\ Row(g).edges = ToSet(g.edges)
           /\ \E m \in Nat : g.edges \in [1..m -> EdgeChoices]
<1>1. g \in [nodes : SUBSET NodeChoices, edges : BoundedSeq(EdgeChoices, MaxEdges)]
    BY DEF Graphs
<1>2. PICK m \in 0..MaxEdges : g.edges \in [1..m -> EdgeChoices]
    BY <1>1 DEF BoundedSeq, SeqOf
<1>3. m \in Nat
    BY <1>2, ReplayAssumption DEF ReplayAssumption
<1>4. g \in [nodes : SUBSET NodeChoices, edges : Seq(EdgeChoices)]
    BY <1>1, <1>2, <1>3
<1>5. ToSet(g.edges) \in SUBSET EdgeChoices
    BY <1>2 DEF ToSet
<1>6. Row(g) \in [nodes : SUBSET NodeChoices, edges : SUBSET EdgeChoices]
    BY <1>1, <1>5 DEF Row
<1>7. g # NoRun /\ Row(g) # NoRun
    BY <1>4, <1>6, ReplayAssumption DEF ReplayAssumption
<1> QED
    BY <1>2, <1>3, <1>7 DEF Row

\* What an interrupted record has written is part of its graph, and is a row.
LEMMA InterruptedIsPart ==
    ASSUME NEW g \in Graphs, NEW row \in Interrupted(g.nodes)
    PROVE  /\ [nodes |-> g.nodes, edges |-> {}] # NoRun /\ row # NoRun
           /\ OneGraph(row, [nodes |-> g.nodes, edges |-> {}], NoRun)
<1>1. g.nodes \in SUBSET NodeChoices
    BY DEF Graphs
<1>2. PICK done \in SUBSET {n \in g.nodes : n.writable} : row = [nodes |-> done, edges |-> {}]
    BY DEF Interrupted
<1>3. /\ row \in [nodes : SUBSET NodeChoices, edges : SUBSET EdgeChoices]
      /\ [nodes |-> g.nodes, edges |-> {}] \in [nodes : SUBSET NodeChoices, edges : SUBSET EdgeChoices]
    BY <1>1, <1>2
<1>4. row # NoRun /\ [nodes |-> g.nodes, edges |-> {}] # NoRun
    BY <1>3, ReplayAssumption DEF ReplayAssumption
<1> QED
    BY <1>2, <1>4 DEF OneGraph

LEMMA RecordKeepsStore ==
    ASSUME StoreInv, NEW run \in RunId, NEW g \in Graphs, Record(run, g)
    PROVE  StoreInv'
<1>1. CASE /\ work' = [work EXCEPT ![run] = Row(g)] /\ db' = work'
           /\ recorded' = [recorded EXCEPT ![run] = g] /\ cut' = Completed(run)
    <2>1. /\ work'[run] = Row(g) /\ recorded'[run] = g
          /\ \A r \in RunId \ {run} : work'[r] = work[r] /\ recorded'[r] = recorded[r]
          /\ RunMap(work)' /\ RunMap(recorded)'
        BY <1>1 DEF StoreInv, RunMap
    <2>2. /\ cut' = [work |-> cut'.work, db |-> cut'.db] /\ cut'.db = cut'.work
          /\ cut'.work[run] = NoRun
          /\ \A r \in RunId \ {run} : cut'.work[r] = cut.work[r]
          /\ cut'.work = [r \in RunId |-> cut'.work[r]]
        BY <1>1 DEF Completed, StoreInv, RunMap
    <2>3. OneGraph(work'[run], cut'.work[run], recorded'[run])
        BY <2>1, <2>2, GraphsAreRuns DEF OneGraph, RowOf
    <2>4. \A r \in RunId \ {run} : OneGraph(work'[r], cut'.work[r], recorded'[r])
        BY <2>1, <2>2 DEF StoreInv
    <2> QED
        BY <1>1, <2>1, <2>2, <2>3, <2>4 DEF StoreInv, RunMap
<1>2. CASE /\ \E row \in Interrupted(g.nodes) : work' = [work EXCEPT ![run] = row]
           /\ cut' = [cut EXCEPT !.work[run] = [nodes |-> g.nodes, edges |-> {}]]
           /\ UNCHANGED <<db, recorded>>
    <2>1. PICK row \in Interrupted(g.nodes) : work' = [work EXCEPT ![run] = row]
        BY <1>2
    <2>2. /\ work'[run] = row /\ \A r \in RunId \ {run} : work'[r] = work[r]
          /\ RunMap(work)'
        BY <2>1 DEF StoreInv, RunMap
    <2>3. /\ cut' = [work |-> cut'.work, db |-> cut'.db] /\ cut'.db = cut.db
          /\ cut'.work[run] = [nodes |-> g.nodes, edges |-> {}]
          /\ \A r \in RunId \ {run} : cut'.work[r] = cut.work[r]
          /\ cut'.work = [r \in RunId |-> cut'.work[r]]
        BY <1>2 DEF StoreInv, RunMap
    <2>4. OneGraph(work'[run], cut'.work[run], recorded'[run])
        BY <2>2, <2>3, InterruptedIsPart DEF OneGraph
    <2> QED
        BY <1>2, <2>2, <2>3, <2>4 DEF StoreInv, RunMap
<1> QED
    BY <1>1, <1>2 DEF Record

LEMMA StoreInvImplies == StoreInv => StoredIsTheLatest
<1> SUFFICES ASSUME StoreInv, NEW run \in RunId, cut.work[run] = NoRun, NEW d \in Digests
             PROVE  run \in RunsUsingPayload(d) <=>
                       recorded[run] # NoRun /\ d \in PayloadHashes(recorded[run])
    BY DEF StoreInv, StoredIsTheLatest
<1>1. work[run] = RowOf(recorded[run]) /\ recorded[run] \in Graphs \cup {NoRun}
    BY DEF StoreInv, OneGraph
<1>2. CASE recorded[run] = NoRun
    BY <1>1, <1>2 DEF RowOf, RunsUsingPayload
<1>3. CASE recorded[run] # NoRun
    <2>1. work[run] # NoRun /\ work[run].nodes = recorded[run].nodes
        BY <1>1, <1>3, GraphsAreRuns DEF RowOf
    <2>2. PayloadHashes(work[run]) = PayloadHashes(recorded[run])
        BY <2>1 DEF PayloadHashes, OfKind
    <2> QED
        BY <1>3, <2>1, <2>2 DEF RunsUsingPayload
<1> QED
    BY <1>2, <1>3

LEMMA StoreInvariance == ReplaySpec => []StoreInv
<1>1. ReplayInit => StoreInv
    BY DEF ReplayInit, StoreInv, RunMap, OneGraph, RowOf
<1>2. StoreInv /\ [ReplayNext]_replayVars => StoreInv'
    <2> SUFFICES ASSUME StoreInv, [ReplayNext]_replayVars
                 PROVE  StoreInv'
        OBVIOUS
    <2>1. CASE UNCHANGED <<db, work, recorded, cut>>
        BY <2>1 DEF StoreInv, RunMap
    <2>2. CASE Reconnect
        <3>1. /\ work' = db /\ db' = db /\ recorded' = recorded
              /\ cut' = [work |-> cut.db, db |-> cut.db]
            BY <2>2 DEF Reconnect, StoreInv
        <3> QED
            BY <3>1 DEF StoreInv, RunMap
    <2>3. CASE \E run \in RunId, g \in Graphs : Record(run, g)
        BY <2>3, RecordKeepsStore
    <2> QED
        BY <2>1, <2>2, <2>3 DEF ReplayNext, Replay, Damage, Release, replayVars
<1> QED
    BY <1>1, <1>2, PTL DEF ReplaySpec

\* However many runs share the connection, whatever fails while they are
\* written and whenever the connection is lost: no run has the rows of two
\* graphs, and one that no failure touched has those of its latest.
THEOREM StoreTheorem == ReplaySpec => []StoredIsTheLatest
<1> QED
    BY StoreInvariance, StoreInvImplies, PTL

\* Each link is then the first of its pair.
LEMMA FingerprintOfLinkedOnce ==
    ASSUME NEW g, NEW k \in Nat, NEW S, g.edges \in [1..k -> S], LinkedOnce(g)
    PROVE  Fingerprint(g) =
              [nodes |-> {[id |-> n.id, kind |-> n.kind, content |-> n.content] : n \in g.nodes},
               edges |-> {<<1, e>> : e \in ToSet(g.edges)}]
<1>1. DOMAIN g.edges = 1..k
    OBVIOUS
<1>2. ASSUME NEW i \in 1..k
      PROVE  Cardinality({j \in 1..i : Pair(g.edges[j]) = Pair(g.edges[i])}) = 1
    <2>1. {j \in 1..i : Pair(g.edges[j]) = Pair(g.edges[i])} = {i}
        BY <1>1 DEF LinkedOnce
    <2> QED
        BY <2>1, FS_Singleton
<1>3. {<<Cardinality({j \in 1..i : Pair(g.edges[j]) = Pair(g.edges[i])}), g.edges[i]>> : i \in 1..k}
      = {<<1, g.edges[i]>> : i \in 1..k}
    BY <1>2
<1>4. {<<1, g.edges[i]>> : i \in 1..k} = {<<1, e>> : e \in ToSet(g.edges)}
    BY <1>1 DEF ToSet
<1> QED
    BY <1>1, <1>3, <1>4 DEF Fingerprint

\* A graph whose pairs are linked once is loaded with the fingerprint it was
\* recorded with, in whatever order its rows come back.
LEMMA StorageKeepsTheFingerprint ==
    ASSUME NEW g \in Graphs, LinkedOnce(g), NEW h \in Loaded(Row(g))
    PROVE  h.nodes = g.nodes /\ Fingerprint(h) = Fingerprint(g)
<1> DEFINE E == ToSet(g.edges)
           c == Cardinality(E)
<1>1. PICK m \in Nat : g.edges \in [1..m -> EdgeChoices]
    BY GraphsAreRuns
<1>2. IsFiniteSet(E) /\ c \in Nat
    <2>1. g.edges \in Surjection(1..m, E)
        BY <1>1 DEF Surjection, ToSet
    <2>2. IsFiniteSet(1..m)
        BY <1>1, FS_Interval
    <2> QED
        BY <2>1, <2>2, FS_Surjection, FS_CardinalityType, Zenon
<1>3. h.nodes = g.nodes /\ h.edges \in [1..c -> E]
      /\ \A i, j \in 1..c : i < j => h.edges[i] # h.edges[j]
    <2>1. Row(g).nodes = g.nodes /\ Row(g).edges = E
        BY DEF Row
    <2> DEFINE rows == Row(g)
               Sorted(t) == \A i, j \in DOMAIN t : i < j =>
                   /\ t[i] # t[j]
                   /\ \/ t[i][1] < t[j][1]
                      \/ t[i][1] = t[j][1] /\ t[i][2] <= t[j][2]
    <2>2. \E s \in {t \in [1..Cardinality(rows.edges) -> rows.edges] : Sorted(t)} :
              h = [nodes |-> rows.nodes, edges |-> s]
        BY Zenon DEF Loaded
    <2>3. \E t \in [1..c -> E] : Sorted(t) /\ h = [nodes |-> g.nodes, edges |-> t]
        <3> HIDE DEF Sorted, rows
        <3>1. rows.nodes = g.nodes /\ rows.edges = E
            BY <2>1 DEF rows
        <3> QED
            BY <2>2, <3>1
    <2>4. PICK t \in [1..c -> E] : Sorted(t) /\ h = [nodes |-> g.nodes, edges |-> t]
        BY <2>3
    <2>5. h.nodes = g.nodes /\ h.edges = t
        BY <2>4
    <2>6. DOMAIN t = 1..c /\ \A i, j \in 1..c : i < j => t[i] # t[j]
        BY <2>4
    <2> HIDE DEF E, c
    <2> QED
        BY <2>4, <2>5, <2>6
<1>4. \A i, j \in 1..c : h.edges[i] = h.edges[j] => i = j
    BY <1>2, <1>3
<1>5. ToSet(h.edges) = E
    <2>1. h.edges \in Injection(1..c, E)
        BY <1>3, <1>4 DEF Injection, IsInjective
    <2>2. IsFiniteSet(1..c) /\ Cardinality(1..c) = c
        BY <1>2, FS_Interval
    <2>3. h.edges \in Surjection(1..c, E)
        BY <1>2, <2>1, <2>2, FS_Injection, Zenon
    <2>4. \A e \in E : \E i \in 1..c : h.edges[i] = e
        BY <2>3 DEF Surjection
    <2>5. DOMAIN h.edges = 1..c /\ \A i \in 1..c : h.edges[i] \in E
        BY <1>3
    <2> HIDE DEF E
    <2> QED
        BY <2>4, <2>5 DEF ToSet
<1>6. LinkedOnce(h)
    <2>1. \A e, f \in E : Pair(e) = Pair(f) => e = f
        BY DEF LinkedOnce, ToSet
    <2> QED
        BY <1>3, <1>4, <2>1 DEF LinkedOnce
<1> QED
    BY <1>1, <1>2, <1>3, <1>5, <1>6, FingerprintOfLinkedOnce

\* Equal fingerprints are equal outputs.
LEMMA FingerprintShowsOutputs ==
    ASSUME NEW g, NEW h, Fingerprint(g) = Fingerprint(h)
    PROVE  Outputs(g) = Outputs(h)
<1> DEFINE Hashed(x) == {[id |-> n.id, kind |-> n.kind, content |-> n.content] : n \in x.nodes}
<1>1. Hashed(g) = Hashed(h)
    BY DEF Fingerprint
<1>2. ASSUME NEW a, NEW b, Hashed(a) = Hashed(b), NEW x \in Outputs(a)
      PROVE  x \in Outputs(b)
    <2>1. PICK n \in a.nodes : n.kind = "output" /\ x = <<n.id, n.content>>
        BY DEF Outputs, OfKind
    <2>2. [id |-> n.id, kind |-> n.kind, content |-> n.content] \in Hashed(b)
        BY <1>2
    <2>3. PICK l \in b.nodes : /\ [id |-> n.id, kind |-> n.kind, content |-> n.content]
                                 = [id |-> l.id, kind |-> l.kind, content |-> l.content]
        BY <2>2
    <2>4. l.id = n.id /\ l.kind = n.kind /\ l.content = n.content
        BY <2>3
    <2> QED
        BY <2>1, <2>4 DEF Outputs, OfKind
<1> QED
    BY <1>1, <1>2

\* A replay compares with what the run last recorded.
LEMMA ReplayIsHonest ==
    ASSUME StoreInv, NEW run \in RunId, Replay(run)
    PROVE  IdenticalMeansReproduced' /\ CodeIsBlamedLast'
<1>1. PICK g \in Loaded(work[run]), replayed \in Recomputed, pinned \in BOOLEAN :
          report' = [outcome |-> Outcome(g, replayed, pinned), run |-> run,
                     replayed |-> replayed, pinned |-> pinned]
    BY DEF Replay
<1> DEFINE D == recorded[run]
<1>2. /\ report'.outcome = Outcome(g, replayed, pinned) /\ report'.run = run
      /\ report'.replayed = replayed /\ report'.pinned = pinned
      /\ recorded'[report'.run] = D /\ archive' = archive /\ current' = current
      /\ cut'.work[report'.run] = cut.work[run]
    BY <1>1 DEF Replay
<1> SUFFICES ASSUME cut.work[run] = NoRun
             PROVE  IdenticalMeansReproduced' /\ CodeIsBlamedLast'
    BY <1>2 DEF IdenticalMeansReproduced, CodeIsBlamedLast, RecordedWhole
<1>3. D \in Graphs /\ D # NoRun /\ work[run] = Row(D)
    BY DEF Replay, StoreInv, OneGraph, RowOf
<1>4. g.nodes = D.nodes
    BY <1>1, <1>3 DEF Loaded, Row
<1>5. ASSUME Outcome(g, replayed, pinned) \in {"identical", "output_differs"}
      PROVE  /\ \A d \in PayloadHashes(D) : archive[d] = "intact"
             /\ pinned => \A n \in OfKind(D, "formula") : n.content = current
    <2>1. BadPayloads(g) = {} /\ (pinned => ~FormulasChanged(g))
        BY <1>5 DEF Outcome
    <2> QED
        BY <1>4, <2>1 DEF BadPayloads, FormulasChanged, PayloadHashes, OfKind
<1>6. ASSUME Outcome(g, replayed, pinned) = "identical"
      PROVE  Outputs(replayed) = Outputs(D)
    <2>1. Fingerprint(replayed) = Fingerprint(g)
        BY <1>6 DEF Outcome
    <2>2. Outputs(replayed) = Outputs(g)
        BY <2>1, FingerprintShowsOutputs
    <2> QED
        BY <1>4, <2>2 DEF Outputs, OfKind
<1>7. ASSUME Outcome(g, replayed, pinned) = "output_differs", LinkedOnce(D)
      PROVE  Fingerprint(replayed) # Fingerprint(D)
    <2>1. Fingerprint(replayed) # Fingerprint(g)
        BY <1>7 DEF Outcome
    <2>2. Fingerprint(g) = Fingerprint(D)
        BY <1>1, <1>3, <1>7, StorageKeepsTheFingerprint
    <2> QED
        BY <2>1, <2>2
<1> QED
    BY <1>2, <1>5, <1>6, <1>7 DEF IdenticalMeansReproduced, CodeIsBlamedLast, Decided

\* A report stands until something it read changes.
LEMMA ReportsStand ==
    ASSUME [ReplayNext]_replayVars, ~\E run \in RunId : Replay(run), ReplaysAreHonest
    PROVE  ReplaysAreHonest'
<1>1. CASE report' = NoReport
    BY <1>1 DEF ReplaysAreHonest, IdenticalMeansReproduced, CodeIsBlamedLast, Replayed
<1>2. CASE UNCHANGED <<report, archive, current, recorded, cut>>
    BY <1>2 DEF ReplaysAreHonest, IdenticalMeansReproduced, CodeIsBlamedLast, Replayed, Decided,
                RecordedWhole
<1> QED
    BY <1>1, <1>2 DEF ReplayNext, Record, Damage, Release, Reconnect, replayVars

\* Whatever the archive loses, is released, is recorded again or cut short, and
\* whatever a replay computes: of a run recorded whole, identical means
\* reproduced, and the code is blamed for nothing that the evidence, a release
\* or the storage explains.
THEOREM ReplayTheorem == ReplaySpec => []ReplaysAreHonest
<1>1. ReplayInit => ReplaysAreHonest
    BY DEF ReplayInit, ReplaysAreHonest, IdenticalMeansReproduced, CodeIsBlamedLast, Replayed
<1>2. StoreInv /\ ReplaysAreHonest /\ [ReplayNext]_replayVars => ReplaysAreHonest'
    BY ReplayIsHonest, ReportsStand DEF ReplaysAreHonest
<1> QED
    BY <1>1, <1>2, StoreInvariance, PTL DEF ReplaySpec
=============================================================================
