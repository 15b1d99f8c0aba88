------------------------------- MODULE TrustMC -------------------------------
(***************************************************************************)
(* The verifier and the provenance store side by side: a verdict is        *)
(* composed from the request alone and a graph is stored whatever its      *)
(* verdict, so a behaviour is one of either.                               *)
(***************************************************************************)
EXTENDS TrustVerify, TrustReplay, TLC

VARIABLE half

trustVars == <<verifyVars, replayVars, half>>

TrustInit ==
    /\ half \in {"verify", "replay"} /\ ReplayInit
    /\ IF half = "verify" THEN VerifyInit
       ELSE /\ phase = "asked" /\ request = CHOOSE r \in Requests : TRUE
            /\ verdict = NoVerdict /\ raised = "no"

TrustNext ==
    \/ half = "verify" /\ VerifyNext /\ UNCHANGED <<replayVars, half>>
    \/ half = "replay" /\ ReplayNext /\ UNCHANGED <<verifyVars, half>>

TrustSpec == TrustInit /\ [][TrustNext]_trustVars

\* Runs have no order; the queries of storage.py sort their names for reading.
Alike == Permutations(RunId)

It(source, variable, valued, age, deadline, place) ==
    [source |-> source, variable |-> variable, valued |-> valued, age |-> age,
     deadline |-> deadline, place |-> place]

Wave == It(1, "wave", TRUE, 3, 6, "inside")
SomeItems ==
    {Wave, It(2, "wave", TRUE, 12, 56, "inside"), It(2, "wind", TRUE, 3, 0, "outside"),
     It(1, "wind", FALSE, 3, 6, "unknown"), It(1, "wave", TRUE, 7, 6, "inside"),
     It(2, "wave", TRUE, 13, 56, "inside"), It(9, "wave", TRUE, 1, 0, "inside"),
     It(1, "wind", TRUE, -1, 6, "inside")}

Read(source, value, reliability) == [source |-> source, value |-> value, reliability |-> reliability]

ReadingSets ==
    {<<Read(1, 10, 90)>>, <<Read(1, 10, 80), Read(2, 15, 80)>>, <<Read(2, 20, 80), Read(1, 10, 80)>>,
     <<Read(1, 10, 90), Read(2, 31, 60)>>, <<Read(2, 12, 70), Read(1, 10, 70), Read(3, 24, 95)>>}

Bearings == {<<Read(1, 350, 90), Read(2, 10, 80)>>}
TwoOfOne == {<<Read(1, 10, 90), Read(1, 20, 90)>>}

Asking(items, required, formulas, readings) ==
    {[evidence |-> e, required |-> required, formulas |-> formulas, readings |-> r] :
        e \in items, r \in readings}

SeqsOf(S, n) == UNION {[1..k -> S] : k \in 0..n}

WaveReadings == {[wave |-> r] : r \in ReadingSets}
Nothing1 == {[v \in {} |-> <<>>]}

ManyRequests ==
    Asking(SeqsOf(SomeItems, 2), {"wave"}, {"safety"}, WaveReadings)
        \cup Asking(SeqsOf(SomeItems, 3), {"wave", "wind"}, {"safety"}, Nothing1)
        \cup Asking({<<Wave, Wave>>}, {}, {"invented"}, WaveReadings)
BearingRequests ==
    Asking({<<Wave, Wave>>}, {"wave"}, {"safety"}, {[bearing |-> r] : r \in Bearings})
        \cup Asking({<<Wave, Wave>>}, {"wave"}, {"safety"}, {[wave |-> r] : r \in TwoOfOne})

Thresholds == [wave |-> 5, bearing |-> 45]

Node(id, kind, content) == [id |-> id, kind |-> kind, content |-> content, writable |-> TRUE]

OneEach ==
    {Node(1, "raw_payload", "sha1"), Node(3, "formula", "v1"),
     Node(4, "output", "high"), Node(4, "output", "low")}
\* One of the outputs is of a type that json cannot write.
OneUnwritable == {[n EXCEPT !.writable = n.content # "low"] : n \in OneEach}
WithUnwritable == OneEach \cup {[id |-> 5, kind |-> "agent", content |-> "dated", writable |-> FALSE]}
WithAgents == {Node(1, "agent", "safety"), Node(2, "agent", "context"), Node(4, "output", "high")}

Links == {<<3, 4, "derives">>, <<4, 1, "derives">>}
OneOrTwoLinks == Links \cup {<<3, 4, "informs">>}
ParallelLinks == {<<3, 4, "derives">>, <<3, 4, "informs">>}
\* The recorded decision, the same with its links in another order, one
\* without the second link, another output, and none.
Comes(nodes, links) == [nodes |-> {n \in OneUnwritable : n.content \in nodes}, edges |-> links]
Recomputes ==
    {Comes({"sha1", "v1", "high"}, links) :
        links \in {<<>>, <<<<3, 4, "derives">>>>, <<<<3, 4, "derives">>, <<3, 4, "informs">>>>,
                  <<<<3, 4, "informs">>, <<3, 4, "derives">>>>}}
    \cup {Comes({"sha1", "v1", "low"}, <<<<3, 4, "derives">>>>), Comes({"sha1", "v1"}, <<>>)}
PeerLinks == {<<1, 2, "derives">>, <<2, 1, "derives">>}
=============================================================================
