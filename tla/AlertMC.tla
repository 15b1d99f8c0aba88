------------------------------- MODULE AlertMC -------------------------------
(***************************************************************************)
(* Values of AlertScheduler's constants for TLC.  The unit of the clock is *)
(* the tick cadence, five minutes, so the windows and ages are the code's: *)
(* 5, 15 and 30 minutes are 1, 3 and 6 units, one hour is 12.              *)
(***************************************************************************)
EXTENDS AlertScheduler, AlertTriggers

Windows == [Extreme |-> 1, Severe |-> 3, Moderate |-> 6, Minor |-> 24, Unknown |-> 12]

\* The windows an hour-long run would need a long clock for, shortened in
\* the same order; used where many keys or users make the states many.
ShortWindows == [Extreme |-> 1, Severe |-> 2, Moderate |-> 3, Minor |-> 6, Unknown |-> 5]

\* A boat without a fix, one ashore, one whose fix is too old, one at sea.
AllPositions ==
    {None, [age |-> 0, atSea |-> FALSE],
     [age |-> MaxPositionAge + 1, atSea |-> TRUE],
     [age |-> MaxPositionAge, atSea |-> TRUE]}

AtSea == {[age |-> 0, atSea |-> TRUE]}

AllContexts == {{}, ContextField}
FullContext == {ContextField}

Catamaran == [cautionWave |-> 15, avoidWave |-> 25, cautionWind |-> 15,
              avoidWind |-> 25, freeboard |-> 5]

NoView == [cyclones |-> <<>>, conditions |-> None, vessel |-> Catamaran,
           geofence |-> None]

\* The results of the rules an instance exercises.
EvaluateRules(v) == SelectSeq(EvaluateAll(v), LAMBDA r : r.trigger \in Rule)

Storm(name, ring) == [name |-> name, age |-> 0, ring |-> ring, cone |-> "unpublished"]

\* One system: aged out of the picture, far off, or with the boat inside its
\* 27, 34 or 64 knot ring.
CycloneViews(s) ==
    {[NoView EXCEPT !.cyclones = <<[Storm(s, 64) EXCEPT !.age = MaxCycloneAge + 1]>>]}
    \cup {[NoView EXCEPT !.cyclones = <<Storm(s, r)>>] : r \in {None, 27, 34, 64}}

CycloneBatches == {EvaluateRules(v) : v \in UNION {CycloneViews(s) : s \in System}}

\* The boat approaches the boundary, is swept across it, or is clear of it.
Crossing(band, minutes) ==
    [NoView EXCEPT !.geofence = [band |-> band, crossing |-> minutes]]

BoundaryBatches ==
    {EvaluateRules(Crossing(b, m)) :
        <<b, m>> \in {<<"clear", None>>, <<"clear", 48>>, <<"amber", 24>>,
                      <<"red", 12>>, <<"red", 6>>, <<"crossed", None>>}}

\* Fcm first, so that a push service that fails comes before the inbox.
PhoneEndpoints == [u \in User |-> <<"fcm", "in_app", "sms">>]
InboxEndpoints == [u \in User |-> <<"in_app">>]
FcmEndpoints   == [u \in User |-> <<"fcm">>]

\* Wind over the vessel's limits, calm, or not measured.
WindBatches ==
    {EvaluateRules([NoView EXCEPT !.conditions =
        [age |-> 0, wave |-> None, wind |-> w, strikes |-> None, squall |-> None]]) :
            w \in {None, 5, 20, 30}}

\* Two systems threaten the boat at once.
PairViews ==
    {[NoView EXCEPT !.cyclones = <<Storm(s, 34), Storm(t, 34)>>] :
        <<s, t>> \in {p \in System \X System : p[1] # p[2]}}

PairBatches == {EvaluateRules(v) : v \in PairViews}

\* What a calm tick of AlertCalm evaluates: every hazard, and each is clear or
\* cannot be looked at.
EvaluatedQuiet ==
    {batch \in Batches : batch # <<>> /\ \A i \in DOMAIN batch : ~Fired(batch[i].outcome)}

\* Only whether a boat can be evaluated matters once it is calm.
LostOrAtSea == {None} \cup AtSea

\* The system that caused the alert has left the picture.
GoneQuiet == {<<>>}
==============================================================================
