------------------------- MODULE Conversation_proofs -------------------------
(***************************************************************************)
(* Over any number of turns, whatever they state: every slot holds the     *)
(* user's latest word on it and says where that is from.                   *)
(***************************************************************************)
EXTENDS Conversation, TLAPS

Value == (UNION {Mentions[s] : s \in Slot}) \cup {DefaultWindow} \cup {Profile[s] : s \in Carried}

Cell == [value  : Value,
         origin : {"this_turn", "carried_over", "profile_default"},
         turn   : 1..MaxTurns]

Query == [intent  : Intents \cup {"unknown"},
          slots   : [Slot -> Cell \cup {None}],
          missing : SUBSET Slot]

\* The word on something after t turns: the latest one stated, or otherwise.
LastWord(said, what, t, word, otherwise) ==
    \/ (\A u \in 1..t : said[u][what] = None) /\ word = otherwise
    \/ \E u \in 1..t : /\ said[u][what] # None /\ word = said[u][what]
                       /\ \A v \in 1..t : v > u => said[v][what] = None

\* A window is the one this turn stated, or else none or the default one.
WindowIsOfTheTurn(t) ==
    IF asked[t]["time_window"] # None
    THEN ValueOf(history[t].slots["time_window"]) = asked[t]["time_window"]
    ELSE ValueOf(history[t].slots["time_window"]) \in {None, DefaultWindow}

WordsAreLast(t) ==
    /\ LastWord(asked, "intent", t, history[t].intent, "unknown")
    /\ \A s \in Carried : LastWord(asked, s, t, ValueOf(history[t].slots[s]), Profile[s])
    /\ WindowIsOfTheTurn(t)

Traceable(t) ==
    \A s \in Slot :
        LET slot == history[t].slots[s] IN
        slot # None =>
            /\ slot.turn \in 1 .. t
            /\ slot.origin = "this_turn" => slot.turn = t
            /\ slot.origin = "carried_over" => slot.turn < t
            /\ asked[slot.turn][s] \in {slot.value, None}
            /\ asked[slot.turn][s] = None =>
                  history[slot.turn].slots[s].origin = "profile_default"

ConversationInv ==
    /\ history \in Seq(Query) /\ asked \in Seq(Request)
    /\ Len(asked) = Turn /\ Turn \in 0..MaxTurns
    /\ \A t \in 1..Turn : WordsAreLast(t) /\ Traceable(t)

-----------------------------------------------------------------------------
LEMMA RequestType ==
    ASSUME NEW r \in Request
    PROVE  /\ r["intent"] \in Intents \cup {None}
           /\ \A s \in Slot : r[s] \in Mentions[s] \cup {None}
<1>1. PICK i \in Intents \cup {None},
           m \in {f \in [Slot -> (UNION {Mentions[s] : s \in Slot}) \cup {None}] :
                    \A s \in Slot : f[s] \in Mentions[s] \cup {None}} :
        r = [s \in Slot \cup {"intent"} |-> IF s = "intent" THEN i ELSE m[s]]
  BY DEF Request
<1>2. "intent" \notin Slot
  BY DEF Slot
<1>3. r["intent"] = i
  BY <1>1
<1>4. \A s \in Slot : r[s] = m[s]
  BY <1>1, <1>2
<1> QED BY <1>1, <1>3, <1>4

\* What a cell holds is told from None, and a value from a slot is in its cell.
LEMMA NoneIsNoCell == None \notin Cell
BY ConversationAssumption DEF Cell, Value

\* A carried slot: from this turn, or as it was, or from the profile.
LEMMA PickIsSound ==
    ASSUME NEW s \in Carried, NEW r \in Request, NEW turn \in 1..MaxTurns,
           turn > 1 => history[turn - 1].slots[s] \in Cell \cup {None}
    PROVE  /\ Pick(s, r, turn) \in Cell \cup {None}
           /\ r[s] # None => /\ Pick(s, r, turn) # None /\ Pick(s, r, turn).value = r[s]
                             /\ Pick(s, r, turn).turn = turn
                             /\ Pick(s, r, turn).origin = "this_turn"
           /\ r[s] = None /\ turn > 1 /\ history[turn - 1].slots[s] # None =>
                /\ Pick(s, r, turn) # None
                /\ Pick(s, r, turn).value = history[turn - 1].slots[s].value
                /\ Pick(s, r, turn).turn = history[turn - 1].slots[s].turn
                /\ Pick(s, r, turn).origin = "carried_over"
           /\ r[s] = None /\ ~(turn > 1 /\ history[turn - 1].slots[s] # None) =>
                IF Profile[s] # None
                THEN /\ Pick(s, r, turn) # None /\ Pick(s, r, turn).value = Profile[s]
                     /\ Pick(s, r, turn).turn = turn
                     /\ Pick(s, r, turn).origin = "profile_default"
                ELSE Pick(s, r, turn) = None
<1>1. r[s] # None => r[s] \in Value
  BY RequestType DEF Value, Carried
<1>2. Profile[s] \in Value
  <2>1. Profile[s] \in {Profile[c] : c \in Carried}
    OBVIOUS
  <2> QED BY <2>1 DEF Value
<1>3. \A v \in Value, o \in {"this_turn", "carried_over", "profile_default"} :
        Filled(v, o, turn) \in Cell /\ Filled(v, o, turn) # None
  BY NoneIsNoCell DEF Filled, Cell
<1>4. CASE r[s] # None
  BY <1>1, <1>3, <1>4 DEF Pick, Filled
<1>5. CASE r[s] = None /\ turn > 1 /\ history[turn - 1].slots[s] # None
  <2> DEFINE old == history[turn - 1].slots[s]
  <2>1. old \in Cell
    BY <1>5
  <2>2. Pick(s, r, turn) = [old EXCEPT !.origin = "carried_over"]
    BY <1>5 DEF Pick
  <2> HIDE DEF old
  <2>3. /\ [old EXCEPT !.origin = "carried_over"] \in Cell
        /\ [old EXCEPT !.origin = "carried_over"].value = old.value
        /\ [old EXCEPT !.origin = "carried_over"].turn = old.turn
        /\ [old EXCEPT !.origin = "carried_over"].origin = "carried_over"
    BY <2>1 DEF Cell
  <2> QED BY <1>5, <2>2, <2>3, NoneIsNoCell DEF old
<1>6. CASE r[s] = None /\ ~(turn > 1 /\ history[turn - 1].slots[s] # None)
  BY <1>2, <1>3, <1>6 DEF Pick, Filled
<1> QED BY <1>4, <1>5, <1>6

\* A turn that states something has the last word; any other keeps the last.
LEMMA NextWord ==
    ASSUME NEW a, NEW b, NEW t \in Nat, NEW what, NEW word, NEW new, NEW otherwise,
           LastWord(a, what, t, word, otherwise),
           \A u \in 1..t : b[u] = a[u],
           new = IF b[t + 1][what] # None THEN b[t + 1][what] ELSE word
    PROVE  LastWord(b, what, t + 1, new, otherwise)
<1>1. CASE b[t + 1][what] # None
  <2>1. t + 1 \in 1..(t + 1) /\ \A v \in 1..(t + 1) : ~(v > t + 1)
    OBVIOUS
  <2> QED BY <1>1, <2>1 DEF LastWord
<1>2. CASE b[t + 1][what] = None
  <2>1. \A u \in 1..(t + 1) : u \in 1..t \/ u = t + 1
    OBVIOUS
  <2>2. CASE (\A u \in 1..t : a[u][what] = None) /\ word = otherwise
    BY <1>2, <2>1, <2>2 DEF LastWord
  <2>3. CASE \E u \in 1..t : /\ a[u][what] # None /\ word = a[u][what]
                             /\ \A v \in 1..t : v > u => a[v][what] = None
    <3>1. PICK u \in 1..t : /\ a[u][what] # None /\ word = a[u][what]
                            /\ \A v \in 1..t : v > u => a[v][what] = None
      BY <2>3
    <3>2. u \in 1..(t + 1) /\ b[u][what] # None /\ new = b[u][what]
      BY <1>2, <3>1
    <3>3. \A v \in 1..(t + 1) : v > u => b[v][what] = None
      BY <1>2, <2>1, <3>1
    <3> QED BY <3>2, <3>3 DEF LastWord
  <2> QED BY <2>2, <2>3 DEF LastWord
<1> QED BY <1>1, <1>2

\* Later turns change no earlier word.
LEMMA SameWord ==
    ASSUME NEW a, NEW b, NEW t \in Nat, NEW what, NEW word, NEW otherwise,
           LastWord(a, what, t, word, otherwise), \A u \in 1..t : b[u] = a[u]
    PROVE  LastWord(b, what, t, word, otherwise)
BY DEF LastWord

\* What was last said is what LastSaid finds.
LEMMA LastWordIsLastSaid ==
    ASSUME NEW what, NEW t \in Nat, NEW word, NEW otherwise,
           LastWord(asked, what, t, word, otherwise)
    PROVE  word = LastSaid(what, t, otherwise)
<1> DEFINE said == {u \in 1..t : asked[u][what] # None}
<1>1. CASE (\A u \in 1..t : asked[u][what] = None) /\ word = otherwise
  <2>1. said = {}
    BY <1>1
  <2> QED BY <1>1, <2>1 DEF LastSaid
<1>2. CASE \E u \in 1..t : /\ asked[u][what] # None /\ word = asked[u][what]
                           /\ \A v \in 1..t : v > u => asked[v][what] = None
  <2>1. PICK u \in 1..t : /\ asked[u][what] # None /\ word = asked[u][what]
                          /\ \A v \in 1..t : v > u => asked[v][what] = None
    BY <1>2
  <2>2. u \in said /\ \A v \in said : u >= v
    BY <2>1
  <2>3. \A x \in said : (\A v \in said : x >= v) => x = u
    BY <2>2
  <2>4. Max(said) = u
    BY <2>2, <2>3 DEF Max
  <2> QED BY <2>1, <2>2, <2>4 DEF LastSaid
<1> QED BY <1>1, <1>2 DEF LastWord

-----------------------------------------------------------------------------
\* A slot carried or filled in a new turn holds the last word on it.
LEMMA NextSlot ==
    ASSUME NEW s \in Carried, NEW r \in Request, NEW said, NEW turn \in 1..MaxTurns,
           turn > 1 => history[turn - 1].slots[s] \in Cell \cup {None},
           turn > 1 => LastWord(asked, s, turn - 1, ValueOf(history[turn - 1].slots[s]), Profile[s]),
           \A u \in 1..(turn - 1) : said[u] = asked[u],
           said[turn] = r
    PROVE  LastWord(said, s, turn, ValueOf(Pick(s, r, turn)), Profile[s])
<1> DEFINE word == IF turn > 1 THEN ValueOf(history[turn - 1].slots[s]) ELSE Profile[s]
           new == ValueOf(Pick(s, r, turn))
<1>1. turn - 1 \in Nat /\ (turn - 1) + 1 = turn
  OBVIOUS
<1>2. LastWord(asked, s, turn - 1, word, Profile[s])
  <2>1. CASE turn > 1
    BY <2>1
  <2>2. CASE ~(turn > 1)
    <3>1. \A u \in 1..(turn - 1) : asked[u][s] = None
      BY <2>2
    <3> QED BY <2>2, <3>1 DEF LastWord
  <2> QED BY <2>1, <2>2
<1>3. word = None => Profile[s] = None
  BY <1>2 DEF LastWord
<1>4. new = IF r[s] # None THEN r[s] ELSE word
  <2>1. CASE r[s] # None
    BY <2>1, PickIsSound DEF ValueOf
  <2>2. CASE r[s] = None /\ turn > 1 /\ history[turn - 1].slots[s] # None
    BY <2>2, PickIsSound DEF ValueOf
  <2>3. CASE r[s] = None /\ ~(turn > 1 /\ history[turn - 1].slots[s] # None)
    <3>1. new = Profile[s]
      BY <2>3, PickIsSound DEF ValueOf
    <3>2. word = Profile[s]
      BY <1>3, <2>3 DEF ValueOf
    <3> QED BY <2>3, <3>1, <3>2
  <2> QED BY <2>1, <2>2, <2>3
<1> HIDE DEF word, new
<1>5. LastWord(said, s, (turn - 1) + 1, new, Profile[s])
  BY <1>1, <1>2, <1>4, NextWord
<1> QED BY <1>1, <1>5 DEF new

\* A new turn keeps the invariant.
LEMMA ResolveKeeps ==
    ASSUME ConversationInv, NEW request \in Request, Resolve(request)
    PROVE  ConversationInv'
<1>0. PICK turn \in 1..MaxTurns : turn = Turn + 1
  BY ConversationAssumption DEF Resolve, ConversationInv
<1> DEFINE intent == PickIntent(request, turn)
           slots == [s \in Slot |-> IF s \in Carried THEN Pick(s, request, turn)
                                    ELSE PickWindow(request, turn)]
           query == [intent |-> intent, slots |-> slots, missing |-> Missing(intent, slots)]
<1>1. /\ history' = Append(history, query) /\ asked' = Append(asked, request)
      /\ Turn \in Nat /\ Turn < MaxTurns /\ turn = Turn + 1
  BY <1>0, ConversationAssumption DEF Resolve, ConversationInv, Turn
<1>2. \A t \in 1..Turn : history[t] \in Query
  BY DEF ConversationInv, Turn
<1>3. turn > 1 => turn - 1 \in 1..Turn /\ turn - 1 = Turn
  BY <1>1
<1>4. intent \in Intents \cup {"unknown"}
  <2>1. turn > 1 => history[turn - 1].intent \in Intents \cup {"unknown"}
    BY <1>2, <1>3 DEF Query
  <2> QED BY <2>1, RequestType DEF PickIntent
<1>5. "time_window" \in Slot /\ "time_window" \notin Carried /\ Slot = Carried \cup {"time_window"}
  BY DEF Slot, Carried
<1>6. \A s \in Carried : turn > 1 => history[turn - 1].slots[s] \in Cell \cup {None}
  BY <1>2, <1>3, <1>5 DEF Query
<1>7. \A s \in Slot : slots[s] \in Cell \cup {None}
  <2>1. \A s \in Carried : Pick(s, request, turn) \in Cell \cup {None}
    BY <1>1, <1>6, PickIsSound
  <2>2. PickWindow(request, turn) \in Cell \cup {None}
    BY <1>1, <1>5, RequestType DEF PickWindow, Filled, Cell, Value
  <2> QED BY <2>1, <2>2, <1>5
<1>8. query \in Query
  <2>1. slots \in [Slot -> Cell \cup {None}]
    BY <1>7
  <2>2. Missing(intent, slots) \in SUBSET Slot
    BY <1>4, ConversationAssumption DEF Missing
  <2> QED BY <1>4, <2>1, <2>2 DEF Query
<1> HIDE DEF query
<1>9. /\ history' \in Seq(Query) /\ asked' \in Seq(Request)
      /\ Len(history') = turn /\ Len(asked') = turn
      /\ \A t \in 1..Turn : history'[t] = history[t] /\ asked'[t] = asked[t]
      /\ history'[turn] = query /\ asked'[turn] = request
  BY <1>1, <1>8 DEF ConversationInv, Turn
<1>10. query.intent = intent /\ query.slots = slots
  BY DEF query
<1>11. ASSUME NEW t \in 1..Turn PROVE (WordsAreLast(t) /\ Traceable(t))'
  <2>1. WordsAreLast(t) /\ Traceable(t) /\ t \in Nat
    BY DEF ConversationInv
  <2>2. \A u \in 1..t : asked'[u] = asked[u] /\ history'[u] = history[u]
    BY <1>1, <1>9
  <2>3. LastWord(asked', "intent", t, history'[t].intent, "unknown")
    BY <2>1, <2>2, SameWord DEF WordsAreLast
  <2>4. \A s \in Carried : LastWord(asked', s, t, ValueOf(history'[t].slots[s]), Profile[s])
    BY <2>1, <2>2, SameWord DEF WordsAreLast
  <2>5. WindowIsOfTheTurn(t)'
    BY <2>1, <2>2 DEF WordsAreLast, WindowIsOfTheTurn
  <2>6. Traceable(t)'
    <3> SUFFICES ASSUME NEW s \in Slot, history'[t].slots[s] # None
                 PROVE  LET slot == history'[t].slots[s] IN
                        /\ slot.turn \in 1 .. t
                        /\ slot.origin = "this_turn" => slot.turn = t
                        /\ slot.origin = "carried_over" => slot.turn < t
                        /\ asked'[slot.turn][s] \in {slot.value, None}
                        /\ asked'[slot.turn][s] = None =>
                              history'[slot.turn].slots[s].origin = "profile_default"
      BY DEF Traceable
    <3> DEFINE slot == history[t].slots[s]
    <3>1. history'[t].slots[s] = slot
      BY <2>1, <2>2
    <3>2. /\ slot.turn \in 1 .. t
          /\ slot.origin = "this_turn" => slot.turn = t
          /\ slot.origin = "carried_over" => slot.turn < t
          /\ asked[slot.turn][s] \in {slot.value, None}
          /\ asked[slot.turn][s] = None => history[slot.turn].slots[s].origin = "profile_default"
      BY <2>1, <3>1 DEF Traceable
    <3> HIDE DEF slot
    <3>3. asked'[slot.turn] = asked[slot.turn] /\ history'[slot.turn] = history[slot.turn]
      BY <2>2, <3>2
    <3> QED BY <3>1, <3>2, <3>3
  <2> QED BY <2>3, <2>4, <2>5, <2>6 DEF WordsAreLast
<1>12. WordsAreLast(turn)'
  <2>1. LastWord(asked', "intent", turn, query.intent, "unknown")
    <3> DEFINE word == IF Turn > 0 THEN history[Turn].intent ELSE "unknown"
    <3>1. LastWord(asked, "intent", Turn, word, "unknown")
      <4>1. CASE Turn > 0
        BY <1>1, <4>1 DEF ConversationInv, WordsAreLast
      <4>2. CASE ~(Turn > 0)
        BY <1>1, <4>2 DEF LastWord
      <4> QED BY <4>1, <4>2
    <3>2. intent = IF asked'[Turn + 1]["intent"] # None THEN asked'[Turn + 1]["intent"] ELSE word
      BY <1>1, <1>9 DEF PickIntent
    <3> HIDE DEF word, intent
    <3>3. \A u \in 1..Turn : asked'[u] = asked[u]
      BY <1>9
    <3>4. Turn \in Nat
      BY <1>1
    <3>5. LastWord(asked', "intent", Turn + 1, intent, "unknown")
      BY <3>1, <3>2, <3>3, <3>4, NextWord
    <3> QED BY <1>1, <1>10, <3>5
  <2>2. ASSUME NEW s \in Carried
        PROVE  LastWord(asked', s, turn, ValueOf(query.slots[s]), Profile[s])
    <3>1. query.slots[s] = Pick(s, request, turn)
      BY <1>5, <1>10
    <3>2. turn > 1 => LastWord(asked, s, turn - 1, ValueOf(history[turn - 1].slots[s]), Profile[s])
      BY <1>3 DEF ConversationInv, WordsAreLast
    <3>3. \A u \in 1..(turn - 1) : asked'[u] = asked[u]
      BY <1>1, <1>9
    <3> QED BY <1>1, <1>6, <1>9, <3>1, <3>2, <3>3, NextSlot
  <2>3. WindowIsOfTheTurn(turn)'
    <3>1. query.slots["time_window"] = PickWindow(request, turn)
      BY <1>5, <1>10
    <3>2. request["time_window"] # None => PickWindow(request, turn) # None
      BY <1>1, <1>5, RequestType, NoneIsNoCell DEF PickWindow, Filled, Cell, Value
    <3> QED BY <1>9, <3>1, <3>2 DEF WindowIsOfTheTurn, ValueOf, PickWindow, Filled
  <2> QED BY <1>9, <2>1, <2>2, <2>3 DEF WordsAreLast
<1>13. Traceable(turn)'
  <2> SUFFICES ASSUME NEW s \in Slot, query.slots[s] # None
               PROVE  LET slot == query.slots[s] IN
                      /\ slot.turn \in 1 .. turn
                      /\ slot.origin = "this_turn" => slot.turn = turn
                      /\ slot.origin = "carried_over" => slot.turn < turn
                      /\ asked'[slot.turn][s] \in {slot.value, None}
                      /\ asked'[slot.turn][s] = None =>
                            history'[slot.turn].slots[s].origin = "profile_default"
    BY <1>9 DEF Traceable
  <2>1. CASE s \notin Carried
    <3>1. s = "time_window" /\ query.slots[s] = PickWindow(request, turn)
      BY <1>5, <1>10, <2>1
    <3> QED BY <1>1, <1>9, <3>1 DEF PickWindow, Filled
  <2>2. CASE s \in Carried
    <3>1. query.slots[s] = Pick(s, request, turn)
      BY <1>5, <1>10, <2>2
    <3>2. turn > 1 => history[turn - 1].slots[s] \in Cell \cup {None}
      BY <1>6, <2>2
    <3>3. CASE request[s] # None
      BY <1>1, <1>9, <2>2, <3>1, <3>2, <3>3, PickIsSound
    <3>4. CASE request[s] = None /\ turn > 1 /\ history[turn - 1].slots[s] # None
      <4> DEFINE old == history[turn - 1].slots[s]  slot == query.slots[s]
      <4>1. slot.turn = old.turn /\ slot.value = old.value /\ slot.origin = "carried_over"
        BY <1>1, <2>2, <3>1, <3>2, <3>4, PickIsSound
      <4>2. Traceable(turn - 1)
        BY <1>3, <3>4 DEF ConversationInv
      <4>3. /\ old.turn \in 1..(turn - 1) /\ asked[old.turn][s] \in {old.value, None}
            /\ asked[old.turn][s] = None => history[old.turn].slots[s].origin = "profile_default"
        BY <4>2, <3>4 DEF Traceable
      <4>4. asked'[old.turn] = asked[old.turn] /\ history'[old.turn] = history[old.turn]
        BY <1>1, <1>9, <4>3
      <4>5. old.turn \in 1..turn /\ old.turn < turn
        BY <1>1, <4>3
      <4> QED BY <4>1, <4>3, <4>4, <4>5
    <3>5. CASE request[s] = None /\ ~(turn > 1 /\ history[turn - 1].slots[s] # None)
      BY <1>1, <1>9, <2>2, <3>1, <3>2, <3>5, PickIsSound
    <3> QED BY <3>3, <3>4, <3>5
  <2> QED BY <2>1, <2>2
<1>14. \A t \in 1..turn : t \in 1..Turn \/ t = turn
  BY <1>1
<1> QED BY <1>1, <1>9, <1>11, <1>12, <1>13, <1>14 DEF ConversationInv, Turn

\* Filling in the default window keeps the invariant.
LEMMA WindowKeeps ==
    ASSUME ConversationInv, WithDefaultWindow
    PROVE  ConversationInv'
<1>0. PICK turn \in 1..MaxTurns : turn = Turn
  BY DEF WithDefaultWindow, ConversationInv
<1> DEFINE old == history[turn]
           cell == Filled(DefaultWindow, "profile_default", turn)
           query == [old EXCEPT !.slots = [@ EXCEPT !["time_window"] = cell],
                                !.missing = @ \ {"time_window"}]
<1>1. old \in Query /\ "time_window" \in Slot /\ "time_window" \notin Carried
  BY <1>0 DEF ConversationInv, Turn, Slot, Carried
<1>2. cell \in Cell
  BY DEF Filled, Cell, Value
<1>3. /\ query \in Query /\ query.intent = old.intent
      /\ query.slots = [old.slots EXCEPT !["time_window"] = cell]
  BY <1>1, <1>2 DEF Query
<1>4. /\ old.slots["time_window"] = None
      /\ history' = [history EXCEPT ![turn] = query] /\ asked' = asked
  BY <1>0 DEF WithDefaultWindow
<1> HIDE DEF query
<1>5. /\ history' \in Seq(Query) /\ Len(history') = Turn
      /\ history'[turn] = query
      /\ \A t \in 1..Turn : t # turn => history'[t] = history[t]
  BY <1>0, <1>3, <1>4 DEF ConversationInv, Turn
<1>6. \A t \in 1..Turn, s \in Carried :
        /\ history'[t].intent = history[t].intent
        /\ history'[t].slots[s] = history[t].slots[s]
  <2>1. \A s \in Carried : query.slots[s] = old.slots[s]
    BY <1>1, <1>3 DEF Query, Carried
  <2> QED BY <1>0, <1>3, <1>5, <2>1
<1>7. \A t \in 1..Turn : history'[t].intent = history[t].intent
  BY <1>0, <1>3, <1>5
<1>8. history'[turn].slots["time_window"] = cell
  BY <1>1, <1>3, <1>5 DEF Query
<1>9. asked[turn]["time_window"] = None
  <2>1. WindowIsOfTheTurn(turn)
    BY <1>0 DEF ConversationInv, WordsAreLast
  <2> QED BY <1>4, <2>1 DEF WindowIsOfTheTurn, ValueOf
<1>10. ASSUME NEW t \in 1..Turn PROVE WordsAreLast(t)'
  <2>1. WordsAreLast(t)
    BY DEF ConversationInv
  <2>2. WindowIsOfTheTurn(t)'
    <3>1. CASE t = turn
      <4>1. ValueOf(cell) = DefaultWindow
        BY <1>2, NoneIsNoCell DEF ValueOf, Filled
      <4> QED BY <1>4, <1>8, <1>9, <3>1, <4>1 DEF WindowIsOfTheTurn
    <3>2. CASE t # turn
      BY <1>4, <1>5, <2>1, <3>2 DEF WordsAreLast, WindowIsOfTheTurn
    <3> QED BY <3>1, <3>2
  <2> QED BY <1>4, <1>6, <1>7, <2>1, <2>2 DEF WordsAreLast
<1>11. ASSUME NEW t \in 1..Turn PROVE Traceable(t)'
  <2>1. Traceable(t)
    BY DEF ConversationInv
  <2> SUFFICES ASSUME NEW s \in Slot, history'[t].slots[s] # None
               PROVE  LET slot == history'[t].slots[s] IN
                      /\ slot.turn \in 1 .. t
                      /\ slot.origin = "this_turn" => slot.turn = t
                      /\ slot.origin = "carried_over" => slot.turn < t
                      /\ asked[slot.turn][s] \in {slot.value, None}
                      /\ asked[slot.turn][s] = None =>
                            history'[slot.turn].slots[s].origin = "profile_default"
    BY <1>4 DEF Traceable
  <2>2. CASE s = "time_window" /\ t = turn
    BY <1>8, <1>9, <2>2 DEF Filled
  <2>3. CASE ~(s = "time_window" /\ t = turn)
    <3> DEFINE slot == history[t].slots[s]
    <3>1. s \in Carried \/ t # turn
      BY <2>3 DEF Slot, Carried
    <3>2. history'[t].slots[s] = slot
      BY <1>5, <1>6, <3>1
    <3>3. /\ slot.turn \in 1 .. t
          /\ slot.origin = "this_turn" => slot.turn = t
          /\ slot.origin = "carried_over" => slot.turn < t
          /\ asked[slot.turn][s] \in {slot.value, None}
          /\ asked[slot.turn][s] = None =>
                history[slot.turn].slots[s].origin = "profile_default"
      BY <2>1, <3>2 DEF Traceable
    <3>4. slot.turn \in 1..Turn
      <4>1. Turn \in Nat
        BY DEF ConversationInv
      <4> HIDE DEF slot
      <4> QED BY <3>3, <4>1
    <3>5. history'[slot.turn].slots[s] = history[slot.turn].slots[s]
      <4>1. CASE s \in Carried
        BY <1>6, <3>4, <4>1
      <4>2. CASE t # turn
        BY <1>0, <1>5, <3>3, <3>4, <4>2
      <4> QED BY <3>1, <4>1, <4>2
    <3> QED BY <3>2, <3>3, <3>5
  <2> QED BY <2>2, <2>3
<1> QED BY <1>4, <1>5, <1>10, <1>11 DEF ConversationInv, Turn

\* The invariant holds over any number of turns.
THEOREM Invariance == Spec => []ConversationInv
<1>1. Init => ConversationInv
  BY ConversationAssumption DEF Init, ConversationInv, Turn
<1>2. ConversationInv /\ [Next]_conversationVars => ConversationInv'
  <2> SUFFICES ASSUME ConversationInv, [Next]_conversationVars PROVE ConversationInv'
    OBVIOUS
  <2>1. CASE \E request \in Request : Resolve(request)
    BY <2>1, ResolveKeeps
  <2>2. CASE WithDefaultWindow
    BY <2>2, WindowKeeps
  <2>3. CASE UNCHANGED conversationVars
    BY <2>3 DEF conversationVars, ConversationInv, WordsAreLast, WindowIsOfTheTurn,
                Traceable, Turn
  <2> QED BY <2>1, <2>2, <2>3 DEF Next
<1> QED BY <1>1, <1>2, PTL DEF Spec

\* Each turn is resolved to the user's latest word on every slot.
THEOREM LatestWord == Spec => []LatestWordWins
<1>1. ConversationInv => LatestWordWins
  <2> SUFFICES ASSUME ConversationInv, NEW t \in 1..Turn
               PROVE  /\ history[t].intent = LastSaid("intent", t, "unknown")
                      /\ \A s \in Carried :
                            ValueOf(history[t].slots[s]) = LastSaid(s, t, Profile[s])
                      /\ ValueOf(history[t].slots["time_window"]) \in
                            {asked[t]["time_window"]} \cup
                            (IF asked[t]["time_window"] = None THEN {DefaultWindow} ELSE {})
    BY DEF LatestWordWins
  <2>1. WordsAreLast(t) /\ t \in Nat
    BY DEF ConversationInv
  <2> QED BY <2>1, LastWordIsLastSaid DEF WordsAreLast, WindowIsOfTheTurn
<1> QED BY <1>1, Invariance, PTL

\* Every slot says truly which turn its value is from.
THEOREM Traced == Spec => []SlotsAreTraceable
<1>1. ConversationInv => SlotsAreTraceable
  BY DEF ConversationInv, SlotsAreTraceable, Traceable
<1> QED BY <1>1, Invariance, PTL
=============================================================================
