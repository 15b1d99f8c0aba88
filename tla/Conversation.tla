---------------------------- MODULE Conversation ----------------------------
(***************************************************************************)
(* The state the orchestrator carries across the turns of a conversation:  *)
(* what each turn mentions, what is carried over from the turn before or   *)
(* filled in from the profile, and what is still missing.                  *)
(*                                                                         *)
(* Turns count from 1 here and from 0 in the code.                         *)
(***************************************************************************)
EXTENDS Naturals, Sequences, FiniteSetsExt

CONSTANTS
    Intents,        \* the intents a turn may state
    Required,       \* the slots each intent requires, "unknown" included
    Profile,        \* what the user's profile says of a slot, or None
    Mentions,       \* the values a turn may state for a slot
    DefaultWindow,  \* the next hours, filled in on request
    MaxTurns,
    None

Slot == {"location", "place_name", "time_window", "vessel_id", "objective", "language"}

\* A new turn's time is never carried over, nor the profile's.
Carried == Slot \ {"time_window"}

ASSUME ConversationAssumption ==
    /\ Required \in [Intents \cup {"unknown"} -> SUBSET Slot]
    /\ DOMAIN Profile = Carried
    /\ DOMAIN Mentions = Slot
    /\ DefaultWindow # None
    /\ \A s \in Slot : None \notin Mentions[s]
    /\ None \notin Intents \cup {"unknown"}
    /\ MaxTurns \in Nat
    /\ None \notin
          [value  : (UNION {Mentions[s] : s \in Slot}) \cup {DefaultWindow} \cup
                    {Profile[s] : s \in Carried},
           origin : {"this_turn", "carried_over", "profile_default"},
           turn   : 1..MaxTurns]

VARIABLES
    history,  \* the resolved query of each turn
    asked     \* what each turn stated

conversationVars == <<history, asked>>

Turn == Len(history)

Filled(value, origin, turn) == [value |-> value, origin |-> origin, turn |-> turn]

Init == history = << >> /\ asked = << >>

-----------------------------------------------------------------------------
\* Taking a slot of the turn before as said in this one.
MutPickCarriedAsNew(s, request, turn) ==
    IF request[s] # None THEN Filled(request[s], "this_turn", turn)
    ELSE IF turn > 1 /\ history[turn - 1].slots[s] # None
         THEN Filled(history[turn - 1].slots[s].value, "carried_over", turn)
    ELSE IF Profile[s] # None THEN Filled(Profile[s], "profile_default", turn)
    ELSE None

\* The profile before the conversation.
MutPickProfileFirst(s, request, turn) ==
    IF request[s] # None THEN Filled(request[s], "this_turn", turn)
    ELSE IF Profile[s] # None THEN Filled(Profile[s], "profile_default", turn)
    ELSE IF turn > 1 /\ history[turn - 1].slots[s] # None
         THEN [history[turn - 1].slots[s] EXCEPT !.origin = "carried_over"]
    ELSE None

\* This turn, then the turn before, then the profile.
Pick(s, request, turn) ==
    IF request[s] # None THEN Filled(request[s], "this_turn", turn)
    ELSE IF turn > 1 /\ history[turn - 1].slots[s] # None
         THEN [history[turn - 1].slots[s] EXCEPT !.origin = "carried_over"]
    ELSE IF Profile[s] # None THEN Filled(Profile[s], "profile_default", turn)
    ELSE None

PickWindow(request, turn) ==
    IF request["time_window"] # None
    THEN Filled(request["time_window"], "this_turn", turn) ELSE None

PickIntent(request, turn) ==
    IF request.intent # None THEN request.intent
    ELSE IF turn > 1 THEN history[turn - 1].intent ELSE "unknown"

Missing(intent, slots) == {s \in Required[intent] : slots[s] = None}

Request == {[s \in Slot \cup {"intent"} |-> IF s = "intent" THEN i ELSE m[s]] :
              i \in Intents \cup {None},
              m \in {f \in [Slot -> (UNION {Mentions[s] : s \in Slot}) \cup {None}] :
                       \A s \in Slot : f[s] \in Mentions[s] \cup {None}}}

Resolve(request) ==
    /\ Turn < MaxTurns
    /\ LET turn == Turn + 1
           intent == PickIntent(request, turn)
           slots == [s \in Slot |-> IF s \in Carried THEN Pick(s, request, turn)
                                    ELSE PickWindow(request, turn)]
       IN history' = Append(history, [intent  |-> intent,
                                      slots   |-> slots,
                                      missing |-> Missing(intent, slots)])
    /\ asked' = Append(asked, request)

\* The caller fills an absent window of the current turn with the next hours.
WithDefaultWindow ==
    /\ Turn > 0
    /\ history[Turn].slots["time_window"] = None
    /\ history' = [history EXCEPT
         ![Turn].slots["time_window"] = Filled(DefaultWindow, "profile_default", Turn),
         ![Turn].missing = @ \ {"time_window"}]
    /\ UNCHANGED asked

Next == (\E request \in Request : Resolve(request)) \/ WithDefaultWindow

Spec == Init /\ [][Next]_conversationVars

-----------------------------------------------------------------------------
\* What the user last said of something up to a turn, or otherwise.
LastSaid(what, turn, otherwise) ==
    LET said == {u \in 1 .. turn : asked[u][what] # None} IN
    IF said = {} THEN otherwise ELSE asked[Max(said)][what]

ValueOf(slot) == IF slot = None THEN None ELSE slot.value

\* Each turn is resolved to the user's latest word on every slot, however
\* many turns ago and whatever was asked in between, and to the profile only
\* where nothing was ever said; the time is this turn's or none.
LatestWordWins ==
    \A t \in 1 .. Turn :
        /\ history[t].intent = LastSaid("intent", t, "unknown")
        /\ \A s \in Carried :
              ValueOf(history[t].slots[s]) = LastSaid(s, t, Profile[s])
        /\ ValueOf(history[t].slots["time_window"]) \in
              {asked[t]["time_window"]} \cup
              (IF asked[t]["time_window"] = None THEN {DefaultWindow} ELSE {})

\* Every slot says truly where its value is from: the turn it names stated
\* that value, or was the first to take it from the profile.
SlotsAreTraceable ==
    \A t \in 1 .. Turn : \A s \in Slot :
        LET slot == history[t].slots[s] IN
        slot # None =>
            /\ slot.turn \in 1 .. t
            /\ slot.origin = "this_turn" => slot.turn = t
            /\ slot.origin = "carried_over" => slot.turn < t
            /\ asked[slot.turn][s] \in {slot.value, None}
            /\ asked[slot.turn][s] = None =>
                  history[slot.turn].slots[s].origin = "profile_default"

\* The slots that are reported as carried.
CarriedSlots(query) ==
    {s \in Slot : query.slots[s] # None /\ query.slots[s].origin # "this_turn"}

\* What the answer calls "as before" came from an earlier turn.
AsBeforeIsBefore ==
    \A t \in 1 .. Turn : \A s \in CarriedSlots(history[t]) : history[t].slots[s].turn < t

\* The place an answer names is the place it is about: the two were supplied
\* together.
PlaceNamesTheLocation ==
    \A t \in 1 .. Turn :
        LET slots == history[t].slots IN
        slots["location"] # None /\ slots["place_name"] # None =>
            slots["location"].turn = slots["place_name"].turn
=============================================================================
