--------------------------- MODULE ConversationMC ---------------------------
(***************************************************************************)
(* A fisherman from Rameswaram, whose profile knows his boat and his port. *)
(***************************************************************************)
EXTENDS Conversation

StatedIntents == {"safety", "causal"}

RequiredSlots == [safety  |-> {"location", "time_window", "vessel_id"},
                  causal  |-> {"location"},
                  unknown |-> {}]

HomeProfile == [location   |-> "box of rameswaram", place_name |-> "rameswaram",
                vessel_id  |-> "TN-07", objective |-> None, language |-> "ta"]

\* Two slots with a profile, one without, the time; the rest go unsaid.
Said == [location    |-> {"box of chennai"},
         place_name  |-> {"chennai"},
         time_window |-> {"tomorrow"},
         vessel_id   |-> {},
         objective   |-> {"tuna"},
         language    |-> {}]
=============================================================================
