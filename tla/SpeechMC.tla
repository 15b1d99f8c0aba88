------------------------------ MODULE SpeechMC ------------------------------
(***************************************************************************)
(* Synthesis, recognition and the page side by side: a behaviour is one of *)
(* them, for they meet only in requests any of them may make.  The page is *)
(* checked as its button and its cards, which meet in the barge-in, and as *)
(* a whole where what they do to each other is the question.               *)
(***************************************************************************)
EXTENDS SpeechChain, SpeechHearing, VoiceClient

CONSTANT Sides

VARIABLE side

speechVars == <<chainVars, hearingVars, clientVars, side>>

SpeechInit ==
    /\ side \in Sides
    /\ ChainInit /\ (side # "synthesis" => store = "memory")
    /\ HearingInit /\ ClientInit

SpeechNext ==
    \/ side = "synthesis" /\ ChainNext /\ UNCHANGED <<hearingVars, clientVars, side>>
    \/ side = "recognition" /\ HearingNext /\ UNCHANGED <<chainVars, clientVars, side>>
    \/ /\ \/ side \in {"page", "button"} /\ VoiceNext
          \/ side = "cards" /\ StartPress
          \/ side \in {"page", "cards"} /\ PlayNext
       /\ UNCHANGED <<chainVars, hearingVars, side>>

SpeechSpec ==
    /\ SpeechInit /\ [][SpeechNext]_speechVars
    /\ \A p \in Press :
          /\ WF_speechVars(CapTimer(p) /\ UNCHANGED <<chainVars, hearingVars, side>>)
          /\ WF_speechVars(Flush(p) /\ UNCHANGED <<chainVars, hearingVars, side>>)
          /\ WF_speechVars(Heard(p) /\ UNCHANGED <<chainVars, hearingVars, side>>)

OneVoiceEach == [ta |-> {"female", "male"}, mr |-> {"female"}]

U(letters, script, share, tamil, hindi, words) ==
    [letters |-> letters, script |-> script, share |-> share, tamil |-> tamil, hindi |-> hindi,
     words |-> words]

Said ==
    {U(0, "LATIN", 0, 0, 0, 1), U(4, "LATIN", 0, 1, 0, 1), U(3, "LATIN", 0, 0, 0, 1),
     U(20, "LATIN", 0, 1, 1, 5), U(20, "LATIN", 0, 0, 2, 5), U(24, "LATIN", 0, 0, 0, 6),
     U(20, "TAMIL", 90, 0, 0, 4), U(20, "DEVANAGARI", 60, 0, 0, 4), U(20, "DEVANAGARI", 100, 0, 0, 4),
     U(20, "TAMIL", 40, 1, 0, 4)}
=============================================================================
