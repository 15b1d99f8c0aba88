--------------------------- MODULE SpeechHearing ---------------------------
(***************************************************************************)
(* AsrChain, the detection of the language and the language a conversation *)
(* settles on, with the page that keeps the pin and the preference and     *)
(* asks the user about what it is not sure of: the user may change the     *)
(* preference while a transcript is on its way or waits to be confirmed.   *)
(* Shares and confidences are percent.  An utterance is what the detector  *)
(* counts in a transcript.                                                 *)
(***************************************************************************)
EXTENDS Naturals, Sequences, FiniteSetsExt

CONSTANTS
    Utterances,   \* [letters, script, share, tamil, hindi, words]
    NoTongue,
    MaxTurns      \* bound on the turns

VARIABLES
    preference, pinned,
    asked,        \* the request on its way, {} or a singleton
    pending,      \* the transcript that waits to be confirmed, {} or a singleton
    heard,        \* the transcript last handed to the conversation
    turnCount     \* counter

hearingVars == <<preference, pinned, asked, pending, heard, turnCount>>

Languages == {"en", "ta", "hi", "mr"}
DominantShare == 50
MinRomanizedLetters == 8
RepinThreshold == 80
ConfirmBelow == 60

ASSUME HearingAssumption ==
    /\ Utterances \subseteq
          [letters : Nat, script : {"LATIN", "TAMIL", "DEVANAGARI"}, share : 0..100,
           tamil : Nat, hindi : Nat, words : Nat \ {0}]
    /\ MaxTurns \in Nat

Found(language, method, confidence) ==
    [language |-> language, method |-> method, confidence |-> confidence]

Preferred(p, confidence) ==
    IF p = NoTongue THEN Found("en", "default", confidence) ELSE Found(p, "preference", confidence)

\* Devanagari is Hindi unless the preference says Marathi.
OfScript(u, p) ==
    IF u.script = "TAMIL" THEN "ta" ELSE IF p = "mr" THEN "mr" ELSE "hi"

MoreMarkers(u) == Max({u.tamil, u.hindi})

DetectRomanized(u, p) ==
    IF MoreMarkers(u) = 0
    THEN IF u.letters < MinRomanizedLetters THEN Preferred(p, 30) ELSE Found("en", "romanized_lexicon", 70)
    ELSE IF u.tamil = u.hindi THEN Preferred(p, 40)
    ELSE Found(IF u.tamil > u.hindi THEN "ta" ELSE "hi", "romanized_lexicon",
               Min({90, 50 + (100 * MoreMarkers(u)) \div u.words}))

DetectLanguage(u, p) ==
    IF u.letters = 0 THEN Preferred(p, 30)
    ELSE IF u.script # "LATIN" /\ u.share >= DominantShare
    THEN Found(OfScript(u, p), "script", u.share)
    ELSE DetectRomanized(u, p)

\* The recognizers in order, and what each detects with: the language it was
\* asked for, never the stored preference.
Recognizers == <<"bhashini_asr", "indicwhisper", "browser_web_speech">>

Supports(by, requested) == by = "browser_web_speech" => requested \in {NoTongue, "en", "hi"}

Confidences(by) == IF by = "browser_web_speech" THEN {50} ELSE {45, 70, 90}

WithProviderMethod(d, confidence, requested) ==
    IF requested = NoTongue THEN d
    ELSE Found(requested, "provider", Max({d.confidence, confidence}))

Answer(by, u, confidence, requested) ==
    LET d == DetectLanguage(u, requested) IN
    [by |-> by, utterance |-> u, confidence |-> confidence,
     language |-> IF requested = NoTongue THEN d.language ELSE requested,
     detection |-> WithProviderMethod(d, confidence, requested),
     needsConfirmation |-> confidence < ConfirmBelow]

MutResolveAnyMethod(d, pin) ==
    IF pin = NoTongue THEN d.language
    ELSE IF d.language # pin /\ d.confidence >= RepinThreshold THEN d.language ELSE pin

\* resolve_conversation_language.
Resolve(d, pin) ==
    IF pin = NoTongue THEN d.language
    ELSE IF d.language # pin /\ d.confidence >= RepinThreshold /\ d.method \in {"script", "provider"}
    THEN d.language ELSE pin

Nothing == [by |-> "none"]

\* One turn at a time: the button is disabled while a transcript is awaited,
\* and a press drops the transcript that waits to be confirmed.
Ask ==
    /\ asked = {} /\ turnCount < MaxTurns
    /\ turnCount' = turnCount + 1
    /\ \E requested \in {NoTongue, "hi", "ta"} :
          asked' = {[requested |-> requested, preference |-> preference, pin |-> pinned, current |-> TRUE]}
    /\ heard' = Nothing /\ pending' = {}
    /\ UNCHANGED <<preference, pinned>>

\* onTranscript: the page takes the language of the reply for the pin.
HandleTranscript(r) == heard' = r /\ pinned' = r.reply /\ pending' = {}

\* The first recognizer that supports the language and succeeds answers; any
\* before it may have failed, so any one may be the first.  A name in what was
\* heard may fit two places.
Transcript(q, a, ambiguous) ==
    [answer |-> a, request |-> q, ambiguous |-> ambiguous, confirmed |-> FALSE,
     reply |-> Resolve(a.detection, q.pin)]

\* A transcript that is not sure, or names a place that is not, is put to the
\* user first.
Receive(r) ==
    IF r.answer.needsConfirmation \/ r.ambiguous
    THEN pending' = {r} /\ UNCHANGED <<pinned, heard>>
    ELSE HandleTranscript(r)

Reply ==
    \E q \in asked :
        /\ \E i \in DOMAIN Recognizers, u \in Utterances, ambiguous \in BOOLEAN :
              LET by == Recognizers[i] IN
              /\ Supports(by, q.requested)
              /\ \E c \in Confidences(by) : Receive(Transcript(q, Answer(by, u, c, q.requested), ambiguous))
        /\ asked' = {}
        /\ UNCHANGED <<preference, turnCount>>

\* "Yes, that's right", and "Say it again".
Confirm ==
    /\ \E r \in pending : HandleTranscript([r EXCEPT !.confirmed = TRUE])
    /\ UNCHANGED <<preference, asked, turnCount>>

SayItAgain ==
    /\ pending # {} /\ pending' = {}
    /\ UNCHANGED <<preference, pinned, asked, heard, turnCount>>

\* 503, or 422 of a clip that cannot be transcribed: the page shows an error.
NoReply ==
    /\ asked # {} /\ asked' = {}
    /\ UNCHANGED <<preference, pinned, pending, heard, turnCount>>

ChoosePreference ==
    /\ \E l \in Languages \ {preference} : preference' = l
    /\ pinned' = NoTongue
    /\ asked' = {[q EXCEPT !.current = FALSE] : q \in asked}
    /\ pending' = {[r EXCEPT !.request.current = FALSE] : r \in pending}
    /\ heard' = Nothing
    /\ UNCHANGED turnCount

HearingInit ==
    /\ preference = "ta" /\ pinned = NoTongue
    /\ asked = {} /\ pending = {} /\ heard = Nothing /\ turnCount = 0

HearingNext == Ask \/ Reply \/ Confirm \/ SayItAgain \/ NoReply \/ ChoosePreference

HearingSpec == HearingInit /\ [][HearingNext]_hearingVars

-----------------------------------------------------------------------------
Replied == heard # Nothing

\* "one ambiguous word that must not switch the whole conversation"
\* (detect.py:283): between two turns the pin moves only on a transcript that
\* is mostly in the other language's script, or for a caller who named it, and
\* only when the user did not unpin it; however long it waited to be confirmed.
PinMovesOnEvidence ==
    [][pinned # NoTongue /\ pinned' \notin {pinned, NoTongue} =>
          LET a == heard'.answer IN
          \/ heard'.request.requested = pinned'
          \/ a.utterance.script # "LATIN" /\ a.utterance.share >= RepinThreshold
          \/ ~heard'.request.current]_hearingVars

\* "Called once a transcript is available and, if needed, confirmed by the
\* user" (voice-input.tsx:40): the language of a conversation is set by a
\* transcript that was sure of its words and its places, or that the user
\* confirmed; the last resort's (asr.py:282) is never sure, and a transcript
\* that is refused or spoken over leaves the language as it was.
PinIsConfirmed ==
    [][pinned' \notin {pinned, NoTongue} =>
          \/ heard'.confirmed
          \/ /\ heard'.answer.by # "browser_web_speech"
             /\ heard'.answer.confidence >= ConfirmBelow /\ ~heard'.ambiguous]_hearingVars

\* Over a conversation, neither weak evidence nor an unconfirmed transcript
\* moves the language.
HearingIsHonest == PinMovesOnEvidence /\ PinIsConfirmed

-----------------------------------------------------------------------------
\* Statements of comments that the code does not keep.

\* "Marathi speakers are resolved by their stored preference"
\* (languages.py:100).
MarathiIsHeard ==
    Replied /\ heard.request.preference = "mr" /\ heard.request.pin = NoTongue
      /\ heard.request.requested = NoTongue
      /\ heard.answer.utterance.script = "DEVANAGARI" /\ heard.answer.utterance.share >= DominantShare =>
        heard.reply = "mr"

\* The preference is "used when a clip is too short to judge"
\* (voice-input.tsx:43).
ShortClipsUseThePreference ==
    Replied /\ heard.request.pin = NoTongue /\ heard.request.requested = NoTongue
      /\ heard.answer.utterance.letters < MinRomanizedLetters
      /\ MoreMarkers(heard.answer.utterance) = 0 /\ heard.answer.utterance.script = "LATIN" =>
        heard.reply = heard.request.preference

\* A choice of language unpins the conversation: no answer to a question
\* asked before the choice pins it again.
UnpinnedStaysUnpinned ==
    [][heard' # heard /\ heard' # Nothing => heard'.request.current \/ pinned' = NoTongue]_hearingVars
=============================================================================
