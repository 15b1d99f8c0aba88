---------------------------- MODULE SpeechChain ----------------------------
(***************************************************************************)
(* TtsChain over the shared audio cache: the API's requests, the alert     *)
(* path and the pre-generation job, which share the cache and may call at  *)
(* the same time.  A clip is what can be heard in it: the words, the       *)
(* language, the voice and the speed.                                      *)
(***************************************************************************)
EXTENDS Naturals, Sequences, FiniteSets

CONSTANTS
    Words,         \* normalized texts
    SlottedWords,  \* those with a template slot still open
    Tongue,        \* languages
    Voices,        \* VOICES: the genders there is a voice for, per language
    Speed,         \* speeds in percent
    Script,        \* the texts the job pre-generates
    Rehearsed,     \* the languages it pre-generates them in
    Idle,
    MaxCalls       \* bound on the requests

VARIABLES
    store,    \* the cache: "memory", or an object store that is "up", that is
              \* "down", or that "refuses" what it is asked
    clips,    \* the clips by key
    calls,    \* what each caller is doing
    replies,  \* what each caller last got
    tally,    \* the job's coverage report
    callCount \* counter

chainVars == <<store, clips, calls, replies, tally, callCount>>

Gender == {"female", "male"}
DefaultSpeed == 100

\* Requests come through the API, as alerts and from the job, each with its
\* chain; the job's has no provider of last resort.
Caller == {"api", "alert", "job"}
Live == <<"bhashini_tts", "indic_parler_tts">>
Chain(c) == IF c = "job" THEN Live ELSE Append(Live, "pregenerated_cache")

ASSUME SpeechAssumption ==
    /\ SlottedWords \subseteq Words /\ Script \subseteq Words /\ Rehearsed \subseteq Tongue
    /\ Voices \in [Tongue -> (SUBSET Gender) \ {{}}]
    /\ Speed \subseteq 70..130 /\ DefaultSpeed \in Speed /\ MaxCalls \in Nat

\* select_voice falls back on the gender and never on the language.
SelectVoice(l, g) == IF g \in Voices[l] THEN g ELSE CHOOSE h \in Voices[l] : TRUE

Key == [words : Words, language : Tongue, voice : Gender, speed : Speed]

KeyFor(w, l, g, s) == [words |-> w, language |-> l, voice |-> SelectVoice(l, g), speed |-> s]

Has(k) == k \in DOMAIN clips

\* get and has take any ClientError of the object store, a refusal or an
\* internal error like a missing object, for a miss; a put raises it.
Hit(k) == Has(k) /\ store # "refuses"
Unwritable == store \in {"down", "refuses"}

\* A provider that speaks with its first voice.
MutAudioFirstVoice(p, k) == [k EXCEPT !.voice = "female"]

\* BhashiniTts.build_request asks for the gender and not for the speed.
Audio(p, k) == [k EXCEPT !.speed = IF p = "bhashini_tts" THEN DefaultSpeed ELSE @]

Stored(k, audio) == [x \in DOMAIN clips \cup {k} |-> IF x = k THEN audio ELSE clips[x]]

\* denied: a read of the cache was carried out, and found nothing.
Call(c, k) == [key |-> k, at |-> 0, attempts |-> <<>>, knew |-> Has(k), denied |-> FALSE]

Begin(c, k) ==
    /\ calls[c] = Idle /\ callCount < MaxCalls
    /\ callCount' = callCount + 1
    /\ calls' = [calls EXCEPT ![c] = Call(c, k)]
    /\ replies' = [replies EXCEPT ![c] = Idle]

End(c, outcome, by, audio) ==
    /\ calls' = [calls EXCEPT ![c] = Idle]
    /\ replies' = [replies EXCEPT ![c] =
          [outcome |-> outcome, by |-> by, audio |-> audio, key |-> calls[c].key,
           attempts |-> calls[c].attempts, knew |-> calls[c].knew, denied |-> calls[c].denied]]

\* request.validate runs before the cache is asked: a refusal, 422 to a client.
Refused(k) == k.words \in SlottedWords

AskToSpeak(c) ==
    /\ \E w \in Words, l \in Tongue, g \in Gender, s \in Speed :
          /\ (c = "alert" => s = DefaultSpeed /\ w \notin SlottedWords)
          /\ ~Refused(KeyFor(w, l, g, s))
          /\ Begin(c, KeyFor(w, l, g, s))
    /\ UNCHANGED <<store, clips, tally>>

\* pregenerate takes the next text that no clip is found for; has of an object
\* store that cannot be reached ends the job.
JobKeys == {KeyFor(w, l, "female", DefaultSpeed) : w \in Script, l \in Rehearsed}

Settled == tally.cached \cup tally.missing

JobTakes ==
    /\ calls["job"] = Idle /\ replies["job"] = Idle /\ store # "down"
    /\ \E k \in JobKeys \ Settled :
          IF Hit(k)
          THEN /\ tally' = [tally EXCEPT !.cached = @ \cup {k}]
               /\ UNCHANGED <<calls, replies, callCount>>
          ELSE IF Refused(k)
          THEN /\ tally' = [tally EXCEPT !.missing = @ \cup {k}]
               /\ UNCHANGED <<calls, replies, callCount>>
          ELSE Begin("job", k) /\ UNCHANGED tally
    /\ UNCHANGED <<store, clips>>

\* The opening probe, outside any try: what get raises ends the call.
Probe(c) ==
    /\ calls[c] # Idle /\ calls[c].at = 0
    /\ LET k == calls[c].key IN
       IF store = "down" THEN End(c, "raised", "audio_cache", Idle)
       ELSE IF Hit(k) THEN End(c, "spoken", "audio_cache", clips[k])
       ELSE /\ calls' = [calls EXCEPT ![c].at = 1, ![c].denied = store # "refuses"]
            /\ UNCHANGED replies
    /\ UNCHANGED <<store, clips, tally, callCount>>

\* However a provider fails, unavailable, in error or over its quota, it goes
\* on the trail and the next one is asked; past the last one the call fails
\* with all of them.
Decline(c, denied) ==
    LET call == calls[c]
        told == [call EXCEPT !.at = @ + 1, !.attempts = Append(@, Chain(c)[call.at]), !.denied = denied] IN
    calls' = [calls EXCEPT ![c] = told]

TryProvider(c) ==
    /\ calls[c] # Idle /\ calls[c].at \in DOMAIN Chain(c)
    /\ LET k == calls[c].key  p == Chain(c)[calls[c].at] IN
       IF p = "pregenerated_cache"
       THEN /\ IF store = "down" THEN Decline(c, calls[c].denied) /\ UNCHANGED replies
               ELSE IF Hit(k) THEN End(c, "spoken", p, clips[k])
               ELSE Decline(c, calls[c].denied \/ store # "refuses") /\ UNCHANGED replies
            /\ UNCHANGED clips
       ELSE \/ Decline(c, calls[c].denied) /\ UNCHANGED <<clips, replies>>
            \/ \* Write-through; a put that raises loses the audio with it.
               IF Unwritable
               THEN End(c, "raised", p, Idle) /\ UNCHANGED clips
               ELSE /\ End(c, "spoken", p, Audio(p, k))
                    /\ clips' = Stored(k, Audio(p, k))
    /\ UNCHANGED <<store, tally, callCount>>

AllProvidersFailed(c) ==
    /\ calls[c] # Idle /\ calls[c].at = Len(Chain(c)) + 1
    /\ End(c, "failed", "none", Idle)
    /\ UNCHANGED <<store, clips, tally, callCount>>

\* The job stores the audio once more under its own key and counts it, or
\* counts the text as missing.
JobCounts ==
    /\ calls["job"] = Idle /\ replies["job"] # Idle
    /\ LET r == replies["job"] IN
       \/ /\ r.outcome = "spoken" /\ ~Unwritable
          /\ clips' = Stored(r.key, r.audio)
          /\ tally' = [tally EXCEPT !.cached = @ \cup {r.key}]
       \/ /\ r.outcome = "failed"
          /\ tally' = [tally EXCEPT !.missing = @ \cup {r.key}]
          /\ UNCHANGED clips
    /\ replies' = [replies EXCEPT !["job"] = Idle]
    /\ UNCHANGED <<store, calls, callCount>>

NoTally == [cached |-> {}, missing |-> {}]

\* Any other error ends the job without its report: of the chain, of the put
\* that follows it, or of has.
JobDies ==
    /\ calls["job"] = Idle
    /\ \/ replies["job"] # Idle /\ replies["job"].outcome = "raised"
       \/ replies["job"] # Idle /\ replies["job"].outcome = "spoken" /\ Unwritable
       \/ replies["job"] = Idle /\ tally # NoTally /\ store = "down"
    /\ replies' = [replies EXCEPT !["job"] = Idle]
    /\ tally' = NoTally
    /\ UNCHANGED <<store, clips, calls, callCount>>

StoreTurns(to) ==
    /\ store \notin {"memory", to}
    /\ store' = to
    /\ UNCHANGED <<clips, calls, replies, tally, callCount>>

StoreFails == StoreTurns("down") \/ StoreTurns("refuses")
StoreReturns == StoreTurns("up")

ChainInit ==
    /\ store \in {"memory", "up"}
    /\ clips = [k \in {} |-> Idle]
    /\ calls = [c \in Caller |-> Idle] /\ replies = calls
    /\ tally = NoTally
    /\ callCount = 0

ChainNext ==
    \/ \E c \in {"api", "alert"} : AskToSpeak(c)
    \/ \E c \in Caller : Probe(c) \/ TryProvider(c) \/ AllProvidersFailed(c)
    \/ JobTakes \/ JobCounts \/ JobDies
    \/ StoreFails \/ StoreReturns

SynthesisSpec == ChainInit /\ [][ChainNext]_chainVars

-----------------------------------------------------------------------------
Speaks(audio, k) ==
    audio.words = k.words /\ audio.language = k.language /\ audio.voice = k.voice

\* A listener hears the words on screen: every clip under a key, and every
\* clip a call returns, says the key's words in its language and its voice,
\* whoever wrote it last.
ClipsSayTheirKey ==
    /\ \A k \in DOMAIN clips : Speaks(clips[k], k)
    /\ \A c \in Caller :
          replies[c] # Idle /\ replies[c].outcome = "spoken" => Speaks(replies[c].audio, replies[c].key)

\* "an all-unavailable chain backed by a populated cache ... still speaks"
\* (tts.py:446): a call for a text that was cached when it began fails only if
\* none of its reads of the cache was carried out; one is enough to speak,
\* whatever the providers and the reads before it did.
OutageStillSpeaks ==
    \A c \in Caller :
        replies[c] # Idle /\ replies[c].outcome = "failed" => ~(replies[c].knew /\ replies[c].denied)

\* A lower tier speaks only after every tier above it was asked and declined,
\* and the trail says so (providers.py:49).
HierarchyIsKept ==
    \A c \in Caller :
        LET r == replies[c] IN
        r # Idle /\ r.outcome = "spoken" /\ r.by # "audio_cache" =>
            r.by = Chain(c)[Len(r.attempts) + 1]
            /\ \A i \in DOMAIN r.attempts : r.attempts[i] = Chain(c)[i]

\* "if the coverage is zero ... this output is where that becomes visible"
\* (pregenerate_audio.py:13): what the report counts as cached is stored.
CoverageIsTrue == tally.cached \subseteq DOMAIN clips /\ tally.cached \cap tally.missing = {}

\* What is heard is what was to be said, by the best voice left, and the cache
\* holds what it is said to hold, through outages and rehearsals.
SynthesisIsTrue ==
    ClipsSayTheirKey /\ OutageStillSpeaks /\ HierarchyIsKept /\ CoverageIsTrue

-----------------------------------------------------------------------------
\* Statements of comments that the code does not keep.

\* "The warning goes out either way" (alerts.py:160).
WarningGoesOut == replies["alert"] # Idle => replies["alert"].outcome # "raised"

\* "a populated cache ... is exactly the outage scenario, and it still speaks"
\* (tts.py:446), whatever the object store answers.
PopulatedCacheSpeaks ==
    \A c \in Caller : replies[c] # Idle /\ replies[c].outcome = "failed" => ~replies[c].knew

\* The key is "Everything that determines the bytes of a synthesized clip"
\* (cache.py:38), the speed included.
ClipsAreAtTheirSpeed == \A k \in DOMAIN clips : clips[k].speed = k.speed
=============================================================================
