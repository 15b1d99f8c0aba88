---------------------------- MODULE Speech_proofs ----------------------------
(***************************************************************************)
(* Whatever providers and the object store do and however many requests    *)
(* overlap, what is heard is what was to be said; whatever is heard of the *)
(* user, the language moves on evidence only; whoever presses what, one    *)
(* voice speaks.                                                           *)
(***************************************************************************)
EXTENDS SpeechChain, SpeechHearing, VoiceClient, SequenceTheorems, TLAPS

-----------------------------------------------------------------------------
(* The synthesis chain.                                                    *)

Provider == {"bhashini_tts", "indic_parler_tts", "pregenerated_cache"}

Trail(c, attempts) == \A i \in DOMAIN attempts : attempts[i] = Chain(c)[i]

ACall == [key : Key, at : Nat, attempts : Seq(Provider), knew : BOOLEAN, denied : BOOLEAN]

\* A call that is under way.  What was cached when it began is cached still,
\* for no clip is ever dropped, and no read that was carried out missed it.
CallOK(c) ==
    LET call == calls[c] IN
    /\ call \in ACall
    /\ call.knew => Has(call.key) /\ ~call.denied
    /\ call.at \in 0 .. (Len(Chain(c)) + 1)
    /\ Len(call.attempts) = IF call.at = 0 THEN 0 ELSE call.at - 1
    /\ Trail(c, call.attempts)

ReplyOK(c) ==
    LET r == replies[c] IN
    /\ r.key \in Key
    /\ r.outcome = "spoken" =>
          /\ Speaks(r.audio, r.key)
          /\ r.by # "audio_cache" => r.by = Chain(c)[Len(r.attempts) + 1] /\ Trail(c, r.attempts)
    /\ r.outcome = "failed" => ~(r.knew /\ r.denied)

\* What the job has in hand it has not yet counted.
JobOK ==
    /\ tally \in [cached : SUBSET DOMAIN clips, missing : {tally.missing}]
    /\ tally.cached \cap tally.missing = {}
    /\ calls["job"] # Idle => calls["job"].key \notin Settled
    /\ replies["job"] # Idle => replies["job"].key \notin Settled

CallerOK(c) ==
    /\ calls[c] # Idle => CallOK(c) /\ replies[c] = Idle
    /\ replies[c] # Idle => ReplyOK(c)

ClipsOK == DOMAIN clips \subseteq Key /\ \A k \in DOMAIN clips : Speaks(clips[k], k)

SynthesisInv ==
    /\ calls = [c \in Caller |-> calls[c]] /\ replies = [c \in Caller |-> replies[c]]
    /\ ClipsOK
    /\ \A c \in Caller : CallerOK(c)
    /\ JobOK

\* What is asked for is a key: the voice chosen is one there is.
LEMMA KeyForIsAKey ==
    ASSUME NEW w \in Words, NEW l \in Tongue, NEW g \in Gender, NEW s \in Speed
    PROVE  KeyFor(w, l, g, s) \in Key
<1>1. Voices[l] \in (SUBSET Gender) \ {{}}
    BY SpeechAssumption DEF SpeechAssumption
<1>2. (CHOOSE h \in Voices[l] : TRUE) \in Voices[l]
    BY <1>1
<1>3. SelectVoice(l, g) \in Gender
    BY <1>1, <1>2 DEF SelectVoice
<1> QED
    BY <1>3, SpeechAssumption DEF KeyFor, Key, SpeechAssumption

LEMMA JobKeysAreKeys == JobKeys \subseteq Key
<1>1. \A w \in Script, l \in Rehearsed : KeyFor(w, l, "female", DefaultSpeed) \in Key
    BY KeyForIsAKey, SpeechAssumption DEF SpeechAssumption, Gender
<1> QED
    BY <1>1 DEF JobKeys

\* A provider says the words of the key in its language and its voice,
\* whichever speed it speaks at.
LEMMA ProvidersSpeakTheKey ==
    ASSUME NEW k \in Key, NEW p
    PROVE  Speaks(Audio(p, k), k)
BY DEF Audio, Speaks, Key

\* Each provider of a chain is asked at a position of its own.
LEMMA ChainShape ==
    ASSUME NEW c \in Caller
    PROVE  /\ Len(Chain(c)) \in {2, 3} /\ DOMAIN Chain(c) = 1 .. Len(Chain(c))
           /\ \A i \in DOMAIN Chain(c) : Chain(c)[i] \in Provider
<1>1. CASE c = "job"
    BY <1>1 DEF Chain, Live, Provider
<1>2. CASE c # "job"
    <2>1. Chain(c) = Append(Live, "pregenerated_cache")
        BY <1>2 DEF Chain
    <2>2. Live \in Seq(Provider) /\ Len(Live) = 2 /\ "pregenerated_cache" \in Provider
        BY DEF Live, Provider
    <2>3. Append(Live, "pregenerated_cache") \in Seq(Provider)
        BY <2>2
    <2>4. Len(Append(Live, "pregenerated_cache")) = Len(Live) + 1
        BY <2>2, AppendProperties, Zenon
    <2>5. Chain(c) \in Seq(Provider) /\ Len(Chain(c)) = 3
        BY <2>1, <2>2, <2>3, <2>4
    <2>6. \A i \in 1 .. Len(Chain(c)) : Chain(c)[i] \in Provider
        BY <2>5
    <2> QED
        BY <2>5, <2>6
<1> QED
    BY <1>1, <1>2

\* A caller whom a step does not concern stays as it was: clips are only
\* ever added.
LEMMA CallerFrame ==
    ASSUME NEW c \in Caller, CallerOK(c), DOMAIN clips \subseteq DOMAIN clips',
           calls'[c] = calls[c], replies'[c] = replies[c]
    PROVE  CallerOK(c)'
BY DEF CallerOK, CallOK, ReplyOK, Has

LEMMA StoredKeepsClips ==
    ASSUME ClipsOK, NEW k \in Key, NEW audio, Speaks(audio, k), clips' = Stored(k, audio)
    PROVE  ClipsOK' /\ DOMAIN clips' = DOMAIN clips \cup {k}
BY DEF ClipsOK, Stored

LEMMA BeginKeeps ==
    ASSUME SynthesisInv, NEW c \in Caller, NEW k \in Key, Begin(c, k), replies[c] = Idle \/ c # "job",
           c = "job" => k \notin Settled,
           UNCHANGED <<clips, tally>>
    PROVE  SynthesisInv'
<1> DEFINE old == calls[c]
<1>1. /\ calls' = [x \in Caller |-> calls'[x]] /\ replies' = [x \in Caller |-> replies'[x]]
      /\ calls'[c] = Call(c, k) /\ replies'[c] = Idle
      /\ \A x \in Caller \ {c} : calls'[x] = calls[x] /\ replies'[x] = replies[x]
    BY DEF SynthesisInv, Begin
<1>2. CallerOK(c)'
    <2>1. CallOK(c)'
        <3>1. Len(Chain(c)) \in Nat
            BY ChainShape
        <3>2. calls'[c] = [key |-> k, at |-> 0, attempts |-> <<>>, knew |-> Has(k), denied |-> FALSE] /\ Has(k)' = Has(k)
            BY <1>1 DEF Call, Has
        <3>3. Has(k) \in BOOLEAN
            BY DEF Has
        <3> QED
            BY <3>1, <3>2, <3>3 DEF CallOK, Trail, ACall
    <2> QED
        BY <1>1, <2>1 DEF CallerOK
<1>3. ASSUME NEW x \in Caller \ {c}
      PROVE  CallerOK(x)'
    BY <1>1, CallerFrame DEF SynthesisInv
<1>4. JobOK'
    BY <1>1 DEF SynthesisInv, JobOK, Settled, Call, Caller
<1> QED
    BY <1>1, <1>2, <1>3, <1>4 DEF SynthesisInv, ClipsOK

LEMMA AskKeeps ==
    ASSUME SynthesisInv, NEW c \in {"api", "alert"}, AskToSpeak(c)
    PROVE  SynthesisInv'
<1>1. PICK w \in Words, l \in Tongue, g \in Gender, s \in Speed : Begin(c, KeyFor(w, l, g, s))
    BY DEF AskToSpeak
<1>2. KeyFor(w, l, g, s) \in Key
    BY KeyForIsAKey
<1> QED
    BY <1>1, <1>2, BeginKeeps DEF AskToSpeak, Caller

LEMMA JobTakesKeeps ==
    ASSUME SynthesisInv, JobTakes
    PROVE  SynthesisInv'
<1>1. PICK k \in JobKeys \ Settled :
          IF Hit(k)
          THEN tally' = [tally EXCEPT !.cached = @ \cup {k}] /\ UNCHANGED <<calls, replies, callCount>>
          ELSE IF Refused(k)
          THEN tally' = [tally EXCEPT !.missing = @ \cup {k}] /\ UNCHANGED <<calls, replies, callCount>>
          ELSE Begin("job", k) /\ UNCHANGED tally
    BY DEF JobTakes
<1>2. k \in Key /\ k \notin Settled /\ calls["job"] = Idle /\ replies["job"] = Idle /\ UNCHANGED clips
    BY JobKeysAreKeys DEF JobTakes
<1>3. CASE Begin("job", k) /\ UNCHANGED tally
    BY <1>2, <1>3, BeginKeeps DEF Caller
<1>4. CASE UNCHANGED <<calls, replies>> /\ tally' = [tally EXCEPT !.cached = @ \cup {k}] /\ Hit(k)
    <2>1. JobOK'
        BY <1>2, <1>4 DEF SynthesisInv, JobOK, Settled, Hit, Has
    <2> QED
        BY <1>2, <1>4, <2>1, CallerFrame DEF SynthesisInv, ClipsOK
<1>5. CASE UNCHANGED <<calls, replies>> /\ tally' = [tally EXCEPT !.missing = @ \cup {k}]
    <2>1. JobOK'
        BY <1>2, <1>5 DEF SynthesisInv, JobOK, Settled
    <2> QED
        BY <1>2, <1>5, <2>1, CallerFrame DEF SynthesisInv, ClipsOK
<1> QED
    BY <1>1, <1>3, <1>4, <1>5

\* However a call ends, its reply says what was heard and who was asked.
LEMMA EndKeeps ==
    ASSUME SynthesisInv, NEW c \in Caller, calls[c] # Idle,
           NEW outcome, NEW by, NEW audio, End(c, outcome, by, audio),
           outcome = "spoken" =>
               /\ Speaks(audio, calls[c].key)
               /\ by # "audio_cache" => calls[c].at \in DOMAIN Chain(c) /\ by = Chain(c)[calls[c].at],
           ClipsOK', DOMAIN clips \subseteq DOMAIN clips', UNCHANGED tally
    PROVE  SynthesisInv'
<1> DEFINE r == [outcome |-> outcome, by |-> by, audio |-> audio, key |-> calls[c].key,
                 attempts |-> calls[c].attempts, knew |-> calls[c].knew, denied |-> calls[c].denied]
<1>1. /\ calls' = [x \in Caller |-> calls'[x]] /\ replies' = [x \in Caller |-> replies'[x]]
      /\ calls'[c] = Idle /\ replies'[c] = r
      /\ \A x \in Caller \ {c} : calls'[x] = calls[x] /\ replies'[x] = replies[x]
    BY DEF SynthesisInv, End
<1>2. CallOK(c) /\ replies[c] = Idle
    BY DEF SynthesisInv, CallerOK
<1>3. /\ r.outcome = outcome /\ r.by = by /\ r.audio = audio /\ r.key = calls[c].key
      /\ r.attempts = calls[c].attempts /\ r.knew = calls[c].knew /\ r.denied = calls[c].denied
    OBVIOUS
<1> HIDE DEF r
<1>4. ReplyOK(c)'
    <2>1. Len(Chain(c)) \in Nat /\ DOMAIN Chain(c) = 1 .. Len(Chain(c))
        BY ChainShape
    <2>2. calls[c].key \in Key /\ Trail(c, calls[c].attempts)
        BY <1>2 DEF CallOK, ACall
    <2>3. calls[c].at \in DOMAIN Chain(c) => Len(calls[c].attempts) + 1 = calls[c].at
        BY <1>2, <2>1 DEF CallOK
    <2>4. ~(calls[c].knew /\ calls[c].denied)
        BY <1>2 DEF CallOK
    <2> QED
        BY <1>1, <1>3, <2>2, <2>3, <2>4 DEF ReplyOK
<1>5. CallerOK(c)'
    BY <1>1, <1>4 DEF CallerOK
<1>6. ASSUME NEW x \in Caller \ {c}
      PROVE  CallerOK(x)'
    BY <1>1, CallerFrame DEF SynthesisInv
<1>7. JobOK'
    BY <1>1, <1>3 DEF SynthesisInv, JobOK, Settled, Caller
<1> QED
    BY <1>1, <1>5, <1>6, <1>7 DEF SynthesisInv

\* A provider that declines is one more on the trail; a read of the cache that
\* was carried out found nothing only if nothing was cached to begin with.
LEMMA DeclineKeeps ==
    ASSUME SynthesisInv, NEW c \in Caller, calls[c] # Idle, calls[c].at \in DOMAIN Chain(c),
           NEW denied \in BOOLEAN, calls[c].knew => ~denied,
           Decline(c, denied), UNCHANGED <<clips, replies, tally>>
    PROVE  SynthesisInv'
<1> DEFINE entry == Chain(c)[calls[c].at]
           told == [calls[c] EXCEPT !.at = @ + 1, !.attempts = Append(@, entry), !.denied = denied]
<1>1. /\ calls' = [x \in Caller |-> calls'[x]] /\ calls'[c] = told
      /\ \A x \in Caller \ {c} : calls'[x] = calls[x]
    BY DEF SynthesisInv, Decline
<1>2. CallOK(c) /\ replies[c] = Idle
    BY DEF SynthesisInv, CallerOK
<1>3. /\ told.at = calls[c].at + 1 /\ told.attempts = Append(calls[c].attempts, entry)
      /\ told.key = calls[c].key /\ told.knew = calls[c].knew /\ told.denied = denied
      /\ told \in ACall
    <2>1. calls[c] \in ACall /\ entry \in Provider
        BY <1>2, ChainShape DEF CallOK
    <2> HIDE DEF entry
    <2>2. told = [calls[c] EXCEPT !.at = @ + 1, !.attempts = Append(@, entry), !.denied = denied]
        OBVIOUS
    <2> HIDE DEF told
    <2>3. calls[c].at + 1 \in Nat /\ Append(calls[c].attempts, entry) \in Seq(Provider)
        BY <2>1 DEF ACall
    <2> QED
        BY <2>1, <2>2, <2>3 DEF ACall
<1>4. entry \in Provider /\ entry = Chain(c)[calls[c].at]
    BY ChainShape
<1> HIDE DEF told, entry
<1>5. CallOK(c)'
    <2>1. Len(Chain(c)) \in Nat /\ DOMAIN Chain(c) = 1 .. Len(Chain(c))
        BY ChainShape
    <2>2. /\ calls[c].at \in 1 .. Len(Chain(c)) /\ Len(calls[c].attempts) = calls[c].at - 1
          /\ calls[c].attempts \in Seq(Provider)
        BY <1>2, <2>1 DEF CallOK, ACall
    <2>3. /\ told.attempts \in Seq(Provider)
          /\ Len(told.attempts) = calls[c].at
          /\ told.attempts[calls[c].at] = entry
          /\ \A i \in 1 .. calls[c].at - 1 : told.attempts[i] = calls[c].attempts[i]
        BY <1>3, <1>4, <2>2
    <2>4. Trail(c, told.attempts)
        <3>1. Trail(c, calls[c].attempts)
            BY <1>2 DEF CallOK
        <3>2. DOMAIN told.attempts = 1 .. calls[c].at /\ DOMAIN calls[c].attempts = 1 .. calls[c].at - 1
            BY <2>1, <2>2, <2>3
        <3>3. \A i \in 1 .. calls[c].at - 1 : calls[c].attempts[i] = Chain(c)[i]
            BY <3>1, <3>2 DEF Trail
        <3>4. \A i \in 1 .. calls[c].at : i = calls[c].at \/ i \in 1 .. calls[c].at - 1
            BY <2>1, <2>2
        <3> QED
            BY <1>4, <2>3, <3>2, <3>3, <3>4 DEF Trail
    <2>5. told.knew => told.key \in DOMAIN clips' /\ ~told.denied
        BY <1>2, <1>3 DEF CallOK, Has
    <2> QED
        BY <1>1, <1>3, <2>1, <2>2, <2>3, <2>4, <2>5 DEF CallOK, Has, ACall
<1>6. CallerOK(c)'
    BY <1>1, <1>2, <1>5 DEF CallerOK
<1>7. ASSUME NEW x \in Caller \ {c}
      PROVE  CallerOK(x)'
    BY <1>1, CallerFrame DEF SynthesisInv
<1>8. JobOK'
    <2>1. UNCHANGED <<clips, tally>> /\ UNCHANGED replies /\ UNCHANGED Settled
        BY DEF Settled
    <2>2. calls'["job"] # Idle => calls["job"] # Idle /\ calls'["job"].key = calls["job"].key
        BY <1>1, <1>3 DEF Caller
    <2> QED
        BY <2>1, <2>2 DEF SynthesisInv, JobOK
<1> QED
    BY <1>1, <1>6, <1>7, <1>8 DEF SynthesisInv, ClipsOK

LEMMA ProbeKeeps ==
    ASSUME SynthesisInv, NEW c \in Caller, Probe(c)
    PROVE  SynthesisInv'
<1> DEFINE k == calls[c].key
<1>1. /\ calls[c] # Idle /\ calls[c].at = 0 /\ UNCHANGED <<clips, tally>>
      /\ ClipsOK' /\ DOMAIN clips \subseteq DOMAIN clips'
    BY DEF Probe, SynthesisInv, ClipsOK
<1>2. CASE End(c, "raised", "audio_cache", Idle)
    BY <1>1, <1>2, EndKeeps
<1>3. CASE Hit(k) /\ End(c, "spoken", "audio_cache", clips[k])
    <2>1. Speaks(clips[k], k)
        BY <1>3 DEF SynthesisInv, ClipsOK, Has, Hit
    <2> QED
        BY <1>1, <1>3, <2>1, EndKeeps
<1>4. CASE /\ ~Hit(k) /\ UNCHANGED replies
           /\ calls' = [calls EXCEPT ![c].at = 1, ![c].denied = store # "refuses"]
    <2> DEFINE denied == store # "refuses"
               asked1 == [calls[c] EXCEPT !.at = 1, !.denied = denied]
    <2>1. /\ calls' = [x \in Caller |-> calls'[x]] /\ calls'[c] = asked1
          /\ \A x \in Caller \ {c} : calls'[x] = calls[x]
        BY <1>4 DEF SynthesisInv
    <2>2. CallOK(c) /\ replies[c] = Idle
        BY <1>1 DEF SynthesisInv, CallerOK
    <2>3. /\ asked1.at = 1 /\ asked1.attempts = calls[c].attempts
          /\ asked1.key = calls[c].key /\ asked1.knew = calls[c].knew /\ asked1.denied = denied
          /\ asked1 \in ACall
        BY <2>2 DEF CallOK, ACall
    <2>4. calls[c].knew => ~denied
        BY <1>4, <2>2 DEF CallOK, Hit
    <2> HIDE DEF asked1, denied
    <2>5. Len(Chain(c)) \in {2, 3}
        BY ChainShape
    <2>6. CallOK(c)'
        BY <1>1, <1>4, <2>1, <2>2, <2>3, <2>4, <2>5 DEF CallOK, Has, ACall
    <2>7. CallerOK(c)'
        BY <1>4, <2>1, <2>2, <2>6 DEF CallerOK
    <2>8. ASSUME NEW x \in Caller \ {c}
          PROVE  CallerOK(x)'
        BY <1>1, <1>4, <2>1, CallerFrame DEF SynthesisInv
    <2>9. JobOK'
        BY <1>1, <1>4, <2>1, <2>3 DEF SynthesisInv, JobOK, Settled, Caller
    <2> QED
        BY <1>1, <1>4, <2>1, <2>7, <2>8, <2>9 DEF SynthesisInv
<1> QED
    BY <1>2, <1>3, <1>4 DEF Probe

LEMMA TryKeeps ==
    ASSUME SynthesisInv, NEW c \in Caller, TryProvider(c)
    PROVE  SynthesisInv'
<1> DEFINE k == calls[c].key
           p == Chain(c)[calls[c].at]
           known == calls[c].denied
           missed == known \/ store # "refuses"
<1>1. /\ calls[c] # Idle /\ calls[c].at \in DOMAIN Chain(c) /\ UNCHANGED tally
      /\ k \in Key /\ p # "audio_cache"
    BY ChainShape DEF TryProvider, SynthesisInv, CallerOK, CallOK, ACall, Provider
<1>2. CallOK(c) /\ known \in BOOLEAN /\ (calls[c].knew => Has(k) /\ ~known)
    BY <1>1 DEF SynthesisInv, CallerOK, CallOK, ACall
<1>3. CASE Decline(c, known) /\ UNCHANGED <<clips, replies>>
    BY <1>1, <1>2, <1>3, DeclineKeeps
<1>4. CASE ~Hit(k) /\ Decline(c, missed) /\ UNCHANGED <<clips, replies>>
    <2>1. missed \in BOOLEAN /\ (calls[c].knew => ~missed)
        BY <1>2, <1>4 DEF Hit
    <2> HIDE DEF missed
    <2> QED
        BY <1>1, <1>4, <2>1, DeclineKeeps
<1>5. CASE Hit(k) /\ End(c, "spoken", p, clips[k]) /\ UNCHANGED clips
    <2>1. Speaks(clips[k], k) /\ ClipsOK'
        BY <1>5 DEF SynthesisInv, ClipsOK, Has, Hit
    <2> QED
        BY <1>1, <1>5, <2>1, EndKeeps
<1>6. CASE End(c, "raised", p, Idle) /\ UNCHANGED clips
    <2>1. ClipsOK'
        BY <1>6 DEF SynthesisInv, ClipsOK
    <2> QED
        BY <1>1, <1>6, <2>1, EndKeeps
<1>7. CASE End(c, "spoken", p, Audio(p, k)) /\ clips' = Stored(k, Audio(p, k))
    <2>1. Speaks(Audio(p, k), k)
        BY <1>1, ProvidersSpeakTheKey
    <2>2. ClipsOK' /\ DOMAIN clips \subseteq DOMAIN clips'
        BY <1>1, <1>7, <2>1, StoredKeepsClips DEF SynthesisInv
    <2> QED
        BY <1>1, <1>7, <2>1, <2>2, EndKeeps
<1> QED
    BY <1>3, <1>4, <1>5, <1>6, <1>7 DEF TryProvider

LEMMA FailedKeeps ==
    ASSUME SynthesisInv, NEW c \in Caller, AllProvidersFailed(c)
    PROVE  SynthesisInv'
<1>1. calls[c] # Idle /\ calls[c].at # 0 /\ End(c, "failed", "none", Idle) /\ UNCHANGED <<clips, tally>>
    <2>1. Len(Chain(c)) \in {2, 3}
        BY ChainShape
    <2> QED
        BY <2>1 DEF AllProvidersFailed
<1>2. ClipsOK'
    BY <1>1 DEF SynthesisInv, ClipsOK
<1> QED
    BY <1>1, <1>2, EndKeeps

\* The job stores a clip once more under a key it was spoken for, and counts
\* it when it is stored.
LEMMA JobCountsKeeps ==
    ASSUME SynthesisInv, JobCounts
    PROVE  SynthesisInv'
<1> DEFINE r == replies["job"]
<1>1. /\ calls["job"] = Idle /\ r # Idle /\ UNCHANGED calls
      /\ replies' = [x \in Caller |-> replies'[x]] /\ replies'["job"] = Idle
      /\ \A x \in Caller \ {"job"} : replies'[x] = replies[x]
    BY DEF JobCounts, SynthesisInv, Caller
<1>2. ReplyOK("job") /\ r.key \notin Settled
    BY <1>1 DEF SynthesisInv, CallerOK, JobOK, Caller
<1>3. ClipsOK' /\ DOMAIN clips \subseteq DOMAIN clips' /\ JobOK'
    <2>1. CASE /\ r.outcome = "spoken" /\ clips' = Stored(r.key, r.audio)
               /\ tally' = [tally EXCEPT !.cached = @ \cup {r.key}]
        <3>1. ClipsOK' /\ DOMAIN clips' = DOMAIN clips \cup {r.key}
            BY <1>2, <2>1, StoredKeepsClips DEF SynthesisInv, ReplyOK
        <3>2. /\ tally' \in [cached : SUBSET DOMAIN clips', missing : {tally'.missing}]
              /\ tally'.cached = tally.cached \cup {r.key} /\ tally'.missing = tally.missing
            BY <2>1, <3>1 DEF SynthesisInv, JobOK
        <3> QED
            BY <1>1, <1>2, <3>1, <3>2 DEF SynthesisInv, JobOK, Settled
    <2>2. CASE UNCHANGED clips /\ tally' = [tally EXCEPT !.missing = @ \cup {r.key}]
        BY <1>1, <1>2, <2>2 DEF SynthesisInv, JobOK, Settled, ClipsOK
    <2> QED
        BY <2>1, <2>2 DEF JobCounts
<1>4. ASSUME NEW x \in Caller \ {"job"}
      PROVE  CallerOK(x)'
    BY <1>1, <1>3, CallerFrame DEF SynthesisInv
<1>5. CallerOK("job")'
    BY <1>1 DEF CallerOK
<1> QED
    BY <1>1, <1>3, <1>4, <1>5 DEF SynthesisInv

LEMMA JobDiesKeeps ==
    ASSUME SynthesisInv, JobDies
    PROVE  SynthesisInv'
<1>1. /\ calls["job"] = Idle /\ UNCHANGED <<calls, clips>> /\ tally' = NoTally
      /\ replies' = [x \in Caller |-> replies'[x]] /\ replies'["job"] = Idle
      /\ \A x \in Caller \ {"job"} : replies'[x] = replies[x]
    BY DEF JobDies, SynthesisInv, Caller
<1>2. ASSUME NEW x \in Caller \ {"job"}
      PROVE  CallerOK(x)'
    BY <1>1, CallerFrame DEF SynthesisInv
<1>3. CallerOK("job")'
    BY <1>1 DEF CallerOK
<1>4. JobOK'
    BY <1>1 DEF JobOK, NoTally
<1> QED
    BY <1>1, <1>2, <1>3, <1>4 DEF SynthesisInv, ClipsOK

\* Nothing but the state of the store changes, or nothing at all.
LEMMA SynthesisFrame ==
    ASSUME SynthesisInv, UNCHANGED <<clips, calls, replies, tally>>
    PROVE  SynthesisInv'
<1>1. ASSUME NEW x \in Caller
      PROVE  CallerOK(x)'
    BY CallerFrame DEF SynthesisInv
<1> QED
    BY <1>1 DEF SynthesisInv, ClipsOK, JobOK, Settled

LEMMA SynthesisInit ==
    ASSUME ChainInit
    PROVE  SynthesisInv
<1>1. DOMAIN clips = {}
    BY DEF ChainInit
<1> QED
    BY <1>1 DEF ChainInit, SynthesisInv, ClipsOK, CallerOK, JobOK, NoTally, Caller

THEOREM SynthesisInvariance == SynthesisSpec => []SynthesisInv
<1>1. ASSUME SynthesisInv, [ChainNext]_chainVars
      PROVE  SynthesisInv'
    <2>1. ASSUME NEW c \in {"api", "alert"}, AskToSpeak(c)
          PROVE  SynthesisInv'
        BY <1>1, <2>1, AskKeeps
    <2>2. ASSUME NEW c \in Caller, Probe(c) \/ TryProvider(c) \/ AllProvidersFailed(c)
          PROVE  SynthesisInv'
        BY <1>1, <2>2, ProbeKeeps, TryKeeps, FailedKeeps
    <2>3. CASE JobTakes \/ JobCounts \/ JobDies
        BY <1>1, <2>3, JobTakesKeeps, JobCountsKeeps, JobDiesKeeps
    <2>4. CASE StoreFails \/ StoreReturns
        BY <1>1, <2>4, SynthesisFrame DEF StoreFails, StoreReturns, StoreTurns
    <2>5. CASE UNCHANGED chainVars
        BY <1>1, <2>5, SynthesisFrame DEF chainVars
    <2> QED
        BY <1>1, <2>1, <2>2, <2>3, <2>4, <2>5 DEF ChainNext
<1> QED
    BY <1>1, SynthesisInit, PTL DEF SynthesisSpec

\* Whatever providers, store and callers do: every clip says its key's words
\* in its language and voice, a text that was cached when a call began fails
\* only if no read of the cache was carried out, the providers are asked in
\* their order, and the job's report counts what is stored.
THEOREM SynthesisTheorem == SynthesisSpec => []SynthesisIsTrue
<1>1. SynthesisInv => SynthesisIsTrue
    <2> SUFFICES ASSUME SynthesisInv
                 PROVE  SynthesisIsTrue
        OBVIOUS
    <2>1. \A c \in Caller : replies[c] # Idle => ReplyOK(c)
        BY DEF SynthesisInv, CallerOK
    <2>2. ClipsSayTheirKey /\ OutageStillSpeaks
        BY <2>1 DEF ClipsSayTheirKey, OutageStillSpeaks, ReplyOK, SynthesisInv, ClipsOK
    <2>3. HierarchyIsKept
        BY <2>1 DEF HierarchyIsKept, ReplyOK, Trail
    <2>4. CoverageIsTrue
        BY DEF CoverageIsTrue, SynthesisInv, JobOK
    <2> QED
        BY <2>2, <2>3, <2>4 DEF SynthesisIsTrue
<1> QED
    BY <1>1, SynthesisInvariance, PTL

-----------------------------------------------------------------------------
(* The language of a conversation.                                         *)

\* A request that no change of preference has overtaken was made under the
\* pin there still is.
RequestOK(q) ==
    /\ {"current", "pin", "requested"} \subseteq DOMAIN q /\ q.current \in BOOLEAN
    /\ q.current => q.pin = pinned

Convincing(r) ==
    r.answer.utterance.script # "LATIN" /\ r.answer.utterance.share >= RepinThreshold

Sure(r) ==
    /\ r.answer.by # "browser_web_speech" /\ r.answer.confidence >= ConfirmBelow
    /\ ~r.ambiguous

\* A transcript would move the pin it was asked under only on its evidence.
TranscriptOK(r) ==
    /\ {"request", "confirmed"} \subseteq DOMAIN r
    /\ r.request.pin \notin {NoTongue, r.reply} => r.request.requested = r.reply \/ Convincing(r)

HearingInv ==
    /\ \A q \in asked : RequestOK(q)
    /\ \A r \in pending : TranscriptOK(r) /\ RequestOK(r.request)
    /\ asked = {} \/ pending = {}

\* Only a script or a caller who names the language weighs enough to move a
\* pin, and a script as much as its share of the transcript.
LEMMA EvidenceMovesThePin ==
    ASSUME NEW u, NEW requested, NEW by, NEW confidence, NEW pin, pin # NoTongue,
           NEW reply, reply = Resolve(Answer(by, u, confidence, requested).detection, pin), reply # pin
    PROVE  reply = requested \/ (u.script # "LATIN" /\ u.share >= RepinThreshold)
<1> DEFINE d == DetectLanguage(u, requested)
           detection == WithProviderMethod(d, confidence, requested)
<1>1. Answer(by, u, confidence, requested).detection = detection
    BY DEF Answer
<1> HIDE DEF detection
<1>2. /\ reply = detection.language /\ detection.confidence >= RepinThreshold
      /\ detection.method \in {"script", "provider"}
    BY <1>1 DEF Resolve
<1>3. CASE requested # NoTongue
    BY <1>2, <1>3 DEF detection, WithProviderMethod, Found
<1>4. CASE requested = NoTongue
    <2>1. detection = d
        BY <1>4 DEF detection, WithProviderMethod
    <2>2. \A p, c : Preferred(p, c).method \notin {"script", "provider"}
        BY DEF Preferred, Found
    <2>3. DetectRomanized(u, requested).method \notin {"script", "provider"}
        BY <2>2 DEF DetectRomanized, Found
    <2>4. d = Found(OfScript(u, requested), "script", u.share) /\ u.script # "LATIN"
        BY <1>2, <2>1, <2>2, <2>3 DEF DetectLanguage
    <2> QED
        BY <1>2, <2>1, <2>4 DEF Found
<1> QED
    BY <1>3, <1>4

LEMMA TranscriptsAreOK ==
    ASSUME NEW q, NEW by, NEW u, NEW c, NEW ambiguous \in BOOLEAN,
           NEW r, r = Transcript(q, Answer(by, u, c, q.requested), ambiguous)
    PROVE  TranscriptOK(r) /\ r.request = q
<1> DEFINE a == Answer(by, u, c, q.requested)
<1>1. a.utterance = u
    BY DEF Answer
<1> HIDE DEF a
<1>2. /\ r.answer = a /\ r.request = q /\ r.reply = Resolve(a.detection, q.pin)
      /\ {"request", "confirmed"} \subseteq DOMAIN r
    BY DEF Transcript, a
<1>3. ASSUME q.pin \notin {NoTongue, r.reply}
      PROVE  r.reply = q.requested \/ (u.script # "LATIN" /\ u.share >= RepinThreshold)
    BY <1>2, <1>3, EvidenceMovesThePin DEF a
<1> QED
    BY <1>1, <1>2, <1>3 DEF TranscriptOK, Convincing

\* What the properties say of a step.
Evidence ==
    pinned # NoTongue /\ pinned' \notin {pinned, NoTongue} =>
        LET a == heard'.answer IN
        \/ heard'.request.requested = pinned'
        \/ a.utterance.script # "LATIN" /\ a.utterance.share >= RepinThreshold
        \/ ~heard'.request.current

Confirmed ==
    pinned' \notin {pinned, NoTongue} =>
        \/ heard'.confirmed
        \/ /\ heard'.answer.by # "browser_web_speech"
           /\ heard'.answer.confidence >= ConfirmBelow /\ ~heard'.ambiguous

\* A transcript that is handed to the conversation moves it on its evidence.
LEMMA HandledOnEvidence ==
    ASSUME NEW r, TranscriptOK(r), RequestOK(r.request), HandleTranscript(r)
    PROVE  Evidence
<1> SUFFICES ASSUME pinned # NoTongue, pinned' \notin {pinned, NoTongue}, r.request.current
             PROVE  heard'.request.requested = pinned' \/ Convincing(heard')
    BY DEF Evidence, Convincing, HandleTranscript
<1>1. r.request.pin = pinned /\ heard' = r /\ pinned' = r.reply
    BY DEF RequestOK, HandleTranscript
<1> QED
    BY <1>1 DEF TranscriptOK

\* What comes in is put to the user unless it is sure.
LEMMA ReplyIsHonest ==
    ASSUME HearingInv, Reply
    PROVE  HearingInv' /\ Evidence /\ Confirmed
<1>1. PICK q \in asked, i \in DOMAIN Recognizers, u \in Utterances, ambiguous \in BOOLEAN :
          \E c \in Confidences(Recognizers[i]) :
              Receive(Transcript(q, Answer(Recognizers[i], u, c, q.requested), ambiguous))
    BY DEF Reply
<1>2. PICK c \in Confidences(Recognizers[i]) :
          Receive(Transcript(q, Answer(Recognizers[i], u, c, q.requested), ambiguous))
    BY <1>1
<1> DEFINE by == Recognizers[i]
           r == Transcript(q, Answer(by, u, c, q.requested), ambiguous)
<1>3. TranscriptOK(r) /\ r.request = q
    BY TranscriptsAreOK
<1>4. /\ r.answer.by = by /\ r.answer.confidence = c
      /\ r.answer.needsConfirmation = (c < ConfirmBelow) /\ r.ambiguous = ambiguous
    BY DEF Transcript, Answer
<1>5. c \in Nat /\ (by = "browser_web_speech" => c < ConfirmBelow)
    BY <1>2 DEF Confidences, ConfirmBelow
<1>6. RequestOK(r.request) /\ asked' = {} /\ Receive(r)
    BY <1>2, <1>3 DEF HearingInv, Reply
<1> HIDE DEF r, by
<1>7. CASE r.answer.needsConfirmation \/ r.ambiguous
    <2>1. pending' = {r} /\ UNCHANGED pinned
        BY <1>6, <1>7 DEF Receive
    <2>2. RequestOK(r.request)'
        BY <1>6, <2>1 DEF RequestOK
    <2> QED
        BY <1>3, <1>6, <2>1, <2>2 DEF HearingInv, TranscriptOK, Convincing, Evidence, Confirmed
<1>8. CASE ~r.answer.needsConfirmation /\ ~r.ambiguous
    <2>1. HandleTranscript(r)
        BY <1>6, <1>8 DEF Receive
    <2>2. Evidence
        BY <1>3, <1>6, <2>1, HandledOnEvidence
    <2>3. Sure(r)
        <3>1. ~(c < ConfirmBelow)
            BY <1>4, <1>8
        <3>2. c >= ConfirmBelow
            BY <1>5, <3>1 DEF ConfirmBelow
        <3> QED
            BY <1>4, <1>5, <1>8, <3>1, <3>2 DEF Sure
    <2> QED
        BY <1>6, <2>1, <2>2, <2>3 DEF HandleTranscript, HearingInv, Confirmed, Sure
<1> QED
    BY <1>7, <1>8

LEMMA ConfirmIsHonest ==
    ASSUME HearingInv, Confirm
    PROVE  HearingInv' /\ Evidence /\ Confirmed
<1>1. PICK r \in pending : HandleTranscript([r EXCEPT !.confirmed = TRUE])
    BY DEF Confirm
<1> DEFINE s == [r EXCEPT !.confirmed = TRUE]
<1>2. TranscriptOK(r) /\ RequestOK(r.request)
    BY DEF HearingInv
<1>3. /\ s.confirmed /\ s.answer = r.answer /\ s.request = r.request /\ s.reply = r.reply
      /\ DOMAIN s = DOMAIN r
    BY <1>2 DEF TranscriptOK
<1> HIDE DEF s
<1>4. TranscriptOK(s) /\ RequestOK(s.request)
    BY <1>2, <1>3 DEF TranscriptOK, Convincing
<1>5. Evidence
    BY <1>1, <1>4, HandledOnEvidence DEF s
<1>6. heard' = s /\ pending' = {}
    BY <1>1 DEF HandleTranscript, s
<1>7. asked' = {}
    BY <1>1 DEF Confirm, HearingInv
<1> QED
    BY <1>3, <1>5, <1>6, <1>7 DEF HearingInv, Confirmed

\* A change of preference overtakes the request that is on its way and the
\* transcript that waits.
LEMMA ChoosePreferenceKeeps ==
    ASSUME HearingInv, ChoosePreference
    PROVE  HearingInv' /\ Evidence /\ Confirmed
<1>1. ASSUME NEW q \in asked
      PROVE  RequestOK([q EXCEPT !.current = FALSE])'
    BY DEF HearingInv, RequestOK
<1>2. ASSUME NEW r \in pending
      PROVE  LET s == [r EXCEPT !.request.current = FALSE] IN
             TranscriptOK(s)' /\ RequestOK(s.request)'
    <2> DEFINE s == [r EXCEPT !.request.current = FALSE]
    <2>1. TranscriptOK(r) /\ RequestOK(r.request)
        BY DEF HearingInv
    <2>2. /\ s.request = [r.request EXCEPT !.current = FALSE]
          /\ s.answer = r.answer /\ s.reply = r.reply /\ DOMAIN s = DOMAIN r
        BY <2>1 DEF TranscriptOK
    <2>3. s.request.pin = r.request.pin /\ s.request.requested = r.request.requested
        BY <2>1, <2>2 DEF RequestOK
    <2>4. RequestOK(s.request)'
        BY <2>1, <2>2 DEF RequestOK
    <2> HIDE DEF s
    <2>5. TranscriptOK(s)'
        BY <2>1, <2>2, <2>3 DEF TranscriptOK, Convincing
    <2> QED
        BY <2>4, <2>5 DEF s
<1>3. /\ asked' = {[q EXCEPT !.current = FALSE] : q \in asked}
      /\ pending' = {[r EXCEPT !.request.current = FALSE] : r \in pending}
      /\ pinned' = NoTongue
    BY DEF ChoosePreference
<1> QED
    BY <1>1, <1>2, <1>3 DEF HearingInv, Evidence, Confirmed

LEMMA AskKeepsHearing ==
    ASSUME HearingInv, Ask
    PROVE  HearingInv'
<1>1. /\ pending' = {} /\ UNCHANGED <<preference, pinned>>
      /\ \E requested \in {NoTongue, "hi", "ta"} :
            asked' = {[requested |-> requested, preference |-> preference, pin |-> pinned, current |-> TRUE]}
    BY DEF Ask
<1> QED
    BY <1>1 DEF HearingInv, RequestOK

\* The pin stays and nothing new is asked or waits.
LEMMA HearingFrame ==
    ASSUME HearingInv, asked' \subseteq asked, pending' \subseteq pending, pinned' = pinned
    PROVE  HearingInv'
BY DEF HearingInv, RequestOK, TranscriptOK, Convincing

\* Whatever is heard, detected, confirmed, refused and chosen, in any order:
\* the pin moves on evidence only, and on no transcript that was not sure
\* before the user confirmed it.
THEOREM HearingTheorem == HearingSpec => HearingIsHonest
<1>1. HearingInit => HearingInv
    BY DEF HearingInit, HearingInv
<1>2. ASSUME HearingInv, [HearingNext]_hearingVars
      PROVE  HearingInv' /\ [Evidence]_hearingVars /\ [Confirmed]_hearingVars
    <2>1. CASE Ask
        BY <1>2, <2>1, AskKeepsHearing DEF Ask, Evidence, Confirmed
    <2>2. CASE Reply
        BY <1>2, <2>2, ReplyIsHonest
    <2>3. CASE Confirm
        BY <1>2, <2>3, ConfirmIsHonest
    <2>4. CASE NoReply \/ SayItAgain
        BY <1>2, <2>4, HearingFrame DEF NoReply, SayItAgain, Evidence, Confirmed
    <2>5. CASE ChoosePreference
        BY <1>2, <2>5, ChoosePreferenceKeeps
    <2>6. CASE UNCHANGED hearingVars
        BY <1>2, <2>6, HearingFrame DEF hearingVars
    <2> QED
        BY <1>2, <2>1, <2>2, <2>3, <2>4, <2>5, <2>6 DEF HearingNext
<1> QED
    BY <1>1, <1>2, PTL DEF HearingSpec, HearingIsHonest, PinMovesOnEvidence, PinIsConfirmed, Evidence, Confirmed

-----------------------------------------------------------------------------
(* The voice of the page.                                                  *)

\* For every number of cards and presses: a clip that is heard is the one the
\* controller holds, whoever asked for it and whenever its synthesis returns.
THEOREM OneClipAtATime == ClientSpec => []OneVoice
<1>1. ClientInit => OneVoice
  BY DEF ClientInit, OneVoice
<1>2. ASSUME OneVoice, [ClientNext]_clientVars
      PROVE  OneVoice'
  <2>1. CASE Stopped
    BY <1>2, <2>1 DEF Stopped, OneVoice
  <2>2. ASSUME NEW c \in Card, NEW text, Play(c, text)
        PROVE  OneVoice'
    BY <1>2, <2>2 DEF Play, OneVoice
  <2>3. CASE UNCHANGED <<sounding, current>>
    BY <1>2, <2>3 DEF OneVoice
  <2>4. ASSUME NEW c \in Card, Speak(c)
        PROVE  OneVoice'
    BY <1>2, <2>2, <2>3, <2>4 DEF Speak, OneVoice
  <2>5. ASSUME NEW c \in Card, Synthesized(c)
        PROVE  OneVoice'
    BY <2>2, <2>3, <2>5 DEF Synthesized
  <2>6. CASE VoiceNext
    BY <2>1, <2>3, <2>6 DEF VoiceNext, playVars, StartPress, LetGo, Finish, Cancel, Dismiss, Unmount,
       Grant, Refuse, Tick, CapTimer, Flush, Heard
  <2>7. CASE Ended
    BY <2>1, <2>7 DEF Ended
  <2>8. ASSUME NEW c \in Card, TextChanges(c)
        PROVE  OneVoice'
    BY <2>3, <2>8 DEF TextChanges
  <2>9. CASE UNCHANGED clientVars
    BY <2>3, <2>9 DEF clientVars, playVars
  <2> QED BY <1>2, <2>4, <2>5, <2>6, <2>7, <2>8, <2>9 DEF ClientNext, PlayNext
<1> QED BY <1>1, <1>2, PTL DEF ClientSpec
=============================================================================
