----------------------------- MODULE VoiceClient -----------------------------
(***************************************************************************)
(* The voice page in the browser: the press-and-hold button over one       *)
(* Recorder per press, and the read-aloud cards over the shared playback.  *)
(* A press is numbered; what an await is waiting for is a step of its own. *)
(* Fifteen seconds are the step CapTimer of a recorder; the component's    *)
(* own tick sees them only afterwards.                                     *)
(***************************************************************************)
EXTENDS Naturals, FiniteSets

CONSTANTS
    MaxPress,   \* bound on the presses
    Card,       \* read-aloud cards
    MaxText,    \* bound on the texts a card shows one after the other
    NoRecorder

VARIABLES
    mounted, phase,
    ref,         \* recorderRef
    tickRef,     \* the press whose interval tickRef holds
    ticking,     \* the presses whose interval is running
    presses,     \* counter
    recorder,    \* per press, the Recorder
    uploads,     \* the recordings whose transcript is awaited
    lost,        \* history: the recordings made and answered by an error
    cards,       \* per card: the text shown, the clip held, the text awaited
    sounding,    \* the clips that can be heard
    current      \* what the playback controller plays or has paused

voiceVars == <<mounted, phase, ref, tickRef, ticking, presses, recorder, uploads, lost>>
playVars == <<cards, sounding, current>>
clientVars == <<voiceVars, playVars>>

Press == 1..MaxPress

ASSUME ClientAssumption == {MaxPress, MaxText} \subseteq Nat /\ NoRecorder \notin Press

\* grant: getUserMedia; media: the MediaRecorder; mic: a track is live; held:
\* this.recorder is set; timer: stopTimer is; full: fifteen seconds passed.
Fresh == [grant |-> "asked", media |-> "none", mic |-> FALSE, held |-> FALSE,
          timer |-> FALSE, full |-> FALSE, awaited |-> FALSE, dropped |-> FALSE]

NoRecord == [Fresh EXCEPT !.grant = "never"]

Silence == [card |-> NoRecorder, text |-> 0]

\* PlaybackController.stop.
Stopped == sounding' = sounding \ {current} /\ current' = Silence

StartPress ==
    /\ mounted /\ phase \notin {"recording", "transcribing"} /\ presses < MaxPress
    /\ presses' = presses + 1
    /\ ref' = presses'
    /\ recorder' = [recorder EXCEPT ![presses'] = Fresh]
    /\ Stopped
    /\ UNCHANGED <<mounted, phase, tickRef, ticking, uploads, lost, cards>>

\* The permission is given: the recording starts and start() goes on, whoever
\* has let go of the button or left the page meanwhile.
Grant(p) ==
    /\ recorder[p].grant = "asked"
    /\ recorder' = [recorder EXCEPT ![p] = [@ EXCEPT !.grant = "given", !.media = "recording",
                        !.mic = TRUE, !.held = TRUE, !.timer = TRUE]]
    /\ phase' = IF mounted THEN "recording" ELSE phase
    /\ tickRef' = p /\ ticking' = ticking \cup {p}
    /\ UNCHANGED <<mounted, ref, presses, uploads, lost, playVars>>

Refuse(p) ==
    /\ recorder[p].grant = "asked"
    /\ recorder' = [recorder EXCEPT ![p].grant = "refused"]
    /\ phase' = IF mounted THEN "error" ELSE phase
    /\ UNCHANGED <<mounted, ref, tickRef, ticking, presses, uploads, lost, playVars>>

\* finish(): Recorder.stop refuses when nothing is held, before the grant as
\* after the release.
Finish ==
    /\ ref # NoRecorder
    /\ ticking' = ticking \ {tickRef} /\ tickRef' = NoRecorder
    /\ IF recorder[ref].held
       THEN /\ phase' = "transcribing"
            /\ recorder' = [recorder EXCEPT ![ref] = [@ EXCEPT !.timer = FALSE, !.awaited = TRUE,
                                !.media = "stopping"]]
            /\ UNCHANGED <<ref, lost>>
       ELSE /\ phase' = "error"
            /\ ref' = NoRecorder
            /\ lost' = IF recorder[ref].media = "flushed" THEN lost \cup {ref} ELSE lost
            /\ recorder' = [recorder EXCEPT ![ref].dropped = TRUE]
    /\ UNCHANGED <<mounted, presses, uploads, playVars>>

LetGo == mounted /\ phase # "transcribing" /\ Finish

Tick(p) == p \in ticking /\ recorder[p].full /\ Finish

\* stopTimer: the recorder stops itself and nobody takes what it recorded.
CapTimer(p) ==
    /\ recorder[p].timer
    /\ recorder' = [recorder EXCEPT ![p] = [@ EXCEPT !.timer = FALSE, !.full = TRUE,
                        !.media = "stopping"]]
    /\ UNCHANGED <<mounted, phase, ref, tickRef, ticking, presses, uploads, lost, playVars>>

\* onstop resolves: whoever awaits it releases the microphone; a finish goes
\* on to encode and send, unless nothing was heard.
Flush(p) ==
    /\ recorder[p].media = "stopping"
    /\ recorder' = [recorder EXCEPT ![p] = [@ EXCEPT !.media = "flushed", !.mic = FALSE,
                        !.held = FALSE, !.awaited = FALSE]]
    /\ IF recorder[p].awaited
       THEN \/ /\ uploads' = uploads \cup {p}
               /\ UNCHANGED <<phase, ref>>
            \/ phase' = "error" /\ ref' = NoRecorder /\ UNCHANGED uploads
       ELSE UNCHANGED <<phase, ref, uploads>>
    /\ UNCHANGED <<mounted, tickRef, ticking, presses, lost, playVars>>

\* The reply to a transcription, sure, to be confirmed, or an error.
Heard(p) ==
    /\ p \in uploads
    /\ uploads' = uploads \ {p}
    /\ phase' \in {"idle", "confirming", "error"}
    /\ ref' = NoRecorder
    /\ UNCHANGED <<mounted, tickRef, ticking, presses, recorder, lost, playVars>>

\* The recorder stopped, its track not.
MutCancelledKeepsTrack(r) ==
    [r EXCEPT !.timer = FALSE, !.held = FALSE, !.dropped = TRUE,
              !.media = IF @ = "recording" THEN "flushed" ELSE @]

\* Recorder.cancel of a recorder that is still asking does nothing.
Cancelled(r) ==
    [r EXCEPT !.timer = FALSE, !.mic = FALSE, !.held = FALSE, !.dropped = TRUE,
              !.media = IF @ = "recording" THEN "flushed" ELSE @]

CancelRef ==
    recorder' = IF ref = NoRecorder THEN recorder ELSE [recorder EXCEPT ![ref] = Cancelled(@)]

Cancel ==
    /\ mounted /\ phase = "recording"
    /\ ticking' = ticking \ {tickRef} /\ tickRef' = NoRecorder
    /\ CancelRef
    /\ ref' = NoRecorder /\ phase' = "idle"
    /\ UNCHANGED <<mounted, presses, uploads, lost, playVars>>

\* Confirm, retry and "Try again".
Dismiss ==
    /\ mounted /\ phase \in {"confirming", "error"}
    /\ phase' = "idle"
    /\ UNCHANGED <<mounted, ref, tickRef, ticking, presses, recorder, uploads, lost, playVars>>

Unmount ==
    /\ mounted /\ mounted' = FALSE
    /\ CancelRef
    /\ ticking' = ticking \ {tickRef}
    /\ UNCHANGED <<phase, ref, tickRef, presses, uploads, lost, playVars>>

-----------------------------------------------------------------------------
MutPlayOver(c, text) ==
    /\ sounding' = sounding \cup {[card |-> c, text |-> text]}
    /\ current' = [card |-> c, text |-> text]

\* PlaybackController.play: stop, then a new audio element.
Play(c, text) ==
    /\ sounding' = (sounding \ {current}) \cup {[card |-> c, text |-> text]}
    /\ current' = [card |-> c, text |-> text]

\* speak(): pause, resume, play the clip at hand, or ask for one.
Speak(c) ==
    /\ cards[c].awaited = 0
    /\ IF current.card = c
       THEN /\ sounding' = IF current \in sounding THEN sounding \ {current} ELSE sounding \cup {current}
            /\ UNCHANGED <<cards, current>>
       ELSE IF cards[c].clip # 0
       THEN Play(c, cards[c].clip) /\ UNCHANGED cards
       ELSE /\ cards' = [cards EXCEPT ![c].awaited = cards[c].shown]
            /\ UNCHANGED <<sounding, current>>
    /\ UNCHANGED voiceVars

\* The synthesis of the text of the click returns, or fails.
Synthesized(c) ==
    /\ cards[c].awaited # 0
    /\ \/ /\ cards' = [cards EXCEPT ![c] = [@ EXCEPT !.clip = cards[c].awaited, !.awaited = 0]]
          /\ Play(c, cards[c].awaited)
       \/ cards' = [cards EXCEPT ![c].awaited = 0] /\ UNCHANGED <<sounding, current>>
    /\ UNCHANGED voiceVars

\* Only the current element's onended is still attached.
Ended ==
    /\ current \in sounding
    /\ Stopped
    /\ UNCHANGED <<voiceVars, cards>>

\* The effect on a changed text drops the clip and leaves the playback alone.
TextChanges(c) ==
    /\ cards[c].shown < MaxText
    /\ cards' = [cards EXCEPT ![c] = [@ EXCEPT !.shown = @ + 1, !.clip = 0]]
    /\ UNCHANGED <<voiceVars, sounding, current>>

ClientInit ==
    /\ mounted = TRUE /\ phase = "idle" /\ ref = NoRecorder /\ tickRef = NoRecorder
    /\ ticking = {} /\ presses = 0 /\ uploads = {} /\ lost = {}
    /\ recorder = [p \in Press |-> NoRecord]
    /\ cards = [c \in Card |-> [shown |-> 1, clip |-> 0, awaited |-> 0]]
    /\ sounding = {} /\ current = Silence

VoiceNext ==
    \/ StartPress \/ LetGo \/ Cancel \/ Dismiss \/ Unmount
    \/ \E p \in Press :
          Grant(p) \/ Refuse(p) \/ Tick(p) \/ CapTimer(p) \/ Flush(p) \/ Heard(p)

PlayNext == Ended \/ \E c \in Card : Speak(c) \/ Synthesized(c) \/ TextChanges(c)

ClientNext == VoiceNext \/ PlayNext

\* The browser fires its timers and events, and every request is answered in
\* the end; nobody has to press, let go, or answer the permission prompt.
ClientFairness ==
    \A p \in Press : WF_clientVars(CapTimer(p)) /\ WF_clientVars(Flush(p)) /\ WF_clientVars(Heard(p))

-----------------------------------------------------------------------------
\* "Two clips playing at once is never useful" (playback.ts:5): whatever the
\* cards do, at most one clip is heard, and the controller knows it.
OneVoice == sounding \subseteq {current}

\* "a toggle that silently stayed open is the failure mode"
\* (voice-input.tsx:7): a live microphone is released in the end, on every
\* path, a grant after the button was let go included.
MicIsReleased == \A p \in Press : recorder[p].mic ~> ~recorder[p].mic

\* "A voice interface that dead-ends" (voice-input.tsx:17): the page does not
\* wait for a transcript for ever.
TranscribingEnds == (mounted /\ phase = "transcribing") ~> (~mounted \/ phase # "transcribing")

\* Every press of the button ends: nothing stays open, nothing keeps waiting.
PressesEnd == MicIsReleased /\ TranscribingEnds

-----------------------------------------------------------------------------
\* Statements of comments that the code does not keep.

\* "releasing is a deliberate act" (voice-input.tsx:9), cancel is for when
\* the user cancels or navigates away (capture.ts:186): a press that was let
\* go or cancelled has no live microphone.
NoMicAfterRelease == \A p \in Press : recorder[p].dropped => ~recorder[p].mic

\* "Every failure is recoverable" (voice-input.tsx:14): what was recorded up
\* to the cap is not answered by an error.
NoQuestionIsLost == lost = {}

\* The interval "is cleared on every exit path" (voice-input.tsx:105): every
\* interval that runs can be stopped.
TicksCanBeStopped == ticking \subseteq {tickRef}

\* "when the mic opens, audio stops" (playback.ts:10): nothing is heard while
\* the microphone is live.
NobodyIsTalkedOver == (\E p \in Press : recorder[p].mic) => sounding = {}

\* "the old clip must not be replayed for it" (read-aloud.tsx:61).
ClipsAreOfTheTextShown == \A c \in Card : cards[c].clip \in {0, cards[c].shown}

-----------------------------------------------------------------------------
ClientSpec == ClientInit /\ [][ClientNext]_clientVars
=============================================================================
