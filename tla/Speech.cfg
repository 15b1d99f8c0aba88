\* Synthesis with its cache, recognition with its pin, and the voice page.
SPECIFICATION SpeechSpec
CONSTANTS
    Words = {"warning", "slotted"}
    SlottedWords = {"slotted"}
    Tongue = {"ta", "mr"}
    Voices <- OneVoiceEach
    Speed = {100}
    Script = {"warning", "slotted"}
    Rehearsed = {"ta"}
    Idle = Idle
    MaxCalls = 2
    Utterances <- Said
    NoTongue = NoTongue
    MaxTurns = 2
    MaxPress = 3
    Card = {wave, zone}
    MaxText = 2
    NoRecorder = NoRecorder
    Sides = {"synthesis", "recognition", "button", "cards"}
INVARIANTS SynthesisIsTrue OneVoice
PROPERTIES HearingIsHonest PressesEnd
CHECK_DEADLOCK FALSE
