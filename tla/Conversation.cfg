\* Three turns, each stating any of the slots.
SPECIFICATION Spec
CONSTANTS
    Intents <- StatedIntents
    Required <- RequiredSlots
    Profile <- HomeProfile
    Mentions <- Said
    DefaultWindow = "next day"
    MaxTurns = 3
    None = None
INVARIANTS LatestWordWins SlotsAreTraceable
CHECK_DEADLOCK FALSE
