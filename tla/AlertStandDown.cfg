\* Two boats, and a storm that passes.
SPECIFICATION CalmSpec
CONSTANTS
    None = None
    User = {ravi, devi}
    System = {amphan}
    Rule = {"cyclone.wind_radius"}
    Window <- ShortWindows
    Channels = {"in_app"}
    Endpoints <- InboxEndpoints
    Position <- LostOrAtSea
    MaxPositionAge = 6
    Batches <- CycloneBatches
    Contexts <- AllContexts
    SpeechOutcomes = {"audio", "raised"}
    Lifetime = 12
    Cadence = 1
    PruneAge = 0
    MaxNow = 1
    MaxRestarts = 1
    MaxConditionAge = 36
    MaxCycloneAge = 72
    QuietBatches <- EvaluatedQuiet
PROPERTY SevereIsStoodDown
