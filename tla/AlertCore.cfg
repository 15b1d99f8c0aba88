\* One boat, one cyclone, a clock longer than an alert lives.
SPECIFICATION Spec
CONSTANTS
    None = None
    User = {ravi}
    System = {amphan}
    Rule = {"cyclone.wind_radius"}
    Window <- Windows
    Channels = {"in_app"}
    Endpoints <- InboxEndpoints
    Position <- AllPositions
    MaxPositionAge = 6
    Batches <- CycloneBatches
    Contexts <- AllContexts
    SpeechOutcomes = {"audio", "silent", "raised"}
    Lifetime = 12
    Cadence = 1
    PruneAge = 13
    MaxNow = 15
    MaxRestarts = 1
    MaxConditionAge = 36
    MaxCycloneAge = 72
INVARIANTS RecordMatchesThread NoCoverageGap
PROPERTIES SilenceIsInformed ImplementsThread
