\* One boat near the boundary: proximity and drift in the same tick, a push
\* token, an inbox and a phone number.
SPECIFICATION Spec
CONSTANTS
    None = None
    User = {ravi}
    System = {amphan}
    Rule = {"geofence.proximity", "geofence.predictive_drift"}
    Window <- ShortWindows
    Channels = {"in_app", "fcm", "sms"}
    Endpoints <- PhoneEndpoints
    Position <- AtSea
    MaxPositionAge = 6
    Batches <- BoundaryBatches
    Contexts <- FullContext
    SpeechOutcomes = {"audio", "raised"}
    Lifetime = 12
    Cadence = 1
    PruneAge = 144
    MaxNow = 4
    MaxRestarts = 0
    MaxConditionAge = 36
    MaxCycloneAge = 72
INVARIANTS TypeOK InAppIsAFloor
PROPERTY SilenceIsInformed
