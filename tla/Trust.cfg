\* The verifier, the critique, the provenance store and the replay.
SPECIFICATION TrustSpec
CONSTANTS
    Requests <- ManyRequests
    KnownSources = {1, 2, 3}
    ApprovedFormulas = {"safety"}
    Threshold <- Thresholds
    Circular = {"bearing"}
    RunId = {run1, run2}
    NodeChoices <- OneUnwritable
    EdgeChoices <- OneOrTwoLinks
    MaxEdges = 2
    Recomputed <- Recomputes
    NoRun = NoRun
    NoOutput = NoOutput
    Digests = {"sha1"}
    Versions = {"v1", "v2"}
    MaxRecords = 2
SYMMETRY Alike
INVARIANTS RulesAreHeard OrderChangesNothing StoredIsTheLatest ReplaysAreHonest
PROPERTY OnlyAddsDoubt
CHECK_DEADLOCK FALSE
