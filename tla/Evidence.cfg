\* The observation table, the corpus and the registry.
SPECIFICATION EvidenceSpec
CONSTANTS
    Publisher = {meteo}
    Dataset = {d1, d2}
    ValidTime = {v1}
    Value = {low, high}
    Gap = Gap
    MaxBatch = 2
    StoreClockBound = 2
    MaxWrites = 2
    MaxAsked = 1
    Document = {1, 2}
    Text = {"brief", "full"}
    ChunksOf <- SplitsInto
    Region = {tn, ap}
    NoDocument = NoDocument
    RrfK = 60
    CandidateLimit = 2
    PassageLimit = 2
    MaxAge = 0
    CorpusClockBound = 1
    MaxIngests = 2
    MaxHistory = 1
    Questions <- Asks
    Unlimited = 1000
    Capabilities <- DefaultCapabilities
    Registrable <- LaterSources
SYMMETRY Alike
INVARIANT EvidenceIsSound
PROPERTIES RevisionsLeaveThePast MoreIsAnsweredByMore
CHECK_DEADLOCK FALSE
