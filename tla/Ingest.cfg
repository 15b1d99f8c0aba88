\* The fallback chain and the cadence cache.
SPECIFICATION IngestSpec
CONSTANTS
    Source <- Sources
    Order <- ByAuthority
    Kind <- Shapes
    Publishes <- Catalogue
    Deadline <- Deadlines
    Requests <- Asked
    Task = {t1}
    Retries = 1
    SharedFetcher = TRUE
    Lags = {0, 2}
    StartClock = 2
    MaxClock = 3
    MaxRestarts = 1
    None = None
    Keys = {ground}
    Cadences = {1, 2}
    NoEntry = NoEntry
    CacheClockBound = 4
    GetBound = 3
INVARIANTS AnswersAreTheBest AnswersCanBeReplayed ServedWasCurrent
PROPERTY FetchReturns
CHECK_DEADLOCK FALSE
