\* Recalls and boats that never reported.
SPECIFICATION AssessmentSpec
CONSTANTS
    Parts = {"desk"}
    None = None
    User = {ravi}
    System = {"amphan"}
    Rule <- TriggerId
    Window <- Windows
    MaxConditionAge = 36
    MaxCycloneAge = 72
    Views <- ThresholdViews
    Questions <- ScoreQuestions
    Fields <- ZoneLists
    Series <- HotDays
    MaxOptions = 3
    MaxHours = 112
    Charts <- SeaCharts
    Passages <- Courses
    Horizon = 32
    StepSeconds = 8
    Tolerance = 1
    RedMetres = 2
    AmberMetres = 5
    Days = {1, 2, 3, 4, 5, 6, 7, 8, 9, 10}
    Bans <- Notifications
    Areas <- Sanctuaries
    Jurisdictions = {"east", "west"}
    Users = {ravi, mani}
    Zones = {"palk", "mannar"}
    Members = {mani}
    Harbour = "palk"
    Validity = 1
    MaxDocuments = 1
    MaxClock = 1
INVARIANT UnknownBoatsAreRecalled
CHECK_DEADLOCK FALSE
