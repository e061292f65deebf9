\* Two states, one configured and one found by a /regex/, and max.events as a span of time.
SPECIFICATION HSpec
CONSTANTS
    U64 = 8
    U32MAX = 7
    U16MAX = 3
    StateNames = {"x1", "x2"}
    CounterNames = {}
    SampleNames = {}
    RateNames = {}
    Configured = {"x1"}
    Matched = {"x2"}
    Freshness <- MCFreshness
    StaleStatus <- MCStaleStatus
    Window <- MCWindow
    Grace = 1
    MaxEvents = 2
    KeepNumber = FALSE
    HasBeacon = TRUE
    SweepInterval = 1
    SaveInterval = 2
    Stamps <- MCFew
    Codes = {0, 1, 4}
    Messages = {"m"}
    Increments = {}
    SampleBatches = {}
    RateValues = {}
    Extras = {"x"}
    Keys = {}
    KeyValues = {}
    PlainKeys = {}
    Trimmed <- MCTrimmed
    Patterns <- MCPatterns
    DiskOutcomes = {"noopen"}
    I31 = 4
    I15 = 8
    Scale = 2
    Epoch = 4
    MaxTime = 7
    MaxStops = 0
    MaxBuffered = 5
    MaxSampled = 0
    SubmitUntil = 8
    MaxLog = 5
CONSTRAINT
    OneAtATime
INVARIANTS
    ViewMatches
    StaleIsLate
    RecentEventsKept
PROPERTIES
    TransitionAnnounced
    CheckedFresh
