\* The database and stale states.
SPECIFICATION PgFeedSpec
CONSTANTS
    U64 = 2
    U32MAX = 7
    U16MAX = 3
    StateNames = {"x1"}
    CounterNames = {"c1"}
    SampleNames = {"s1"}
    RateNames = {"r1"}
    Configured = {"x1"}
    Matched = {"c1", "s1", "r1"}
    Freshness <- MCFreshness
    StaleStatus <- MCStaleStatus
    Window <- MCWindow
    Grace = 0
    MaxEvents = 0
    KeepNumber = TRUE
    HasBeacon = FALSE
    SweepInterval = 1
    SaveInterval = 0
    Stamps = {5, 6}
    Codes = {0}
    Messages = {"m"}
    Increments = {1}
    SampleBatches <- MCBatches
    RateValues = {1}
    Extras = {"x"}
    Keys = {"k1", "k2"}
    KeyValues = {"v1", "v2"}
    PlainKeys = {"k1", "k2"}
    Trimmed <- MCTrimmed
    Patterns <- MCNoPatterns
    DiskOutcomes = {"noopen"}
    I31 = 4
    I15 = 8
    Scale = 2
    Epoch = 5
    MaxTime = 7
    MaxStops = 0
    MaxBuffered = 1
    MaxSampled = 1
    SubmitUntil = 6
    Limit = 2
    MaxReboots = 0
    Logged = {"x1"}
    MaxHangups = 2
    Programs = {"pg"}
    MaxFlight = 2
CHECK_DEADLOCK FALSE
CONSTRAINT
    Relevant
INVARIANT
    DatabaseCurrent
