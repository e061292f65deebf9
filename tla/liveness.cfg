\* Windows close and silence is noticed.
SPECIFICATION LiveSpec
CONSTANTS
    U64 = 2
    U32MAX = 7
    U16MAX = 3
    StateNames = {"x1"}
    CounterNames = {"c1"}
    SampleNames = {"s1"}
    RateNames = {"r1"}
    Configured = {"x1", "r1"}
    Matched = {"c1", "s1"}
    Freshness <- MCFreshness
    StaleStatus <- MCStaleStatus
    Window <- MCWindow
    Grace = 1
    MaxEvents = 0
    KeepNumber = TRUE
    HasBeacon = FALSE
    SweepInterval = 1
    SaveInterval = 2
    Stamps = {4, 5}
    Codes = {0}
    Messages = {"m"}
    Increments = {1}
    SampleBatches <- MCOne
    RateValues = {1}
    Extras = {}
    Keys = {}
    KeyValues = {}
    PlainKeys = {}
    Trimmed <- MCTrimmed
    Patterns <- MCPatterns
    DiskOutcomes = {"noopen"}
    I31 = 4
    I15 = 8
    Scale = 2
    Epoch = 4
    MaxTime = 9
    MaxStops = 0
    MaxBuffered = 0
    MaxSampled = 1
    SubmitUntil = 5
    MaxLog = 0
PROPERTIES
    WindowCloses
    SilenceNoticed
