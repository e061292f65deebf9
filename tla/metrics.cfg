\* Windows of a counter, a sample set and a rate, and max.events as a number.
SPECIFICATION HSpec
CONSTANTS
    U64 = 4
    U32MAX = 7
    U16MAX = 3
    StateNames = {}
    CounterNames = {"c1"}
    SampleNames = {"s1"}
    RateNames = {"r1"}
    Configured = {"s1"}
    Matched = {"c1", "r1"}
    Freshness <- MCFreshness
    StaleStatus <- MCStaleStatus
    Window <- MCWindow
    Grace = 2
    MaxEvents = 2
    KeepNumber = TRUE
    HasBeacon = FALSE
    SweepInterval = 1
    SaveInterval = 2
    Stamps = {0, 4, 5, 6}
    Codes = {0, 1}
    Messages = {"m"}
    Increments = {1, 7}
    SampleBatches <- MCBatches
    RateValues = {1, 3}
    Extras = {"x"}
    Keys = {}
    KeyValues = {}
    PlainKeys = {}
    Trimmed <- MCTrimmed
    Patterns <- MCPatterns
    DiskOutcomes = {"noopen"}
    I31 = 4
    I15 = 8
    Scale = 2
    Epoch = 4
    MaxTime = 9
    MaxStops = 0
    MaxBuffered = 3
    MaxSampled = 3
    SubmitUntil = 8
    MaxLog = 4
CONSTRAINT
    OneAtATime
PROPERTY CountersAreWindows
INVARIANTS
    WindowLedger
    OncePerWindow
    RateEndpoints
    EventsAreNewest
