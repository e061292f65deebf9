\* Saves, crashes between handlers and inside saves, disk faults and restarts.
SPECIFICATION HSpec
CONSTANTS
    U64 = 2
    U32MAX = 7
    U16MAX = 3
    StateNames = {"x1"}
    CounterNames = {"c1"}
    SampleNames = {"s1"}
    RateNames = {"r1"}
    Configured = {"r1"}
    Matched = {"x1", "c1", "s1"}
    Freshness <- MCFreshness
    StaleStatus <- MCStaleStatus
    Window <- MCWindow
    Grace = 1
    MaxEvents = 1
    KeepNumber = TRUE
    HasBeacon = FALSE
    SweepInterval = 1
    SaveInterval = 1
    Stamps = {4}
    Codes = {0}
    Messages = {"m"}
    Increments = {1}
    SampleBatches <- MCBatches
    RateValues = {1}
    Extras = {"x"}
    Keys = {"k1", "k 2"}
    KeyValues = {"v1", " v1"}
    PlainKeys = {"k1"}
    Trimmed <- MCTrimmed
    Patterns <- MCNoPatterns
    DiskOutcomes = {"ok", "noopen", "nospace"}
    I31 = 4
    I15 = 8
    Scale = 2
    Epoch = 4
    MaxTime = 5
    MaxStops = 2
    MaxBuffered = 3
    MaxSampled = 2
    SubmitUntil = 4
    MaxLog = 2
CONSTRAINT
    GroupsApart
INVARIANTS
    TypeOK
    TrimInBounds

    
