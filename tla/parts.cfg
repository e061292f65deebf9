\* The statistics of a sample set, a rate and its 32-bit source (scaled down
\* to four bits), the beacons of the agent, small configuration files and
\* qualified names.
SPECIFICATION Spec
CONSTANTS
    Values <- MCValues
    MaxValues = 5
    U64 = 64
    U32MAX = 15
    U16MAX = 3
    Steps = {0, 1, 3, 7, 11}
    MaxTotal = 40
    MaxTime = 5
    Reconnects = 3
    Timeout = 5
    Sweep = 2
    Lifetime = 1
    Backoff = 3
    Grain = 1
    Far = 9
    MaxLate = 3
    MaxInbox = 2
    Tokens <- MCFewTokens
    Width = 3
    Freshness = 300
    MaxTokens = 7
    MaxBefore = 0
    Texts <- MCTexts
    Keys = {1, 2, 3}
    NameValues = {"1", "2", "*"}
    MaxEdits = 2
CONSTRAINT LongFiles
INVARIANTS
    MomentsMatch
    RateWithinOne
    
    NameIsMap
    MatchMeans
PROPERTIES
    DeadReplaced
CHECK_DEADLOCK FALSE
