\* The agent: scheduling, pipes and lines, with failing calls and with
\* background processes.
SPECIFICATION Spec
CONSTANTS
    File <- MCFile
    Minute = 2
    Hour = 3
    Milli = 2
    IntMax = 3
    Splay = {0}
    Outputs <- MCOutputs
    Cap = 2
    PipeCap = 1
    MaxFaults = 1
    MaxLag = 1
INVARIANTS
    BytesKept
    ReapDrains
    FdsAccounted
PROPERTIES
    
    OutputRead
    RunsAgain
CHECK_DEADLOCK FALSE
