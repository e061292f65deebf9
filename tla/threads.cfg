\* The daemons with threads, from the start to the signal that ends them.
SPECIFICATION ThreadsSpec
CONSTANTS
    Programs = {"bolo", "bolo2pg", "bolo2rrd", "bolo2influxdb", "bolo2meta", "bolo2console", "bolo cache"}
    MaxSamples = 2
    Values = {0, 1, 3}
    HWM = 1
    MaxTold <- MCTold
CHECK_DEADLOCK FALSE
INVARIANT
    CountsKept
PROPERTIES
    
    SignalEnds
