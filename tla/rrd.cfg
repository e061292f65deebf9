\* bolo2rrd with one creator: requests, files and the map, across restarts.
SPECIFICATION Spec
CONSTANTS
    Names <- MCNames
    Sha1 <- MCSha1
    Types <- MCTypes
    Creators = {c1}
    Updaters = {u1, u2}
    Idle = Idle
    MaxPdus = 3
    MaxKills = 1
    MaxRemoved = 1
INVARIANTS
    Accounted
    CreatedOnce

    
CHECK_DEADLOCK FALSE
