\* bolo2rrd with two creators, the default.
SPECIFICATION Spec
CONSTANTS
    Names <- MCNames
    Sha1 <- MCSha1
    Types <- MCTypes
    Creators = {c1, c2}
    Updaters = {u1, u2}
    Idle = Idle
    MaxPdus = 3
    MaxKills = 1
    MaxRemoved = 1
INVARIANTS
    CreatedOnce
CHECK_DEADLOCK FALSE
