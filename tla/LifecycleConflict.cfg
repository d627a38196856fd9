SPECIFICATION MCSpec
CONSTANTS
    MaxServers <- AllServers
    MaxClicks = 1
    MaxFaults = 3
    Backlog = 1
    Windows = {w1, w2}
    Nets = {home}
    NoNet = NoNet
    MaxOps = 1
PROPERTY
    ConflictLogged
CHECK_DEADLOCK FALSE
