SPECIFICATION MCSpec
CONSTANTS
    MaxServers <- AllServers
    MaxClicks = 3
    MaxFaults = 3
    Backlog = 2
    Windows = {w1, w2}
    Nets = {home}
    NoNet = NoNet
    MaxOps = 3
\* The operations are used up, or the program has ended.
CHECK_DEADLOCK FALSE
INVARIANTS
    ServerSound
PROPERTIES
    DeadServerReplaced
    VerdictTrue
    ButtonsBack
