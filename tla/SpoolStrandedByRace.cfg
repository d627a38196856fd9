SPECIFICATION MCSpec
CONSTANTS
    Conn = {c1, c2}
    NoConn = NoConn
    FileSize = 4
    Media = 3
    Trailer = 2
    Term = 1
    Hold = 1
    MaxSlack = 3
    Near = 2
    CrossConn = FALSE
    IgnoreOffset = FALSE
    ShortBodies = FALSE
    CanCrash = FALSE
    MaxFaults = 1
PROPERTIES EventuallyAcked
\* After the acknowledgement the card has nothing left to send.
CHECK_DEADLOCK FALSE
