SPECIFICATION MCSpec
CONSTANTS
    Conn = {c1, c2}
    NoConn = NoConn
    FileSize = 3
    Media = 2
    Trailer = 1
    Term = 1
    Hold = 1
    MaxSlack = 3
    Near = 2
    CrossConn = FALSE
    IgnoreOffset = FALSE
    ShortBodies = FALSE
    CanCrash = TRUE
    MaxFaults = 2
\* After the acknowledgement the card has nothing left to send.
CHECK_DEADLOCK FALSE
INVARIANTS
    TransferSound
PROPERTIES
    NothingLost
    DeliveryImplemented
    AckedOrStranded
    CalmDelivered
