SPECIFICATION FairSpec
CONSTANTS
    Conn = {c1, c2}
    NoConn = NoConn
    Nonce <- Nonces
    Window <- RecentSessions
    Key = {k1, k2}
    CardKey = k1
    NoKey = NoKey
    MaxFaults = 1
    MaxEdits = 1
\* A card that was told its offset has nothing left to ask.
CHECK_DEADLOCK FALSE
INVARIANTS
    SessionSound
    WindowHonoured
PROPERTIES
    ServedEventually
