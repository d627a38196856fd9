SPECIFICATION MCSpec
CONSTANTS
    p1 = p1
    p2 = p2
    h1 = h1
    h2 = h2
    Photo = {p1, p2}
    NameOf <- SameName
    SizeOf <- Sizes
    NoPhoto = NoPhoto
    NoPath = NoPath
    Absent = Absent
    Partial = Partial
    TakenOf <- FirstDay
    Handler = {h1}
    Importer = Importer
    MaxPast = 1
    DupDays = 1
    KeepDays = 1
    MaxDay = 2
    MaxSuffix = 2
    MaxFaults = 0
    Exclusive = TRUE
    Conn = {c1, c2}
    NoConn = NoConn
    FileSize = 2
    Media = 1
    Trailer = 1
    Term = 1
    Hold = 1
    MaxSlack = 2
    Near = 1
    Failures = 1
    Byte = 4
    MaxBlock = 7
    BlockSize = 3
    MaxMember = 4
    MaxMembers = 3
    MaxPayload = 5
    Own = Own
    Other = Other
    Empty = Empty
    Zeros = Zeros
    Token = Token
    PcFiles = 2
    PcBlocks = 1
    PickedBlocks = 2
    Label <- Labelled
    Symmetric = {p2}
    Handlers = {h1, h2}
    Limit = 2
    MaxUploads = 4
    Programs = {tray, desktop}
    Macs = {m1, m2}
    Keys = {k}
    Folders = {f}
    Missing = Missing
    Cut = Cut
    Mixed = Mixed
    Off = Off
    NoDialog = NoDialog
    MaxSaves = 2
\* What has been sent, found or saved leaves nothing to do.
CHECK_DEADLOCK FALSE
SYMMETRY Interchangeable
INVARIANTS
    ReceivedKept
    AckedHasFile
    ChecksumRight
    PayloadExact
    KeyRight
    CapturesTell
    ConfigSound
PROPERTIES
    NotImportedAgain
    StoredOnce
    RegistrationKeepsFolder
