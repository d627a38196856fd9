SPECIFICATION FairSpec
CONSTANTS
    p1 = p1
    p2 = p2
    h1 = h1
    h2 = h2
    Photo = {p1}
    NameOf <- OneName
    SizeOf <- OneSize
    NoPhoto = NoPhoto
    NoPath = NoPath
    Absent = Absent
    Partial = Partial
    TakenOf <- OneDay
    Handler = {h1}
    Importer = Importer
    MaxPast = 2
    DupDays = 1
    KeepDays = 1
    MaxDay = 1
    MaxSuffix = 4
    MaxFaults = 2
    Exclusive = FALSE
\* Everything may be stored, and no name left.
CHECK_DEADLOCK FALSE
INVARIANTS
    LibrarySound
PROPERTIES
    EventuallySaved
