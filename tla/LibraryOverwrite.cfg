SPECIFICATION Spec
CONSTANTS
    p1 = p1
    p2 = p2
    h1 = h1
    h2 = h2
    Photo = {p1, p2}
    NameOf <- SameName
    SizeOf <- Sizes
    NoPhoto = NoPhoto
    NoPath = NoPath
    Absent = Absent
    Partial = Partial
    TakenOf <- FirstDay
    Handler = {h1, h2}
    Importer = Importer
    MaxPast = 2
    DupDays = 1
    KeepDays = 1
    MaxDay = 0
    MaxSuffix = 2
    MaxFaults = 0
    Exclusive = FALSE
\* Everything may be stored, and no name left.
CHECK_DEADLOCK FALSE
INVARIANTS
    ReceivedKept
