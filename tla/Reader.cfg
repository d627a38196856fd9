SPECIFICATION MCSpec
CONSTANTS
    Card = {c1, c2}
    NoCard = NoCard
    Drive = {d1}
    InitForms = {"set", "fresh"}
    InitSettings <- Settings
    MaxJobs = 2
    MaxMoves = 1
    MaxClicks = 1
    Session = {s1, s2}
    InitSeq <- CardSeq
    FirstSeq = 3
    HighSeq = 24
    SeqWrap = 32
    Blank = Blank
    MaxTimeouts = 3
\* The sessions are used up.
CHECK_DEADLOCK FALSE
INVARIANTS
    ImportSound
    MailboxSound
PROPERTIES
    AutoImportsRegistered
    InsertedIsImported
    NetworksTruthful
    SessionEnds
