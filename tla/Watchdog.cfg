SPECIFICATION MCSpec
CONSTANTS
    File = {f1, f2}
    MaxSize = 1
    AlertAfter <- AlertPeriods
    Realert <- RealertPeriods
    GiveUp <- GiveUpPeriods
    MaxCrash = 1
    MaxUploads = 2
    MaxRunning = 2
    MaxAlerts = 1
    MaxClicks = 2
    MaxWindows <- AllWindows
    MAX_THUMBS = 1
\* The uploads are used up.
CHECK_DEADLOCK FALSE
INVARIANTS
    WatchSound
    ScreenSound
    AnnouncedOnce
PROPERTIES
    AlertsApart
    StallEnds
    OwnTimerOnly
    PopupsGo
