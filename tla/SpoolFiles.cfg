SPECIFICATION MCSpec
CONSTANTS
    t1 = t1
    t2 = t2
    Threads = {t1, t2}
    NoThread = NoThread
    Dog = Dog
    Photos <- TwoPhotos
    FileSize <- TwoSizes
    MediaSize <- TwoMedia
    Near = 1
    MaxGens = 2
    MaxRetakes = 1
    MaxFaults = 1
    LiveOn = FALSE
SYMMETRY ThreadSymmetry
INVARIANTS
    SpoolSound
    NoOverlap
PROPERTIES
    StoreImplemented
