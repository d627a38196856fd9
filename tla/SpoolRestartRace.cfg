SPECIFICATION MCSpec
CONSTANTS
    t1 = t1
    t2 = t2
    Threads = {t1, t2}
    NoThread = NoThread
    Dog = Dog
    Photos <- TwoPhotos
    FileSize <- TwoSizes
    MediaSize <- TwoMedia
    Near = 1
    MaxGens = 2
    MaxRetakes = 0
    MaxFaults = 0
    LiveOn = TRUE
SYMMETRY ThreadSymmetry
INVARIANT
    NoOverlap
