SPECIFICATION PubackSpec
CONSTANTS
    Publishes = {p1, p2}
    Threads = {t1, t2}
    Events = {"raise", "conversion", "cross_thread"}
    None = None
INVARIANTS
    UndisturbedHandleMeansControl
    ConvertedPubackNotLost
CHECK_DEADLOCK FALSE
