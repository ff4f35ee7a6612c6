SPECIFICATION Spec
CONSTANTS
    Thread = {t1, t2}
    MaxMade = 2
    MaxReleases = 1
    Nobody = Nobody
    Request = {r1}
    ClientThread = {t1}
    MaxParts = 2
INVARIANTS
    OneDefaultAtATime
    RequestIsReported
PROPERTIES
    CallsReturn
    AbandonedShutsDown
CHECK_DEADLOCK FALSE
