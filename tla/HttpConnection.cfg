SPECIFICATION FairSpec
CONSTANTS
    Streams = {s1, s2}
INVARIANTS
    BindingLivesWithItsUsers
    StreamIsPinned
PROPERTIES
    AbandonedConnectionIsFreed
CHECK_DEADLOCK FALSE
