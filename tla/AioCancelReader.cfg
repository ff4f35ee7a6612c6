SPECIFICATION FairSpec
CONSTANTS
    MaxCalls = 3
    MaxChunks = 1
    MaxHeaders = 1
    Cancellable = {"chunk"}
PROPERTY
    EveryCallReturns
CHECK_DEADLOCK FALSE
