SPECIFICATION FairSpec
CONSTANTS
    MaxCalls = 4
    MaxChunks = 3
    MaxHeaders = 2
    Cancellable = {"chunk", "status", "headers"}
INVARIANTS
    DeliveredInCallOrder
PROPERTIES
    CallsReturnUnlessCancelled
    ImplementsChannel
CHECK_DEADLOCK FALSE
