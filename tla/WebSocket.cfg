SPECIFICATION FairSpec
CONSTANTS
    Sends = {a, b, c}
INVARIANTS
    CoreOutlivesCallbacks
    SendsSettledOnce
    CallbackCanClose
PROPERTIES
    RaisingShutsDown
CHECK_DEADLOCK FALSE
