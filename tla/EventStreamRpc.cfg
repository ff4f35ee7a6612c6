SPECIFICATION RpcSpec
CONSTANTS
    Cont = {c1, c2}
    Message = {m1, m2}
    Protocol = Protocol
INVARIANTS
    CallbacksFindSelf
    NoCircularReference
PROPERTIES
    FuturesSettle
CHECK_DEADLOCK FALSE
