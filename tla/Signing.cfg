SPECIFICATION Spec
CONSTANTS
    Provider = {p1, p2}
    Config = {c1, c2}
    Call = {k1}
    None = None
    Expirations = {None, 3, 4, 6}
    U64 = 4
INVARIANTS
    CallsKeepTheirObjects
    ReplaceKeepsExpiration
PROPERTIES
    CallsSettle
CHECK_DEADLOCK FALSE
