SPECIFICATION Spec
CONSTANTS
    U64 = 8
    Long = 2
    MinNegated = 6
    SsizeMax = 3
    MaxDepth = 2
    MaxElements = 3
    Ints <- MCInts
    Values <- MCValues
    MaxNesting = 3
    NoName = NoName
    Names = {"A", "a", "E'", "e'"}
    Lower <- MCLower
    AsciiLower <- MCAsciiLower
    Pairs <- MCPairs
    MaxHeaders = 3
    None = None
    Entry <- MCEntry
    MaxEntries = 2
    SdkFeature <- MCSdkFeature
    Mqtt5Settings <- MCSettings
    Proxies <- MCProxies
INVARIANTS
    CborRoundTrip
    DepthIsPerCall
    IterationIsExact
    MetricsMerge
\* A value that nobody uses any more stays as it is.
CHECK_DEADLOCK FALSE
