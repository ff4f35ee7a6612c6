SPECIFICATION Http2Spec
CONSTANTS
    Chunks = 3
INVARIANTS
    BodyIsFramed
    CompletionReported
PROPERTIES
    WritesSettle
    WriterEndsBody
CHECK_DEADLOCK FALSE
