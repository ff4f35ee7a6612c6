SPECIFICATION FairSpec
CONSTANTS
    Ops = {publish, subscribe}
INVARIANTS
    BindingOutlivesCallbacks
    OperationsSettled
    TransformCompletedOnce
PROPERTIES
    AbandonedClientIsFreed
CHECK_DEADLOCK FALSE
