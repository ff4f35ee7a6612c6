SPECIFICATION Spec
CONSTANTS
    Op = {o1, o2}
    Request = {r1}
    MaxAttempts = 2
INVARIANTS
    BindingOutlivesCallbacks
    PendingAttemptInSlot
    CallbackReferences
    SlotIsGivenBack
PROPERTIES
    OperationsSettle
    DroppedConnectionTerminates
CHECK_DEADLOCK FALSE
