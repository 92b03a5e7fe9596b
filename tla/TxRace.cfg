SPECIFICATION Spec
CONSTANTS
    MaxSubmitted = 4
    MaxTxQueueSize = 3
INVARIANT NextIsThere
CHECK_DEADLOCK FALSE
