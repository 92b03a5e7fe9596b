SPECIFICATION Spec
CONSTANTS
    Buffers = {b1, b2}
    NoBuffer = NoBuffer
    Sizes = {1}
    AckSizes = {}
    MaxTxBufferSize = 5
    MaxTxQueueSize = 2
    MaxCsmaFails = 2
    SizeMax = 10
    Risks = {"replace"}
INVARIANT PendingCounts
CHECK_DEADLOCK FALSE
