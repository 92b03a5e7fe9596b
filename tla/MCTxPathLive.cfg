SPECIFICATION FairSpec
CONSTANTS
    Buffers = {b1, b2, b3}
    NoBuffer = NoBuffer
    Sizes = {1}
    AckSizes = {1}
    MaxTxBufferSize = 5
    MaxTxQueueSize = 2
    MaxCsmaFails = 2
    SizeMax = 10
    Risks = {"untuned", "noPayload"}
PROPERTIES Drains NetworkControlServed
CHECK_DEADLOCK FALSE
