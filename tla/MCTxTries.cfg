SPECIFICATION TriesSpec
CONSTANTS
    Buffers = {b1, b2, b3}
    NoBuffer = NoBuffer
    Sizes = {1, 2}
    AckSizes = {1}
    MaxTxBufferSize = 4
    MaxTxQueueSize = 2
    MaxCsmaFails = 2
    SizeMax = 10
    Risks = {"untuned", "noPayload"}
SYMMETRY Symmetry
INVARIANTS PendingCounts NoDangling NoLeak EventOwed OnlyRacePanics BytesAccounted
PROPERTIES ServesByPriority DrainReported TriesEnough
CHECK_DEADLOCK FALSE
