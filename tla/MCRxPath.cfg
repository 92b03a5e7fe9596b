SPECIFICATION FairSpec
CONSTANTS
    Sizes = {1, 2}
    FifoSize = 2
    MaxRxBufferSize = 3
    MaxRxQueueSize = 2
    MaxPackets = 3
INVARIANTS BytesCounted BuffersOwned InterruptOwed
PROPERTIES DeliversInOrder QueuedIsRead
CHECK_DEADLOCK FALSE
