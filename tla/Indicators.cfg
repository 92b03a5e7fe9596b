SPECIFICATION LightsSpec
CONSTANTS
    LongBlink = 4
    ShortBlink = 2
    FastBlink = 3
    TickModulus = 17
    QueueLength = 5
    Risks = {}
INVARIANT OnTime
PROPERTY FullLength
CHECK_DEADLOCK FALSE
