SPECIFICATION LinkSpec
CONSTANTS
    Cmds = {1, 5, 6, 7, 9, 10, 11, 12}
    Lens = {0, 2}
    NoHandler = NoHandler
    NoHeader = NoHeader
    RiskSets = {{"failedResponse"}, {"torn"}, {"unreadable", "failedRead", "unknown", "offByOne"}, {"failedPayload", "eager"}}
    MaxPackets = 2
    RxQueueSize = 1
INVARIANT InStep
INVARIANT CallsAsAsked
INVARIANT StopsAtRisk
INVARIANT PacketsKept
INVARIANT Accounted
INVARIANT Noticed
PROPERTY Listens
CHECK_DEADLOCK FALSE
