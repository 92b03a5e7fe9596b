SPECIFICATION BootSpec
CONSTANTS
    Blocks = {b1, b2, b3}
    MaxFailures = 3
    Risks = {}
    Loggers = {"HostIf", "Radio"}
    MaxMessages = 2
    TxBuffers = 6
INVARIANT FilesKept
INVARIANT PanicMeansCut
INVARIANT SetUpFirst
INVARIANT LinesWhole
PROPERTY TasksRun
PROPERTY LogReturns
CHECK_DEADLOCK FALSE
