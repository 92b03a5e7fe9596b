SPECIFICATION FairSpec
CONSTANTS
    Recovery = {TRUE, FALSE}
    IrqThreshold = 1
    TicksMax = 3
INVARIANTS LineFollows
PROPERTIES NothingDropped Reported
