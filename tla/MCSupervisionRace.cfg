SPECIFICATION MCSpec
CONSTANTS
    Threshold = 2
    QueueLength = 5
INVARIANT BeaconsReenabled
CHECK_DEADLOCK FALSE
