SPECIFICATION MCSpec
CONSTANTS
    Threshold = 2
    QueueLength = 5
INVARIANTS FollowsHost TimerTaskFree
PROPERTIES LostMeansSilent SilenceNoticed
CHECK_DEADLOCK TRUE
