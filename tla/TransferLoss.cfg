SPECIFICATION FairSpec
CONSTANTS
    N = 2
    MaxStreams = 1
    MaxClicks <- StopOnce
    MaxLoss = 1
    Faults <- AllFaults
    RequirePermission = TRUE
CHECK_DEADLOCK FALSE
INVARIANTS TypeOK ReceiverNotStuck FinishedCountsFiles
PROPERTY ReceiverThreadEnds
