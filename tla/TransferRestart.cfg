SPECIFICATION Spec
CONSTANTS
    N = 2
    MaxStreams = 2
    MaxClicks <- RestartRemoved
    MaxLoss = 0
    Faults = {}
    RequirePermission = TRUE
CHECK_DEADLOCK FALSE
INVARIANTS ReceiverNotStuck EveryStreamAccepted
