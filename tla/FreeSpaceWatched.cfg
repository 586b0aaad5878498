SPECIFICATION FairSpec
CONSTANTS
    MaxFree = 1
    QueryFails = TRUE
CHECK_DEADLOCK FALSE
INVARIANTS TypeOK PausedWhenIdle
PROPERTY FullDiskStopsTransfers
