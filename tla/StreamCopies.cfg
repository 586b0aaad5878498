SPECIFICATION FairSpec
CONSTANTS
    Trees <- SomeTrees
    BlockSize = 2
    Window = 3
    PreservePerms = TRUE
    Faults <- AllFaults
CHECK_DEADLOCK FALSE
INVARIANTS TypeOK FinishedIsCopy FailureLeavesNoParts 
PROPERTY StreamEnds
