SPECIFICATION Spec
CONSTANTS
    N = 2
    MaxStreams = 1
    MaxClicks <- Answers
    MaxLoss = 0
    Faults <- AllFaults
    RequirePermission = FALSE
CHECK_DEADLOCK FALSE
INVARIANTS StatusHasAuthor WaitingAgrees AgreedOutcome
