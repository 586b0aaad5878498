SPECIFICATION FairSpec
CONSTANTS
    Task = {t1, t2, t3}
    MayRaise = {t1, t2}
CHECK_DEADLOCK FALSE
PROPERTIES IsTaskPool IsFairTaskPool
