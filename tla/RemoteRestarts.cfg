SPECIFICATION Spec
CONSTANTS
    MaxThreads = 2
    MaxAnnounced = 1
    MaxManual = 1
    MaxChanges = 1
    Refusals = {"FAILURE", "None"}
    Versions = {1, 2}
CHECK_DEADLOCK FALSE
INVARIANTS OneThread StatusIsTrue
