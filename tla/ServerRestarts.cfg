SPECIFICATION FairSpec
CONSTANTS
    MaxChanges = 3
    MaxLow = 1
    Faults = {"bind", "zeroconf"}
    Bubblewrap = TRUE
CHECK_DEADLOCK FALSE
INVARIANTS OneServer ServerHasPool
PROPERTIES SettlesOnLatest QuitEndsIfSettled
