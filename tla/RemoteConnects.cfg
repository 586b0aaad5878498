SPECIFICATION FairSpec
CONSTANTS
    MaxThreads = 2
    MaxAnnounced = 2
    MaxManual = 0
    MaxChanges = 1
    Refusals = {"None"}
    Versions = {1, 2}
CHECK_DEADLOCK FALSE
PROPERTIES LostOpsFail LiveThreadConnects EndsWithServer
