CONSTANTS
    Failures = {"turn_on", "turn_off", "user_info", "connect"}
    Hasty = {}
    SyncRec = TRUE
    MaxStarts = 2
    MaxRecords = 1
    MaxLosses = 1
    MaxSettings = 2
SPECIFICATION FairSpec
CHECK_DEADLOCK FALSE
INVARIANTS TeardownInOrder ButtonTruth
PROPERTIES IdleWhenDone 
