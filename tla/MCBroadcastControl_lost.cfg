CONSTANTS
    Failures = {"retries"}
    Hasty = {}
    SyncRec = FALSE
    MaxStarts = 1
    MaxRecords = 0
    MaxLosses = 1
    MaxSettings = 0
SPECIFICATION Spec
CHECK_DEADLOCK FALSE
INVARIANT ButtonTruth
