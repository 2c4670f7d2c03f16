CONSTANTS
    Encoder = {"video", "audio"}
    User = "user"
    Delay = 2
    RetryMax = 1
    Hasty = {}
    MaxStarts = 2
    MaxStops = 1
    MaxBreaks = 1
    MaxAge = 4
SPECIFICATION FairSpec
CHECK_DEADLOCK FALSE
INVARIANTS DelayConsistent RestartKept
PROPERTIES  CommandsEnd
