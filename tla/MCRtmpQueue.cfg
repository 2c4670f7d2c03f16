CONSTANTS
    Gops <- MCGops
    DropThreshold = 5
    MinBuffered = 5
    MaxPackets = 9
SPECIFICATION FairSpec
CHECK_DEADLOCK FALSE
INVARIANTS QueueKept ChainKept
PROPERTIES QueueDrains
