CONSTANTS
    RetryMax = 2
    Sessions <- MCSessions
    MaxThreads = 13
SPECIFICATION FairSpec
CHECK_DEADLOCK FALSE
 
PROPERTIES   LossesResolved
