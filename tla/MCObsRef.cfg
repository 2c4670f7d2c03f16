CONSTANTS
    Thread = {t1, t2, t3}
    None = None
    ArrayUser = {t1}
SPECIFICATION FairSpec
CHECK_DEADLOCK FALSE
INVARIANTS ControlSound NoUseAfterFree
PROPERTIES RefinesSharedObject EventuallyFreed
