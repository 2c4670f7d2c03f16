CONSTANTS
    Tracks = 2
    TickLen = 4
    FrameLen = 3
    VideoStarts <- MCVideoStarts
    LateStarts = {0}
    FirstDts <- NegativeDts
    MaxTime = 24
    MaxRestarts = 1
SPECIFICATION Spec
CHECK_DEADLOCK FALSE
INVARIANTS Monotonic StartsAtZeroNoGaps TracksInStep
