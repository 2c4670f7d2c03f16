CONSTANTS
    Capture = {"capture"}
    Frame <- MCFrame
    None = 0
    Gap <- MCGap
    Interval = 3
    Lag = {1}
    Slack = 2
    MaxVar = 5
    MaxFrames = 2
    MaxUnused = 2
    TextureFails = FALSE
    MaxChanges = 1
SPECIFICATION FairSpec
INVARIANTS FramesSound
PROPERTIES TakesFrameOnTime KeepsGoing
