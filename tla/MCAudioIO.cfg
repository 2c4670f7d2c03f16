CONSTANTS
    Line = {"first", "second"}
    Buffer = 1
    MaxDelay = 2
    Smoothing = 2
    Frames = 2
    Late <- MCLate
    MaxLag = 2
SPECIFICATION FairSpec
INVARIANTS LinesSound MixedOnTime
PROPERTIES  LinesServed
