CONSTANTS
    Outputs = {stream, recording}
    Overlap = FALSE
    EncodeMayFail = TRUE
    MaxStarts = 6
SPECIFICATION FairSpec
CHECK_DEADLOCK FALSE
INVARIANTS EncoderSafe 
 
