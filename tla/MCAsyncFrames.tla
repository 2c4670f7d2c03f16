----------------------------- MODULE MCAsyncFrames -----------------------------
(* AsyncFrames for TLC: a tick is 3 units, a source adds 2 to its last     *)
(* timestamp, or jumps back or so far ahead that its time starts again.    *)
EXTENDS AsyncFrames

MCFrame == 1..8
MCGap == {-3, 2, 9}
=============================================================================
