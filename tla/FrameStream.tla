---------------------------- MODULE FrameStream ----------------------------
(* What the frame cache of video-io.c promises its callbacks, whatever its  *)
(* size: a stream of ticks.  The graphics thread produces ticks, one or     *)
(* several at a time; the callbacks are shown every tick once, in order,    *)
(* until the output is stopped.                                             *)
EXTENDS Naturals

VARIABLES produced, shown, stopped

vars == <<produced, shown, stopped>>

Init == produced = 0 /\ shown = 0 /\ stopped = FALSE

Produce ==
    /\ produced' \in Nat /\ produced' > produced
    /\ UNCHANGED <<shown, stopped>>

Show ==
    /\ shown < produced
    /\ shown' = shown + 1
    /\ UNCHANGED <<produced, stopped>>

Stop == stopped' = TRUE /\ UNCHANGED <<produced, shown>>

Next == Produce \/ Show \/ Stop

Spec == Init /\ [][Next]_vars
=============================================================================
