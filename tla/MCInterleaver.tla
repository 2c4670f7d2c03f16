----------------------------- MODULE MCInterleaver -----------------------------
(* Interleaver for TLC: an audio packet covers 4 units of time and a video  *)
(* packet 3, so that the two meet every 12; the first video packet may be   *)
(* stamped anywhere in the first two audio ticks.                           *)
EXTENDS Interleaver

MCVideoStarts == 1 .. 2 * TickLen

(* B frames give the first packet of a video encoder a negative dts.        *)
NegativeDts == -2
=============================================================================
